------------------------- MODULE ProcessRunnerProofs -------------------------
(***************************************************************************)
(* For every number of lines, every limit of the log and any number of     *)
(* runs: of an earlier run nothing is left when another begins             *)
(* (NothingOfAnEarlierRun), a status that tells of a result is true        *)
(* (StatusIsTrue), and the log and the progress are those of what this run *)
(* has written, whichever lines tell of the progress (LogIsOfThisRun).     *)
(*                                                                         *)
(* The threads are there only between the step of start that creates them  *)
(* and the next join, and a reader that has ended, or that is not there,   *)
(* means that nobody can write any more (PInv); the exit code is that of   *)
(* the child from the moment it has one (SInv); a reader has taken a       *)
(* number of whole lines, what it has read and what is in the pipe follow  *)
(* on them, and the log ends with them; of those lines none that tells of  *)
(* the progress is lost (LInv).                                            *)
(***************************************************************************)
EXTENDS ProcessRunner, SequenceTheorems, TLAPS

-----------------------------------------------------------------------------
(* Threads, handles and processes.                                         *)

Places == {"idle", "stop", "stopPid", "stopSet", "stopKill", "join", "launch",
           "announce", "spawn", "gone"}
Starting == {"announce", "spawn"}
Calm == {"idle", "stop", "stopPid", "stopSet", "stopKill", "join"}

PType == /\ platform \in Platforms /\ run \in Nat /\ ui \in Places
         /\ then \in {"idle", "stop", "join"}
         /\ reader \in [Streams -> {"none", "reading", "ended"}]
         /\ waiter \in {"none", "waiting", "reaped", "ended"}
PThreads == ui \in {"launch", "gone"} \cup Starting =>
                waiter = "none" /\ \A s \in Streams : reader[s] = "none"
PHandles == /\ \A s \in Streams : reader[s] = "reading" => s \in handles
            /\ waiter = "waiting" /\ ~Posix => "process" \in handles
            /\ ui \in Starting => Streams \subseteq handles /\ (~Posix => "process" \in handles)
            /\ ui = "gone" => handles = {}
PWriters == /\ pipelines \subseteq {run}
            /\ shell => platform = "posix shell"
            /\ \A s \in Streams : reader[s] = "ended" => ~HasWriters
            /\ ui \notin Starting => \A s \in Streams : reader[s] = "none" => ~HasWriters
PInv == PType /\ PThreads /\ PHandles /\ PWriters

(* The result: the child that has ended has ended for good.                *)
SInv == /\ childCode # None => ~Child
        /\ waiter \in {"reaped", "ended"} => childCode # None
        /\ waiter = "reaped" => code = childCode
        /\ waiter = "ended" =>
              /\ exitCode = childCode
              /\ status \in {"stopping", IF childCode = 0 THEN "completed" ELSE "failed"}
        /\ shown <=> status \in {"running", "stopping"}

-----------------------------------------------------------------------------
(* The log.                                                                *)

(* p[1], p[2], ... are k, k + 1, ... *)
Stretch(p, k) == \A i \in 1 .. Len(p) : p[i] = k + i - 1

LogLines == [run : Nat, stream : Streams \cup {"runner"}, n : Nat, whole : BOOLEAN]
LType == /\ log \in Seq(LogLines) /\ progress \in LogLines \cup {NoLine}
         /\ pending \in [Streams -> Seq(Nat)] /\ pipe \in [Streams -> Seq(Nat)]
         /\ sent \in [Streams -> Nat]

(* The pieces of s after the first k: read, in the pipe, written.          *)
Pieces(s, k) == /\ Stretch(pending[s], k + 1)
                /\ Stretch(pipe[s], k + Len(pending[s]) + 1)
                /\ sent[s] = k + Len(pending[s]) + Len(pipe[s])

(* In a log l the lines of s are lines of run r, each the one after the    *)
(* one before, up to "last".                                               *)
In(l, s) == {i \in 1 .. Len(l) : l[i].stream = s}
Final(l, s, i) == \A j \in In(l, s) : j <= i
Adjacent(l, s, i, j) == i < j /\ \A k \in In(l, s) : k <= i \/ j <= k
Shown(l, s, r, last) ==
    /\ \A i \in In(l, s) : l[i].run = r /\ (Final(l, s, i) => l[i].n = last)
    /\ \A i, j \in In(l, s) : Adjacent(l, s, i, j) => l[j].n = l[i].n + 1
AllWhole(l, s) == \A i \in In(l, s) : l[i].whole
FinalMayBeCut(l, s) == \A i \in In(l, s) : l[i].whole \/ Final(l, s, i)

(* The progress: none of the first k lines of s is lost and none after     *)
(* "last" is shown; it is of this run; and it is as new as the log l.      *)
Caught(s, k, last) == NoneLost(s, k) /\ (progress.stream = s => progress.n <= last)
OfThisRun == progress # NoLine => progress.run = run /\ Carries(progress)
Reported(l, p) == \A i \in 1 .. Len(l) : l[i].whole /\ Carries(l[i]) =>
                      \E j \in i .. Len(l) : l[j] = p

(* A reader that reads has taken m whole lines; one that has ended all.    *)
Taken(s, m) == /\ Pieces(s, 2 * m)
               /\ Shown(log, s, run, m)
               /\ AllWhole(log, s)
               /\ Caught(s, m, m)
Over(s) == /\ Shown(log, s, run, LineOf(sent[s]))
           /\ FinalMayBeCut(log, s)
           /\ Caught(s, sent[s] \div 2, LineOf(sent[s]))
LInv == /\ LType
        /\ ui \in Starting => log = <<>> /\ \A s \in Streams : pending[s] = <<>> /\ Pieces(s, 0)
        /\ ui = "spawn" => progress = NoLine
        /\ Reported(log, progress)
        /\ \A s \in Streams : /\ reader[s] = "reading" => \E m \in Nat : Taken(s, m)
                              /\ reader[s] = "ended" => Over(s)
                              /\ reader[s] # "none" => OfThisRun

IInv == PInv /\ SInv /\ LInv

-----------------------------------------------------------------------------
(* Threads, handles and processes: the proof.                              *)

LEMMA PInit == Init => PInv
<1> SUFFICES ASSUME Init PROVE PInv
  OBVIOUS
<1>1. PType
  BY DEF Init, PType, Places
<1>2. PThreads /\ PHandles
  BY DEF Init, PThreads, PHandles, Starting
<1>3. PWriters
  BY DEF Init, PWriters, HasWriters
<1> QED BY <1>1, <1>2, <1>3 DEF PInv

(* Most steps leave the threads where they are or end one; a reader only   *)
(* ends when nobody can write.                                             *)
ReadersEnd == /\ reader' \in [Streams -> {"none", "reading", "ended"}]
              /\ \A s \in Streams :
                    \/ reader'[s] = reader[s]
                    \/ reader[s] = "reading" /\ reader'[s] = "ended" /\ ~HasWriters
WaiterMoves == \/ waiter' = waiter
               \/ waiter \in {"waiting", "reaped"} /\ waiter' \in {"reaped", "ended"}
WritersEnd == pipelines' \subseteq pipelines /\ (shell' = shell \/ shell' = FALSE)
LEMMA PKeeps ==
  ASSUME PInv, UNCHANGED <<platform, run, handles>>,
         WritersEnd,
         ui' = ui \/ (ui \in Calm /\ ui' \in Calm),
         then' \in {"idle", "stop", "join"},
         ReadersEnd, WaiterMoves
  PROVE  PInv'
<1>1. HasWriters' => HasWriters
  BY DEF HasWriters, WritersEnd
<1>2. PType'
  BY DEF PInv, PType, Places, Calm, ReadersEnd, WaiterMoves
<1>3. PThreads'
  BY DEF PInv, PThreads, Calm, Starting, ReadersEnd, WaiterMoves
<1>4. PHandles'
  BY DEF PInv, PHandles, Posix, Starting, Calm, ReadersEnd, WaiterMoves
<1>5. PWriters'
  <2>1. pipelines' \subseteq {run'}
    BY DEF PInv, PWriters, WritersEnd
  <2>2. shell' => platform' = "posix shell"
    BY DEF PInv, PWriters, WritersEnd
  <2>3. \A s \in Streams : reader'[s] = "ended" => ~HasWriters'
    BY <1>1 DEF PInv, PWriters, ReadersEnd
  <2>4. ui' \notin Starting => \A s \in Streams : reader'[s] = "none" => ~HasWriters'
    BY <1>1 DEF PInv, PWriters, ReadersEnd, Starting, Calm
  <2> QED BY <2>1, <2>2, <2>3, <2>4 DEF PWriters
<1> QED BY <1>2, <1>3, <1>4, <1>5 DEF PInv

LEMMA PStep == PInv /\ [Next]_vars => PInv'
<1> SUFFICES ASSUME PInv, [Next]_vars PROVE PInv'
  OBVIOUS
<1>t. /\ reader \in [Streams -> {"none", "reading", "ended"}] /\ run \in Nat
      /\ then \in {"idle", "stop", "join"} /\ (shell => platform = "posix shell")
      /\ pipelines \subseteq {run}
  BY DEF PInv, PType, PWriters
<1>r. reader' = reader => ReadersEnd
  BY <1>t DEF ReadersEnd
<1>1. CASE Click \/ ClearLogs \/ StopLook \/ StopPid \/ StopSet
  <2>1. UNCHANGED <<platform, run, handles>> /\ reader' = reader /\ WaiterMoves /\ WritersEnd
    BY <1>1 DEF Click, ClearLogs, StopLook, StopPid, StopSet, StopKeeps, readers, processes,
         WaiterMoves, WritersEnd
  <2>2. ui \in Calm /\ ui' \in Calm /\ then' \in {"idle", "stop", "join"}
    BY <1>1, <1>t DEF Click, ClearLogs, StopLook, StopPid, StopSet, StopDone, Go, window, Calm
  <2> QED BY <2>1, <2>2, <1>r, PKeeps
<1>2. CASE StopKill
  <2>1. UNCHANGED <<platform, run, handles>> /\ reader' = reader /\ WaiterMoves /\ WritersEnd
    BY <1>2 DEF StopKill, StopKeeps, readers, WaiterMoves, WritersEnd
  <2>2. ui \in Calm /\ ui' \in Calm /\ then' \in {"idle", "stop", "join"}
    BY <1>2, <1>t DEF StopKill, StopDone, Calm
  <2> QED BY <2>1, <2>2, <1>r, PKeeps
<1>3. CASE WaiterStep \/ ProcessStep
  <2>1. UNCHANGED <<platform, run, handles, ui, then>> /\ reader' = reader
    BY <1>3 DEF WaiterStep, WaitReturns, WaitFinish, WaitKeeps, ProcessStep, ShellEnd,
         PipelineWrite, PipelineEnd, ProcessKeeps, window, readers
  <2>2. WaiterMoves /\ WritersEnd
    BY <1>3 DEF WaiterStep, WaitReturns, WaitFinish, WaitKeeps, ProcessStep, ShellEnd,
         PipelineWrite, PipelineEnd, ProcessKeeps, processes, WaiterMoves, WritersEnd
  <2> QED BY <2>1, <2>2, <1>r, <1>t, PKeeps
<1>4. ASSUME NEW s \in Streams, ReaderStep(s) PROVE PInv'
  <2>1. /\ UNCHANGED <<platform, run, handles, ui, then>> /\ WaiterMoves /\ WritersEnd
        /\ \/ reader' = reader
           \/ /\ reader[s] = "reading" /\ ~HasWriters
              /\ reader' = [reader EXCEPT ![s] = "ended"]
    BY <1>4 DEF ReaderStep, Read, PushLine, EndOfPipe, ReaderKeeps, window, processes,
         WaiterMoves, WritersEnd
  <2>2. ReadersEnd
    BY <2>1, <1>t DEF ReadersEnd
  <2> QED BY <2>1, <2>2, <1>t, PKeeps
<1>5. CASE Join
  <2>1. /\ UNCHANGED <<platform, run, pipelines, shell, then>> /\ handles' = {}
        /\ ui = "join" /\ ui' \in {"gone", "launch"}
        /\ waiter' = "none" /\ reader' = [s \in Streams |-> "none"]
    BY <1>5 DEF Join, Go, processes
  <2>2. ~HasWriters
    <3>1. "stdout" \in Streams /\ reader["stdout"] \in {"none", "ended"}
      BY <1>5 DEF Join, Joined, Streams
    <3> QED BY <2>1, <3>1 DEF PInv, PWriters, Starting
  <2>3. ~HasWriters'
    BY <2>1, <2>2 DEF HasWriters
  <2>4. PType'
    BY <2>1 DEF PInv, PType, Places
  <2>5. PThreads' /\ PHandles'
    BY <2>1 DEF PThreads, PHandles, Starting
  <2>6. PWriters'
    BY <2>1, <2>3 DEF PInv, PWriters
  <2> QED BY <2>4, <2>5, <2>6 DEF PInv
<1>6. CASE Launch
  <2>1. /\ ui = "launch" /\ waiter = "none" /\ \A s \in Streams : reader[s] = "none"
        /\ UNCHANGED <<platform, reader, waiter, then>> /\ run' = run + 1
    BY <1>6 DEF Launch, Refused, Launched, Go, PInv, PThreads
  <2>2. pipelines = {} /\ ~shell
    <3>1. ~HasWriters
      BY <2>1 DEF PInv, PWriters, Starting, Streams
    <3> QED BY <3>1, <1>t DEF HasWriters
  <2>3. run' \in Nat
    <3>1. run' = run + 1 /\ run \in Nat
      BY <2>1, <1>t
    <3> QED BY <3>1
  <2>4. CASE Refused
    <3>1. ui' = "idle" /\ pipelines' = {} /\ ~shell'
      BY <2>2, <2>4 DEF Refused, Go
    <3>2. PType'
      BY <2>1, <2>3, <3>1 DEF PInv, PType, Places
    <3>3. PThreads' /\ PHandles' /\ PWriters'
      BY <2>1, <3>1 DEF PThreads, PHandles, PWriters, Starting, HasWriters
    <3> QED BY <3>2, <3>3 DEF PInv
  <2>5. CASE Launched
    <3>1. /\ ui' = "announce" /\ pipelines' \subseteq {run'}
          /\ shell' => platform = "posix shell"
          /\ Streams \subseteq handles' /\ (~Posix => "process" \in handles')
      BY <2>1, <2>2, <2>5 DEF Launched, Go
    <3>2. PType'
      BY <2>1, <2>3, <3>1 DEF PInv, PType, Places
    <3>3. PThreads' /\ PHandles' /\ PWriters'
      BY <2>1, <3>1 DEF PThreads, PHandles, PWriters, Starting, Posix
    <3> QED BY <3>2, <3>3 DEF PInv
  <2> QED BY <1>6, <2>4, <2>5 DEF Launch
<1>7. CASE Announce
  <2>1. /\ UNCHANGED <<platform, run, handles, pipelines, shell, reader, waiter, then>>
        /\ ui = "announce" /\ ui' = "spawn"
    BY <1>7 DEF Announce, Go, readers, processes
  <2>2. HasWriters' = HasWriters
    BY <2>1 DEF HasWriters
  <2>3. PType' /\ PThreads'
    BY <2>1 DEF PInv, PType, PThreads, Places, Starting
  <2>4. PHandles' /\ PWriters'
    BY <2>1, <2>2 DEF PInv, PHandles, PWriters, Starting, Posix
  <2> QED BY <2>3, <2>4 DEF PInv
<1>8. CASE Spawn
  <2>1. /\ UNCHANGED <<platform, run, handles, pipelines, shell, then>>
        /\ ui = "spawn" /\ ui' = "idle"
        /\ waiter' = "waiting" /\ reader' = [s \in Streams |-> "reading"]
    BY <1>8 DEF Spawn, Go, processes
  <2>2. PType' /\ PThreads'
    BY <2>1 DEF PInv, PType, PThreads, Places, Starting
  <2>3. PHandles' /\ PWriters'
    BY <2>1 DEF PInv, PHandles, PWriters, Starting, Posix
  <2> QED BY <2>2, <2>3 DEF PInv
<1>9. CASE UNCHANGED vars
  <2>1. /\ UNCHANGED <<platform, run, handles, then, ui>> /\ reader' = reader
        /\ WaiterMoves /\ WritersEnd
    BY <1>9 DEF vars, window, readers, processes, WaiterMoves, WritersEnd
  <2> QED BY <2>1, <1>r, <1>t, PKeeps
<1> QED BY <1>1, <1>2, <1>3, <1>4, <1>5, <1>6, <1>7, <1>8, <1>9 DEF Next, UiStep, Stutter

-----------------------------------------------------------------------------
(* The result: the proof.                                                  *)

LEMMA SInit == Init => SInv
BY DEF Init, SInv

LEMMA SStep == PInv /\ SInv /\ [Next]_vars => SInv'
<1> SUFFICES ASSUME PInv, SInv, [Next]_vars PROVE SInv'
  OBVIOUS
<1>t. /\ run \in Nat /\ pipelines \subseteq {run} /\ (shell => platform = "posix shell")
      /\ ui \in {"launch"} \cup Starting => waiter = "none"
      /\ ui = "launch" => ~HasWriters
  BY DEF PInv, PType, PThreads, PWriters, Starting, Streams
<1>k. ASSUME UNCHANGED <<platform, run, pipelines, shell, childCode, exitCode, status, shown>>,
             waiter' \in {"none", "waiting"} \/ UNCHANGED <<waiter, code>>
      PROVE  SInv'
  BY <1>k DEF SInv, Child
<1>1. CASE Click \/ ClearLogs \/ StopLook \/ StopPid \/ Spawn \/ Join \/ UNCHANGED vars
  <2>1. /\ UNCHANGED <<platform, run, pipelines, shell, childCode, exitCode, status, shown>>
        /\ waiter' \in {"none", "waiting"} \/ UNCHANGED <<waiter, code>>
    BY <1>1 DEF Click, ClearLogs, StopLook, StopPid, Spawn, Join, StopKeeps, shared, processes, vars
  <2> QED BY <1>k, <2>1
<1>2. ASSUME NEW s \in Streams, ReaderStep(s) \/ PipelineWrite(s) PROVE SInv'
  <2>1. UNCHANGED <<platform, run, pipelines, shell, childCode, exitCode, status, shown, waiter, code>>
    BY <1>2 DEF ReaderStep, Read, PushLine, EndOfPipe, ReaderKeeps, PipelineWrite, ProcessKeeps,
         shared, processes
  <2> QED BY <1>k, <2>1
<1>3. CASE StopSet
  <2>1. /\ UNCHANGED <<platform, run, pipelines, shell, childCode, exitCode, waiter, code>>
        /\ status' = "stopping" /\ shown'
    BY <1>3 DEF StopSet, SetStatus, StopKeeps, processes
  <2> QED BY <2>1 DEF SInv, Child
<1>4. CASE StopKill
  <2>1. UNCHANGED <<platform, run, exitCode, status, shown, waiter, code>>
    BY <1>4 DEF StopKill, StopKeeps
  <2>2. CASE Child /\ (Posix => ~Waited)
    <3>1. /\ childCode' # None /\ ~shell'
          /\ pipelines' = IF shell THEN pipelines ELSE pipelines \ {run}
      BY <1>4, <2>2 DEF StopKill, Terminated, None
    <3>2. ~Child'
      BY <1>t, <2>1, <2>2, <3>1 DEF Child
    <3>3. waiter \notin {"reaped", "ended"}
      BY <2>2 DEF SInv
    <3> QED BY <2>1, <3>1, <3>2, <3>3 DEF SInv
  <2>3. CASE ~(Child /\ (Posix => ~Waited))
    <3>1. UNCHANGED <<childCode, shell, pipelines>>
      BY <1>4, <2>3 DEF StopKill
    <3> QED BY <1>k, <2>1, <3>1
  <2> QED BY <2>2, <2>3
<1>5. CASE Launch
  <2>1. /\ waiter = "none" /\ waiter' = "none" /\ pipelines = {} /\ ~shell
        /\ run' = run + 1 /\ platform' = platform
    BY <1>5, <1>t DEF Launch, HasWriters
  <2>2. CASE Refused
    <3>1. status' = "failed" /\ ~shown' /\ UNCHANGED <<pipelines, shell, childCode>>
      BY <2>2 DEF Refused, SetStatus
    <3> QED BY <2>1, <3>1 DEF SInv, Child
  <2>3. CASE Launched
    <3>1. UNCHANGED <<status, shown>>
      BY <2>3 DEF Launched
    <3>2. childCode' = None \/ (pipelines' = {} /\ ~shell')
      BY <2>1, <2>3 DEF Launched
    <3> QED BY <2>1, <3>1, <3>2 DEF SInv, Child
  <2> QED BY <1>5, <2>2, <2>3 DEF Launch
<1>6. CASE Announce
  <2>1. /\ waiter = "none" /\ waiter' = "none" /\ status' = "running" /\ shown'
        /\ UNCHANGED <<platform, run, pipelines, shell, childCode>>
    BY <1>6, <1>t DEF Announce, SetStatus, processes, Starting
  <2> QED BY <2>1 DEF SInv, Child
<1>7. CASE WaiterStep
  <2>1. UNCHANGED <<platform, run, pipelines, shell, childCode>>
    BY <1>7 DEF WaiterStep, WaitReturns, WaitFinish, WaitKeeps, processes
  <2>2. CASE WaitReturns
    BY <2>1, <2>2 DEF WaitReturns, shared, SInv, Child
  <2>3. CASE WaitFinish
    BY <2>1, <2>3 DEF WaitFinish, SInv, Child
  <2> QED BY <1>7, <2>2, <2>3 DEF WaiterStep
<1>8. ASSUME NEW r, PipelineEnd(r) PROVE SInv'
  <2>1. /\ UNCHANGED <<platform, run, exitCode, status, shown, waiter, code, shell>>
        /\ r = run /\ run \in pipelines /\ pipelines' = pipelines \ {run}
    BY <1>8, <1>t DEF PipelineEnd, ProcessKeeps, shared
  <2>2. CASE platform = "posix shell"
    <3>1. childCode' = childCode /\ Child' = Child
      BY <1>8, <2>1, <2>2 DEF PipelineEnd, Child
    <3> QED BY <2>1, <3>1 DEF SInv
  <2>3. CASE platform # "posix shell"
    <3>1. childCode' \in {0, 1} /\ Child /\ ~Child'
      BY <1>8, <2>1, <2>3 DEF PipelineEnd, Child
    <3> QED BY <2>1, <3>1 DEF SInv, None
  <2> QED BY <2>2, <2>3
<1>9. CASE ShellEnd
  <2>1. /\ UNCHANGED <<platform, run, exitCode, status, shown, waiter, code>>
        /\ childCode' \in {0, 1} /\ Child /\ ~Child'
    BY <1>9, <1>t DEF ShellEnd, ProcessKeeps, shared, Child
  <2> QED BY <2>1 DEF SInv, None
<1> QED BY <1>1, <1>2, <1>3, <1>4, <1>5, <1>6, <1>7, <1>8, <1>9
        DEF Next, UiStep, ProcessStep, Stutter

-----------------------------------------------------------------------------
(* The log: the proof.                                                     *)

LEMMA StretchConcat ==
  ASSUME NEW p \in Seq(Nat), NEW q \in Seq(Nat), NEW k \in Nat,
         Stretch(p, k), Stretch(q, k + Len(p))
  PROVE  /\ p \o q \in Seq(Nat) /\ Len(p \o q) = Len(p) + Len(q)
         /\ Stretch(p \o q, k)
<1>1. Len(p) \in Nat /\ Len(q) \in Nat
  BY LenProperties
<1>2. /\ p \o q \in Seq(Nat) /\ Len(p \o q) = Len(p) + Len(q)
      /\ \A i \in 1 .. Len(p) + Len(q) : (p \o q)[i] = IF i <= Len(p) THEN p[i] ELSE q[i - Len(p)]
  BY ConcatProperties
<1>3. ASSUME NEW i \in 1 .. Len(p) + Len(q) PROVE (p \o q)[i] = k + i - 1
  <2>1. CASE i <= Len(p)
    BY <1>1, <1>2, <2>1 DEF Stretch
  <2>2. CASE ~(i <= Len(p))
    <3>1. i - Len(p) \in 1 .. Len(q) /\ (k + Len(p)) + (i - Len(p)) - 1 = k + i - 1
      BY <1>1, <2>2
    <3> QED BY <1>2, <2>2, <3>1 DEF Stretch
  <2> QED BY <2>1, <2>2
<1> QED BY <1>2, <1>3 DEF Stretch

LEMMA StretchPart ==
  ASSUME NEW p \in Seq(Nat), NEW k \in Nat, Stretch(p, k),
         NEW a \in 1 .. Len(p) + 1, NEW b \in a - 1 .. Len(p)
  PROVE  /\ SubSeq(p, a, b) \in Seq(Nat) /\ Len(SubSeq(p, a, b)) = b - a + 1
         /\ Stretch(SubSeq(p, a, b), k + a - 1)
<1>1. Len(p) \in Nat /\ a \in Int /\ b \in Int /\ a >= 1 /\ b <= Len(p) /\ b >= a - 1
  BY LenProperties
<1>2. \A i \in a .. b : p[i] \in Nat
  BY <1>1, ElementOfSeq
<1>3. /\ SubSeq(p, a, b) \in Seq(Nat)
      /\ Len(SubSeq(p, a, b)) = IF a <= b THEN b - a + 1 ELSE 0
      /\ \A i \in 1 .. b - a + 1 : SubSeq(p, a, b)[i] = p[a + i - 1]
  BY <1>1, <1>2, SubSeqProperties
<1>4. Len(SubSeq(p, a, b)) = b - a + 1
  BY <1>1, <1>3
<1>5. ASSUME NEW i \in 1 .. b - a + 1 PROVE SubSeq(p, a, b)[i] = (k + a - 1) + i - 1
  <2>1. a + i - 1 \in 1 .. Len(p) /\ k + (a + i - 1) - 1 = (k + a - 1) + i - 1
    BY <1>1
  <2> QED BY <1>3, <2>1 DEF Stretch
<1> QED BY <1>3, <1>4, <1>5 DEF Stretch

LEMMA StretchGrows ==
  ASSUME NEW p \in Seq(Nat), NEW k \in Nat, Stretch(p, k), NEW x \in Nat, x = k + Len(p)
  PROVE  /\ Append(p, x) \in Seq(Nat) /\ Len(Append(p, x)) = Len(p) + 1
         /\ Stretch(Append(p, x), k)
<1>1. /\ Len(p) \in Nat /\ Append(p, x) \in Seq(Nat) /\ Len(Append(p, x)) = Len(p) + 1
      /\ \A i \in 1 .. Len(p) : Append(p, x)[i] = p[i]
      /\ Append(p, x)[Len(p) + 1] = x
  BY LenProperties, AppendProperties
<1>2. ASSUME NEW i \in 1 .. Len(p) + 1 PROVE Append(p, x)[i] = k + i - 1
  <2>1. CASE i \in 1 .. Len(p)
    BY <1>1, <2>1 DEF Stretch
  <2>2. CASE i = Len(p) + 1
    BY <1>1, <2>2
  <2> QED BY <1>1, <2>1, <2>2
<1> QED BY <1>1, <1>2 DEF Stretch

(* A log after a push: the line is at its end, the first may be gone.      *)
Grown(l, g, line, d) ==
    /\ l \in Seq(LogLines) /\ g \in Seq(LogLines)
    /\ Len(g) = Len(l) + 1 - d
    /\ \A i \in 1 .. Len(g) : g[i] = IF i + d <= Len(l) THEN l[i + d] ELSE line

LEMMA LimitedGrows ==
  ASSUME NEW l \in Seq(LogLines), NEW line \in LogLines
  PROVE  \E d \in {0, 1} : Grown(l, Limited(Append(l, line)), line, d)
<1> DEFINE e == Append(l, line)
<1>1. /\ Len(l) \in Nat /\ e \in Seq(LogLines) /\ Len(e) = Len(l) + 1
      /\ \A i \in 1 .. Len(l) : e[i] = l[i]
      /\ e[Len(l) + 1] = line
  BY LenProperties, AppendProperties
<1> HIDE DEF e
<1>2. e # <<>>
  BY <1>1, EmptySeq
<1>3. /\ Tail(e) \in Seq(LogLines) /\ Len(Tail(e)) = Len(l)
      /\ \A i \in 1 .. Len(Tail(e)) : Tail(e)[i] = e[i + 1]
  BY <1>1, <1>2, HeadTailProperties
<1>4. Grown(l, e, line, 0)
  <2>1. ASSUME NEW i \in 1 .. Len(e) PROVE e[i] = IF i + 0 <= Len(l) THEN l[i + 0] ELSE line
    BY <1>1
  <2> QED BY <1>1, <2>1 DEF Grown
<1>5. Grown(l, Tail(e), line, 1)
  <2>1. ASSUME NEW i \in 1 .. Len(Tail(e))
        PROVE  Tail(e)[i] = IF i + 1 <= Len(l) THEN l[i + 1] ELSE line
    <3>1. Tail(e)[i] = e[i + 1] /\ i \in 1 .. Len(l)
      BY <1>3
    <3>2. CASE i + 1 <= Len(l)
      BY <1>1, <3>1, <3>2
    <3>3. CASE i = Len(l)
      BY <1>1, <3>1, <3>3
    <3> QED BY <1>1, <3>1, <3>2, <3>3
  <2> QED BY <1>1, <1>3, <2>1 DEF Grown
<1>6. Limited(e) = e \/ Limited(e) = Tail(e)
  BY DEF Limited
<1> QED BY <1>4, <1>5, <1>6 DEF e

(* To the other streams a push does nothing, but perhaps take a line.      *)
LEMMA OthersPushed ==
  ASSUME NEW l, NEW g, NEW line, NEW d \in {0, 1}, Grown(l, g, line, d),
         NEW t, line.stream # t, NEW r, NEW last
  PROVE  /\ Shown(l, t, r, last) => Shown(g, t, r, last)
         /\ AllWhole(l, t) => AllWhole(g, t)
         /\ FinalMayBeCut(l, t) => FinalMayBeCut(g, t)
<1>1. /\ Len(l) \in Nat /\ Len(g) \in Nat /\ Len(g) = Len(l) + 1 - d
      /\ \A i \in 1 .. Len(g) : g[i] = IF i + d <= Len(l) THEN l[i + d] ELSE line
  BY LenProperties DEF Grown
<1>2. ASSUME NEW i \in In(g, t) PROVE i + d \in In(l, t) /\ g[i] = l[i + d] /\ i \in Nat
  <2>1. i \in 1 .. Len(g) /\ g[i].stream = t
    BY DEF In
  <2>2. i + d <= Len(l) /\ g[i] = l[i + d]
    BY <1>1, <2>1
  <2> QED BY <1>1, <2>1, <2>2 DEF In
<1>3. ASSUME NEW k \in In(l, t), k > d PROVE k - d \in In(g, t)
  <2>1. k \in 1 .. Len(l) /\ l[k].stream = t
    BY DEF In
  <2>2. k - d \in 1 .. Len(g) /\ (k - d) + d = k
    BY <1>1, <1>3, <2>1
  <2>3. g[k - d] = l[k]
    BY <1>1, <2>1, <2>2
  <2> QED BY <2>1, <2>2, <2>3 DEF In
<1>n. In(l, t) \subseteq Nat
  BY <1>1 DEF In
<1>4. ASSUME NEW i \in In(g, t), Final(g, t, i) PROVE Final(l, t, i + d)
  <2>1. ASSUME NEW k \in In(l, t) PROVE k <= i + d
    <3>1. CASE k > d
      <4>1. k - d <= i
        BY <1>3, <1>4, <3>1 DEF Final
      <4> QED BY <1>2, <1>n, <4>1
    <3>2. CASE ~(k > d)
      BY <1>2, <1>n, <3>2
    <3> QED BY <3>1, <3>2
  <2> QED BY <2>1 DEF Final
<1>5. ASSUME NEW i \in In(g, t), NEW j \in In(g, t), Adjacent(g, t, i, j)
      PROVE  Adjacent(l, t, i + d, j + d)
  <2>1. i + d < j + d
    BY <1>2, <1>5 DEF Adjacent
  <2>2. ASSUME NEW k \in In(l, t) PROVE k <= i + d \/ j + d <= k
    <3>1. CASE k > d
      <4>1. k - d <= i \/ j <= k - d
        BY <1>3, <1>5, <3>1 DEF Adjacent
      <4> QED BY <1>2, <1>n, <4>1
    <3>2. CASE ~(k > d)
      BY <1>2, <1>n, <3>2
    <3> QED BY <3>1, <3>2
  <2> QED BY <2>1, <2>2 DEF Adjacent
<1>6. Shown(l, t, r, last) => Shown(g, t, r, last)
  BY <1>2, <1>4, <1>5 DEF Shown
<1>7. AllWhole(l, t) => AllWhole(g, t)
  BY <1>2 DEF AllWhole
<1>8. ASSUME FinalMayBeCut(l, t) PROVE FinalMayBeCut(g, t)
  <2>1. ASSUME NEW i \in In(g, t), ~g[i].whole, NEW j \in In(g, t) PROVE j <= i
    <3>1. Final(l, t, i + d)
      BY <1>2, <1>8, <2>1 DEF FinalMayBeCut
    <3>2. j + d <= i + d
      BY <1>2, <3>1 DEF Final
    <3> QED BY <1>2, <3>2
  <2> QED BY <2>1 DEF FinalMayBeCut, Final
<1> QED BY <1>6, <1>7, <1>8

(* To the stream of the line the line comes next.                          *)
LEMMA OwnPushed ==
  ASSUME NEW l, NEW g, NEW line \in LogLines, NEW d \in {0, 1}, Grown(l, g, line, d),
         NEW s, line.stream = s, NEW r, line.run = r, NEW m \in Nat, line.n = m + 1,
         Shown(l, s, r, m), AllWhole(l, s)
  PROVE  /\ Shown(g, s, r, m + 1) /\ FinalMayBeCut(g, s)
         /\ line.whole => AllWhole(g, s)
<1>1. /\ Len(l) \in Nat /\ Len(g) \in Nat /\ Len(g) = Len(l) + 1 - d
      /\ \A i \in 1 .. Len(g) : g[i] = IF i + d <= Len(l) THEN l[i + d] ELSE line
  BY LenProperties DEF Grown
<1>2. ASSUME NEW i \in In(g, s)
      PROVE  /\ i \in 1 .. Len(g)
             /\ i = Len(g) => g[i] = line
             /\ i # Len(g) => i + d \in In(l, s) /\ g[i] = l[i + d]
  <2>1. i \in 1 .. Len(g) /\ g[i].stream = s
    BY DEF In
  <2>2. CASE i = Len(g)
    BY <1>1, <2>1, <2>2
  <2>3. CASE i # Len(g)
    <3>1. i + d <= Len(l) /\ i + d \in 1 .. Len(l)
      BY <1>1, <2>1, <2>3
    <3> QED BY <1>1, <2>1, <2>3, <3>1 DEF In
  <2> QED BY <2>1, <2>2, <2>3
<1>3. ASSUME NEW k \in In(l, s), k > d PROVE k - d \in In(g, s) /\ k - d # Len(g)
  <2>1. k \in 1 .. Len(l) /\ l[k].stream = s
    BY DEF In
  <2>2. k - d \in 1 .. Len(g) /\ (k - d) + d = k /\ k - d # Len(g)
    BY <1>1, <1>3, <2>1
  <2>3. g[k - d] = l[k]
    BY <1>1, <2>1, <2>2
  <2> QED BY <2>1, <2>2, <2>3 DEF In
<1>n. In(l, s) \subseteq 1 .. Len(l)
  BY DEF In
<1>4. Len(g) > 0 => Len(g) \in In(g, s)
  <2>1. ASSUME Len(g) > 0 PROVE Len(g) \in In(g, s)
    <3>1. Len(g) \in 1 .. Len(g) /\ ~(Len(g) + d <= Len(l))
      BY <1>1, <2>1
    <3> QED BY <1>1, <3>1 DEF In
  <2> QED BY <2>1
<1>5. ASSUME NEW i \in In(g, s), Final(g, s, i) PROVE i = Len(g)
  BY <1>1, <1>2, <1>4, <1>5 DEF Final
<1>6. ASSUME NEW i \in In(g, s) PROVE g[i].run = r /\ (Final(g, s, i) => g[i].n = m + 1)
  BY <1>2, <1>5 DEF Shown
<1>7. ASSUME NEW i \in In(g, s), NEW j \in In(g, s), Adjacent(g, s, i, j)
      PROVE  g[j].n = g[i].n + 1
  <2>1. i < j /\ i # Len(g) /\ i \in Nat /\ j \in Nat /\ i + d \in In(l, s) /\ g[i] = l[i + d]
    BY <1>1, <1>2, <1>7 DEF Adjacent
  <2>2. ASSUME NEW k \in In(l, s) PROVE k <= i + d \/ j + d <= k
    <3>1. k \in Nat
      BY <1>n, <1>1
    <3>2. CASE k > d
      <4>1. k - d <= i \/ j <= k - d
        BY <1>3, <1>7, <3>2 DEF Adjacent
      <4> QED BY <2>1, <3>1, <4>1
    <3>3. CASE ~(k > d)
      BY <2>1, <3>1, <3>3
    <3> QED BY <3>2, <3>3
  <2>3. CASE j = Len(g)
    <3>1. ASSUME NEW k \in In(l, s) PROVE k <= i + d
      <4>1. k \in 1 .. Len(l) /\ Len(g) = Len(l) + 1 - d
        BY <1>n, <1>1
      <4> QED BY <1>1, <2>1, <2>2, <2>3, <4>1
    <3>2. Final(l, s, i + d)
      BY <3>1 DEF Final
    <3>3. g[i].n = m
      BY <2>1, <3>2 DEF Shown
    <3>4. g[j].n = m + 1
      BY <1>2, <2>3
    <3> QED BY <3>3, <3>4
  <2>4. CASE j # Len(g)
    <3>1. j + d \in In(l, s) /\ g[j] = l[j + d]
      BY <1>2, <2>4
    <3>2. i + d < j + d
      BY <2>1
    <3>3. Adjacent(l, s, i + d, j + d)
      BY <2>2, <3>2 DEF Adjacent
    <3> QED BY <2>1, <3>1, <3>3 DEF Shown
  <2> QED BY <2>3, <2>4
<1>8. FinalMayBeCut(g, s)
  <2>1. ASSUME NEW i \in In(g, s), ~g[i].whole, NEW j \in In(g, s) PROVE j <= i
    <3>1. i = Len(g)
      BY <1>2, <2>1 DEF AllWhole
    <3> QED BY <1>1, <1>2, <3>1
  <2> QED BY <2>1 DEF FinalMayBeCut, Final
<1>9. line.whole => AllWhole(g, s)
  BY <1>2 DEF AllWhole
<1> QED BY <1>6, <1>7, <1>8, <1>9 DEF Shown

(* A line of one stream does not touch what is caught of another.          *)
ProgressOf(t) == progress' = progress \/ (progress' # NoLine /\ progress'.stream # t)
LEMMA OthersCaught ==
  ASSUME NEW t \in Streams, ProgressOf(t), run' = run, NEW k, NEW last, Caught(t, k, last)
  PROVE  Caught(t, k, last)'
BY DEF ProgressOf, Caught, NoneLost

(* The next line of a stream is caught, when it is whole.                  *)
LEMMA OwnCaught ==
  ASSUME NEW s \in Streams, NEW m \in Nat, Caught(s, m, m), run' = run,
         NEW line \in LogLines, line.stream = s, line.run = run, line.n = m + 1,
         progress' \in Parsed(line), progress \in LogLines \cup {NoLine}
  PROVE  /\ Caught(s, m, m + 1)'
         /\ line.whole => Caught(s, m + 1, m + 1)'
<1>1. progress' = progress \/ progress' = line
  BY DEF Parsed
<1>2. line # NoLine
  BY DEF NoLine, LogLines, Streams
<1>3. Caught(s, m, m + 1)'
  <2>1. CASE progress' = progress
    <3>1. progress.stream = s => progress.n <= m /\ progress.n \in Nat
      BY DEF Caught, LogLines, NoLine, Streams
    <3>2. progress.stream = s => progress.n <= m + 1
      BY <3>1
    <3> QED BY <2>1, <3>2 DEF Caught, NoneLost
  <2>2. CASE progress' = line
    <3>1. \A n \in 1 .. m : n <= m + 1
      OBVIOUS
    <3> QED BY <1>2, <2>2, <3>1 DEF Caught, NoneLost
  <2> QED BY <1>1, <2>1, <2>2
<1>4. ASSUME line.whole PROVE Caught(s, m + 1, m + 1)'
  <2>1. CASE Carries(line)
    <3>1. progress' = line
      BY <1>4, <2>1 DEF Parsed
    <3>2. \A n \in 1 .. m + 1 : n <= m + 1
      OBVIOUS
    <3> QED BY <1>2, <3>1, <3>2 DEF Caught, NoneLost
  <2>2. CASE ~Carries(line)
    <3>1. <<run, s, m + 1>> \notin Reports
      BY <2>2 DEF Carries
    <3>2. \A n \in 1 .. m + 1 : n \in 1 .. m \/ n = m + 1
      OBVIOUS
    <3>3. NoneLost(s, m)' /\ (progress'.stream = s => progress'.n <= m + 1)
      BY <1>3 DEF Caught
    <3>4. ASSUME NEW n \in 1 .. m + 1, <<run', s, n>> \in Reports PROVE n \in 1 .. m
      BY <3>1, <3>2, <3>4
    <3> QED BY <3>3, <3>4 DEF Caught, NoneLost
  <2> QED BY <2>1, <2>2
<1> QED BY <1>3, <1>4

(* What is parsed is of the run of the line, and as new as the log with it.*)
LEMMA StillReported ==
  ASSUME NEW g, NEW line, NEW d \in {0, 1}, Grown(log, g, line, d),
         progress' \in Parsed(line), Reported(log, progress)
  PROVE  Reported(g, progress')
<1>1. /\ Len(log) \in Nat /\ Len(g) \in Nat /\ Len(g) = Len(log) + 1 - d
      /\ \A i \in 1 .. Len(g) : g[i] = IF i + d <= Len(log) THEN log[i + d] ELSE line
  BY LenProperties DEF Grown
<1> SUFFICES ASSUME NEW i \in 1 .. Len(g), g[i].whole, Carries(g[i])
             PROVE  \E j \in i .. Len(g) : g[j] = progress'
  BY DEF Reported
<1>2. Len(g) \in i .. Len(g) /\ g[Len(g)] = line
  <2>1. Len(g) \in i .. Len(g) /\ Len(g) \in 1 .. Len(g) /\ ~(Len(g) + d <= Len(log))
    BY <1>1
  <2> QED BY <1>1, <2>1
<1>3. CASE progress' = line
  BY <1>2, <1>3
<1>4. CASE progress' # line
  <2>1. progress' = progress
    BY <1>4 DEF Parsed
  <2>2. g[i] # line
    BY <1>4 DEF Parsed
  <2>3. i + d \in 1 .. Len(log) /\ g[i] = log[i + d]
    BY <1>1, <2>2
  <2>4. PICK j \in i + d .. Len(log) : log[j] = progress
    BY <2>3 DEF Reported
  <2>5. j - d \in i .. Len(g) /\ j - d \in 1 .. Len(g) /\ (j - d) + d = j /\ j <= Len(log)
    BY <1>1, <2>3, <2>4
  <2>6. g[j - d] = log[j]
    BY <1>1, <2>5
  <2> QED BY <2>1, <2>4, <2>5, <2>6
<1> QED BY <1>3, <1>4

LEMMA StillOfThisRun ==
  ASSUME OfThisRun, run' = run, NEW line, line.run = run, progress' \in Parsed(line)
  PROVE  OfThisRun'
BY DEF OfThisRun, Parsed, Carries

LEMMA Halves ==
  ASSUME NEW m \in Nat
  PROVE  /\ ~EndsLine(2 * m + 1) /\ EndsLine(2 * m + 2)
         /\ LineOf(2 * m + 1) = m + 1 /\ LineOf(2 * m) = m
         /\ (2 * m) \div 2 = m /\ (2 * m + 1) \div 2 = m
BY DEF EndsLine, LineOf

LEMMA LInit == Init => LInv
<1> SUFFICES ASSUME Init PROVE LInv
  OBVIOUS
<1>1. <<>> \in Seq(LogLines) /\ <<>> \in Seq(Nat)
  BY EmptySeq
<1>2. LType
  BY <1>1 DEF Init, LType
<1>3. ui \notin Starting /\ \A s \in Streams : reader[s] = "none"
  BY DEF Init, Starting
<1>4. Reported(log, progress)
  BY EmptySeq DEF Init, Reported
<1> QED BY <1>2, <1>3, <1>4 DEF LInv, Starting

(* What a step does to a stream it does not belong to.                     *)
SameStream(t) == /\ run' = run /\ pending'[t] = pending[t] /\ pipe'[t] = pipe[t]
                 /\ sent'[t] = sent[t] /\ ProgressOf(t)
OtherLine(t) == \/ log' = log
                \/ \E line \in LogLines, d \in {0, 1} :
                      line.stream # t /\ Grown(log, log', line, d)
LEMMA OtherStream ==
  ASSUME NEW t \in Streams, SameStream(t), OtherLine(t)
  PROVE  /\ \A m \in Nat : Taken(t, m) => Taken(t, m)'
         /\ Over(t) => Over(t)'
<1>1. ASSUME NEW last PROVE Shown(log, t, run, last) => Shown(log', t, run', last)
  BY OthersPushed DEF SameStream, OtherLine
<1>2. /\ AllWhole(log, t) => AllWhole(log', t)
      /\ FinalMayBeCut(log, t) => FinalMayBeCut(log', t)
  BY OthersPushed DEF OtherLine
<1>3. ASSUME NEW m \in Nat, Taken(t, m) PROVE Taken(t, m)'
  <2>1. Pieces(t, 2 * m)'
    BY <1>3 DEF Taken, Pieces, SameStream, Stretch
  <2>2. Caught(t, m, m)'
    BY <1>3, OthersCaught DEF Taken, SameStream
  <2> QED BY <1>1, <1>2, <1>3, <2>1, <2>2 DEF Taken, SameStream
<1>4. ASSUME Over(t) PROVE Over(t)'
  <2>k. PICK k : k = sent[t] \div 2
    OBVIOUS
  <2>l. PICK last : last = LineOf(sent[t])
    OBVIOUS
  <2>1. sent'[t] \div 2 = k /\ LineOf(sent'[t]) = last
    BY <2>k, <2>l DEF SameStream, LineOf
  <2>2. Caught(t, k, last)
    BY <1>4, <2>k, <2>l DEF Over
  <2>3. Shown(log', t, run', LineOf(sent'[t]))
    BY <1>1, <1>4, <2>1, <2>l DEF Over
  <2>4. Caught(t, k, last)'
    BY <2>2, OthersCaught DEF SameStream
  <2> QED BY <1>2, <1>4, <2>1, <2>3, <2>4 DEF Over
<1> QED BY <1>3, <1>4

(* What the pipeline writes follows on what it has written.                *)
LEMMA PiecesWritten ==
  ASSUME NEW s \in Streams, NEW k \in Nat, LType, PipelineWrite(s), Pieces(s, k)
  PROVE  Pieces(s, k)'
<1>1. /\ pending' = pending /\ sent'[s] = sent[s] + 1
      /\ pipe'[s] = Append(pipe[s], sent[s] + 1)
  BY DEF PipelineWrite, ProcessKeeps, readers, LType
<1> DEFINE p == pipe[s]
           q == pending[s]
           a == k + Len(q) + 1
           x == sent[s] + 1
<1>2. /\ p \in Seq(Nat) /\ Len(p) \in Nat /\ Len(q) \in Nat /\ sent[s] \in Nat
      /\ a \in Nat /\ x \in Nat
  BY LenProperties DEF LType
<1>3. Stretch(p, a) /\ sent[s] = k + Len(q) + Len(p)
  BY DEF Pieces
<1>4. x = a + Len(p)
  <2> HIDE DEF p, q
  <2>1. \A i, j, l \in Nat : (i + j + l) + 1 = (i + j + 1) + l
    OBVIOUS
  <2> QED BY <1>2, <1>3, <2>1
<1>5. pipe'[s] = Append(p, x) /\ pending'[s] = q /\ Stretch(q, k + 1)
  BY <1>1 DEF Pieces
<1>6. /\ Len(Append(p, x)) = Len(p) + 1 /\ Stretch(Append(p, x), a)
  <2> HIDE DEF p, x, a
  <2> QED BY <1>2, <1>3, <1>4, StretchGrows
<1>7. sent'[s] = k + Len(q) + Len(Append(p, x))
  <2> HIDE DEF p, q, x
  <2>1. \A i, j, l \in Nat : (i + j + l) + 1 = i + j + (l + 1)
    OBVIOUS
  <2>2. sent'[s] = (k + Len(q) + Len(p)) + 1
    BY <1>1, <1>3
  <2> QED BY <1>2, <1>6, <2>1, <2>2
<1> HIDE DEF p, q, x
<1> QED BY <1>5, <1>6, <1>7 DEF Pieces

(* A read takes pieces from the pipe, in their order.                      *)
LEMMA PiecesRead ==
  ASSUME NEW s \in Streams, NEW m \in Nat, LType, Read(s), Pieces(s, m)
  PROVE  Pieces(s, m)' /\ LType'
<1>1. PICK k \in DOMAIN pipe[s] :
         /\ pending' = [pending EXCEPT ![s] = @ \o SubSeq(pipe[s], 1, k)]
         /\ pipe' = [pipe EXCEPT ![s] = SubSeq(@, k + 1, Len(@))]
  BY DEF Read
<1> DEFINE p == pipe[s]
           q == pending[s]
           a == m + Len(q) + 1
           taken == SubSeq(p, 1, k)
           left == SubSeq(p, k + 1, Len(p))
<1>2. /\ p \in Seq(Nat) /\ Len(p) \in Nat /\ q \in Seq(Nat) /\ Len(q) \in Nat
      /\ a \in Nat /\ k \in 1 .. Len(p)
      /\ Stretch(q, m + 1) /\ Stretch(p, a) /\ sent[s] = m + Len(q) + Len(p)
  BY LenProperties DEF LType, Pieces
<1>3. pending'[s] = q \o taken /\ pipe'[s] = left /\ sent' = sent
  BY <1>1 DEF LType, Read, ReaderKeeps, processes
<1> HIDE DEF p, q
<1>4. /\ 1 \in 1 .. Len(p) + 1 /\ k \in 1 - 1 .. Len(p)
      /\ k + 1 \in 1 .. Len(p) + 1 /\ Len(p) \in (k + 1) - 1 .. Len(p)
  BY <1>2
<1>5. taken \in Seq(Nat) /\ Len(taken) = k /\ Stretch(taken, a)
  <2>1. /\ taken \in Seq(Nat) /\ Len(taken) = k - 1 + 1 /\ Stretch(taken, a + 1 - 1)
    <3> HIDE DEF a
    <3> QED BY <1>2, <1>4, StretchPart
  <2>2. k - 1 + 1 = k /\ a + 1 - 1 = a
    BY <1>2
  <2> QED BY <2>1, <2>2
<1>6. left \in Seq(Nat) /\ Len(left) = Len(p) - k /\ Stretch(left, a + k)
  <2>1. /\ left \in Seq(Nat) /\ Len(left) = Len(p) - (k + 1) + 1
        /\ Stretch(left, a + (k + 1) - 1)
    <3> HIDE DEF a
    <3> QED BY <1>2, <1>4, StretchPart
  <2>2. Len(p) - (k + 1) + 1 = Len(p) - k /\ a + (k + 1) - 1 = a + k
    BY <1>2
  <2> QED BY <2>1, <2>2
<1> HIDE DEF taken, left
<1>7. /\ q \o taken \in Seq(Nat) /\ Len(q \o taken) = Len(q) + k
      /\ Stretch(q \o taken, m + 1)
  <2>1. (m + 1) + Len(q) = a /\ m + 1 \in Nat
    BY <1>2
  <2> QED BY <1>2, <1>5, <2>1, StretchConcat
<1>8. /\ m + Len(q \o taken) + 1 = a + k
      /\ sent[s] = m + Len(q \o taken) + Len(left)
  BY <1>2, <1>6, <1>7
<1>9. Pieces(s, m)'
  BY <1>3, <1>6, <1>7, <1>8 DEF Pieces
<1>10. LType'
  <2>1. /\ pending \in [Streams -> Seq(Nat)] /\ pipe \in [Streams -> Seq(Nat)]
        /\ UNCHANGED <<log, progress, sent>>
    BY DEF LType, Read, ReaderKeeps, logging, processes
  <2>2. pending' = [pending EXCEPT ![s] = q \o taken] /\ pipe' = [pipe EXCEPT ![s] = left]
    BY <1>1 DEF p, q, taken, left
  <2>3. pending' \in [Streams -> Seq(Nat)] /\ pipe' \in [Streams -> Seq(Nat)]
    BY <1>6, <1>7, <2>1, <2>2
  <2> QED BY <2>1, <2>3 DEF LType
<1> QED BY <1>9, <1>10

(* A reader that has a line in what it has read has it in the first two    *)
(* pieces, the line after those it has taken.                              *)
LEMMA NextLine ==
  ASSUME LType, NEW s \in Streams, NEW m \in Nat, Pieces(s, 2 * m), HasLine(s)
  PROVE  /\ FirstEnd(s) = 2 /\ Len(pending[s]) \in Nat /\ Len(pending[s]) >= 2
         /\ Line(s, SubSeq(pending[s], 1, 2)) =
                [run |-> run, stream |-> s, n |-> m + 1, whole |-> TRUE]
<1> DEFINE q == pending[s]
<1>1. /\ q \in Seq(Nat) /\ Len(q) \in Nat /\ Stretch(q, 2 * m + 1) /\ DOMAIN q = 1 .. Len(q)
  BY LenProperties DEF LType, Pieces
<1>2. \A i \in 1 .. Len(q) : q[i] = (2 * m + 1) + i - 1
  BY <1>1 DEF Stretch
<1>3. PICK e \in DOMAIN q : EndsLine(q[e])
  BY DEF HasLine
<1> HIDE DEF q
<1>4. 1 \in 1 .. Len(q) /\ q[1] = 2 * m + 1 /\ ~EndsLine(q[1])
  <2>1. 1 \in 1 .. Len(q)
    BY <1>1, <1>3
  <2>2. q[1] = 2 * m + 1
    BY <1>2, <2>1
  <2> QED BY <2>1, <2>2, Halves
<1>5. e # 1
  BY <1>3, <1>4
<1>6. 2 \in 1 .. Len(q) /\ q[2] = 2 * m + 2 /\ EndsLine(q[2])
  <2>1. 2 \in 1 .. Len(q)
    BY <1>1, <1>3, <1>5
  <2>2. q[2] = 2 * m + 2
    BY <1>2, <2>1
  <2> QED BY <2>1, <2>2, Halves
<1>7. FirstEnd(s) = 2
  <2>1. FirstEnd(s) = CHOOSE i \in DOMAIN q : EndsLine(q[i]) /\ \A j \in 1 .. i - 1 : ~EndsLine(q[j])
    BY DEF FirstEnd, q
  <2>2. \A j \in 1 .. 2 - 1 : ~EndsLine(q[j])
    <3>1. \A j \in 1 .. 2 - 1 : j = 1
      OBVIOUS
    <3> QED BY <1>4, <3>1
  <2>3. ASSUME NEW i \in DOMAIN q, EndsLine(q[i]), \A j \in 1 .. i - 1 : ~EndsLine(q[j])
        PROVE  i = 2
    <3>1. i # 1
      BY <2>3, <1>4
    <3>2. i \in Nat /\ i >= 2
      BY <1>1, <3>1
    <3>3. ~(i > 2)
      <4>1. i > 2 => 2 \in 1 .. i - 1
        BY <3>2
      <4> QED BY <4>1, <2>3, <1>6
    <3> QED BY <3>2, <3>3
  <2> DEFINE Good(i) == i \in DOMAIN q /\ EndsLine(q[i]) /\ \A j \in 1 .. i - 1 : ~EndsLine(q[j])
  <2>4. Good(2) /\ \A i : Good(i) => i = 2
    BY <1>1, <1>6, <2>2, <2>3
  <2>5. FirstEnd(s) = CHOOSE i : Good(i)
    BY <2>1
  <2> HIDE DEF Good
  <2> QED BY <2>4, <2>5
<1>8. Line(s, SubSeq(q, 1, 2)) = [run |-> run, stream |-> s, n |-> m + 1, whole |-> TRUE]
  <2> DEFINE c == SubSeq(q, 1, 2)
  <2>1. c[1] = 2 * m + 1 /\ c = <<2 * m + 1, 2 * m + 2>>
    <3>1. \A i \in 1 .. 2 : q[i] \in Nat
      BY <1>1, <1>6, ElementOfSeq
    <3>2. c \in Seq(Nat) /\ Len(c) = 2 /\ \A i \in 1 .. 2 - 1 + 1 : c[i] = q[1 + i - 1]
      BY <3>1, SubSeqProperties
    <3>3. c[1] = 2 * m + 1 /\ c[2] = 2 * m + 2
      <4>1. 1 \in 1 .. 2 - 1 + 1 /\ 2 \in 1 .. 2 - 1 + 1 /\ 1 + 1 - 1 = 1 /\ 1 + 2 - 1 = 2
        OBVIOUS
      <4>2. c[1] = q[1] /\ c[2] = q[2]
        BY <3>2, <4>1
      <4> QED BY <4>2, <1>4, <1>6
    <3> DEFINE w == <<2 * m + 1, 2 * m + 2>>
    <3>4. w \in Seq(Nat) /\ Len(w) = 2 /\ w[1] = 2 * m + 1 /\ w[2] = 2 * m + 2
      OBVIOUS
    <3> HIDE DEF c, w
    <3>5. \A i \in 1 .. Len(c) : c[i] = w[i]
      <4>1. \A i \in 1 .. Len(c) : i = 1 \/ i = 2
        BY <3>2
      <4> QED BY <4>1, <3>3, <3>4
    <3>6. c = w
      BY <3>2, <3>4, <3>5, SeqEqual
    <3> QED BY <3>3, <3>6 DEF w
  <2>2. LineOf(c[1]) = m + 1
    BY <2>1, Halves
  <2>3. 2 * (m + 1) - 1 = 2 * m + 1 /\ 2 * (m + 1) = 2 * m + 2
    OBVIOUS
  <2> HIDE DEF c
  <2>4. (c = <<2 * LineOf(c[1]) - 1, 2 * LineOf(c[1])>>) = TRUE
    BY <2>1, <2>2, <2>3
  <2>5. Line(s, c) = [run |-> run, stream |-> s, n |-> m + 1, whole |-> TRUE]
    BY <2>2, <2>4 DEF Line
  <2> QED BY <2>5 DEF c
<1> QED BY <1>1, <1>6, <1>7, <1>8 DEF q

(* What a push of a line of s is to the other streams and to the log.      *)
LineOfRun == \/ log' = log /\ progress' = progress
             \/ \E line \in LogLines, d \in {0, 1} :
                   /\ Grown(log, log', line, d)
                   /\ line.run = run /\ progress' \in Parsed(line)
LEMMA PushedLine ==
  ASSUME NEW s \in Streams, NEW line \in LogLines, line.stream = s, line.run = run,
         NEW d \in {0, 1}, Grown(log, log', line, d), progress' \in Parsed(line)
  PROVE  LineOfRun /\ \A t \in Streams \ {s} : OtherLine(t) /\ ProgressOf(t)
<1>1. progress' = progress \/ (progress' = line /\ line # NoLine)
  BY DEF Parsed, LogLines, NoLine, Streams
<1> QED BY <1>1 DEF LineOfRun, OtherLine, ProgressOf

LEMMA LPushes ==
  ASSUME LType, NEW s \in Streams, NEW m \in Nat, Taken(s, m), PushLine(s), run \in Nat
  PROVE  /\ Taken(s, m + 1)' /\ LType' /\ LineOfRun
         /\ \A t \in Streams \ {s} : OtherLine(t) /\ ProgressOf(t)
<1> DEFINE line == [run |-> run, stream |-> s, n |-> m + 1, whole |-> TRUE]
           q == pending[s]
           left == SubSeq(q, 3, Len(q))
<1>1. Pieces(s, 2 * m) /\ HasLine(s)
  BY DEF Taken, PushLine
<1>2. /\ FirstEnd(s) = 2 /\ Len(q) \in Nat /\ Len(q) >= 2
      /\ Line(s, SubSeq(q, 1, 2)) = line
  BY <1>1, NextLine
<1>3. /\ PushLog(line) /\ UNCHANGED <<run, pipe, sent>>
      /\ pending' = [pending EXCEPT ![s] = left]
  <2>1. PushLog(Line(s, SubSeq(pending[s], 1, FirstEnd(s))))
    BY DEF PushLine
  <2>2. pending' = [pending EXCEPT ![s] = SubSeq(pending[s], FirstEnd(s) + 1, Len(pending[s]))]
    BY DEF PushLine
  <2>3. UNCHANGED <<run, pipe, sent>>
    BY DEF PushLine, ReaderKeeps, processes
  <2>4. FirstEnd(s) + 1 = 3
    BY <1>2
  <2> HIDE DEF line
  <2> QED BY <1>2, <2>1, <2>2, <2>3, <2>4
<1>4. line \in LogLines
  BY DEF LogLines
<1>5. /\ line.stream = s /\ line.run = run /\ line.n = m + 1 /\ line.whole
  OBVIOUS
<1> HIDE DEF line
<1>6. PICK d \in {0, 1} : Grown(log, log', line, d)
  BY <1>3, <1>4, LimitedGrows DEF PushLog, LType
<1>7. Shown(log', s, run, m + 1) /\ AllWhole(log', s)
  BY <1>4, <1>5, <1>6, OwnPushed DEF Taken
<1>p. progress' \in Parsed(line) /\ progress \in LogLines \cup {NoLine}
  BY <1>3 DEF PushLog, LType
<1>8. LineOfRun /\ \A t \in Streams \ {s} : OtherLine(t) /\ ProgressOf(t)
  BY <1>4, <1>5, <1>6, <1>p, PushedLine
<1>9. progress' \in LogLines \cup {NoLine} /\ Caught(s, m + 1, m + 1)'
  <2>1. progress' \in LogLines \cup {NoLine}
    BY <1>4, <1>p DEF Parsed
  <2>2. Caught(s, m, m) /\ run' = run
    BY <1>3 DEF Taken
  <2> QED BY <1>4, <1>5, <1>p, <2>1, <2>2, OwnCaught
<1>10. left \in Seq(Nat) /\ Len(left) = Len(q) - 2 /\ Stretch(left, 2 * (m + 1) + 1)
  <2>1. /\ q \in Seq(Nat) /\ 2 * m + 1 \in Nat /\ Stretch(q, 2 * m + 1)
        /\ 3 \in 1 .. Len(q) + 1 /\ Len(q) \in 3 - 1 .. Len(q)
    BY <1>1, <1>2 DEF Pieces, LType
  <2> HIDE DEF q
  <2>2. /\ left \in Seq(Nat) /\ Len(left) = Len(q) - 3 + 1
        /\ Stretch(left, (2 * m + 1) + 3 - 1)
    BY <2>1, StretchPart
  <2>3. Len(q) - 3 + 1 = Len(q) - 2 /\ (2 * m + 1) + 3 - 1 = 2 * (m + 1) + 1
    BY <1>2
  <2> QED BY <2>2, <2>3
<1>11. Pieces(s, 2 * (m + 1))'
  <2>1. pending'[s] = left /\ pipe'[s] = pipe[s] /\ sent'[s] = sent[s]
    BY <1>3 DEF LType
  <2>2. /\ Stretch(pipe[s], 2 * m + Len(q) + 1)
        /\ sent[s] = 2 * m + Len(q) + Len(pipe[s])
    BY <1>1 DEF Pieces
  <2> HIDE DEF q, left
  <2>3. 2 * m + Len(q) = 2 * (m + 1) + Len(left)
    BY <1>2, <1>10
  <2> QED BY <1>10, <2>1, <2>2, <2>3 DEF Pieces
<1>12. LType'
  BY <1>3, <1>6, <1>9, <1>10 DEF LType, Grown
<1>13. Taken(s, m + 1)'
  BY <1>3, <1>7, <1>9, <1>11 DEF Taken
<1> QED BY <1>8, <1>12, <1>13

(* At the end of the pipe at most half a line is left.                     *)
LEMMA LEnds ==
  ASSUME LType, NEW s \in Streams, NEW m \in Nat, Taken(s, m), EndOfPipe(s), run \in Nat
  PROVE  /\ Over(s)' /\ LType' /\ LineOfRun
         /\ \A t \in Streams \ {s} : OtherLine(t) /\ ProgressOf(t)
<1> DEFINE q == pending[s]
<1>1. /\ UNCHANGED <<run, pipe, sent>> /\ pending' = [pending EXCEPT ![s] = <<>>]
      /\ IF q = <<>> THEN UNCHANGED logging ELSE PushLog(Line(s, q))
      /\ ~HasLine(s) /\ pipe[s] = <<>>
  BY DEF EndOfPipe, ReaderKeeps, processes
<1>2. /\ q \in Seq(Nat) /\ Len(q) \in Nat /\ Stretch(q, 2 * m + 1) /\ DOMAIN q = 1 .. Len(q)
      /\ sent[s] = 2 * m + Len(q) + 0
  BY <1>1, LenProperties, EmptySeq DEF LType, Taken, Pieces
<1>3. \A i \in 1 .. Len(q) : q[i] = (2 * m + 1) + i - 1 /\ ~EndsLine(q[i])
  BY <1>1, <1>2 DEF Stretch, HasLine
<1>4. <<>> \in Seq(Nat)
  BY EmptySeq
<1>5. pending' \in [Streams -> Seq(Nat)] /\ pipe' \in [Streams -> Seq(Nat)]
  BY <1>1, <1>4 DEF LType
<1>6. Len(q) = 0 \/ Len(q) = 1
  <2>1. ASSUME 2 \in 1 .. Len(q) PROVE FALSE
    <3>1. (2 * m + 1) + 2 - 1 = 2 * m + 2
      OBVIOUS
    <3>2. q[2] = 2 * m + 2 /\ ~EndsLine(q[2])
      BY <1>3, <2>1, <3>1
    <3> QED BY <3>2, Halves
  <2> DEFINE n == Len(q)
  <2>2. n \in Nat /\ ~(2 \in 1 .. n)
    BY <1>2, <2>1
  <2> HIDE DEF n
  <2>3. n = 0 \/ n = 1
    BY <2>2
  <2> QED BY <2>3 DEF n
<1>7. CASE q = <<>>
  <2>1. UNCHANGED logging /\ sent'[s] = 2 * m
    <3>1. Len(q) = 0
      BY <1>7, EmptySeq
    <3>2. sent[s] = 2 * m
      BY <1>2, <3>1
    <3> QED BY <1>1, <1>7, <3>2
  <2>2. LineOf(sent'[s]) = m /\ sent'[s] \div 2 = m
    BY <2>1, Halves
  <2>3. log' = log /\ progress' = progress /\ run' = run
    BY <1>1, <2>1 DEF logging
  <2>4. FinalMayBeCut(log, s)
    BY DEF Taken, AllWhole, FinalMayBeCut
  <2>c. Caught(s, m, m)'
    BY <2>3 DEF Taken, Caught, NoneLost
  <2>5. Over(s)'
    BY <2>2, <2>3, <2>4, <2>c DEF Taken, Over, LineOf
  <2>6. LType'
    BY <1>1, <1>5, <2>3 DEF LType
  <2> QED BY <2>3, <2>5, <2>6 DEF OtherLine, ProgressOf, LineOfRun
<1>8. CASE q # <<>>
  <2> DEFINE line == Line(s, q)
  <2>1. Len(q) = 1
    <3>1. Len(q) # 0
      BY <1>2, <1>8, EmptySeq
    <3> QED BY <1>6, <3>1
  <2>2. q[1] = 2 * m + 1 /\ LineOf(q[1]) = m + 1
    <3>1. 1 \in 1 .. Len(q) /\ (2 * m + 1) + 1 - 1 = 2 * m + 1
      BY <2>1
    <3>2. q[1] = 2 * m + 1
      BY <1>3, <3>1
    <3> QED BY <3>2, Halves
  <2>3. PushLog(line)
    BY <1>1, <1>8
  <2> HIDE DEF q
  <2>4. /\ line.stream = s /\ line.run = run /\ line.n = m + 1 /\ line.whole \in BOOLEAN
    BY <2>2 DEF Line
  <2>5. line \in LogLines
    <3> DEFINE w == q = <<2 * LineOf(q[1]) - 1, 2 * LineOf(q[1])>>
    <3>1. line = [run |-> run, stream |-> s, n |-> m + 1, whole |-> w]
      BY <2>2 DEF Line
    <3>2. w \in BOOLEAN
      OBVIOUS
    <3> HIDE DEF w, line
    <3> QED BY <3>1, <3>2 DEF LogLines
  <2> HIDE DEF line
  <2>6. PICK d \in {0, 1} : Grown(log, log', line, d)
    BY <2>3, <2>5, LimitedGrows DEF PushLog, LType
  <2>7. Shown(log', s, run, m + 1) /\ FinalMayBeCut(log', s)
    BY <2>4, <2>5, <2>6, OwnPushed DEF Taken
  <2>8. sent'[s] = 2 * m + 1
    BY <1>1, <1>2, <2>1
  <2>9. LineOf(sent'[s]) = m + 1 /\ sent'[s] \div 2 = m
    BY <2>8, Halves
  <2>p. progress' \in Parsed(line) /\ progress \in LogLines \cup {NoLine}
    BY <2>3 DEF PushLog, LType
  <2>10. progress' \in LogLines \cup {NoLine} /\ Caught(s, m, m + 1)'
    <3>1. progress' \in LogLines \cup {NoLine}
      BY <2>5, <2>p DEF Parsed
    <3>2. Caught(s, m, m) /\ run' = run
      BY <1>1 DEF Taken
    <3> QED BY <2>4, <2>5, <2>p, <3>1, <3>2, OwnCaught
  <2>11. Over(s)'
    BY <1>1, <2>7, <2>9, <2>10 DEF Over, LineOf
  <2>12. LType'
    BY <1>1, <1>5, <2>6, <2>10 DEF LType, Grown
  <2>13. LineOfRun /\ \A t \in Streams \ {s} : OtherLine(t) /\ ProgressOf(t)
    BY <2>4, <2>5, <2>6, <2>p, PushedLine
  <2> QED BY <2>11, <2>12, <2>13
<1> QED BY <1>7, <1>8

(* A step that leaves the log, the pipes and the readers alone, or ends    *)
(* readers that have ended.                                                *)
LEMMA LKeeps ==
  ASSUME LInv, UNCHANGED <<run, log, progress, pending, pipe, sent>>,
         \A s \in Streams : reader'[s] \in {reader[s], "none"},
         ui' = ui \/ ui' \notin Starting
  PROVE  LInv'
<1>1. LType'
  BY DEF LInv, LType
<1>2. \A s \in Streams, k \in Nat : Pieces(s, k) => Pieces(s, k)'
  BY DEF Pieces, Stretch
<1>3. \A t \in Streams : SameStream(t) /\ OtherLine(t)
  BY DEF SameStream, OtherLine, ProgressOf
<1>4. ASSUME NEW s \in Streams
      PROVE  /\ reader'[s] = "reading" => \E m \in Nat : Taken(s, m)'
             /\ reader'[s] = "ended" => Over(s)'
  <2>1. reader'[s] = "reading" => reader[s] = "reading"
    OBVIOUS
  <2>2. reader'[s] = "ended" => reader[s] = "ended"
    OBVIOUS
  <2> QED BY <1>3, <2>1, <2>2, OtherStream DEF LInv
<1>5. Reported(log, progress)' /\ (ui' = "spawn" => progress' = NoLine)
  BY DEF LInv, Reported, Carries, Starting
<1>6. ASSUME NEW s \in Streams, reader'[s] # "none" PROVE OfThisRun'
  <2>1. reader[s] # "none"
    BY <1>6
  <2> QED BY <2>1 DEF LInv, OfThisRun, Carries
<1> QED BY <1>1, <1>2, <1>4, <1>5, <1>6 DEF LInv, Starting

LEMMA LStarts == ASSUME LInv, Launch, PInv PROVE LInv'
<1>1. /\ \A s \in Streams : reader'[s] = "none"
      /\ run \in Nat
  BY DEF Launch, PInv, PType, PThreads
<1>2. <<>> \in Seq(Nat) /\ <<>> \in Seq(LogLines) /\ Len(<<>>) = 0
  BY EmptySeq
<1>3. CASE Refused
  <2>1. /\ log' = <<LaunchError>> /\ progress' \in Parsed(LaunchError)
        /\ ui' \notin Starting /\ UNCHANGED <<pending, pipe, sent>>
    BY <1>3 DEF Refused, Go, Starting
  <2>2. LaunchError \in LogLines
    BY <1>1 DEF LaunchError, LogLines
  <2>e. LaunchError.whole
    BY DEF LaunchError
  <2> DEFINE line == LaunchError
  <2> HIDE DEF line
  <2>3. <<line>> \in Seq(LogLines) /\ Len(<<line>>) = 1 /\ <<line>>[1] = line
    BY <2>2 DEF line
  <2>4. progress' \in LogLines \cup {NoLine}
    BY <2>1, <2>2 DEF Parsed, LInv, LType
  <2>5. Reported(log', progress')
    <3>1. ASSUME Carries(line) PROVE progress' = line
      BY <2>1, <2>e, <3>1 DEF Parsed, line
    <3>2. log' = <<line>>
      BY <2>1 DEF line
    <3> QED BY <2>3, <3>1, <3>2 DEF Reported
  <2>6. LType'
    BY <2>1, <2>3, <2>4 DEF LInv, LType, line
  <2>7. Reported(log, progress)'
    BY <2>5 DEF Reported, Carries
  <2> QED BY <1>1, <2>1, <2>6, <2>7 DEF LInv, Starting
<1>4. CASE Launched
  <2>1. /\ log' = <<>> /\ ui' = "announce"
        /\ pipe' = [s \in Streams |-> <<>>] /\ sent' = [s \in Streams |-> 0]
        /\ pending' = [s \in Streams |-> <<>>] /\ progress' = progress
    BY <1>4 DEF Launched, Go
  <2>2. LType'
    BY <1>1, <1>2, <2>1 DEF LInv, LType
  <2>3. ASSUME NEW s \in Streams PROVE pending'[s] = <<>> /\ Pieces(s, 0)'
    <3>1. pending'[s] = <<>> /\ pipe'[s] = <<>> /\ sent'[s] = 0
      BY <2>1
    <3>2. \A k : Stretch(<<>>, k)
      BY <1>2 DEF Stretch
    <3>3. sent'[s] = 0 + Len(pending'[s]) + Len(pipe'[s])
      BY <1>2, <3>1
    <3> QED BY <3>1, <3>2, <3>3 DEF Pieces
  <2>4. Reported(log, progress)'
    BY <1>2, <2>1 DEF Reported
  <2> QED BY <1>1, <2>1, <2>2, <2>3, <2>4 DEF LInv, Starting
<1> QED BY <1>3, <1>4 DEF Launch

LEMMA LSpawns == ASSUME LInv, Spawn PROVE LInv'
<1>1. /\ ui = "spawn" /\ ui' = "idle" /\ reader' = [s \in Streams |-> "reading"]
      /\ UNCHANGED <<run, log, progress, pending, pipe, sent>>
  BY DEF Spawn, Go, logging, processes
<1>2. /\ log = <<>> /\ progress = NoLine
      /\ \A s \in Streams : pending[s] = <<>> /\ Pieces(s, 0)
  BY <1>1 DEF LInv, Starting
<1>3. ASSUME NEW s \in Streams PROVE Taken(s, 0)'
  <2>1. In(<<>>, s) = {}
    BY EmptySeq DEF In
  <2>2. Shown(log, s, run, 0)' /\ AllWhole(log, s)'
    BY <1>1, <1>2, <2>1 DEF Shown, AllWhole
  <2>3. Pieces(s, 2 * 0)'
    <3>1. 2 * 0 = 0
      OBVIOUS
    <3> QED BY <1>1, <1>2, <3>1 DEF Pieces, Stretch
  <2>4. Caught(s, 0, 0)'
    <3>1. NoLine.stream # s /\ 1 .. 0 = {}
      BY DEF NoLine, Streams
    <3> QED BY <1>1, <1>2, <3>1 DEF Caught, NoneLost
  <2> QED BY <1>1, <1>2, <2>2, <2>3, <2>4 DEF Taken
<1>4. LType' /\ OfThisRun'
  BY <1>1, <1>2 DEF LInv, LType, OfThisRun
<1>5. \A s \in Streams : reader'[s] = "reading" /\ \E m \in Nat : Taken(s, m)'
  BY <1>1, <1>3
<1>6. Reported(log, progress)'
  BY <1>1, <1>2, EmptySeq DEF Reported
<1> QED BY <1>1, <1>4, <1>5, <1>6 DEF LInv, Starting

LEMMA LStep == PInv /\ LInv /\ [Next]_vars => LInv'
<1> SUFFICES ASSUME PInv, LInv, [Next]_vars PROVE LInv'
  OBVIOUS
<1>t. /\ LType /\ run \in Nat /\ reader \in [Streams -> {"none", "reading", "ended"}]
      /\ ui \in Starting => \A s \in Streams : reader[s] = "none"
      /\ \A s \in Streams : reader[s] = "ended" => ~HasWriters
  BY DEF LInv, PInv, PType, PThreads, PWriters
<1>1. CASE Click \/ StopLook \/ StopPid \/ StopSet \/ StopKill \/ WaiterStep \/ ShellEnd
           \/ UNCHANGED vars
  <2>1. UNCHANGED <<run, log, progress, pending, pipe, sent>> /\ reader' = reader
    BY <1>1 DEF Click, StopLook, StopPid, StopSet, StopKill, StopKeeps, WaiterStep, WaitReturns,
         WaitFinish, WaitKeeps, ShellEnd, ProcessKeeps, vars, logging, readers, processes
  <2>2. ui' = ui \/ ui' \notin Starting
    BY <1>1 DEF Click, StopLook, StopPid, StopSet, StopKill, StopDone, Go, WaiterStep, WaitReturns,
         WaitFinish, WaitKeeps, ShellEnd, ProcessKeeps, vars, window, Starting, PInv, PType
  <2> QED BY <2>1, <2>2, LKeeps
<1>2. ASSUME NEW r, PipelineEnd(r) PROVE LInv'
  <2>1. UNCHANGED <<run, log, progress, pending, pipe, sent, ui>> /\ reader' = reader
    BY <1>2 DEF PipelineEnd, ProcessKeeps, window, logging, readers
  <2> QED BY <2>1, LKeeps
<1>3. CASE Join
  <2>1. /\ UNCHANGED <<run, log, progress, pending, pipe, sent>>
        /\ reader' = [s \in Streams |-> "none"] /\ ui' \notin Starting
    BY <1>3 DEF Join, Go, logging, processes, Starting
  <2>2. \A s \in Streams : reader'[s] \in {reader[s], "none"}
    BY <2>1
  <2> QED BY <2>1, <2>2, LKeeps
<1>4. CASE Launch
  BY <1>4, LStarts
<1>5. CASE Announce
  <2>1. /\ ui = "announce" /\ ui' = "spawn" /\ progress' = NoLine /\ reader' = reader
        /\ UNCHANGED <<run, log, pending, pipe, sent>>
    BY <1>5 DEF Announce, Go, readers, processes
  <2>2. LType'
    BY <2>1 DEF LInv, LType
  <2>3. log = <<>> /\ \A s \in Streams : pending[s] = <<>> /\ Pieces(s, 0) /\ reader[s] = "none"
    BY <2>1, <1>t DEF LInv, Starting
  <2>4. \A s \in Streams : Pieces(s, 0)'
    BY <2>1, <2>3 DEF Pieces, Stretch
  <2>5. Reported(log, progress)'
    BY <2>1, <2>3, EmptySeq DEF Reported
  <2> QED BY <2>1, <2>2, <2>3, <2>4, <2>5 DEF LInv
<1>6. CASE Spawn
  BY <1>6, LSpawns
<1>7. CASE ClearLogs
  <2>1. /\ ui = "idle" /\ log' = <<>> /\ reader' = reader
        /\ UNCHANGED <<run, progress, pending, pipe, sent, ui>>
    BY <1>7 DEF ClearLogs, window, readers, processes
  <2>2. <<>> \in Seq(LogLines) /\ \A s : In(<<>>, s) = {}
    BY EmptySeq DEF In
  <2>3. LType'
    BY <2>1, <2>2 DEF LInv, LType
  <2>4. ASSUME NEW s \in Streams, NEW m \in Nat, Taken(s, m) PROVE Taken(s, m)'
    <3>1. Pieces(s, 2 * m)'
      BY <2>1, <2>4 DEF Taken, Pieces, Stretch
    <3>2. Shown(log', s, run', m) /\ AllWhole(log', s)
      BY <2>1, <2>2 DEF Shown, AllWhole
    <3>3. Caught(s, m, m)'
      BY <2>1, <2>4 DEF Taken, Caught, NoneLost
    <3> QED BY <3>1, <3>2, <3>3 DEF Taken
  <2>5. ASSUME NEW s \in Streams, Over(s) PROVE Over(s)'
    <3>1. Shown(log', s, run', LineOf(sent'[s])) /\ FinalMayBeCut(log', s)
      BY <2>1, <2>2 DEF Shown, FinalMayBeCut
    <3>2. Caught(s, sent[s] \div 2, LineOf(sent[s]))'
      BY <2>1, <2>5 DEF Over, Caught, NoneLost, LineOf
    <3> QED BY <3>1, <3>2 DEF Over, LineOf
  <2>6. Reported(log, progress)' /\ (OfThisRun => OfThisRun')
    BY <2>1, EmptySeq DEF Reported, OfThisRun, Carries
  <2> QED BY <2>1, <2>3, <2>4, <2>5, <2>6 DEF LInv, Starting
<1>8. ASSUME NEW s \in Streams, PipelineWrite(s) PROVE LInv'
  <2>1. /\ UNCHANGED <<run, log, progress, pending, ui>> /\ reader' = reader
        /\ sent' = [sent EXCEPT ![s] = @ + 1] /\ run \in pipelines
        /\ pipe' = [pipe EXCEPT ![s] = Append(@, sent[s] + 1)]
    BY <1>8 DEF PipelineWrite, ProcessKeeps, window, logging, readers
  <2>2. LType'
    <3>1. sent[s] + 1 \in Nat /\ pipe[s] \in Seq(Nat)
      BY <1>t DEF LType
    <3>2. Append(pipe[s], sent[s] + 1) \in Seq(Nat)
      BY <3>1, AppendProperties
    <3> QED BY <1>t, <2>1, <3>1, <3>2 DEF LType
  <2>3. ASSUME NEW t \in Streams, NEW k \in Nat, Pieces(t, k) PROVE Pieces(t, k)'
    <3>1. CASE t = s
      BY <1>8, <1>t, <2>3, <3>1, PiecesWritten
    <3>2. CASE t # s
      BY <1>t, <2>1, <2>3, <3>2 DEF LType, Pieces, Stretch
    <3> QED BY <3>1, <3>2
  <2>4. ASSUME NEW t \in Streams, NEW m \in Nat, Taken(t, m) PROVE Taken(t, m)'
    <3>1. Pieces(t, 2 * m)'
      BY <2>3, <2>4 DEF Taken
    <3>2. Caught(t, m, m)'
      BY <2>1, <2>4 DEF Taken, Caught, NoneLost
    <3> QED BY <2>1, <2>4, <3>1, <3>2 DEF Taken
  <2>5. \A t \in Streams : reader[t] # "ended"
    BY <1>t, <2>1 DEF HasWriters
  <2>6. Reported(log, progress)' /\ (OfThisRun => OfThisRun')
    BY <2>1 DEF LInv, Reported, OfThisRun, Carries
  <2> QED BY <2>1, <2>2, <2>3, <2>4, <2>5, <2>6 DEF LInv
<1>9. ASSUME NEW s \in Streams, ReaderStep(s) PROVE LInv'
  <2>1. /\ reader[s] = "reading" /\ ui' = ui /\ run' = run /\ sent' = sent
        /\ ui' \notin Starting
    BY <1>9, <1>t DEF ReaderStep, Read, PushLine, EndOfPipe, ReaderKeeps, window, processes
  <2>2. PICK m \in Nat : Taken(s, m)
    BY <2>1 DEF LInv
  <2>3. ASSUME NEW t \in Streams \ {s}
        PROVE  pending'[t] = pending[t] /\ pipe'[t] = pipe[t] /\ reader'[t] = reader[t]
    BY <1>9, <1>t, <2>3 DEF ReaderStep, Read, PushLine, EndOfPipe, ReaderKeeps, LType
  <2>4. ASSUME LType', LineOfRun, \A t \in Streams \ {s} : OtherLine(t) /\ ProgressOf(t),
               \/ reader'[s] = "reading" /\ \E n \in Nat : Taken(s, n)'
               \/ reader'[s] = "ended" /\ Over(s)'
        PROVE  LInv'
    <3>1. ASSUME NEW t \in Streams
          PROVE  /\ reader'[t] = "reading" => \E n \in Nat : Taken(t, n)'
                 /\ reader'[t] = "ended" => Over(t)'
      <4>1. CASE t = s
        BY <2>4, <4>1
      <4>2. CASE t # s
        <5>1. SameStream(t) /\ OtherLine(t) /\ reader'[t] = reader[t]
          BY <2>1, <2>3, <2>4, <4>2 DEF SameStream
        <5>2. /\ \A n \in Nat : Taken(t, n) => Taken(t, n)'
              /\ Over(t) => Over(t)'
          BY <5>1, OtherStream
        <5> QED BY <5>1, <5>2 DEF LInv
      <4> QED BY <4>1, <4>2
    <3>2. /\ Reported(log, progress) => Reported(log', progress')
          /\ OfThisRun => OfThisRun'
      BY <2>1, <2>4, StillReported, StillOfThisRun DEF LineOfRun, OfThisRun, Carries
    <3>3. Reported(log, progress)' /\ OfThisRun'
      BY <2>1, <3>2 DEF LInv, Reported, Carries
    <3> QED BY <2>1, <2>4, <3>1, <3>3 DEF LInv, Starting
  <2>5. CASE Read(s)
    <3>1. reader' = reader /\ UNCHANGED <<log, progress>>
      BY <2>5 DEF Read, logging
    <3>2. Pieces(s, 2 * m)' /\ LType'
      <4>1. 2 * m \in Nat
        OBVIOUS
      <4> QED BY <1>t, <2>2, <2>5, <4>1, PiecesRead DEF Taken
    <3>3. Taken(s, m)'
      <4>1. Caught(s, m, m)'
        BY <2>1, <2>2, <3>1 DEF Taken, Caught, NoneLost
      <4> QED BY <2>1, <2>2, <3>1, <3>2, <4>1 DEF Taken
    <3> QED BY <2>1, <2>4, <3>1, <3>2, <3>3 DEF OtherLine, ProgressOf, LineOfRun
  <2>6. CASE PushLine(s)
    <3>1. reader' = reader
      BY <2>6 DEF PushLine
    <3>2. /\ Taken(s, m + 1)' /\ LType' /\ LineOfRun
          /\ \A t \in Streams \ {s} : OtherLine(t) /\ ProgressOf(t)
      BY <1>t, <2>2, <2>6, LPushes
    <3>3. m + 1 \in Nat
      OBVIOUS
    <3> QED BY <2>1, <2>4, <3>1, <3>2, <3>3
  <2>7. CASE EndOfPipe(s)
    <3>1. reader'[s] = "ended"
      BY <2>7, <1>t DEF EndOfPipe
    <3>2. /\ Over(s)' /\ LType' /\ LineOfRun
          /\ \A t \in Streams \ {s} : OtherLine(t) /\ ProgressOf(t)
      BY <1>t, <2>2, <2>7, LEnds
    <3> QED BY <2>4, <3>1, <3>2
  <2> QED BY <1>9, <2>5, <2>6, <2>7 DEF ReaderStep
<1> QED BY <1>1, <1>2, <1>3, <1>4, <1>5, <1>6, <1>7, <1>8, <1>9
        DEF Next, UiStep, ProcessStep, Stutter

-----------------------------------------------------------------------------
(* The theorems.                                                           *)

(* Threads, result and log keep to IInv: who may still write, whose exit   *)
(* code it is, and how many lines each reader has taken.                   *)
THEOREM Inductive == Spec => []IInv
<1>1. Init => IInv
  BY PInit, SInit, LInit DEF IInv
<1>2. IInv /\ [Next]_vars => IInv'
  BY PStep, SStep, LStep DEF IInv
<1> QED BY <1>1, <1>2, PTL DEF Spec

(* However often the pipeline is started, stopped or outlives its shell:   *)
(* only that of the present run can be alive, no thread waits on a handle  *)
(* that is closed, and the end of the window leaves nothing behind.        *)
THEOREM NothingIsLeft == Spec => []NothingOfAnEarlierRun
<1>1. IInv => NothingOfAnEarlierRun
  <2> SUFFICES ASSUME PInv PROVE NothingOfAnEarlierRun
    BY DEF IInv
  <2>1. ui = "gone" => handles = {} /\ pipelines = {} /\ ~shell
    <3> SUFFICES ASSUME ui = "gone" PROVE handles = {} /\ pipelines = {} /\ ~shell
      OBVIOUS
    <3>1. ~HasWriters /\ pipelines \subseteq {run} /\ handles = {}
      BY DEF PInv, PThreads, PWriters, PHandles, Starting, Streams
    <3> QED BY <3>1 DEF HasWriters
  <2> QED BY <2>1 DEF NothingOfAnEarlierRun, PInv, PWriters, PHandles
<1> QED BY <1>1, Inductive, PTL

(* A run shown as running has not been waited for to the end; the status   *)
(* after the wait, unless a stop is under way, is what the child ended with*)
THEOREM StatusTellsTheTruth == Spec => []StatusIsTrue
<1>1. IInv => StatusIsTrue
  BY DEF IInv, SInv, StatusIsTrue
<1> QED BY <1>1, Inductive, PTL

(* However the reads cut the output, whatever is cleared or dropped and    *)
(* whichever lines of either stream tell of the progress: the log shows of *)
(* each stream consecutive lines of this run, up to the last, and the      *)
(* progress is of this run, as new as the log, and at the end that of the  *)
(* last line of a stream that tells of it.                                 *)
THEOREM LogIsTrue == Spec => []LogIsOfThisRun
<1>1. IInv => LogIsOfThisRun
  <2> SUFFICES ASSUME PInv, LInv PROVE LogIsOfThisRun
    BY DEF IInv
  <2>1. reader \in [Streams -> {"none", "reading", "ended"}]
    BY DEF PInv, PType
  <2>2. ASSUME NEW s \in Streams PROVE LinesOf(s) = In(log, s)
    BY LenProperties DEF LInv, LType, LinesOf, In
  <2>3. ASSUME NEW s \in Streams, NEW i, NEW j
        PROVE  (LastOf(s, i) <=> Final(log, s, i)) /\ (Neighbours(s, i, j) <=> Adjacent(log, s, i, j))
    BY <2>2 DEF LastOf, Final, Neighbours, Adjacent
  <2>4. ASSUME NEW s \in Streams, reader[s] # "none"
        PROVE  /\ progress # NoLine => progress.run = run /\ Carries(progress)
               /\ reader[s] = "ended" => /\ NoneLost(s, sent[s] \div 2)
                                         /\ progress.stream = s => progress.n <= LineOf(sent[s])
    BY <2>4 DEF LInv, Over, Caught, OfThisRun
  <2>6. \A i \in DOMAIN log : log[i].whole /\ Carries(log[i]) =>
           \E j \in i .. Len(log) : log[j] = progress
    BY LenProperties DEF LInv, LType, Reported
  <2>5. ASSUME NEW s \in Streams, reader[s] # "none"
        PROVE  /\ \A i \in LinesOf(s) :
                     /\ log[i].run = run
                     /\ ~log[i].whole => LastOf(s, i) /\ reader[s] = "ended"
                     /\ LastOf(s, i) /\ reader[s] = "ended" => log[i].n = LineOf(sent[s])
               /\ \A i, j \in LinesOf(s) : Neighbours(s, i, j) => log[j].n = log[i].n + 1
    <3>1. CASE reader[s] = "reading"
      <4>1. PICK m \in Nat : Taken(s, m)
        BY <3>1 DEF LInv
      <4> QED BY <2>2, <2>3, <3>1, <4>1 DEF Taken, Shown, AllWhole
    <3>2. CASE reader[s] = "ended"
      <4>1. Over(s)
        BY <3>2 DEF LInv
      <4> QED BY <2>2, <2>3, <3>2, <4>1 DEF Over, Shown, FinalMayBeCut
    <3> QED BY <2>1, <2>5, <3>1, <3>2
  <2> QED BY <2>4, <2>5, <2>6 DEF LogIsOfThisRun
<1> QED BY <1>1, Inductive, PTL
=============================================================================
