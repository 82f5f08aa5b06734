--------------------------- MODULE CodexProxyJobs ---------------------------
(***************************************************************************)
(* The asynchronous job service of codex_proxy/app.py.                     *)
(*                                                                         *)
(* Actors, all real threads or processes:                                  *)
(*   - request threads running create_job and get_job;                     *)
(*   - one _run_job thread per job, which runs _execute_codex;             *)
(*   - two _pump threads per job (stdout and stderr) reading the CLI's     *)
(*     pipes line by line and appending to the job under job.lock;         *)
(*   - the codex CLI process, and any process it leaves behind holding     *)
(*     its pipes open (a "grandchild").                                    *)
(* Output is counted in lines: the n-th line of a stream is the same text  *)
(* wherever it is held, so a pipe, a collector list and job.stdout are     *)
(* described by how many lines they hold.  Wall-clock time is a small      *)
(* integer clock, used by _prune_jobs only; the CLI's timeout is the wait  *)
(* returning early, whenever the process is still running.                 *)
(***************************************************************************)
EXTENDS Naturals, FiniteSets

CONSTANTS
  Jobs,               \* job ids (uuid4().hex)
  Streams,            \* {"stdout", "stderr"}
  MaxLines,           \* lines the CLI and its grandchild write per stream
  MaxTime,            \* last value of the clock
  Retention,          \* JOB_RETENTION_SECONDS
  NoCode,             \* exit_code None
  SpawnMayFail,       \* _write_workspace or Popen may raise
  GrandchildMayHold   \* the CLI may leave a process holding its pipes

VARIABLES
  table,        \* DOMAIN of _jobs
  status,       \* job.status; "none" before the job exists
  jlines,       \* job.stdout / job.stderr, in lines
  completedAt,  \* job.completed_at; 0 is None
  runner,       \* program counter of the _run_job thread
  reply,        \* create_job's reply: "none", "waiting", or the status read
  proc,         \* the CLI process: "none", "running", "exited"
  exitCode,     \* what proc.wait returned, NoCode after the kill
  wroteOutput,  \* the CLI left output/suggestion.json behind
  grandchild,   \* "none", "alive", "gone"
  written,      \* lines written into each pipe (history)
  collected,    \* stdout_chunks / stderr_chunks, in lines
  pump,         \* "none", "reading", "done" for each pump thread
  now           \* time.time()

vars == <<table, status, jlines, completedAt, runner, reply, proc, exitCode,
          wroteOutput, grandchild, written, collected, pump, now>>
procVars == <<proc, exitCode, wroteOutput, grandchild>>

Terminal == {"succeeded", "failed"}
RunnerPcs == {"idle", "start", "launch", "wait", "join", "done", "dead"}

Init ==
  /\ table = {}
  /\ status = [j \in Jobs |-> "none"]
  /\ jlines = [j \in Jobs |-> [s \in Streams |-> 0]]
  /\ completedAt = [j \in Jobs |-> 0]
  /\ runner = [j \in Jobs |-> "idle"]
  /\ reply = [j \in Jobs |-> "none"]
  /\ proc = [j \in Jobs |-> "none"]
  /\ exitCode = [j \in Jobs |-> NoCode]
  /\ wroteOutput = [j \in Jobs |-> FALSE]
  /\ grandchild = [j \in Jobs |-> "none"]
  /\ written = [j \in Jobs |-> [s \in Streams |-> 0]]
  /\ collected = [j \in Jobs |-> [s \in Streams |-> 0]]
  /\ pump = [j \in Jobs |-> [s \in Streams |-> "none"]]
  /\ now = 1

-----------------------------------------------------------------------------
(* Request threads.                                                       *)

\* _prune_jobs: with a positive retention, drop every job whose
\* completed_at is set and older than now - retention.
Pruned ==
  IF Retention <= 0 THEN table
  ELSE {j \in table : ~(completedAt[j] # 0 /\ completedAt[j] < now - Retention)}

\* create_job up to _start_job: prune, insert the pending job, start its
\* thread.
CreateJob(j) ==
  /\ status[j] = "none"
  /\ table' = Pruned \cup {j}
  /\ status' = [status EXCEPT ![j] = "pending"]
  /\ runner' = [runner EXCEPT ![j] = "start"]
  /\ reply' = [reply EXCEPT ![j] = "waiting"]
  /\ UNCHANGED <<jlines, completedAt, procVars, written, collected, pump, now>>

\* create_job after _start_job returned: read job.status under job.lock
\* and build the CreateJobResponse.
CreateReply(j) ==
  /\ reply[j] = "waiting"
  /\ reply' = [reply EXCEPT ![j] = status[j]]
  /\ UNCHANGED <<table, status, jlines, completedAt, runner, procVars,
                 written, collected, pump, now>>

\* get_job: prune, then look the id up and snapshot it under job.lock.
\* The snapshot only reads; what changes state is the prune.
GetJob(j) ==
  /\ status[j] # "none"
  /\ table' = Pruned
  /\ UNCHANGED <<status, jlines, completedAt, runner, reply, procVars,
                 written, collected, pump, now>>

Tick ==
  /\ now < MaxTime
  /\ now' = now + 1
  /\ UNCHANGED <<table, status, jlines, completedAt, runner, reply, procVars,
                 written, collected, pump>>

-----------------------------------------------------------------------------
(* The _run_job thread.                                                   *)

\* A mutant that starts the run without marking the job running.
RunStartNoStatus(j) ==
  /\ runner[j] = "start"
  /\ runner' = [runner EXCEPT ![j] = "launch"]
  /\ UNCHANGED <<table, status, jlines, completedAt, reply, procVars, written,
                 collected, pump, now>>

RunStart(j) ==
  /\ runner[j] = "start"
  /\ status' = [status EXCEPT ![j] = "running"]
  /\ runner' = [runner EXCEPT ![j] = "launch"]
  /\ UNCHANGED <<table, jlines, completedAt, reply, procVars, written,
                 collected, pump, now>>

\* _execute_codex up to the pumps: workspace written, Popen, both pump
\* threads started.
Launch(j) ==
  /\ runner[j] = "launch"
  /\ proc' = [proc EXCEPT ![j] = "running"]
  /\ pump' = [pump EXCEPT ![j] = [s \in Streams |-> "reading"]]
  /\ runner' = [runner EXCEPT ![j] = "wait"]
  /\ UNCHANGED <<table, status, jlines, completedAt, reply, exitCode,
                 wroteOutput, grandchild, written, collected, now>>

\* _write_workspace or Popen raises (mkdtemp fails, the CLI is missing):
\* the finally removes the workspace and the exception ends the thread;
\* _run_job has no handler for it.
LaunchFails(j) ==
  /\ SpawnMayFail
  /\ runner[j] = "launch"
  /\ runner' = [runner EXCEPT ![j] = "dead"]
  /\ UNCHANGED <<table, status, jlines, completedAt, reply, procVars, written,
                 collected, pump, now>>

\* proc.wait(timeout) returns the exit code.
WaitReturns(j) ==
  /\ runner[j] = "wait"
  /\ proc[j] = "exited"
  /\ runner' = [runner EXCEPT ![j] = "join"]
  /\ UNCHANGED <<table, status, jlines, completedAt, reply, procVars, written,
                 collected, pump, now>>

\* A mutant that catches TimeoutExpired without proc.kill().
WaitTimesOutNoKill(j) ==
  /\ runner[j] = "wait"
  /\ proc[j] = "running"
  /\ runner' = [runner EXCEPT ![j] = "join"]
  /\ UNCHANGED <<table, status, jlines, completedAt, reply, procVars, written,
                 collected, pump, now>>

\* proc.wait(timeout) raises TimeoutExpired: proc.kill(), exit_code None.
\* The kill reaches the CLI only, not a process it left behind.
WaitTimesOut(j) ==
  /\ runner[j] = "wait"
  /\ proc[j] = "running"
  /\ proc' = [proc EXCEPT ![j] = "exited"]
  /\ exitCode' = [exitCode EXCEPT ![j] = NoCode]
  /\ runner' = [runner EXCEPT ![j] = "join"]
  /\ UNCHANGED <<table, status, jlines, completedAt, reply, wroteOutput,
                 grandchild, written, collected, pump, now>>

\* The error checks of _execute_codex in their order: timed out, a
\* non-zero status, the output file missing.
Failed(j) == exitCode[j] = NoCode \/ exitCode[j] # 0 \/ ~wroteOutput[j]

\* The finally joining both pumps, the result built from the collectors,
\* and _run_job's last block under job.lock: stdout and stderr replaced
\* by the joined chunks, completed_at set, the status from the error.
Finalize(j) ==
  /\ runner[j] = "join"
  /\ \A s \in Streams : pump[j][s] # "reading"
  /\ jlines' = [jlines EXCEPT ![j] = collected[j]]
  /\ completedAt' = [completedAt EXCEPT ![j] = now]
  /\ status' = [status EXCEPT ![j] = IF Failed(j) THEN "failed" ELSE "succeeded"]
  /\ runner' = [runner EXCEPT ![j] = "done"]
  /\ UNCHANGED <<table, reply, procVars, written, collected, pump, now>>

-----------------------------------------------------------------------------
(* The pump threads.                                                      *)

\* Some process still holds the write end of the pipes.
WriterOpen(j) == proc[j] = "running" \/ grandchild[j] = "alive"

\* _append_stdout / _append_stderr: the callback, under job.lock.
AppendLine(j, s) == jlines' = [jlines EXCEPT ![j][s] = @ + 1]

\* A mutant pump whose loop does not stop at the "" sentinel, counting a
\* read that returned nothing as a line.
PumpReadUnguarded(j, s) ==
  /\ pump[j][s] = "reading"
  /\ collected' = [collected EXCEPT ![j][s] = @ + 1]
  /\ AppendLine(j, s)
  /\ UNCHANGED <<table, status, completedAt, runner, reply, procVars, written,
                 pump, now>>

\* One iteration of `for chunk in iter(stream.readline, "")`: append to
\* the collector, then the callback appends to job.stdout under job.lock.
PumpRead(j, s) ==
  /\ pump[j][s] = "reading"
  /\ collected[j][s] < written[j][s]
  /\ collected' = [collected EXCEPT ![j][s] = @ + 1]
  /\ AppendLine(j, s)
  /\ UNCHANGED <<table, status, completedAt, runner, reply, procVars, written,
                 pump, now>>

\* A mutant pump that stops once the CLI is gone, unread lines or not.
PumpEofEarly(j, s) ==
  /\ pump[j][s] = "reading"
  /\ ~WriterOpen(j)
  /\ pump' = [pump EXCEPT ![j][s] = "done"]
  /\ UNCHANGED <<table, status, jlines, completedAt, runner, reply, procVars,
                 written, collected, now>>

\* readline returns "" only when the pipe is drained and every writer has
\* closed it; the finally closes the stream.
PumpEof(j, s) ==
  /\ pump[j][s] = "reading"
  /\ collected[j][s] = written[j][s]
  /\ ~WriterOpen(j)
  /\ pump' = [pump EXCEPT ![j][s] = "done"]
  /\ UNCHANGED <<table, status, jlines, completedAt, runner, reply, procVars,
                 written, collected, now>>

-----------------------------------------------------------------------------
(* The CLI process and what it leaves behind (the environment).           *)

CliWrite(j, s) ==
  /\ WriterOpen(j)
  /\ written[j][s] < MaxLines
  /\ written' = [written EXCEPT ![j][s] = @ + 1]
  /\ UNCHANGED <<table, status, jlines, completedAt, runner, reply, procVars,
                 collected, pump, now>>

CliSpawn(j) ==
  /\ GrandchildMayHold
  /\ proc[j] = "running"
  /\ grandchild[j] = "none"
  /\ grandchild' = [grandchild EXCEPT ![j] = "alive"]
  /\ UNCHANGED <<table, status, jlines, completedAt, runner, reply, proc,
                 exitCode, wroteOutput, written, collected, pump, now>>

\* The CLI exits with a status, having written suggestion.json or not.
CliExit(j) ==
  /\ proc[j] = "running"
  /\ proc' = [proc EXCEPT ![j] = "exited"]
  /\ \E code \in {0, 1}, out \in BOOLEAN :
       /\ exitCode' = [exitCode EXCEPT ![j] = code]
       /\ wroteOutput' = [wroteOutput EXCEPT ![j] = out]
  /\ UNCHANGED <<table, status, jlines, completedAt, runner, reply, grandchild,
                 written, collected, pump, now>>

GrandchildExit(j) ==
  /\ grandchild[j] = "alive"
  /\ grandchild' = [grandchild EXCEPT ![j] = "gone"]
  /\ UNCHANGED <<table, status, jlines, completedAt, runner, reply, proc,
                 exitCode, wroteOutput, written, collected, pump, now>>

-----------------------------------------------------------------------------
RunnerStep(j) ==
  \/ RunStart(j) \/ Launch(j) \/ LaunchFails(j)
  \/ WaitReturns(j) \/ WaitTimesOut(j) \/ Finalize(j)

Next ==
  \/ Tick
  \/ \E j \in Jobs :
       \/ CreateJob(j) \/ CreateReply(j) \/ GetJob(j)
       \/ RunnerStep(j)
       \/ CliSpawn(j) \/ CliExit(j) \/ GrandchildExit(j)
       \/ \E s \in Streams : PumpRead(j, s) \/ PumpEof(j, s) \/ CliWrite(j, s)

Spec == Init /\ [][Next]_vars

\* Threads are scheduled fairly by the OS; proc.wait(timeout) always
\* returns, by exit or by timeout.  Neither the CLI nor a process it left
\* behind is assumed to ever exit.
FairSpec ==
  /\ Spec
  /\ \A j \in Jobs :
       /\ WF_vars(CreateReply(j))
       /\ WF_vars(RunnerStep(j))
       /\ \A s \in Streams : WF_vars(PumpRead(j, s)) /\ WF_vars(PumpEof(j, s))

-----------------------------------------------------------------------------
TypeOK ==
  /\ table \subseteq Jobs
  /\ status \in [Jobs -> {"none", "pending", "running"} \cup Terminal]
  /\ runner \in [Jobs -> RunnerPcs]
  /\ reply \in [Jobs -> {"none", "waiting", "pending", "running"} \cup Terminal]
  /\ proc \in [Jobs -> {"none", "running", "exited"}]
  /\ exitCode \in [Jobs -> {NoCode, 0, 1}]
  /\ grandchild \in [Jobs -> {"none", "alive", "gone"}]
  /\ \A j \in Jobs, s \in Streams :
       /\ collected[j][s] <= written[j][s]
       /\ written[j][s] <= MaxLines
       /\ pump[j][s] \in {"none", "reading", "done"}
  /\ completedAt \in [Jobs -> 0..MaxTime]
  /\ now \in 1..MaxTime

\* A finished job holds every line the CLI, or anything it left behind,
\* wrote on either stream: the pumps drained the pipes to the end before
\* _run_job overwrote job.stdout and job.stderr.
FinalOutputComplete ==
  \A j \in Jobs : status[j] \in Terminal => jlines[j] = written[j]

\* The job endpoints implement JobApi: status only moves forward, the
\* output a poller sees only grows, and it is frozen once the job is over.
Api == INSTANCE JobApi WITH state <- status, out <- jlines
ApiRefinement == Api!Spec

\* The pipes of every job are eventually released for good (no process the
\* CLI left behind holds them forever), and no launch raised.
PipesReleased ==
  \A j \in Jobs : <>[](grandchild[j] # "alive") /\ [](runner[j] # "dead")

\* With the threads scheduled fairly, the endpoints also keep JobApi's
\* promise that every job starts and ends, unless a leftover process holds
\* the pipes forever or the launch raised (the two ways JobCompletes fails).
ApiFairRefinement == PipesReleased => Api!Fairness

\* Every job whose thread was started reaches succeeded or failed.
JobCompletes == \A j \in Jobs : status[j] # "none" ~> status[j] \in Terminal

\* CreateJobResponse declares status Literal["pending", "running"]: the
\* status create_job reads back is one of those two.
CreateReplyLive == \A j \in Jobs : reply[j] \notin Terminal
=============================================================================
