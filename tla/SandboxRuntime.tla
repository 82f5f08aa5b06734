--------------------------- MODULE SandboxRuntime ---------------------------
(***************************************************************************)
(* The sandbox child process of the catalog service                       *)
(* (src/services/catalog/src/jobs/sandbox/pythonChild.py): one asyncio    *)
(* event loop running main(), the dispatcher task and the handler task,    *)
(* fed by a stdin reader thread, talking to the parent supervisor by       *)
(* line-delimited JSON.                                                    *)
(*                                                                         *)
(* Every action is one step of one asyncio task, from the point where it   *)
(* resumes to its next suspension: the loop is single threaded, so no two  *)
(* task steps overlap.  The parent process is the environment: it writes   *)
(* start, responses, cancels and finally closes stdin; the reader thread   *)
(* turns each line into one put on message_queue.  The handler is         *)
(* untrusted user code, so what it does between two awaits is a           *)
(* nondeterministic choice: issue requests (one, or several gathered),     *)
(* await a future that never completes, return, or raise.                  *)
(***************************************************************************)
EXTENDS Naturals, FiniteSets, SequencesExt

CONSTANTS
  RequestIds,     \* the uuid4 request ids the handler can draw (finite)
  Reasons,        \* reasons the parent may put in a cancel message
  NoReason,       \* a cancel message without "reason"
  MaxGather,      \* most requests a handler awaits at once (asyncio.gather)
  MaxCancels,     \* bound on cancel messages the parent sends
  MaxDuplicates,  \* bound on repeated responses for one request id
  SetupMayFail,   \* TRUE: entry check, dependency install or load may raise
  HandlerMayHang, \* TRUE: the handler may await a future nobody completes
  ParentMayClose  \* TRUE: the parent may close stdin while the child runs

ASSUME NoReason \notin Reasons
ASSUME MaxGather \in Nat \ {0}
ASSUME MaxCancels \in Nat /\ MaxDuplicates \in Nat
ASSUME {SetupMayFail, HandlerMayHang, ParentMayClose} \subseteq BOOLEAN

Kinds == {"update", "resolve-secret"}

\* Wire types of the request a kind sends and the response that answers it.
RequestType(k)  == IF k = "update" THEN "update-request" ELSE "resolve-secret-request"
ResponseType(k) == IF k = "update" THEN "update-response" ELSE "resolve-secret-response"

\* Inbound messages.  The sentinels carry "_internal" instead of "type", as
\* in the code; MsgType is message.get("type").
StartMsg          == [type |-> "start"]
CancelMsg(r)      == [type |-> "cancel", reason |-> r]
ResponseMsg(k, id, ok) == [type |-> ResponseType(k), requestId |-> id, ok |-> ok]
EofMsg            == [internal |-> "eof"]
ShutdownMsg       == [internal |-> "shutdown"]
MsgType(m)        == IF "type" \in DOMAIN m THEN m.type ELSE "none"
IsInternal(m, s)  == "internal" \in DOMAIN m /\ m.internal = s

\* Outbound messages (stdout).  Payloads are abstracted away.
DefaultCancelMessage == "Sandbox execution cancelled"
HandlerErrorMessage  == "Handler threw error"
IsTerminal(m) == m.type \in {"result", "error"}

VARIABLES
  message_queue,        \* asyncio.Queue filled by stdin_reader
  pending_requests,     \* request id -> kind, the pending_requests dict
  future,               \* request id -> state of the future awaited for it
  current_handler_task, \* main's global: TRUE while it names the handler task
  cancel_reason,        \* the global cancel_reason
  main_pc,              \* where main() is
  dispatcher_task,      \* state of the dispatch_messages() task
  handler_task,         \* state of the execute_start() task
  must_cancel,          \* Task.cancel() was called on the handler task
  awaiting,             \* request ids the handler awaits; {} = a future nobody completes
  stdout,               \* every message written by send_message, in order
  stdin_open,           \* the parent has not closed stdin
  start_sent,           \* the parent has written the start message
  responses_sent,       \* request id -> number of responses the parent wrote
  cancels_sent,         \* number of cancel messages the parent wrote
  cancel_delivered      \* history: a cancel reached the handler task while it was live

vars == <<message_queue, pending_requests, future, current_handler_task,
          cancel_reason, main_pc, dispatcher_task, handler_task, must_cancel,
          awaiting, stdout, stdin_open, start_sent, responses_sent,
          cancels_sent, cancel_delivered>>
loopVars   == <<current_handler_task, main_pc, dispatcher_task>>
parentVars == <<stdin_open, start_sent, responses_sent, cancels_sent>>

FutureStates == {"unused", "pending", "ok", "failed", "cancelled"}
Done == {"ok", "failed", "cancelled"}
Finished == {"exited", "crashed"}

TerminalMessages == SelectSeq(stdout, IsTerminal)
Requested(id) == \E i \in DOMAIN stdout :
                   /\ stdout[i].type \in {RequestType(k) : k \in Kinds}
                   /\ stdout[i].requestId = id
KindOf(id) == CHOOSE k \in Kinds :
                \E i \in DOMAIN stdout : stdout[i] = [type |-> RequestType(k), requestId |-> id]
CancelMessage(reason) == IF reason = NoReason THEN DefaultCancelMessage ELSE reason

-----------------------------------------------------------------------------
(* Initially main() is about to await the start message; the queue is    *)
(* empty and no request has been drawn.                                  *)
Init ==
  /\ message_queue = <<>>
  /\ pending_requests = [id \in {} |-> "update"]
  /\ future = [id \in RequestIds |-> "unused"]
  /\ current_handler_task = FALSE
  /\ cancel_reason = NoReason
  /\ main_pc = "wait_for_start"
  /\ dispatcher_task = "none"
  /\ handler_task = "none"
  /\ must_cancel = FALSE
  /\ awaiting = {}
  /\ stdout = <<>>
  /\ stdin_open = TRUE
  /\ start_sent = FALSE
  /\ responses_sent = [id \in RequestIds |-> 0]
  /\ cancels_sent = 0
  /\ cancel_delivered = FALSE

-----------------------------------------------------------------------------
(* The parent supervisor, seen through stdin_reader: each line it writes *)
(* becomes one put on message_queue; closing stdin puts the eof sentinel.*)
(* Nothing is written once the child has exited.                         *)
ParentSendStart ==
  /\ main_pc \notin Finished /\ stdin_open /\ ~start_sent
  /\ start_sent' = TRUE
  /\ message_queue' = Append(message_queue, StartMsg)
  /\ UNCHANGED <<pending_requests, future, cancel_reason, must_cancel, awaiting,
                 stdout, loopVars, handler_task, stdin_open, responses_sent,
                 cancels_sent, cancel_delivered>>

\* A response to a request the child wrote; answered once, plus duplicates.
ParentRespond(id, ok) ==
  /\ main_pc \notin Finished /\ stdin_open
  /\ Requested(id)
  /\ responses_sent[id] <= MaxDuplicates
  /\ responses_sent' = [responses_sent EXCEPT ![id] = @ + 1]
  /\ message_queue' = Append(message_queue, ResponseMsg(KindOf(id), id, ok))
  /\ UNCHANGED <<pending_requests, future, cancel_reason, must_cancel, awaiting,
                 stdout, loopVars, handler_task, stdin_open, start_sent,
                 cancels_sent, cancel_delivered>>

ParentAnswer(id) == responses_sent[id] = 0 /\ \E ok \in BOOLEAN : ParentRespond(id, ok)

ParentCancel(reason) ==
  /\ main_pc \notin Finished /\ stdin_open
  /\ cancels_sent < MaxCancels
  /\ cancels_sent' = cancels_sent + 1
  /\ message_queue' = Append(message_queue, CancelMsg(reason))
  /\ UNCHANGED <<pending_requests, future, cancel_reason, must_cancel, awaiting,
                 stdout, loopVars, handler_task, stdin_open, start_sent,
                 responses_sent, cancel_delivered>>

\* stdin_reader leaves its loop at end of stream and puts the eof sentinel.
ParentCloseStdin ==
  /\ ParentMayClose /\ main_pc \notin Finished /\ stdin_open
  /\ stdin_open' = FALSE
  /\ message_queue' = Append(message_queue, EofMsg)
  /\ UNCHANGED <<pending_requests, future, cancel_reason, must_cancel, awaiting,
                 stdout, loopVars, handler_task, start_sent, responses_sent,
                 cancels_sent, cancel_delivered>>

-----------------------------------------------------------------------------
(* main(): wait_for_start, create both tasks, await the handler, then    *)
(* shut the dispatcher down.                                             *)

\* wait_for_start drops every message before the first start (eof too).
WaitForStartDiscard ==
  /\ main_pc = "wait_for_start"
  /\ message_queue # <<>>
  /\ MsgType(Head(message_queue)) # "start"
  /\ message_queue' = Tail(message_queue)
  /\ UNCHANGED <<pending_requests, future, cancel_reason, must_cancel, awaiting,
                 stdout, loopVars, handler_task, parentVars, cancel_delivered>>

\* The start message: create_task(dispatch_messages()), then
\* current_handler_task = create_task(execute_start(...)), then await it.
\* Both tasks are only scheduled; neither has run yet.
ReceiveStart ==
  /\ main_pc = "wait_for_start"
  /\ message_queue # <<>>
  /\ MsgType(Head(message_queue)) = "start"
  /\ message_queue' = Tail(message_queue)
  /\ main_pc' = "await_handler"
  /\ dispatcher_task' = "running"
  /\ handler_task' = "scheduled"
  /\ current_handler_task' = TRUE
  /\ UNCHANGED <<pending_requests, future, cancel_reason, must_cancel, awaiting,
                 stdout, parentVars, cancel_delivered>>

\* Variant of MainHandlerReturned that never puts the shutdown sentinel.
MainHandlerReturnedNoShutdown ==
  /\ main_pc = "await_handler"
  /\ handler_task = "finished"
  /\ current_handler_task' = FALSE
  /\ main_pc' = "await_dispatcher"
  /\ UNCHANGED <<message_queue, pending_requests, future, cancel_reason, must_cancel,
                 awaiting, stdout, dispatcher_task, handler_task, parentVars,
                 cancel_delivered>>

\* execute_start returned: clear the task, put the shutdown sentinel and
\* await the dispatcher.
MainHandlerReturned ==
  /\ main_pc = "await_handler"
  /\ handler_task = "finished"
  /\ current_handler_task' = FALSE
  /\ message_queue' = Append(message_queue, ShutdownMsg)
  /\ main_pc' = "await_dispatcher"
  /\ UNCHANGED <<pending_requests, future, cancel_reason, must_cancel, awaiting,
                 stdout, dispatcher_task, handler_task, parentVars, cancel_delivered>>

\* execute_start raised or was cancelled: "await current_handler_task"
\* re-raises in main(), asyncio.run cancels the dispatcher and the process
\* dies with a traceback on stderr.
MainHandlerFailed ==
  /\ main_pc = "await_handler"
  /\ handler_task \in {"raised", "cancelled"}
  /\ main_pc' = "crashed"
  /\ dispatcher_task' = "cancelled"
  /\ UNCHANGED <<message_queue, pending_requests, future, cancel_reason,
                 must_cancel, awaiting, stdout, current_handler_task,
                 handler_task, parentVars, cancel_delivered>>

MainExit ==
  /\ main_pc = "await_dispatcher"
  /\ dispatcher_task = "done"
  /\ main_pc' = "exited"
  /\ UNCHANGED <<message_queue, pending_requests, future, cancel_reason,
                 must_cancel, awaiting, stdout, current_handler_task,
                 dispatcher_task, handler_task, parentVars, cancel_delivered>>

-----------------------------------------------------------------------------
(* dispatch_messages() and handle_parent_message().  queue.get() does   *)
(* not suspend while the queue is non-empty, so the task handles         *)
(* message after message; each is one action here, which only adds the   *)
(* interleavings a later arrival of the next line would produce anyway.  *)

\* future.set_result / set_exception, both behind "if not future.done()".
Settle(id, outcome) ==
  future' = [future EXCEPT ![id] = IF @ = "pending" THEN outcome ELSE @]

\* update-response and resolve-secret-response: pop the id; an unknown or
\* already popped id is ignored; otherwise complete the waiter.
\* Variant of HandleResponse that forgets the set_exception branch: a
\* failed response pops the id but never completes its waiter.
HandleResponseNoFailure(m) ==
  /\ IF m.requestId \in DOMAIN pending_requests
       THEN /\ pending_requests' = [id \in DOMAIN pending_requests \ {m.requestId} |->
                                      pending_requests[id]]
            /\ IF m.ok THEN Settle(m.requestId, "ok") ELSE UNCHANGED future
       ELSE UNCHANGED <<pending_requests, future>>
  /\ UNCHANGED <<cancel_reason, must_cancel, cancel_delivered>>

HandleResponse(m) ==
  /\ IF m.requestId \in DOMAIN pending_requests
       THEN /\ pending_requests' = [id \in DOMAIN pending_requests \ {m.requestId} |->
                                      pending_requests[id]]
            /\ Settle(m.requestId, IF m.ok THEN "ok" ELSE "failed")
       ELSE UNCHANGED <<pending_requests, future>>
  /\ UNCHANGED <<cancel_reason, must_cancel, cancel_delivered>>

\* Task.cancel() on the handler task: a task that has not started or is
\* suspended gets _must_cancel and the futures it awaits are cancelled
\* (through gather, every child's future); a finished task ignores it.
HandlerLive == current_handler_task /\ handler_task \in {"scheduled", "awaiting"}

\* Variant of CancelHandlerTask in which the cancel branch only records the
\* reason and never calls current_handler_task.cancel().
CancelHandlerTaskDropped == UNCHANGED <<must_cancel, future>>

CancelHandlerTask ==
  IF HandlerLive
    THEN /\ must_cancel' = TRUE
         /\ future' = [id \in RequestIds |->
                         IF id \in awaiting /\ future[id] = "pending"
                           THEN "cancelled" ELSE future[id]]
    ELSE UNCHANGED <<must_cancel, future>>

\* cancel_delivered only observes that the cancel met a live handler task.
\* Variant of HandleCancel that stores the whole message, not its reason.
HandleCancelWholeMessage(m) ==
  /\ cancel_reason' = m
  /\ cancel_delivered' = (cancel_delivered \/ HandlerLive)
  /\ CancelHandlerTask
  /\ UNCHANGED pending_requests

HandleCancel(m) ==
  /\ cancel_reason' = m.reason
  /\ cancel_delivered' = (cancel_delivered \/ HandlerLive)
  /\ CancelHandlerTask
  /\ UNCHANGED pending_requests

\* Every other message (a second start, the eof sentinel) is ignored.
HandleParentMessage(m) ==
  CASE MsgType(m) \in {ResponseType(k) : k \in Kinds} -> HandleResponse(m)
    [] MsgType(m) = "cancel"                        -> HandleCancel(m)
    [] OTHER -> UNCHANGED <<pending_requests, future, cancel_reason,
                            must_cancel, cancel_delivered>>

DispatchMessage ==
  /\ dispatcher_task = "running"
  /\ message_queue # <<>>
  /\ ~IsInternal(Head(message_queue), "shutdown")
  /\ message_queue' = Tail(message_queue)
  /\ HandleParentMessage(Head(message_queue))
  /\ UNCHANGED <<loopVars, handler_task, awaiting, stdout, parentVars>>

DispatchShutdown ==
  /\ dispatcher_task = "running"
  /\ message_queue # <<>>
  /\ IsInternal(Head(message_queue), "shutdown")
  /\ message_queue' = Tail(message_queue)
  /\ dispatcher_task' = "done"
  /\ UNCHANGED <<pending_requests, future, cancel_reason, must_cancel, awaiting,
                 stdout, current_handler_task, main_pc, handler_task,
                 parentVars, cancel_delivered>>

-----------------------------------------------------------------------------
(* execute_start(): the handler task.  Each action runs the task from    *)
(* where it resumes to its next await, or to its end.                    *)

\* Both except-branches fail every pending waiter not yet done, then
\* pending_requests.clear().
\* Variant that clears pending_requests without failing the waiters.
DrainPendingRequestsClearOnly ==
  /\ UNCHANGED future
  /\ pending_requests' = [id \in {} |-> "update"]

DrainPendingRequests ==
  /\ future' = [id \in RequestIds |->
                  IF id \in DOMAIN pending_requests /\ future[id] = "pending"
                    THEN "failed" ELSE future[id]]
  /\ pending_requests' = [id \in {} |-> "update"]

\* ctx.update / ctx.resolveSecret, several of them under asyncio.gather:
\* each draws a fresh uuid4, registers (kind, future) in pending_requests,
\* writes its request and awaits the future.
CallContext(S, kind) ==
  /\ pending_requests' = [id \in DOMAIN pending_requests \cup S |->
                            IF id \in S THEN kind[id] ELSE pending_requests[id]]
  /\ future' = [id \in RequestIds |-> IF id \in S THEN "pending" ELSE future[id]]
  /\ stdout' = stdout \o [i \in 1..Cardinality(S) |->
                            [type |-> RequestType(kind[SetToSeq(S)[i]]),
                             requestId |-> SetToSeq(S)[i]]]
  /\ awaiting' = S
  /\ handler_task' = "awaiting"

\* The handler awaits something the parent never completes (a sleep, a
\* bare future); only a cancel wakes it.
AwaitForever ==
  /\ HandlerMayHang
  /\ awaiting' = {}
  /\ handler_task' = "awaiting"
  /\ UNCHANGED <<pending_requests, future, stdout>>

\* The handler returned: to_json_value, sanitize_for_ipc and one result
\* message.  pending_requests is left as it is.
ReturnResult ==
  /\ stdout' = Append(stdout, [type |-> "result"])
  /\ handler_task' = "finished"
  /\ awaiting' = {}
  /\ UNCHANGED <<pending_requests, future>>

\* except Exception: log the traceback, drain, write the error.
HandlerThrew ==
  /\ DrainPendingRequests
  /\ stdout' = stdout \o <<[type |-> "log", level |-> "error"],
                           [type |-> "error", message |-> HandlerErrorMessage]>>
  /\ handler_task' = "finished"
  /\ awaiting' = {}

\* Variant of HandlerCancelled that drains but never writes the error.
HandlerCancelledSilently ==
  /\ DrainPendingRequests
  /\ UNCHANGED stdout
  /\ handler_task' = "finished"
  /\ awaiting' = {}

\* except asyncio.CancelledError: drain with the cancel message, write it.
HandlerCancelled ==
  /\ DrainPendingRequests
  /\ stdout' = Append(stdout, [type |-> "error", message |-> CancelMessage(cancel_reason)])
  /\ handler_task' = "finished"
  /\ awaiting' = {}

FreshIds == {id \in RequestIds : future[id] = "unused"}

\* What the user's handler does until it next suspends or ends.
HandlerCode ==
  \/ \E S \in SUBSET FreshIds :
       /\ S # {} /\ Cardinality(S) <= MaxGather
       /\ \E kind \in [S -> Kinds] : CallContext(S, kind)
  \/ AwaitForever
  \/ ReturnResult
  \/ HandlerThrew

\* The first step of the task.  A cancel that came before it throws
\* CancelledError at the top of the coroutine, outside the try.  Otherwise
\* the setup (entry containment, chdir, guards, dependencies, loading,
\* handler lookup) runs without awaiting and either raises, also outside
\* the try, or calls the handler, whose code runs to its first await.
HandlerBegin ==
  /\ handler_task = "scheduled"
  /\ \/ /\ must_cancel
        /\ handler_task' = "cancelled"
        /\ UNCHANGED <<pending_requests, future, stdout, awaiting>>
     \/ /\ ~must_cancel /\ SetupMayFail
        /\ handler_task' = "raised"
        /\ UNCHANGED <<pending_requests, future, stdout, awaiting>>
     \/ /\ ~must_cancel
        /\ HandlerCode
  /\ UNCHANGED <<message_queue, loopVars, cancel_reason, must_cancel,
                 parentVars, cancel_delivered>>

\* gather wakes the handler when every future succeeded or one failed.
GatherSucceeded == awaiting # {} /\ \A id \in awaiting : future[id] = "ok"
GatherFailed    == awaiting # {} /\ \E id \in awaiting : future[id] = "failed"

\* The handler task resumes.  A pending cancel wins over any result the
\* awaited futures carry; a failed request raises RuntimeError into the
\* handler, which may catch it and go on.
HandlerResume ==
  /\ handler_task = "awaiting"
  /\ \/ must_cancel /\ HandlerCancelled
     \/ ~must_cancel /\ GatherFailed /\ (HandlerThrew \/ HandlerCode)
     \/ ~must_cancel /\ GatherSucceeded /\ HandlerCode
  /\ UNCHANGED <<message_queue, loopVars, cancel_reason, must_cancel,
                 parentVars, cancel_delivered>>

-----------------------------------------------------------------------------
Next ==
  \/ ParentSendStart
  \/ \E id \in RequestIds, ok \in BOOLEAN : ParentRespond(id, ok)
  \/ \E r \in Reasons \cup {NoReason} : ParentCancel(r)
  \/ ParentCloseStdin
  \/ WaitForStartDiscard
  \/ ReceiveStart
  \/ MainHandlerReturned
  \/ MainHandlerFailed
  \/ MainExit
  \/ DispatchMessage
  \/ DispatchShutdown
  \/ HandlerBegin
  \/ HandlerResume

Spec == Init /\ [][Next]_vars

(* The event loop runs every ready task, so each task step is weakly     *)
(* fair.  Of the parent only this is assumed: it sends start and answers *)
(* every request once.  Cancels, duplicates and closing stdin are never  *)
(* forced.                                                               *)
LoopFairness ==
  /\ WF_vars(WaitForStartDiscard) /\ WF_vars(ReceiveStart)
  /\ WF_vars(MainHandlerReturned) /\ WF_vars(MainHandlerFailed)
  /\ WF_vars(MainExit)
  /\ WF_vars(DispatchMessage) /\ WF_vars(DispatchShutdown)
  /\ WF_vars(HandlerBegin) /\ WF_vars(HandlerResume)

ParentFairness ==
  /\ WF_vars(ParentSendStart)
  /\ \A id \in RequestIds : WF_vars(ParentAnswer(id))

FairSpec == Spec /\ LoopFairness /\ ParentFairness

-----------------------------------------------------------------------------
TypeOK ==
  /\ message_queue \in Seq([type : {"start"}] \cup [type : {"cancel"}, reason : Reasons \cup {NoReason}]
                           \cup [type : {ResponseType(k) : k \in Kinds}, requestId : RequestIds, ok : BOOLEAN]
                           \cup [internal : {"eof", "shutdown"}])
  /\ DOMAIN pending_requests \subseteq RequestIds
  /\ \A id \in DOMAIN pending_requests : pending_requests[id] \in Kinds
  /\ future \in [RequestIds -> FutureStates]
  /\ current_handler_task \in BOOLEAN
  /\ cancel_reason \in Reasons \cup {NoReason}
  /\ main_pc \in {"wait_for_start", "await_handler", "await_dispatcher"} \cup Finished
  /\ dispatcher_task \in {"none", "running", "done", "cancelled"}
  /\ handler_task \in {"none", "scheduled", "awaiting", "finished", "raised", "cancelled"}
  /\ must_cancel \in BOOLEAN
  /\ awaiting \subseteq RequestIds
  /\ stdin_open \in BOOLEAN /\ start_sent \in BOOLEAN
  /\ responses_sent \in [RequestIds -> 0..(MaxDuplicates + 1)]
  /\ cancels_sent \in 0..MaxCancels
  /\ cancel_delivered \in BOOLEAN

-----------------------------------------------------------------------------
(* Safety.                                                               *)

(* Every waiter still blocked on a request is in pending_requests, so the *)
(* parent's response or the drain of the except-branches can still       *)
(* release it.  It is about the pop in handle_parent_message and the     *)
(* fail-then-clear of execute_start's except-branches, under gathered    *)
(* requests, cancels, failures the handler catches and duplicates.       *)
WaiterReachable ==
  \A id \in RequestIds : future[id] = "pending" => id \in DOMAIN pending_requests

(* Once a cancel has reached the handler task while it was still live,   *)
(* the child writes nothing but the one cancellation error carrying the  *)
(* parent's latest reason: no result, no further request, no handler     *)
(* error.  It is about handle_parent_message's cancel branch racing the  *)
(* responses that complete the futures the handler awaits.               *)
CancelWins ==
  [][cancel_delivered =>
       \A i \in (Len(stdout) + 1)..Len(stdout') :
         stdout'[i] = [type |-> "error", message |-> CancelMessage(cancel_reason')]]_vars

(* When the child exits normally it has reported the job exactly once:   *)
(* one result or one error on stdout, whatever the handler, the parent's *)
(* responses and its cancels did.                                        *)
ExitReported ==
  main_pc = "exited" => Len(TerminalMessages) = 1

(* Spec section 7: a failing start is also reported on stdout.  Whenever *)
(* the child process ends, normally or not, it has written exactly one   *)
(* result or error message.                                              *)
JobReported ==
  main_pc \in Finished => Len(TerminalMessages) = 1

-----------------------------------------------------------------------------
(* Liveness.                                                             *)

(* The child process ends whenever the parent keeps stdin open and the   *)
(* handler only ever awaits its own requests (the parent answering each  *)
(* of them is in ParentFairness): duplicates, failures, gathers, cancels *)
(* and setup failures included.                                          *)
Termination ==
  ([]stdin_open /\ [](handler_task = "awaiting" => awaiting # {}))
    => <>(main_pc \in Finished)

(* A cancel that reaches the live handler task ends the process even if  *)
(* the handler awaits something that never completes and the parent     *)
(* then closes stdin.                                                    *)
CancelLeadsToExit == cancel_delivered ~> (main_pc \in Finished)
=============================================================================
