------------------------- MODULE ForwardingHandler -------------------------
(***************************************************************************)
(* FORWARDING_HANDLER: one request forwarded to the back-end process over  *)
(* WinHTTP.  Callbacks of WinHTTP and completions of IIS take turns: each  *)
(* starts one asynchronous operation of the other side, or posts an IIS    *)
(* completion, and the request ends once WinHTTP has confirmed that the    *)
(* last handle is closed.  Callbacks, completions and TerminateRequest     *)
(* hold m_RequestLock exclusively, so each is one step; only callbacks for *)
(* the web socket share it (WebSocketHandler).  A callback that WinHTTP    *)
(* delivers on the stack of the call that caused it is a step right after  *)
(* that call.  Sizes are counted in chunks; header text, error pages and   *)
(* buffers are left out, and so is response buffering: the buffer limit of *)
(* PROTOCOL_CONFIG is always 0.                                            *)
(***************************************************************************)
EXTENDS WebSocketHandler

CONSTANTS
  MaxBody,         \* chunks of a request body
  MaxResponse      \* chunks of a response

ASSUME SizeAssumption == MaxBody \in Nat \ {0} /\ MaxResponse \in Nat \ {0}

Infinite == -1           \* m_BytesToReceive of a chunked body

VARIABLES
  op,              \* the WinHTTP operation of the request handle, or "none"
  iis,             \* the IIS operation of the request, or "none"
  left,            \* what the client and the back-end have still to send
  exec,            \* OnExecuteRequestHandler: its place and its result
  notify,          \* the thread in ASYNC_DISCONNECT_CONTEXT::NotifyDisconnect
  returned         \* the final status IIS has got, "none", or "faulted"

httpVars == <<op, iis, left>>
vars == <<h, wsVars, httpVars, exec, notify, returned>>

Final == {"continue", "finish"}
Ended == returned \in Final
Alive == returned # "faulted"

\* The constructor leaves fields unset.  m_hRequest is not read before it is
\* set, m_cContentLength not before HeadersAvailable, which leaves it open
\* what it is; for the others see UnsetMemory.
NewHandler(upgrade, length) ==
  [status |-> "START", upgrade |-> upgrade, hRequest |-> FALSE, http |-> "none",
   handlers |-> 1, httpInClose |-> FALSE, wsInClose |-> FALSE, webSocket |-> FALSE,
   toReceive |-> length, content |-> 0, hasError |-> FALSE, finish |-> FALSE,
   done |-> FALSE, disconnected |-> FALSE, pDisconnect |-> FALSE,
   handlerSet |-> FALSE, refs |-> 1, posts |-> 0, reset |-> FALSE]

\* m_fWebSocketEnabled and the length of the body are read off the request
\* before anything depends on them.
Init ==
  /\ \E upgrade \in BOOLEAN, length \in {Infinite} \cup 0 .. MaxBody :
       h = NewHandler(upgrade, length)
  /\ WsInit
  /\ op = "none" /\ iis = "none"
  /\ left = [body |-> MaxBody, response |-> MaxResponse]
  /\ exec = [pc |-> "start", ret |-> "none"]
  /\ notify = "none"
  /\ returned = "none"

(***************************************************************************)
(* What the handlers do to the object.                                     *)
(***************************************************************************)

\* The context is exchanged with NULL, so one of ResetHandler and
\* NotifyDisconnect releases the reference.
RemoveRequest(x) ==
  IF x.pDisconnect /\ x.handlerSet
  THEN [x EXCEPT !.pDisconnect = FALSE, !.handlerSet = FALSE, !.refs = @ - 1]
  ELSE [x EXCEPT !.pDisconnect = FALSE]

CloseRequest(x) ==
  IF x.hRequest /\ ~x.httpInClose
  THEN [x EXCEPT !.httpInClose = TRUE, !.hRequest = FALSE, !.http = "closing"]
  ELSE x

PostCompletion(x) == [x EXCEPT !.posts = @ + 1]

\* Mutant: the error is not remembered.
ForgetsError(x) == [x EXCEPT !.status = "DONE"]

\* The error labels: the first error decides the answer of the client.
WinHttpFailure(x) ==
  IF x.hasError THEN x ELSE [x EXCEPT !.status = "DONE", !.hasError = TRUE]

\* Failures of the web socket reset the connection in Cleanup.
TerminatesWebSocket(x) == x.webSocket /\ ~x.wsInClose

ResetsClient(x) ==
  IF TerminatesWebSocket(x)
  THEN [x EXCEPT !.wsInClose = TRUE, !.reset = @ \/ ~ws.cleanup]
  ELSE x

(***************************************************************************)
(* OnExecuteRequestHandler.                                                *)
(***************************************************************************)
\* The checks, GetProcess, and WinHttpOpenRequest if it fails.
ExecuteFails ==
  /\ exec.pc = "start"
  /\ h' = [h EXCEPT !.status = "DONE", !.refs = @ + 1]
  /\ exec' = [pc |-> "dereference", ret |-> "finish"]
  /\ UNCHANGED <<wsVars, httpVars, notify, returned>>

\* CreateWinHttpRequest fails after the handle was opened.
CreateWinHttpRequestFails ==
  /\ exec.pc = "start"
  /\ h' = [h EXCEPT !.status = "DONE", !.refs = @ + 1,
                    !.hRequest = TRUE, !.http = "open"]
  /\ exec' = [pc |-> "dereference", ret |-> "finish"]
  /\ UNCHANGED <<wsVars, httpVars, notify, returned>>

\* The handle is open and the request is known to the disconnect context.
SetHandler ==
  /\ exec.pc = "start"
  /\ h' = [h EXCEPT !.refs = @ + 2, !.hRequest = TRUE, !.http = "open",
                    !.pDisconnect = TRUE, !.handlerSet = TRUE]
  /\ exec' = [exec EXCEPT !.pc = "send"]
  /\ UNCHANGED <<wsVars, httpVars, notify, returned>>

\* Under the shared lock: WinHttpSendRequest.
SendRequest ==
  /\ exec.pc = "send"
  /\ h' = [h EXCEPT !.status = "SENDING"]
  /\ op' = "send"
  /\ exec' = [pc |-> "dereference", ret |-> "pending"]
  /\ UNCHANGED <<wsVars, iis, left, notify, returned>>

SendRequestFails ==
  /\ exec.pc = "send"
  /\ h' = RemoveRequest([h EXCEPT !.status = "DONE"])
  /\ exec' = [pc |-> "dereference", ret |-> "finish"]
  /\ UNCHANGED <<wsVars, httpVars, notify, returned>>

\* WinHttpSetOption fails: Finished, with RQ_NOTIFICATION_CONTINUE.
UpgradeOptionFails ==
  /\ exec.pc = "send" /\ h.upgrade
  /\ h' = [h EXCEPT !.status = "SENDING"]
  /\ exec' = [pc |-> "dereference", ret |-> "continue"]
  /\ UNCHANGED <<wsVars, httpVars, notify, returned>>

ExecuteReturns ==
  /\ exec.pc = "dereference"
  /\ h' = [h EXCEPT !.refs = @ - 1]
  /\ exec' = [exec EXCEPT !.pc = "done"]
  /\ returned' = IF exec.ret \in Final THEN exec.ret ELSE returned
  /\ UNCHANGED <<wsVars, httpVars, notify>>

(***************************************************************************)
(* OnWinHttpCompletionInternal.                                            *)
(***************************************************************************)
\* m_RequestLock can be taken exclusively: no callback of the web socket is
\* running.  The steps that hold it otherwise are atomic.
Exclusive == Idle("winhttp")

\* Mutant: the request goes on when the first of two handles is closed.
FirstClosed(x, closing) == closing

LastClosed(x, closing) == closing /\ x.handlers = 0

\* Mutant: a completion is posted while another one is expected.
PostsAlways(x, more, closing) ==
  IF LastClosed(x, closing)
  THEN PostCompletion([RemoveRequest(x) EXCEPT !.finish = TRUE, !.webSocket = FALSE])
  ELSE IF x.status = "DONE"
  THEN ResetsClient(CloseRequest(RemoveRequest(x)))
  ELSE IF x.finish THEN x ELSE PostCompletion(x)

\* The label Finished.  more is fAnotherCompletionExpected.
FinishCallback(x, more, closing) ==
  IF LastClosed(x, closing)
  THEN PostCompletion([RemoveRequest(x) EXCEPT !.finish = TRUE, !.webSocket = FALSE])
  ELSE IF x.status = "DONE"
  THEN ResetsClient(CloseRequest(RemoveRequest(x)))
  ELSE IF more \/ x.finish THEN x ELSE PostCompletion(x)

\* Cleanup(ServerStateUnavailable) in the error path: the web socket's
\* handle is NULL by then, so the shutdown fails.
TerminateWebSocket(x, closing, w) ==
  IF ~LastClosed(x, closing) /\ x.status = "DONE" /\ TerminatesWebSocket(x)
  THEN ws' = Cleaned(w) /\ ends' = CleanedEnds("ServerStateUnavailable")
  ELSE ws' = w /\ UNCHANGED ends

Finish(x, more, closing) ==
  /\ h' = FinishCallback(x, more, closing)
  /\ TerminateWebSocket(x, closing, ws)
  /\ UNCHANGED <<pending, running>>

Aborted == h.disconnected /\ h.status # "DONE"

\* A callback of the operation in flight, with the result of its handler.
Callback(ops) == op \in ops /\ Exclusive /\ ~h.finish

EndsCallback == UNCHANGED <<exec, notify, returned>>

\* The preamble sends any callback of a disconnected request to Failure, and
\* a handler that fails goes there too.
CallbackFails ==
  /\ Callback({"send", "write", "receive", "query", "read"})
  /\ op' = "none"
  /\ Finish(WinHttpFailure(h), FALSE, FALSE)
  /\ UNCHANGED <<iis, left>> /\ EndsCallback

\* SENDING_REQUEST and REQUEST_SENT are notifications of a send in flight.
NotificationOfDisconnected ==
  /\ Callback({"send"}) /\ Aborted
  /\ Finish(WinHttpFailure(h), TRUE, FALSE)
  /\ UNCHANGED <<op, iis, left>> /\ EndsCallback

\* SENDREQUEST_COMPLETE or WRITE_COMPLETE while a body is to be read.
ReadsBody ==
  /\ Callback({"send", "write"}) /\ ~Aborted /\ h.status = "SENDING"
  /\ h.toReceive # 0
  /\ op' = "none" /\ iis' = "readBody"
  /\ Finish(h, TRUE, FALSE)
  /\ UNCHANGED left /\ EndsCallback

\* ReadEntityBody finds the end of a chunked body at once.
EndsChunkedBody ==
  /\ Callback({"send", "write"}) /\ ~Aborted /\ h.status = "SENDING"
  /\ h.toReceive = Infinite
  /\ op' = "write"
  /\ Finish([h EXCEPT !.toReceive = 0], TRUE, FALSE)
  /\ UNCHANGED <<iis, left>> /\ EndsCallback

\* The whole request is sent.
ReceivesResponse ==
  /\ Callback({"send", "write"}) /\ ~Aborted /\ h.status = "SENDING"
  /\ h.toReceive = 0
  /\ op' = "receive"
  /\ Finish([h EXCEPT !.status = "RECEIVING"], TRUE, FALSE)
  /\ UNCHANGED <<iis, left>> /\ EndsCallback

\* Any answer but a 101 to a request for an upgrade.  The headers tell how
\* much content follows; if they do not, m_cContentLength keeps what the
\* memory held, which is any number too.  An upgrade that is refused is off.
HeadersAvailable ==
  /\ Callback({"receive"}) /\ ~Aborted
  /\ op' = "none"
  /\ \E n \in 0 .. MaxResponse :
       Finish([h EXCEPT !.content = n, !.upgrade = FALSE], FALSE, FALSE)
  /\ UNCHANGED <<iis, left>> /\ EndsCallback

\* The back-end has switched protocols: flush the response.
UpgradeAnswered ==
  /\ Callback({"receive"}) /\ ~Aborted /\ h.upgrade
  /\ op' = "none" /\ iis' = "flush"
  /\ Finish([h EXCEPT !.status = "WEBSOCKET"], TRUE, FALSE)
  /\ UNCHANGED left /\ EndsCallback

\* More of the response is there than nothing.
DataAvailable ==
  /\ Callback({"query"}) /\ ~Aborted /\ left.response > 0
  /\ op' = "read"
  /\ left' = [left EXCEPT !.response = @ - 1]
  /\ Finish([h EXCEPT !.content = IF @ = 0 THEN 0 ELSE @ - 1], TRUE, FALSE)
  /\ UNCHANGED iis /\ EndsCallback

\* No more data, which is an error if content was promised.
EndOfData ==
  /\ Callback({"query"}) /\ ~Aborted
  /\ op' = "none"
  /\ Finish(IF h.content # 0 THEN WinHttpFailure(h) ELSE [h EXCEPT !.status = "DONE"],
            FALSE, FALSE)
  /\ UNCHANGED <<iis, left>> /\ EndsCallback

ReadComplete ==
  /\ Callback({"read"}) /\ ~Aborted
  /\ op' = "none" /\ iis' = "flush"
  /\ Finish(h, TRUE, FALSE)
  /\ UNCHANGED left /\ EndsCallback

\* HANDLE_CLOSING, the last callback of a handle, takes the shared lock
\* while the web socket is in use.
ClosingLock == IF h.status = "WEBSOCKET" THEN FreeThread ELSE Exclusive

\* At HANDLE_CLOSING of a status other than DONE the code only forgets the
\* handle: ERROR_CONNECTION_ABORTED is no failure code.
ForgetsRequest(x) == IF Routed THEN x ELSE [x EXCEPT !.hRequest = FALSE]

Closed(x) ==
  Finish(IF Aborted THEN WinHttpFailure(x) ELSE ForgetsRequest(x),
         h.status = "WEBSOCKET", TRUE)

RequestClosed ==
  /\ h.http = "closing" /\ op = "none" /\ ClosingLock
  /\ Closed([h EXCEPT !.http = "closed", !.handlers = @ - 1])
  /\ UNCHANGED httpVars /\ EndsCallback

WebSocketClosed ==
  /\ ws.handle = "closing" /\ pending \cap WinHttpOps = {} /\ Exclusive
  /\ LET x == [h EXCEPT !.handlers = @ - 1] IN
       /\ h' = FinishCallback(x, FALSE, TRUE)
       /\ TerminateWebSocket(x, TRUE, [ws EXCEPT !.handle = "closed"])
  /\ UNCHANGED <<pending, running, httpVars>> /\ EndsCallback

\* The end of OnWinHttpCompletionInternal for a callback of the web socket:
\* it is here that a callback finds out that another one has set DONE.
CallbackEnds ==
  /\ Leave("winhttp", "finish")
  /\ h' = FinishCallback(h, TRUE, FALSE)
  /\ TerminateWebSocket(h, FALSE, ws)
  /\ UNCHANGED <<pending, httpVars>> /\ EndsCallback

\* A callback of the web socket that comes when the status is DONE is taken
\* for one of the request.  It may have looked at the status before, and so
\* have taken the shared lock.
Unrouted(ops) ==
  /\ h.status = "DONE" /\ ~h.finish
  /\ \E o \in pending \cap ops : pending' = pending \ {o}

UnroutedEnds(x) ==
  /\ h' = FinishCallback(x, FALSE, FALSE)
  /\ TerminateWebSocket(x, FALSE, ws)
  /\ UNCHANGED <<running, httpVars>> /\ EndsCallback

\* REQUEST_ERROR, or SHUTDOWN_COMPLETE, which nobody expects.
UnroutedError == Unrouted(WinHttpOps) /\ UnroutedEnds(WinHttpFailure(h))

\* WRITE_COMPLETE: the whole request seems to be sent, and the response is
\* asked of a handle that is no request: WinHttpReceiveResponse fails.
UnroutedSend ==
  /\ Unrouted({"whSend"})
  /\ UnroutedEnds(WinHttpFailure([h EXCEPT !.status = "RECEIVING"]))

\* READ_COMPLETE: the message becomes a chunk of the response, which is flushed.
UnroutedRead ==
  /\ Unrouted({"whReceive"})
  /\ h' = FinishCallback(h, TRUE, FALSE)
  /\ iis' = "flush"
  /\ IF TerminatesWebSocket(h) THEN ws' = Cleaned(ws) ELSE UNCHANGED ws
  /\ ends' = [IF TerminatesWebSocket(h) THEN CleanedEnds("ServerStateUnavailable") ELSE ends
               EXCEPT !.strayed = TRUE]
  /\ UNCHANGED <<running, op, left>> /\ EndsCallback

(***************************************************************************)
(* OnAsyncCompletion: a posted completion, or one of an operation of IIS.  *)
(***************************************************************************)
Completions == {"post", "readBody", "flush"}

\* IIS runs the notifications of a request one after the other.
Completes(c) ==
  /\ exec.pc = "done" /\ Exclusive
  /\ IF c = "post" THEN h.posts > 0 ELSE iis = c
  /\ iis' = IF c = "post" THEN iis ELSE "none"

Taken(c) == IF c = "post" THEN [h EXCEPT !.posts = @ - 1] ELSE h

AsyncFailure(x) ==
  CloseRequest(ResetsClient([x EXCEPT !.status = "DONE", !.hasError = TRUE]))

AsyncPending == UNCHANGED <<exec, notify, returned>>

Released(x) == x.status = "DONE" /\ ~x.hRequest /\ ~x.webSocket

\* The client is gone, the operation failed, or the next one cannot start;
\* or the handles are gone, but the request was not finished.
AsyncFails(c) ==
  /\ Completes(c)
  /\ h.status = "DONE" => Released(h) /\ ~h.finish
  /\ h' = AsyncFailure(Taken(c))
  /\ UNCHANGED <<wsVars, op, left>> /\ AsyncPending

\* OnSendingRequest: a chunk of the body.
BodyRead ==
  /\ Completes("readBody") /\ ~Aborted /\ h.status = "SENDING"
  /\ h.toReceive = Infinite => left.body > 0
  /\ h' = [h EXCEPT !.toReceive = IF @ = Infinite THEN @ ELSE @ - 1]
  /\ left' = [left EXCEPT !.body = @ - 1]
  /\ op' = "write"
  /\ UNCHANGED wsVars /\ AsyncPending

\* OnSendingRequest: the end of a chunked body.  IIS reports no end while
\* part of a body of known length is missing.
BodyEnds ==
  /\ Completes("readBody") /\ ~Aborted /\ h.status = "SENDING"
  /\ h.toReceive = Infinite
  /\ h' = [h EXCEPT !.toReceive = 0]
  /\ op' = "write"
  /\ UNCHANGED <<wsVars, left>> /\ AsyncPending

OnReceivingResponse(c) ==
  /\ Completes(c) /\ ~Aborted /\ h.status = "RECEIVING"
  /\ h' = Taken(c)
  /\ op' = "query"
  /\ UNCHANGED <<wsVars, left>> /\ AsyncPending

\* The response to the upgrade is flushed: ProcessRequest, which creates the
\* handle of the web socket.
WebSocketStarts ==
  /\ Completes("flush") /\ ~Aborted /\ h.status = "WEBSOCKET"
  /\ h' = CloseRequest([h EXCEPT !.webSocket = TRUE, !.handlers = @ + 1])
  /\ ws' = Upgraded(2) /\ pending' = ProcessRequestStarts
  /\ UNCHANGED <<running, ends, op, left>> /\ AsyncPending

WebSocketFails ==
  /\ Completes("flush") /\ ~Aborted /\ h.status = "WEBSOCKET"
  /\ h' = AsyncFailure([h EXCEPT !.webSocket = TRUE, !.handlers = @ + 1])
  /\ \E ops \in ProcessRequestFails :
       CleanupCall("ServerStateUnavailable", Upgraded(Cardinality(ops)), ops)
  /\ UNCHANGED <<running, op, left>> /\ AsyncPending

UpgradeFails ==
  /\ Completes("flush") /\ ~Aborted /\ h.status = "WEBSOCKET"
  /\ h' = AsyncFailure([h EXCEPT !.webSocket = TRUE])
  /\ CleanupCall("ServerStateUnavailable", ws, pending)
  /\ UNCHANGED <<running, op, left>> /\ AsyncPending

\* FORWARDER_DONE: IIS goes on once both handles are gone, and only once.
Releases(x) == Released(x) /\ x.finish

AsyncIgnored(c) ==
  /\ Completes(c) /\ h.status = "DONE" /\ ~Released(h)
  /\ h' = Taken(c)
  /\ UNCHANGED <<wsVars, op, left>> /\ AsyncPending

AsyncReleases(c) ==
  /\ Completes(c) /\ Releases(h)
  /\ h' = RemoveRequest([Taken(c) EXCEPT !.done = TRUE])
  /\ returned' = IF h.done THEN returned
                 ELSE IF h.hasError THEN "finish" ELSE "continue"
  /\ UNCHANGED <<wsVars, op, left, exec, notify>>

(***************************************************************************)
(* A client that disconnects, and the end of the module.                   *)
(***************************************************************************)
NotifyDisconnect ==
  /\ notify = "none" /\ h.handlerSet
  /\ h' = [h EXCEPT !.handlerSet = FALSE]
  /\ notify' = "terminate"
  /\ UNCHANGED <<wsVars, httpVars, exec, returned>>

TerminateRequest ==
  /\ notify = "terminate" /\ Exclusive
  /\ h' = [h EXCEPT !.disconnected = IF h.httpInClose THEN @ ELSE TRUE]
  /\ notify' = "dereference"
  /\ UNCHANGED <<wsVars, httpVars, exec, returned>>

NotifyDereferences ==
  /\ notify = "dereference"
  /\ h' = [h EXCEPT !.refs = @ - 1]
  /\ notify' = "done"
  /\ UNCHANGED <<wsVars, httpVars, exec, returned>>

\* IIS deletes the module, which releases the handler.
ModuleEnds ==
  /\ Ended /\ exec.pc = "done"
  /\ h' = [h EXCEPT !.refs = @ - 1]
  /\ exec' = [exec EXCEPT !.pc = "released"]
  /\ UNCHANGED <<wsVars, httpVars, notify, returned>>

\* m_pDisconnect, m_cEntityBuffers and m_pEntityBuffer are unset in memory
\* that was not zero: RemoveRequest calls through the first when the request
\* fails before it is set, the first buffer that is allocated or freed uses
\* the others, and so does the destructor.  The process is gone.
UnsetMemory ==
  /\ \/ exec.pc = "start"
     \/ Callback({"send", "write", "receive"})
     \/ Ended /\ exec.pc = "done" /\ exec.ret # "pending"
  /\ returned' = "faulted"
  /\ UNCHANGED <<h, wsVars, httpVars, exec, notify>>

(***************************************************************************)
(* The specification.                                                      *)
(***************************************************************************)
Execute ==
  \/ ExecuteFails \/ CreateWinHttpRequestFails \/ SetHandler
  \/ SendRequest \/ SendRequestFails \/ UpgradeOptionFails
  \/ ExecuteReturns \/ ModuleEnds

OnWinHttpCompletion ==
  \/ CallbackFails
  \/ ReadsBody \/ EndsChunkedBody \/ ReceivesResponse
  \/ HeadersAvailable \/ UpgradeAnswered
  \/ DataAvailable \/ EndOfData \/ ReadComplete

HandleClosing == RequestClosed \/ WebSocketClosed

OnAsyncCompletion ==
  \/ BodyRead \/ BodyEnds
  \/ WebSocketStarts \/ WebSocketFails \/ UpgradeFails
  \/ \E c \in Completions : \/ AsyncFails(c) \/ OnReceivingResponse(c)
                            \/ AsyncIgnored(c) \/ AsyncReleases(c)

Disconnect == TerminateRequest \/ NotifyDereferences

IisCallback ==
  \/ \E o \in IisOps : IisFails(o) \/ IisEndsInCleanup(o)
  \/ OnIisReceiveComplete \/ OnIisSendComplete

WinHttpCallback ==
  \/ \E o \in {"whReceive", "whSend"} : WinHttpEndsInCleanup(o)
  \/ OnWinHttpReceiveComplete \/ OnWinHttpReceiveClose \/ OnWinHttpSendComplete
  \/ OnWinHttpShutdownComplete \/ OnWinHttpIoError

RunningCallback ==
  \E caller \in Callers :
    \/ \E reason \in Reasons : Cleanup(caller, reason)
    \/ DecrementOutstandingIo(caller) \/ IndicateCompletionToIIS(caller)

WebSocket == /\ IisCallback \/ WinHttpCallback \/ RunningCallback
             /\ UNCHANGED <<httpVars, exec, notify, returned>>

UnroutedCallback == UnroutedError \/ UnroutedSend \/ UnroutedRead

Steps ==
  \/ Execute \/ OnWinHttpCompletion \/ HandleClosing \/ OnAsyncCompletion
  \/ NotificationOfDisconnected \/ UnroutedCallback \/ CallbackEnds
  \/ NotifyDisconnect \/ Disconnect \/ WebSocket \/ UnsetMemory

Next == Alive /\ Steps

Alone == UNCHANGED <<httpVars, exec, notify, returned>>

IisCompletes(o) ==
  /\ \/ IisFails(o) \/ IisEndsInCleanup(o)
     \/ o = "iisRead" /\ OnIisReceiveComplete
     \/ o = "iisWrite" /\ OnIisSendComplete
  /\ Alone

WinHttpCompletes(o) ==
  /\ WinHttpCallback /\ o \in pending /\ o \notin pending'
  /\ Alone

\* What the environment owes: WinHTTP and IIS complete what they were given,
\* with an error once their limit has passed, and the threads run.  A read
\* of a web socket may stay pending for ever unless its end is gone, was
\* told to close, or the read was cancelled.
Fairness ==
  /\ WF_vars(Alive /\ Execute) /\ WF_vars(Alive /\ OnWinHttpCompletion)
  /\ WF_vars(Alive /\ HandleClosing)
  /\ WF_vars(Alive /\ OnAsyncCompletion) /\ WF_vars(Alive /\ Disconnect)
  /\ WF_vars(Alive /\ UnroutedCallback) /\ WF_vars(Alive /\ CallbackEnds)
  /\ WF_vars(Alive /\ IisCompletes("iisWrite"))
  /\ WF_vars(Alive /\ (ends.clientGone \/ ends.cancelled) /\ IisCompletes("iisRead"))
  /\ \A o \in {"whSend", "whShutdown", "whCleanup"} : WF_vars(Alive /\ WinHttpCompletes(o))
  /\ WF_vars(Alive /\ (ends.serverGone \/ ends.told) /\ WinHttpCompletes("whReceive"))
  /\ \A caller \in Callers :
       /\ \A reason \in Reasons : WF_vars(Alive /\ Cleanup(caller, reason) /\ Alone)
       /\ WF_vars(Alive /\ DecrementOutstandingIo(caller) /\ Alone)
       /\ WF_vars(Alive /\ IndicateCompletionToIIS(caller) /\ Alone)

Spec == Init /\ [][Next]_vars /\ Fairness

(***************************************************************************)
(* Properties.                                                             *)
(***************************************************************************)
Statuses == {"START", "SENDING", "RECEIVING", "WEBSOCKET", "DONE"}

\* Every variable has a value of its type; at most one completion is posted
\* at a time and m_dwHandlers never falls below zero.
TypeOK ==
  /\ h.status \in Statuses /\ h.handlers \in 0 .. 2 /\ h.posts \in 0 .. 1
  /\ h.refs \in 0 .. 3 /\ h.content \in 0 .. MaxResponse
  /\ h.toReceive \in {Infinite} \cup 0 .. MaxBody
  /\ h.http \in {"none", "open", "closing", "closed"}
  /\ ws.handle \in {"none", "open", "closing", "closed"}
  /\ ws.outstanding \in Int
  /\ pending \subseteq WinHttpOps \cup IisOps
  /\ running \in [Callers \X Stages -> 0 .. Threads]
  /\ op \in {"none", "send", "write", "receive", "query", "read"}
  /\ iis \in {"none", "readBody", "flush"}
  /\ returned \in {"none", "faulted"} \cup Final

\* "We don't want two threads signal IIS pipeline simultaneously": whatever
\* fails or disconnects, the next turn of a request belongs to one party, an
\* operation of WinHTTP, one of IIS or a posted completion; and a completion
\* of a request that is done finds both handles gone.  The flush that a read
\* of the web socket has started, taken for one of the request, is one too many.
OneTurn ==
  /\ Cardinality({x \in {"op", "iis", "post"} :
    CASE x = "op"   -> op # "none"
      [] x = "iis"  -> iis # "none" /\ ~ends.strayed
      [] x = "post" -> h.posts > 0}) <= 1
  /\ h.status = "DONE" => /\ iis # "none" => ends.strayed
                          /\ h.posts > 0 => Releases(h)

\* "No code should access IIS m_pW3Context after posting the completion":
\* when IIS has the final status nothing of the request is under way, but
\* for an operation the count was short of, or for a completion that the
\* flush of a stray read made one too many.
QuietWhenReleased ==
  h.done =>
    /\ op = "none" /\ (ends.strayed \/ (iis = "none" /\ h.posts = 0))
    /\ h.handlers = 0 /\ h.http = "closed" /\ ws.handle \in {"none", "closed"}
    /\ pending \cap WinHttpOps = {} /\ Idle("winhttp")
    /\ pending = {} \/ ends.counted

\* Each reference has one holder: the module, OnExecuteRequestHandler, the
\* disconnect context, or the thread that took it from the context.  (A
\* callback holds one more while it runs.)  A deleted handler is known to
\* nobody, but for the completions of a stray read.
RefsAreHeld ==
  /\ h.refs = (IF exec.pc = "released" THEN 0 ELSE 1)
             + (IF exec.pc \in {"send", "dereference"} THEN 1 ELSE 0)
             + (IF h.handlerSet THEN 1 ELSE 0)
             + (IF notify \in {"terminate", "dereference"} THEN 1 ELSE 0)
  /\ h.refs = 0 => /\ op = "none" /\ Idle("winhttp")
                   /\ ends.strayed \/ (iis = "none" /\ h.posts = 0)

\* The request belongs to one party at a time, and every reference has a holder.
TurnsAndReferences == TypeOK /\ OneTurn /\ RefsAreHeld

\* A request that goes on without error was answered in full: its body was
\* forwarded, and the promised content has come, also for an upgrade that was
\* refused; an upgrade that was accepted has had its session.
SuccessIsComplete ==
  h.done /\ returned = "continue" =>
    /\ h.toReceive = 0
    /\ IF h.upgrade THEN ws.handle = "closed" ELSE h.content = 0

\* _dwOutstandingIo counts the operations under way and the callbacks that
\* have not given their count back, exactly; from the callback of Cleanup's
\* shutdown on, which takes one it never added, it is one less.
Counted ==
  Cardinality(pending \ {"whCleanup"}) + Counting("winhttp") + Counting("iis")

CountIsOutstanding ==
  Routed /\ ws.handle = "open" =>
    ws.outstanding = IF ends.counted THEN Counted - 1 ELSE Counted

\* "Make sure no pending IO": the handle of a web socket is closed when no
\* counted operation is pending, unless the count was one less by then.
ClosedWhenQuiet ==
  ws.handle \in {"closing", "closed"} /\ ~ends.counted => pending \subseteq {"whCleanup"}

\* The count that decides when the web socket is closed is right, and used rightly.
WebSocketCounts == CountIsOutstanding /\ ClosedWhenQuiet

\* Every forwarded request ends or becomes a web socket, with the client or
\* the back-end failing at any point.
RequestEnds == <>(Ended \/ h.webSocket \/ ~Alive)

\* The sessions that stay behind, and why: the first read could not start,
\* so that no callback closes the handle; the shutdown of Cleanup was counted
\* off, and the count passed zero before it was looked at; Cleanup did not
\* tell the back-end, which stays silent.
Forgotten ==
  \/ ends.unread /\ ws.handle = "open"
  \/ ends.counted /\ ws.outstanding < 0
  \/ ends.untold /\ "whReceive" \in pending /\ ~ends.told /\ ~ends.serverGone

\* "This ensures no request leaks": a web socket that is cleaned up ends its
\* request, or it is one of those and stays so for ever.
SessionEnds == (ws.cleanup ~> Ended) \/ <>[]Forgotten

\* No request and no session stays behind, but for the forgotten ones.
AllEnd == RequestEnds /\ SessionEnds
=============================================================================
