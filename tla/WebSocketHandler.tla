-------------------------- MODULE WebSocketHandler --------------------------
(***************************************************************************)
(* WEBSOCKET_HANDLER: after an upgrade it pumps messages between the       *)
(* client (IIS) and the back-end (WinHTTP), one operation per direction.   *)
(* Callbacks of WinHTTP run with the request lock of FORWARDING_HANDLER    *)
(* held shared, callbacks of IIS run with no lock of it, so up to Threads  *)
(* of them run at once.  A callback has parts, which others may interleave *)
(* with: what it does inside _RequestLock, Cleanup if that failed,         *)
(* DecrementOutstandingIo, which closes the WinHTTP handle when the count  *)
(* reaches zero, and for WinHTTP the end of OnWinHttpCompletionInternal.   *)
(* What the messages contain is left out, except whether one is a close.   *)
(* ForwardingHandler completes the model.                                  *)
(***************************************************************************)
EXTENDS Integers, FiniteSets

CONSTANT Threads         \* how many callbacks run at the same time

ASSUME ThreadsAssumption == Threads \in Nat \ {0}

WinHttpOps == {"whReceive", "whSend", "whShutdown", "whCleanup"}
IisOps     == {"iisRead", "iisWrite"}

Reasons == {"Unknown", "ClientDisconnect", "ServerDisconnect"}
Stages  == Reasons \cup {"decrement", "indicate", "finish"}
Callers == {"winhttp", "iis"}

VARIABLES
  h,          \* the FORWARDING_HANDLER (see ForwardingHandler)
  ws,         \* the fields of the WEBSOCKET_HANDLER and the WinHTTP handle
  pending,    \* operations whose callback has not begun
  running,    \* how many callbacks of each caller are at each stage
  ends        \* what has become of the connections to the two ends and,
              \* read by properties only, what went wrong with them

wsVars == <<ws, pending, running, ends>>

NoWebSocket ==
  [outstanding |-> 0, cleanup |-> FALSE, indicate |-> FALSE,
   receivedClose |-> FALSE, handle |-> "none"]

WsInit ==
  /\ ws = NoWebSocket
  /\ pending = {}
  /\ running = [c \in Callers \X Stages |-> 0]
  /\ ends = [clientGone |-> FALSE, serverGone |-> FALSE,
             cancelled |-> FALSE, told |-> FALSE,
             counted |-> FALSE, strayed |-> FALSE,
             unread |-> FALSE, untold |-> FALSE]

\* Callbacks of caller that have their count still to give back, and all of them.
Counting(caller) ==
  running[<<caller, "Unknown">>] + running[<<caller, "ClientDisconnect">>]
    + running[<<caller, "ServerDisconnect">>] + running[<<caller, "decrement">>]

InCallbacks(caller) ==
  Counting(caller) + running[<<caller, "indicate">>] + running[<<caller, "finish">>]

Idle(caller) == InCallbacks(caller) = 0

FreeThread == InCallbacks("winhttp") + InCallbacks("iis") < Threads

Enter(caller, stage) ==
  /\ FreeThread
  /\ running' = [running EXCEPT ![<<caller, stage>>] = @ + 1]

Leave(caller, stage) ==
  /\ running[<<caller, stage>>] > 0
  /\ running' = [running EXCEPT ![<<caller, stage>>] = @ - 1]

MoveOn(caller, from, to) ==
  /\ running[<<caller, from>>] > 0
  /\ running' = [running EXCEPT ![<<caller, from>>] = @ - 1, ![<<caller, to>>] = @ + 1]

\* The callback returns from the WEBSOCKET_HANDLER.
Return(caller, stage) ==
  IF caller = "winhttp" THEN MoveOn(caller, stage, "finish") ELSE Leave(caller, stage)

\* An operation that was started: counted, and its callback is to come.
Start(old, op) ==
  /\ pending' = (pending \ {old}) \cup {op}
  /\ ws' = [ws EXCEPT !.outstanding = @ + 1]

\* The callback of op begins and starts no other operation.
StartNothing(op) ==
  /\ pending' = pending \ {op}
  /\ UNCHANGED ws

(***************************************************************************)
(* Callbacks of IIS.                                                       *)
(***************************************************************************)
\* A callback that reports failure goes straight to Cleanup.
IisFails(op) ==
  /\ op \in pending
  /\ Enter("iis", "ClientDisconnect")
  /\ StartNothing(op)
  /\ ends' = [ends EXCEPT !.clientGone = TRUE]
  /\ UNCHANGED h

\* Once Cleanup has run, a callback only gives its count back.
IisEndsInCleanup(op) ==
  /\ op \in pending /\ ws.cleanup
  /\ Enter("iis", "decrement")
  /\ StartNothing(op)
  /\ UNCHANGED <<ends, h>>

\* DoWinHttpWebSocketSend for a message or for the client's close; the
\* callback of a close gives its count back and starts nothing.
OnIisReceiveComplete ==
  /\ "iisRead" \in pending /\ ~ws.cleanup
  /\ \/ \E op \in {"whSend", "whShutdown"} :
          Start("iisRead", op) /\ Enter("iis", "decrement") /\ UNCHANGED ends
     \/ /\ StartNothing("iisRead")
        /\ Enter("iis", "ServerDisconnect")
        /\ ends' = [ends EXCEPT !.serverGone = TRUE]
  /\ UNCHANGED h

\* No receive is started after a close of the back-end.
OnIisSendComplete ==
  /\ "iisWrite" \in pending /\ ~ws.cleanup
  /\ \/ /\ ws.receivedClose
        /\ StartNothing("iisWrite") /\ Enter("iis", "decrement") /\ UNCHANGED ends
     \/ /\ ~ws.receivedClose
        /\ Start("iisWrite", "whReceive") /\ Enter("iis", "decrement") /\ UNCHANGED ends
     \/ /\ ~ws.receivedClose
        /\ StartNothing("iisWrite")
        /\ Enter("iis", "ServerDisconnect")
        /\ ends' = [ends EXCEPT !.serverGone = TRUE]
  /\ UNCHANGED h

(***************************************************************************)
(* Callbacks of WinHTTP, which OnWinHttpCompletionInternal routes here     *)
(* while the status is FORWARDER_RECEIVED_WEBSOCKET_RESPONSE.              *)
(***************************************************************************)
Routed == h.status = "WEBSOCKET" /\ h.webSocket

WinHttpEndsInCleanup(op) ==
  /\ op \in pending \cap {"whReceive", "whSend"} /\ Routed /\ ws.cleanup
  /\ Enter("winhttp", "decrement")
  /\ StartNothing(op)
  /\ UNCHANGED <<ends, h>>

\* DoIisWebSocketSend of a message.
OnWinHttpReceiveComplete ==
  /\ "whReceive" \in pending /\ Routed /\ ~ws.cleanup
  /\ \/ Start("whReceive", "iisWrite") /\ Enter("winhttp", "decrement") /\ UNCHANGED ends
     \/ /\ StartNothing("whReceive")
        /\ Enter("winhttp", "ClientDisconnect")
        /\ ends' = [ends EXCEPT !.clientGone = TRUE]
  /\ UNCHANGED h

\* DoIisWebSocketSend of the back-end's close: the flags are set before the
\* send that may fail.
MarkClosed(w) == [w EXCEPT !.receivedClose = TRUE, !.indicate = TRUE]

OnWinHttpReceiveClose ==
  /\ "whReceive" \in pending /\ Routed /\ ~ws.cleanup
  /\ \/ /\ pending' = (pending \ {"whReceive"}) \cup {"iisWrite"}
        /\ ws' = MarkClosed([ws EXCEPT !.outstanding = @ + 1])
        /\ Enter("winhttp", "decrement") /\ UNCHANGED ends
     \/ /\ pending' = pending \ {"whReceive"}
        /\ ws' = MarkClosed(ws)
        /\ Enter("winhttp", "ClientDisconnect")
        /\ ends' = [ends EXCEPT !.clientGone = TRUE]
  /\ UNCHANGED h

\* The reason stays CleanupReasonUnknown when the next read cannot start.
OnWinHttpSendComplete ==
  /\ "whSend" \in pending /\ Routed /\ ~ws.cleanup
  /\ \/ Start("whSend", "iisRead") /\ Enter("winhttp", "decrement") /\ UNCHANGED ends
     \/ /\ StartNothing("whSend")
        /\ Enter("winhttp", "Unknown")
        /\ ends' = [ends EXCEPT !.clientGone = TRUE]
  /\ UNCHANGED h

\* Also for the shutdown Cleanup has called, which was never counted, but
\* whose callback takes one from the count like any other.
CountsOff(op, e) == [e EXCEPT !.counted = @ \/ op = "whCleanup"]

OnWinHttpShutdownComplete ==
  /\ \E op \in pending \cap {"whShutdown", "whCleanup"} :
       StartNothing(op) /\ ends' = CountsOff(op, [ends EXCEPT !.told = TRUE])
  /\ Routed
  /\ Enter("winhttp", "decrement")
  /\ UNCHANGED h

OnWinHttpIoError ==
  /\ \E op \in pending \cap WinHttpOps :
       StartNothing(op) /\ ends' = CountsOff(op, [ends EXCEPT !.serverGone = TRUE])
  /\ Routed
  /\ Enter("winhttp", "ServerDisconnect")
  /\ UNCHANGED h

(***************************************************************************)
(* Cleanup: the first call decides what happens to the two ends.           *)
(***************************************************************************)
TellsBackend(reason) == reason \in {"ClientDisconnect", "ServerStateUnavailable"}

\* Mutant: the pending read of the client is not cancelled when the back-end fails.
CancelsNothing(reason) == reason = "ServerStateUnavailable"

CancelsIis(reason)   == reason \in {"ServerDisconnect", "ServerStateUnavailable"}

CleanedEnds(reason) ==
  [ends EXCEPT !.cancelled = @ \/ (CancelsIis(reason) /\ ~ws.cleanup)]

Cleaned(w) == [w EXCEPT !.cleanup = TRUE, !.indicate = TRUE]

\* The shutdown is not counted, and fails when the handle is NULL, when one
\* is under way, or for reasons of its own.
MayTell(reason, w, ops) ==
  /\ TellsBackend(reason) /\ w.handle = "open"
  /\ "whShutdown" \notin ops /\ ~ends.told

\* Nothing is pending that could close the handle, or nobody tells the back-end.
Forsaken(reason, w, sent, e) ==
  [e EXCEPT !.unread = w.handle = "open" /\ w.outstanding = 0,
            !.untold = ~sent /\ reason # "ServerDisconnect"]

CleanupCall(reason, w, ops) ==
  IF ws.cleanup
  THEN ws' = w /\ pending' = ops /\ UNCHANGED ends
  ELSE /\ ws' = Cleaned(w)
       /\ \E sent \in BOOLEAN :
            /\ sent => MayTell(reason, w, ops)
            /\ pending' = IF sent THEN ops \cup {"whCleanup"} ELSE ops
            /\ ends' = Forsaken(reason, w, sent, CleanedEnds(reason))

\* Mutant: a callback that failed returns without DecrementOutstandingIo.
KeepsItsCount(caller, reason) ==
  /\ Leave(caller, reason)
  /\ CleanupCall(reason, ws, pending)
  /\ UNCHANGED h

Cleanup(caller, reason) ==
  /\ MoveOn(caller, reason, "decrement")
  /\ CleanupCall(reason, ws, pending)
  /\ UNCHANGED h

(***************************************************************************)
(* DecrementOutstandingIo and IndicateCompletionToIIS take no lock.        *)
(***************************************************************************)
IndicatesToo(caller) ==
  /\ ws.outstanding = 1 /\ ws.indicate
  /\ MoveOn(caller, "decrement", "indicate")

DecrementOutstandingIo(caller) ==
  /\ ws' = [ws EXCEPT !.outstanding = @ - 1]
  /\ \/ IndicatesToo(caller)
     \/ ~(ws.outstanding = 1 /\ ws.indicate) /\ Return(caller, "decrement")
  /\ UNCHANGED <<pending, ends, h>>

CloseWebSocket(w) == [w EXCEPT !.handle = "closing"]

IndicateCompletionToIIS(caller) ==
  /\ Return(caller, "indicate")
  /\ IF ws.handle = "open" /\ ws.outstanding = 0
     THEN ws' = CloseWebSocket(ws) /\ h' = [h EXCEPT !.status = "DONE"]
     ELSE UNCHANGED <<ws, h>>
  /\ UNCHANGED <<pending, ends>>

(***************************************************************************)
(* ProcessRequest, called by OnAsyncCompletion once the 101 response was   *)
(* flushed.  The handle exists from CompleteUpgrade on, also when a read   *)
(* cannot be started.                                                      *)
(***************************************************************************)
Upgraded(counted) == [ws EXCEPT !.handle = "open", !.outstanding = counted]

\* The operations that are pending when it returns, and whether it succeeds.
ProcessRequestStarts == {"iisRead", "whReceive"}
ProcessRequestFails  == {{}, {"iisRead"}}
=============================================================================
