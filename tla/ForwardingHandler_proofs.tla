----------------------- MODULE ForwardingHandler_proofs -----------------------
(***************************************************************************)
(* Proofs about ForwardingHandler, for any size of bodies and responses    *)
(* and any number of threads that run callbacks.  A request goes through   *)
(* phases, and what is true of it is different in each: the inductive      *)
(* invariant is their disjunction, with what is always true of its web     *)
(* socket and of its references.                                           *)
(***************************************************************************)
EXTENDS ForwardingHandler, FiniteSetTheorems, TLAPS

Places == {"start", "send", "dereference", "done", "released"}

HandleStates == {"none", "open", "closing", "closed"}
BodyLengths == {Infinite} \cup 0 .. MaxBody
Contents == 0 .. MaxResponse
HandlerCounts == 0 .. 2
PostCounts == 0 .. 1

Handler ==
  [status : Statuses, upgrade : BOOLEAN, hRequest : BOOLEAN, http : HandleStates,
   handlers : HandlerCounts, httpInClose : BOOLEAN, wsInClose : BOOLEAN,
   webSocket : BOOLEAN, toReceive : BodyLengths, content : Contents,
   hasError : BOOLEAN, finish : BOOLEAN, done : BOOLEAN, disconnected : BOOLEAN,
   pDisconnect : BOOLEAN, handlerSet : BOOLEAN, refs : Int, posts : PostCounts,
   reset : BOOLEAN]

WebSockets ==
  [outstanding : Int, cleanup : BOOLEAN, indicate : BOOLEAN,
   receivedClose : BOOLEAN, handle : HandleStates]

Ends == [clientGone : BOOLEAN, serverGone : BOOLEAN, cancelled : BOOLEAN, told : BOOLEAN,
         counted : BOOLEAN, strayed : BOOLEAN, unread : BOOLEAN, untold : BOOLEAN]

Tables == [Callers \X Stages -> Nat]

Typing ==
  /\ h \in Handler /\ ws \in WebSockets /\ ends \in Ends
  /\ pending \subseteq WinHttpOps \cup IisOps
  /\ running \in Tables
  /\ op \in {"none", "send", "write", "receive", "query", "read"}
  /\ iis \in {"none", "readBody", "flush"}
  /\ left \in [body : Int, response : Int]
  /\ exec \in [pc : Places, ret : {"none", "pending"} \cup Final]
  /\ notify \in {"none", "terminate", "dereference", "done"}
  /\ returned \in {"none"} \cup Final

\* References, and who has one.  A handler that the context knows is in the context.
HeldRefs ==
  /\ h.refs = (IF exec.pc = "released" THEN 0 ELSE 1)
             + (IF exec.pc \in {"send", "dereference"} THEN 1 ELSE 0)
             + (IF h.handlerSet THEN 1 ELSE 0)
             + (IF notify \in {"terminate", "dereference"} THEN 1 ELSE 0)
  /\ h.handlerSet => h.pDisconnect /\ notify = "none"
  /\ exec.pc = "start" => notify = "none" /\ ~h.handlerSet
  /\ exec.pc \in {"start", "send"} <=> exec.ret = "none"
  /\ exec.pc # "released" \/ Ended

(***************************************************************************)
(* The web socket.                                                         *)
(***************************************************************************)
NoCallbacks == \A c \in Callers \X Stages : running[c] = 0

\* Each direction has at most one operation under way.
Pumps ==
  /\ "iisRead" \in pending => pending \cap {"whSend", "whShutdown"} = {}
  /\ "whSend" \in pending => "whShutdown" \notin pending
  /\ "whReceive" \in pending => "iisWrite" \notin pending

\* The count is exact until the shutdown of Cleanup is counted off.
Counts == ws.outstanding = IF ends.counted THEN Counted - 1 ELSE Counted

\* When the handle is closed at most one operation is pending, and none of
\* those that were counted if the count was right.
ClosedSocket ==
  /\ \A o \in pending, p \in pending : o = p
  /\ ~ends.counted => pending \subseteq {"whCleanup"}

SocketInv ==
  /\ InCallbacks("winhttp") + InCallbacks("iis") <= Threads
  /\ Pumps
  /\ "whCleanup" \in pending => ws.cleanup /\ ~ends.counted
  /\ ends.counted => ws.cleanup
  /\ ws.handle = "none" => pending = {} /\ NoCallbacks
  /\ ws.handle = "open" => Counts
  /\ ws.handle \in {"closing", "closed"} => ClosedSocket
  /\ ws.handle = "closed" => pending \cap WinHttpOps = {}

(***************************************************************************)
(* The phases of a request.                                                *)
(***************************************************************************)
NobodysTurn == op = "none" /\ iis = "none" /\ h.posts = 0

\* Nothing was sent, or not yet: no callback will ever come.
Unsent ==
  /\ exec.ret # "pending" /\ NobodysTurn
  /\ h.handlers = 1 /\ h.http \in {"none", "open"} /\ ~h.httpInClose
  /\ ~h.webSocket /\ ~h.wsInClose /\ ~h.hasError /\ ~h.finish /\ ~h.done
  /\ ws = NoWebSocket
  /\ exec.pc = "start" => ~h.hRequest /\ h.http = "none"
  /\ exec.pc = "send"  => h.hRequest /\ h.http = "open"
  /\ exec.ret = "none" => h.status = "START" /\ h.content = 0
  /\ exec.pc \in {"start", "send", "dereference"} => returned = "none"
  /\ h.status \in {"START", "SENDING", "DONE"}

SendsTurn ==
  /\ h.status = "SENDING"
  /\ \/ op \in {"send", "write"} /\ iis = "none"
     \/ op = "none" /\ iis = "readBody" /\ h.toReceive # 0
  /\ h.posts = 0

ReceivesTurn ==
  /\ h.status = "RECEIVING" /\ h.toReceive = 0
  /\ \/ op = "receive" /\ iis = "none" /\ h.posts = 0
     \/ op \in {"query", "read"} /\ iis = "none" /\ h.posts = 0 /\ ~h.upgrade
     \/ op = "none" /\ iis = "flush" /\ h.posts = 0 /\ ~h.upgrade
     \/ op = "none" /\ iis = "none" /\ h.posts = 1 /\ ~h.upgrade

SwitchesTurn ==
  /\ h.status = "WEBSOCKET" /\ h.toReceive = 0 /\ h.upgrade
  /\ op = "none" /\ iis = "flush" /\ h.posts = 0

\* Request and response are forwarded, and one party has the turn.
Forwards ==
  /\ exec.ret = "pending" /\ returned = "none"
  /\ h.handlers = 1 /\ h.hRequest /\ h.http = "open" /\ ~h.httpInClose
  /\ ~h.webSocket /\ ~h.wsInClose /\ ~h.hasError /\ ~h.finish /\ ~h.done
  /\ ws = NoWebSocket
  /\ SendsTurn \/ ReceivesTurn \/ SwitchesTurn

Open(b) == IF b THEN 1 ELSE 0

\* The client and the back-end talk to each other.
Session ==
  /\ exec.ret = "pending" /\ exec.pc = "done" /\ returned = "none"
  /\ h.status = "WEBSOCKET" /\ h.webSocket /\ ~h.wsInClose
  /\ ~h.hRequest /\ h.httpInClose /\ h.http \in {"closing", "closed"}
  /\ ws.handle = "open" /\ h.handlers = 1 + Open(h.http = "closing")
  /\ NobodysTurn /\ ~h.disconnected /\ ~h.hasError /\ ~h.finish /\ ~h.done
  /\ h.toReceive = 0 /\ h.upgrade

\* What a request is once it can end well: answered, or switched.
Complete ==
  h.toReceive = 0 /\ IF h.upgrade THEN ws.handle # "none" ELSE h.content = 0

\* The handles are being closed, or were and IIS has the request again.
Closes ==
  /\ exec.ret = "pending"
  /\ h.status = "DONE" /\ ~h.hRequest /\ h.httpInClose /\ h.http \in {"closing", "closed"}
  /\ h.handlers = Open(h.http = "closing") + Open(ws.handle \in {"open", "closing"})
  /\ \/ iis = "none"
     \/ iis = "flush" /\ ends.strayed /\ (h.webSocket \/ h.finish)
  /\ \/ op = "none"
     \/ /\ op = "send" /\ h.http = "closing" /\ h.hasError
        /\ ws.handle = "none" /\ iis = "none"
  /\ ws.handle \in {"open", "closing"} => h.webSocket
  /\ "whSend" \in pending => ~h.hasError
  /\ ws.handle = "open" => pending \cap WinHttpOps \subseteq {"whCleanup"} /\ ws.cleanup
  /\ h.hasError \/ Complete
  /\ h.finish <=> h.handlers = 0
  /\ h.finish => ~h.webSocket /\ Idle("winhttp")
  /\ ~h.done => h.posts = Open(h.finish) /\ returned = "none"
  /\ h.done => /\ h.finish /\ exec.pc \in {"done", "released"}
               /\ h.posts = 0 \/ ends.strayed
               /\ returned = "continue" => Complete

Phases == Unsent \/ Forwards \/ Session \/ Closes

ForwardInv == Typing /\ HeldRefs /\ SocketInv /\ Phases

(***************************************************************************)
(* What the helpers do to the record of the handler.                       *)
(***************************************************************************)
\* The fields that neither closing the request nor failing touches.
SameRequest(x, y) ==
  /\ y.upgrade = x.upgrade /\ y.handlers = x.handlers /\ y.webSocket = x.webSocket
  /\ y.toReceive = x.toReceive /\ y.content = x.content /\ y.finish = x.finish
  /\ y.done = x.done /\ y.disconnected = x.disconnected /\ y.posts = x.posts

SameHandles(x, y) ==
  /\ y.hRequest = x.hRequest /\ y.httpInClose = x.httpInClose /\ y.http = x.http

SameRefs(x, y) ==
  /\ y.refs = x.refs /\ y.handlerSet = x.handlerSet /\ y.pDisconnect = x.pDisconnect

SameAnswer(x, y) == y.status = x.status /\ y.hasError = x.hasError

\* The context forgets the handler and gives its reference back.
HandlerForgotten(x, y) ==
  /\ y.refs = x.refs - Open(x.handlerSet) /\ ~y.handlerSet /\ ~y.pDisconnect

\* The two ways to forget the handler, and the one to close its request.
LEMMA ReleaseFields ==
  ASSUME NEW x \in Handler, NEW y,
         y = [x EXCEPT !.pDisconnect = FALSE, !.handlerSet = FALSE, !.refs = @ - 1]
  PROVE  /\ y \in Handler
         /\ SameRequest(x, y) /\ SameHandles(x, y) /\ SameAnswer(x, y)
         /\ y.refs = x.refs - 1 /\ ~y.handlerSet /\ ~y.pDisconnect
         /\ y.wsInClose = x.wsInClose
<1>1. PICK n : n = x.refs - 1 /\ n \in Int
  BY DEF Handler
<1>2. y = [x EXCEPT !.pDisconnect = FALSE, !.handlerSet = FALSE, !.refs = n]
  BY <1>1
<1>3. y \in Handler
  BY <1>1, <1>2 DEF Handler
<1> QED BY <1>3 DEF Handler, SameRequest, SameHandles, SameAnswer

LEMMA ForgetFields ==
  ASSUME NEW x \in Handler, NEW y, y = [x EXCEPT !.pDisconnect = FALSE]
  PROVE  /\ y \in Handler
         /\ SameRequest(x, y) /\ SameHandles(x, y) /\ SameAnswer(x, y)
         /\ y.refs = x.refs /\ y.handlerSet = x.handlerSet /\ ~y.pDisconnect
         /\ y.wsInClose = x.wsInClose
<1>1. y \in Handler
  BY DEF Handler
<1> QED BY <1>1 DEF Handler, SameRequest, SameHandles, SameAnswer

LEMMA CloseFields ==
  ASSUME NEW x \in Handler, NEW y,
         y = [x EXCEPT !.httpInClose = TRUE, !.hRequest = FALSE, !.http = "closing"]
  PROVE  /\ y \in Handler
         /\ SameRequest(x, y) /\ SameAnswer(x, y) /\ SameRefs(x, y)
         /\ y.httpInClose /\ ~y.hRequest /\ y.http = "closing"
         /\ y.wsInClose = x.wsInClose
<1>0. "closing" \in HandleStates
  BY DEF HandleStates
<1>1. y \in Handler
  BY <1>0 DEF Handler
<1> QED BY <1>1 DEF Handler, SameRequest, SameAnswer, SameRefs

LEMMA ResetFields ==
  ASSUME NEW x \in Handler, NEW b \in BOOLEAN, NEW y,
         y = [x EXCEPT !.wsInClose = TRUE, !.reset = b]
  PROVE  /\ y \in Handler
         /\ SameRequest(x, y) /\ SameAnswer(x, y) /\ SameRefs(x, y) /\ SameHandles(x, y)
         /\ y.wsInClose
<1>1. y \in Handler
  BY DEF Handler
<1> QED BY <1>1 DEF Handler, SameRequest, SameAnswer, SameRefs, SameHandles

LEMMA ErrorFields ==
  ASSUME NEW x \in Handler, NEW y, y = [x EXCEPT !.status = "DONE", !.hasError = TRUE]
  PROVE  /\ y \in Handler
         /\ SameRequest(x, y) /\ SameRefs(x, y) /\ SameHandles(x, y)
         /\ y.status = "DONE" /\ y.hasError
         /\ y.wsInClose = x.wsInClose
<1>1. y \in Handler
  BY DEF Handler, Statuses
<1> QED BY <1>1 DEF Handler, SameRequest, SameRefs, SameHandles

LEMMA RemoveRequestFacts ==
  ASSUME NEW x \in Handler
  PROVE  /\ RemoveRequest(x) \in Handler
         /\ SameRequest(x, RemoveRequest(x)) /\ SameHandles(x, RemoveRequest(x))
         /\ SameAnswer(x, RemoveRequest(x))
         /\ RemoveRequest(x).wsInClose = x.wsInClose
         /\ (x.handlerSet => x.pDisconnect) => HandlerForgotten(x, RemoveRequest(x))
<1>1. PICK y : y = RemoveRequest(x)
  OBVIOUS
<1>2. CASE x.pDisconnect /\ x.handlerSet
  <2>1. y = [x EXCEPT !.pDisconnect = FALSE, !.handlerSet = FALSE, !.refs = @ - 1]
    BY <1>1, <1>2 DEF RemoveRequest
  <2>3. /\ y \in Handler
        /\ SameRequest(x, y) /\ SameHandles(x, y) /\ SameAnswer(x, y)
        /\ y.refs = x.refs - 1 /\ ~y.handlerSet /\ ~y.pDisconnect
        /\ y.wsInClose = x.wsInClose
    BY <2>1, ReleaseFields
  <2>4. HandlerForgotten(x, y)
    BY <1>2, <2>3 DEF HandlerForgotten, Open
  <2> QED BY <1>1, <2>3, <2>4
<1>3. CASE ~(x.pDisconnect /\ x.handlerSet)
  <2>1. y = [x EXCEPT !.pDisconnect = FALSE]
    BY <1>1, <1>3, Zenon DEF RemoveRequest
  <2>2. /\ y \in Handler
        /\ SameRequest(x, y) /\ SameHandles(x, y) /\ SameAnswer(x, y)
        /\ y.refs = x.refs /\ y.handlerSet = x.handlerSet /\ ~y.pDisconnect
        /\ y.wsInClose = x.wsInClose
    BY <2>1, ForgetFields
  <2>3. x.refs \in Int
    BY DEF Handler
  <2>4. (x.handlerSet => x.pDisconnect) => HandlerForgotten(x, y)
    BY <1>3, <2>2, <2>3 DEF HandlerForgotten, Open
  <2> QED BY <1>1, <2>2, <2>4
<1> QED BY <1>2, <1>3

LEMMA CloseRequestFacts ==
  ASSUME NEW x \in Handler
  PROVE  LET y == CloseRequest(x) IN
         /\ y \in Handler
         /\ SameRequest(x, y) /\ SameAnswer(x, y) /\ SameRefs(x, y)
         /\ y.wsInClose = x.wsInClose
         /\ x.hRequest /\ ~x.httpInClose =>
              y.httpInClose /\ ~y.hRequest /\ y.http = "closing"
         /\ x.httpInClose => SameHandles(x, y)
<1>1. PICK y : y = CloseRequest(x)
  OBVIOUS
<1>2. CASE x.hRequest /\ ~x.httpInClose
  <2>1. y = [x EXCEPT !.httpInClose = TRUE, !.hRequest = FALSE, !.http = "closing"]
    BY <1>1, <1>2 DEF CloseRequest
  <2> QED BY <1>1, <1>2, <2>1, CloseFields
<1>3. CASE ~(x.hRequest /\ ~x.httpInClose)
  <2>1. CloseRequest(x) = x
    BY <1>3, Zenon DEF CloseRequest
  <2> QED BY <1>3, <2>1 DEF SameRequest, SameAnswer, SameRefs, SameHandles
<1> QED BY <1>2, <1>3

LEMMA ResetsClientFacts ==
  ASSUME NEW x \in Handler, Typing
  PROVE  LET y == ResetsClient(x) IN
         /\ y \in Handler
         /\ SameRequest(x, y) /\ SameAnswer(x, y) /\ SameRefs(x, y) /\ SameHandles(x, y)
<1>1. PICK y : y = ResetsClient(x)
  OBVIOUS
<1>2. CASE TerminatesWebSocket(x)
  <2>1. PICK b : b = (x.reset \/ ~ws.cleanup)
    OBVIOUS
  <2>2. b \in BOOLEAN
    BY <2>1
  <2>3. y = [x EXCEPT !.wsInClose = TRUE, !.reset = b]
    BY <1>1, <1>2, <2>1 DEF ResetsClient
  <2> QED BY <1>1, <2>2, <2>3, ResetFields
<1>3. CASE ~TerminatesWebSocket(x)
  <2>1. ResetsClient(x) = x
    BY <1>3, Zenon DEF ResetsClient
  <2> QED BY <2>1 DEF SameRequest, SameAnswer, SameRefs, SameHandles
<1> QED BY <1>2, <1>3

\* A callback that finds the request done forgets the handler and closes the request.
HandlesClose(x, y) ==
  /\ x.hRequest /\ ~x.httpInClose => y.httpInClose /\ ~y.hRequest /\ y.http = "closing"
  /\ x.httpInClose => SameHandles(x, y)

LEMMA EndingFacts ==
  ASSUME NEW x \in Handler, Typing
  PROVE  LET y == ResetsClient(CloseRequest(RemoveRequest(x))) IN
         /\ y \in Handler /\ SameRequest(x, y) /\ SameAnswer(x, y) /\ HandlesClose(x, y)
         /\ (x.handlerSet => x.pDisconnect) => HandlerForgotten(x, y)
<1>1. PICK a : a = RemoveRequest(x)
  OBVIOUS
<1>2. PICK b : b = CloseRequest(a)
  OBVIOUS
<1>3. PICK y : y = ResetsClient(b)
  OBVIOUS
<1>4. /\ a \in Handler /\ SameRequest(x, a) /\ SameHandles(x, a) /\ SameAnswer(x, a)
      /\ (x.handlerSet => x.pDisconnect) => HandlerForgotten(x, a)
  BY <1>1, RemoveRequestFacts
<1>5. /\ b \in Handler /\ SameRequest(a, b) /\ SameAnswer(a, b) /\ SameRefs(a, b)
      /\ a.hRequest /\ ~a.httpInClose => b.httpInClose /\ ~b.hRequest /\ b.http = "closing"
      /\ a.httpInClose => SameHandles(a, b)
  BY <1>2, <1>4, CloseRequestFacts
<1>6. /\ y \in Handler /\ SameRequest(b, y) /\ SameAnswer(b, y) /\ SameRefs(b, y)
      /\ SameHandles(b, y)
  BY <1>3, <1>5, ResetsClientFacts
<1>7. SameRequest(x, y) /\ SameAnswer(x, y)
  BY <1>4, <1>5, <1>6 DEF SameRequest, SameAnswer
<1>8. HandlesClose(x, y)
  BY <1>4, <1>5, <1>6 DEF HandlesClose, SameHandles
<1>9. (x.handlerSet => x.pDisconnect) => HandlerForgotten(x, y)
  BY <1>4, <1>5, <1>6 DEF HandlerForgotten, SameRefs
<1> QED BY <1>1, <1>2, <1>3, <1>6, <1>7, <1>8, <1>9

LEMMA WinHttpFailureFacts ==
  ASSUME NEW x \in Handler
  PROVE  LET y == WinHttpFailure(x) IN
         /\ y \in Handler /\ SameRequest(x, y) /\ SameRefs(x, y) /\ SameHandles(x, y)
         /\ y.wsInClose = x.wsInClose /\ y.hasError
         /\ (x.hasError => x.status = "DONE") => y.status = "DONE"
<1>1. PICK y : y = WinHttpFailure(x)
  OBVIOUS
<1>2. CASE x.hasError
  <2>1. WinHttpFailure(x) = x
    BY <1>2 DEF WinHttpFailure
  <2> QED BY <1>2, <2>1 DEF SameRequest, SameRefs, SameHandles
<1>3. CASE ~x.hasError
  <2>1. y = [x EXCEPT !.status = "DONE", !.hasError = TRUE]
    BY <1>1, <1>3 DEF WinHttpFailure
  <2> QED BY <1>1, <2>1, ErrorFields
<1> QED BY <1>2, <1>3

\* The callbacks that are not the last of a handle.
LEMMA FinishDone ==
  ASSUME NEW x \in Handler, NEW more \in BOOLEAN, NEW closing \in BOOLEAN,
         ~LastClosed(x, closing), x.status = "DONE", Typing
  PROVE  LET y == FinishCallback(x, more, closing) IN
         /\ y \in Handler /\ SameRequest(x, y) /\ SameAnswer(x, y) /\ HandlesClose(x, y)
         /\ (x.handlerSet => x.pDisconnect) => HandlerForgotten(x, y)
<1>1. FinishCallback(x, more, closing) = ResetsClient(CloseRequest(RemoveRequest(x)))
  BY DEF FinishCallback
<1> QED BY <1>1, EndingFacts

LEMMA FailingFacts ==
  ASSUME NEW x \in Handler, NEW more \in BOOLEAN, Typing
  PROVE  LET y == FinishCallback(WinHttpFailure(x), more, FALSE) IN
         (x.hasError => x.status = "DONE") =>
         /\ y \in Handler /\ SameRequest(x, y) /\ HandlesClose(x, y)
         /\ y.status = "DONE" /\ y.hasError
         /\ (x.handlerSet => x.pDisconnect) => HandlerForgotten(x, y)
<1>1. SUFFICES ASSUME x.hasError => x.status = "DONE"
      PROVE  LET y == FinishCallback(WinHttpFailure(x), more, FALSE) IN
             /\ y \in Handler /\ SameRequest(x, y) /\ HandlesClose(x, y)
             /\ y.status = "DONE" /\ y.hasError
             /\ (x.handlerSet => x.pDisconnect) => HandlerForgotten(x, y)
  BY Zenon
<1>2. PICK a : a = WinHttpFailure(x)
  OBVIOUS
<1>3. /\ a \in Handler /\ SameRequest(x, a) /\ SameRefs(x, a) /\ SameHandles(x, a)
      /\ a.hasError /\ a.status = "DONE"
  BY <1>1, <1>2, WinHttpFailureFacts
<1>4. PICK y : y = FinishCallback(a, more, FALSE)
  OBVIOUS
<1>5. ~LastClosed(a, FALSE)
  BY DEF LastClosed
<1>6. /\ y \in Handler /\ SameRequest(a, y) /\ SameAnswer(a, y) /\ HandlesClose(a, y)
      /\ (a.handlerSet => a.pDisconnect) => HandlerForgotten(a, y)
  BY <1>3, <1>4, <1>5, FinishDone
<1>7. SameRequest(x, y) /\ y.status = "DONE" /\ y.hasError
  BY <1>3, <1>6 DEF SameRequest, SameAnswer
<1>8. HandlesClose(x, y)
  BY <1>3, <1>6 DEF HandlesClose, SameHandles
<1>9. (x.handlerSet => x.pDisconnect) => HandlerForgotten(x, y)
  BY <1>3, <1>6 DEF HandlerForgotten, SameRefs
<1> QED BY <1>2, <1>4, <1>6, <1>7, <1>8, <1>9

LEMMA AsyncFailureFacts ==
  ASSUME NEW x \in Handler, Typing
  PROVE  LET y == AsyncFailure(x) IN
         /\ y \in Handler /\ SameRequest(x, y) /\ SameRefs(x, y) /\ HandlesClose(x, y)
         /\ y.status = "DONE" /\ y.hasError
<1>1. PICK a : a = [x EXCEPT !.status = "DONE", !.hasError = TRUE]
  OBVIOUS
<1>2. PICK b : b = ResetsClient(a)
  OBVIOUS
<1>3. PICK y : y = CloseRequest(b)
  OBVIOUS
<1>4. /\ a \in Handler /\ SameRequest(x, a) /\ SameRefs(x, a) /\ SameHandles(x, a)
      /\ a.status = "DONE" /\ a.hasError
  BY <1>1, ErrorFields
<1>5. /\ b \in Handler /\ SameRequest(a, b) /\ SameAnswer(a, b) /\ SameRefs(a, b)
      /\ SameHandles(a, b)
  BY <1>2, <1>4, ResetsClientFacts
<1>6. /\ y \in Handler /\ SameRequest(b, y) /\ SameAnswer(b, y) /\ SameRefs(b, y)
      /\ b.hRequest /\ ~b.httpInClose => y.httpInClose /\ ~y.hRequest /\ y.http = "closing"
      /\ b.httpInClose => SameHandles(b, y)
  BY <1>3, <1>5, CloseRequestFacts
<1>7. SameRequest(x, y) /\ y.status = "DONE" /\ y.hasError /\ SameRefs(x, y)
  BY <1>4, <1>5, <1>6 DEF SameRequest, SameAnswer, SameRefs
<1>8. HandlesClose(x, y)
  BY <1>4, <1>5, <1>6 DEF HandlesClose, SameHandles
<1> QED BY <1>1, <1>2, <1>3, <1>6, <1>7, <1>8 DEF AsyncFailure

\* A completion is posted, or taken.
LEMMA PostFields ==
  ASSUME NEW x \in Handler, NEW n \in PostCounts, NEW y, y = [x EXCEPT !.posts = n]
  PROVE  /\ y \in Handler /\ SameHandles(x, y) /\ SameAnswer(x, y) /\ SameRefs(x, y)
         /\ y.upgrade = x.upgrade /\ y.handlers = x.handlers /\ y.webSocket = x.webSocket
         /\ y.toReceive = x.toReceive /\ y.content = x.content /\ y.finish = x.finish
         /\ y.done = x.done /\ y.disconnected = x.disconnected
         /\ y.wsInClose = x.wsInClose /\ y.posts = n
<1>1. y \in Handler
  BY DEF Handler
<1> QED BY <1>1 DEF Handler, SameHandles, SameAnswer, SameRefs

LEMMA CountFields ==
  ASSUME NEW x \in Handler, NEW n \in HandlerCounts, NEW y, y = [x EXCEPT !.handlers = n]
  PROVE  /\ y \in Handler /\ SameHandles(x, y) /\ SameAnswer(x, y) /\ SameRefs(x, y)
         /\ y.upgrade = x.upgrade /\ y.handlers = n /\ y.webSocket = x.webSocket
         /\ y.toReceive = x.toReceive /\ y.content = x.content /\ y.finish = x.finish
         /\ y.done = x.done /\ y.disconnected = x.disconnected
         /\ y.wsInClose = x.wsInClose /\ y.posts = x.posts
<1>1. y \in Handler
  BY DEF Handler
<1> QED BY <1>1 DEF Handler, SameHandles, SameAnswer, SameRefs

LEMMA LengthFields ==
  ASSUME NEW x \in Handler, NEW n \in BodyLengths, NEW y, y = [x EXCEPT !.toReceive = n]
  PROVE  /\ y \in Handler /\ SameHandles(x, y) /\ SameAnswer(x, y) /\ SameRefs(x, y)
         /\ y.upgrade = x.upgrade /\ y.handlers = x.handlers /\ y.webSocket = x.webSocket
         /\ y.toReceive = n /\ y.content = x.content /\ y.finish = x.finish
         /\ y.done = x.done /\ y.disconnected = x.disconnected
         /\ y.wsInClose = x.wsInClose /\ y.posts = x.posts
<1>1. y \in Handler
  BY DEF Handler
<1> QED BY <1>1 DEF Handler, SameHandles, SameAnswer, SameRefs

LEMMA ContentFields ==
  ASSUME NEW x \in Handler, NEW n \in Contents, NEW y, y = [x EXCEPT !.content = n]
  PROVE  /\ y \in Handler /\ SameHandles(x, y) /\ SameAnswer(x, y) /\ SameRefs(x, y)
         /\ y.upgrade = x.upgrade /\ y.handlers = x.handlers /\ y.webSocket = x.webSocket
         /\ y.toReceive = x.toReceive /\ y.content = n /\ y.finish = x.finish
         /\ y.done = x.done /\ y.disconnected = x.disconnected
         /\ y.wsInClose = x.wsInClose /\ y.posts = x.posts
<1>1. y \in Handler
  BY DEF Handler
<1> QED BY <1>1 DEF Handler, SameHandles, SameAnswer, SameRefs

LEMMA StatusFields ==
  ASSUME NEW x \in Handler, NEW st \in Statuses, NEW y, y = [x EXCEPT !.status = st]
  PROVE  /\ y \in Handler /\ SameHandles(x, y) /\ SameRefs(x, y) /\ SameRequest(x, y)
         /\ y.status = st /\ y.hasError = x.hasError /\ y.wsInClose = x.wsInClose
<1>1. y \in Handler
  BY DEF Handler
<1> QED BY <1>1 DEF Handler, SameHandles, SameRefs, SameRequest

(***************************************************************************)
(* Parts of the invariant that whole groups of actions keep.               *)
(***************************************************************************)
LEMMA RefsSame ==
  ASSUME HeldRefs, SameRefs(h, h'), UNCHANGED <<exec, notify, returned>>
  PROVE  HeldRefs'
BY DEF HeldRefs, SameRefs, Ended

LEMMA RefsForgotten ==
  ASSUME HeldRefs, HandlerForgotten(h, h'), UNCHANGED <<exec, notify, returned>>
  PROVE  HeldRefs'
<1>1. h'.refs = (IF exec.pc = "released" THEN 0 ELSE 1)
             + (IF exec.pc \in {"send", "dereference"} THEN 1 ELSE 0)
             + (IF notify \in {"terminate", "dereference"} THEN 1 ELSE 0)
  BY DEF HeldRefs, HandlerForgotten, Open
<1> QED BY <1>1 DEF HeldRefs, HandlerForgotten, Ended

LEMMA SocketSame == ASSUME SocketInv, UNCHANGED wsVars PROVE SocketInv'
BY DEF SocketInv, wsVars, Pumps, Counts, Counted, Counting, InCallbacks, NoCallbacks,
       ClosedSocket

LEMMA NotTerminated ==
  ASSUME NEW x, NEW closing \in BOOLEAN, ~x.webSocket,
         TerminateWebSocket(x, closing, ws), UNCHANGED <<pending, running>>
  PROVE  UNCHANGED wsVars
BY DEF TerminateWebSocket, TerminatesWebSocket, wsVars

LEMMA TypingFrom ==
  ASSUME Typing, h' \in Handler, UNCHANGED wsVars,
         op' \in {"none", "send", "write", "receive", "query", "read"},
         iis' \in {"none", "readBody", "flush"},
         left' \in [body : Int, response : Int],
         UNCHANGED <<exec, notify, returned>>
  PROVE  Typing'
BY DEF Typing, wsVars

LEMMA InitTyping == Init => Typing
<1> SUFFICES ASSUME Init PROVE Typing
  OBVIOUS
<1>1. PICK upgrade \in BOOLEAN, length \in BodyLengths : h = NewHandler(upgrade, length)
  BY DEF Init, BodyLengths
<1>2. 0 \in Contents /\ 1 \in HandlerCounts /\ 0 \in PostCounts
  BY SizeAssumption DEF Contents, HandlerCounts, PostCounts
<1>3. "START" \in Statuses /\ "none" \in HandleStates
  BY DEF Statuses, HandleStates
<1>4. h \in Handler
  BY <1>1, <1>2, <1>3 DEF NewHandler, Handler
<1>5. ws \in WebSockets /\ ends \in Ends
  BY <1>3 DEF Init, WsInit, NoWebSocket, WebSockets, Ends
<1>6. running \in Tables
  BY DEF Init, WsInit, Tables
<1>7. left \in [body : Int, response : Int]
  BY SizeAssumption DEF Init
<1>8. exec \in [pc : Places, ret : {"none", "pending"} \cup Final]
  BY DEF Init, Places
<1> QED BY <1>4, <1>5, <1>6, <1>7, <1>8 DEF Init, WsInit, Typing

LEMMA InitForward == Init => ForwardInv
<1> SUFFICES ASSUME Init PROVE ForwardInv
  OBVIOUS
<1>1. Typing
  BY InitTyping
<1>2. PICK upgrade \in BOOLEAN, length \in BodyLengths : h = NewHandler(upgrade, length)
  BY DEF Init, BodyLengths
<1>3. /\ h.status = "START" /\ ~h.hRequest /\ h.http = "none" /\ h.handlers = 1
      /\ ~h.httpInClose /\ ~h.wsInClose /\ ~h.webSocket /\ h.content = 0
      /\ ~h.hasError /\ ~h.finish /\ ~h.done /\ ~h.pDisconnect /\ ~h.handlerSet
      /\ h.refs = 1 /\ h.posts = 0
  BY <1>2 DEF NewHandler
<1>4. exec.pc = "start" /\ exec.ret = "none" /\ notify = "none" /\ returned = "none"
  BY DEF Init
<1>5. HeldRefs
  BY <1>3, <1>4 DEF HeldRefs
<1>6. ws.handle = "none" /\ pending = {} /\ NoCallbacks /\ ~ends.counted
  BY DEF Init, WsInit, NoWebSocket, NoCallbacks
<1>7. InCallbacks("winhttp") + InCallbacks("iis") <= Threads
  BY <1>6, ThreadsAssumption
     DEF NoCallbacks, InCallbacks, Counting, Callers, Stages, Reasons
<1>8. SocketInv
  BY <1>6, <1>7 DEF SocketInv, Pumps
<1>9. Unsent
  BY <1>3, <1>4 DEF Unsent, NobodysTurn, Init, WsInit
<1> QED BY <1>1, <1>5, <1>8, <1>9 DEF ForwardInv, Phases

(***************************************************************************)
(* OnExecuteRequestHandler, the end of the module, a disconnect.           *)
(***************************************************************************)
LEMMA RefsFields ==
  ASSUME NEW x \in Handler, NEW n, n \in Int, NEW y, y = [x EXCEPT !.refs = n]
  PROVE  /\ y \in Handler /\ SameHandles(x, y) /\ SameAnswer(x, y) /\ SameRequest(x, y)
         /\ y.wsInClose = x.wsInClose
         /\ y.refs = n /\ y.handlerSet = x.handlerSet /\ y.pDisconnect = x.pDisconnect
<1>1. y \in Handler
  BY DEF Handler
<1> QED BY <1>1 DEF Handler, SameHandles, SameAnswer, SameRequest

\* What the phases look at in the handler.
SamePhase(x, y) ==
  /\ SameRequest(x, y) /\ SameHandles(x, y) /\ SameAnswer(x, y) /\ y.wsInClose = x.wsInClose

LEMMA AtStart ==
  ASSUME ForwardInv, exec.pc \in {"start", "send"}
  PROVE  Unsent /\ exec.ret = "none" /\ returned = "none"
BY DEF ForwardInv, HeldRefs, Phases, Unsent, Forwards, Session, Closes

LEMMA DoExecuteFails == ForwardInv /\ ExecuteFails => ForwardInv'
<1> SUFFICES ASSUME ForwardInv, ExecuteFails PROVE ForwardInv'
  OBVIOUS
<1>1. h \in Handler
  BY DEF ForwardInv, Typing
<1>2. PICK n : n = h.refs + 1 /\ n \in Int
  BY <1>1 DEF Handler
<1>3. PICK a : a = [h EXCEPT !.status = "DONE"]
  OBVIOUS
<1>4. PICK y : y = [a EXCEPT !.refs = n]
  OBVIOUS
<1>5. h' = y
  BY <1>1, <1>2, <1>3, <1>4 DEF ExecuteFails, Handler
<1>6. /\ a \in Handler /\ SameHandles(h, a) /\ SameRefs(h, a) /\ SameRequest(h, a)
      /\ a.status = "DONE" /\ a.hasError = h.hasError /\ a.wsInClose = h.wsInClose
  <2>1. "DONE" \in Statuses
    BY DEF Statuses
  <2> QED BY <1>1, <1>3, <2>1, StatusFields
<1>7. /\ y \in Handler /\ SameHandles(a, y) /\ SameAnswer(a, y) /\ SameRequest(a, y)
      /\ y.wsInClose = a.wsInClose
      /\ y.refs = n /\ y.handlerSet = a.handlerSet /\ y.pDisconnect = a.pDisconnect
  BY <1>2, <1>4, <1>6, RefsFields
<1>8. Unsent /\ exec.ret = "none" /\ returned = "none" /\ exec.pc = "start"
  BY AtStart DEF ExecuteFails
<1>9. /\ exec'.pc = "dereference" /\ exec'.ret = "finish"
      /\ exec' \in [pc : Places, ret : {"none", "pending"} \cup Final]
      /\ UNCHANGED <<wsVars, httpVars, notify, returned>>
  BY DEF ExecuteFails, Places, Final
<1>10. Typing'
  BY <1>5, <1>7, <1>9 DEF ForwardInv, Typing, wsVars, httpVars
<1>11. HeldRefs'
  BY <1>1, <1>2, <1>5, <1>6, <1>7, <1>8, <1>9 DEF ForwardInv, HeldRefs, SameRefs, Handler
<1>12. SocketInv'
  BY <1>9, SocketSame DEF ForwardInv
<1>13. Unsent'
  BY <1>5, <1>6, <1>7, <1>8, <1>9
     DEF Unsent, NobodysTurn, SameHandles, SameAnswer, SameRequest, wsVars, httpVars
<1> QED BY <1>10, <1>11, <1>12, <1>13 DEF ForwardInv, Phases

\* An opened request handle.
LEMMA OpenFields ==
  ASSUME NEW x \in Handler, NEW y, y = [x EXCEPT !.hRequest = TRUE, !.http = "open"]
  PROVE  /\ y \in Handler /\ SameAnswer(x, y) /\ SameRequest(x, y) /\ SameRefs(x, y)
         /\ y.wsInClose = x.wsInClose /\ y.httpInClose = x.httpInClose
         /\ y.hRequest /\ y.http = "open"
<1>0. "open" \in HandleStates
  BY DEF HandleStates
<1>1. y \in Handler
  BY <1>0 DEF Handler
<1> QED BY <1>1 DEF Handler, SameAnswer, SameRequest, SameRefs

LEMMA DoCreateFails == ForwardInv /\ CreateWinHttpRequestFails => ForwardInv'
<1> SUFFICES ASSUME ForwardInv, CreateWinHttpRequestFails PROVE ForwardInv'
  OBVIOUS
<1>1. h \in Handler
  BY DEF ForwardInv, Typing
<1>2. PICK n : n = h.refs + 1 /\ n \in Int
  BY <1>1 DEF Handler
<1>3. PICK a : a = [h EXCEPT !.status = "DONE"]
  OBVIOUS
<1>4. PICK b : b = [a EXCEPT !.refs = n]
  OBVIOUS
<1>y. PICK y : y = [b EXCEPT !.hRequest = TRUE, !.http = "open"]
  OBVIOUS
<1>5. h' = y
  BY <1>1, <1>2, <1>3, <1>4, <1>y DEF CreateWinHttpRequestFails, Handler
<1>6. /\ a \in Handler /\ SameHandles(h, a) /\ SameRefs(h, a) /\ SameRequest(h, a)
      /\ a.status = "DONE" /\ a.hasError = h.hasError /\ a.wsInClose = h.wsInClose
  <2>1. "DONE" \in Statuses
    BY DEF Statuses
  <2> QED BY <1>1, <1>3, <2>1, StatusFields
<1>7. /\ b \in Handler /\ SameHandles(a, b) /\ SameAnswer(a, b) /\ SameRequest(a, b)
      /\ b.wsInClose = a.wsInClose
      /\ b.refs = n /\ b.handlerSet = a.handlerSet /\ b.pDisconnect = a.pDisconnect
  BY <1>2, <1>4, <1>6, RefsFields
<1>z. /\ y \in Handler /\ SameAnswer(b, y) /\ SameRequest(b, y) /\ SameRefs(b, y)
      /\ y.wsInClose = b.wsInClose /\ y.httpInClose = b.httpInClose
      /\ y.hRequest /\ y.http = "open"
  BY <1>y, <1>7, OpenFields
<1>8. Unsent /\ exec.ret = "none" /\ returned = "none" /\ exec.pc = "start"
  BY AtStart DEF CreateWinHttpRequestFails
<1>9. /\ exec'.pc = "dereference" /\ exec'.ret = "finish"
      /\ exec' \in [pc : Places, ret : {"none", "pending"} \cup Final]
      /\ UNCHANGED <<wsVars, httpVars, notify, returned>>
  BY DEF CreateWinHttpRequestFails, Places, Final
<1>10. Typing'
  BY <1>5, <1>z, <1>9 DEF ForwardInv, Typing, wsVars, httpVars
<1>11. HeldRefs'
  BY <1>1, <1>2, <1>5, <1>6, <1>7, <1>z, <1>8, <1>9
     DEF ForwardInv, HeldRefs, SameRefs, Handler
<1>12. SocketInv'
  BY <1>9, SocketSame DEF ForwardInv
<1>13. Unsent'
  BY <1>5, <1>6, <1>7, <1>z, <1>8, <1>9
     DEF Unsent, NobodysTurn, SameHandles, SameAnswer, SameRequest, wsVars, httpVars
<1> QED BY <1>10, <1>11, <1>12, <1>13 DEF ForwardInv, Phases

LEMMA KnownFields ==
  ASSUME NEW x \in Handler, NEW y, y = [x EXCEPT !.pDisconnect = TRUE, !.handlerSet = TRUE]
  PROVE  /\ y \in Handler /\ SamePhase(x, y)
         /\ y.refs = x.refs /\ y.pDisconnect /\ y.handlerSet
<1>1. y \in Handler
  BY DEF Handler
<1> QED BY <1>1 DEF Handler, SamePhase, SameAnswer, SameRequest, SameHandles

LEMMA DoSetHandler == ForwardInv /\ SetHandler => ForwardInv'
<1> SUFFICES ASSUME ForwardInv, SetHandler PROVE ForwardInv'
  OBVIOUS
<1>1. h \in Handler /\ exec \in [pc : Places, ret : {"none", "pending"} \cup Final]
  BY DEF ForwardInv, Typing
<1>2. PICK n : n = h.refs + 2 /\ n \in Int
  BY <1>1 DEF Handler
<1>3. PICK a : a = [h EXCEPT !.refs = n]
  OBVIOUS
<1>4. PICK b : b = [a EXCEPT !.hRequest = TRUE, !.http = "open"]
  OBVIOUS
<1>5. PICK y : y = [b EXCEPT !.pDisconnect = TRUE, !.handlerSet = TRUE]
  OBVIOUS
<1>6. h' = y
  BY <1>1, <1>2, <1>3, <1>4, <1>5 DEF SetHandler, Handler
<1>7. /\ a \in Handler /\ SameHandles(h, a) /\ SameAnswer(h, a) /\ SameRequest(h, a)
      /\ a.wsInClose = h.wsInClose
      /\ a.refs = n /\ a.handlerSet = h.handlerSet /\ a.pDisconnect = h.pDisconnect
  BY <1>1, <1>2, <1>3, RefsFields
<1>8. /\ b \in Handler /\ SameAnswer(a, b) /\ SameRequest(a, b) /\ SameRefs(a, b)
      /\ b.wsInClose = a.wsInClose /\ b.httpInClose = a.httpInClose
      /\ b.hRequest /\ b.http = "open"
  BY <1>4, <1>7, OpenFields
<1>9. y \in Handler /\ SamePhase(b, y) /\ y.refs = b.refs /\ y.pDisconnect /\ y.handlerSet
  BY <1>5, <1>8, KnownFields
<1>10. Unsent /\ exec.ret = "none" /\ returned = "none" /\ exec.pc = "start"
  BY AtStart DEF SetHandler
<1>11. /\ exec'.pc = "send" /\ exec'.ret = exec.ret
       /\ exec' \in [pc : Places, ret : {"none", "pending"} \cup Final]
       /\ UNCHANGED <<wsVars, httpVars, notify, returned>>
  BY <1>1 DEF SetHandler, Places
<1>12. Typing'
  BY <1>6, <1>9, <1>11 DEF ForwardInv, Typing, wsVars, httpVars
<1>13. notify = "none" /\ ~h.handlerSet /\ h.refs = 1
  BY <1>10 DEF ForwardInv, HeldRefs
<1>14. y.refs = 3
  BY <1>2, <1>7, <1>8, <1>9, <1>13 DEF SameRefs
<1>15. HeldRefs'
  BY <1>6, <1>9, <1>10, <1>11, <1>13, <1>14 DEF HeldRefs
<1>16. SocketInv'
  BY <1>11, SocketSame DEF ForwardInv
<1>17. Unsent'
  BY <1>6, <1>7, <1>8, <1>9, <1>10, <1>11
     DEF Unsent, NobodysTurn, SamePhase, SameHandles, SameAnswer, SameRequest, wsVars,
         httpVars
<1> QED BY <1>12, <1>15, <1>16, <1>17 DEF ForwardInv, Phases

LEMMA DoSendRequest == ForwardInv /\ SendRequest => ForwardInv'
<1> SUFFICES ASSUME ForwardInv, SendRequest PROVE ForwardInv'
  OBVIOUS
<1>1. h \in Handler
  BY DEF ForwardInv, Typing
<1>2. /\ h' \in Handler /\ SameHandles(h, h') /\ SameRefs(h, h') /\ SameRequest(h, h')
      /\ h'.status = "SENDING" /\ h'.hasError = h.hasError /\ h'.wsInClose = h.wsInClose
  <2>1. "SENDING" \in Statuses
    BY DEF Statuses
  <2> QED BY <1>1, <2>1, StatusFields DEF SendRequest
<1>3. Unsent /\ exec.ret = "none" /\ returned = "none" /\ exec.pc = "send"
  BY AtStart DEF SendRequest
<1>4. /\ exec'.pc = "dereference" /\ exec'.ret = "pending" /\ op' = "send"
      /\ exec' \in [pc : Places, ret : {"none", "pending"} \cup Final]
      /\ UNCHANGED <<wsVars, iis, left, notify, returned>>
  BY DEF SendRequest, Places
<1>5. Typing'
  BY <1>2, <1>4 DEF ForwardInv, Typing, wsVars
<1>6. HeldRefs'
  BY <1>2, <1>3, <1>4 DEF ForwardInv, HeldRefs, SameRefs, Ended
<1>7. SocketInv'
  BY <1>4, SocketSame DEF ForwardInv
<1>8. Forwards'
  BY <1>2, <1>3, <1>4
     DEF Unsent, Forwards, SendsTurn, NobodysTurn, SameHandles, SameRequest, wsVars
<1> QED BY <1>5, <1>6, <1>7, <1>8 DEF ForwardInv, Phases

LEMMA DoSendRequestFails == ForwardInv /\ SendRequestFails => ForwardInv'
<1> SUFFICES ASSUME ForwardInv, SendRequestFails PROVE ForwardInv'
  OBVIOUS
<1>1. h \in Handler
  BY DEF ForwardInv, Typing
<1>2. PICK a : a = [h EXCEPT !.status = "DONE"]
  OBVIOUS
<1>3. h' = RemoveRequest(a)
  BY <1>2 DEF SendRequestFails
<1>4. /\ a \in Handler /\ SameHandles(h, a) /\ SameRefs(h, a) /\ SameRequest(h, a)
      /\ a.status = "DONE" /\ a.hasError = h.hasError /\ a.wsInClose = h.wsInClose
  <2>1. "DONE" \in Statuses
    BY DEF Statuses
  <2> QED BY <1>1, <1>2, <2>1, StatusFields
<1>5. /\ h' \in Handler /\ SameRequest(a, h') /\ SameHandles(a, h') /\ SameAnswer(a, h')
      /\ h'.wsInClose = a.wsInClose
      /\ (a.handlerSet => a.pDisconnect) => HandlerForgotten(a, h')
  BY <1>3, <1>4, RemoveRequestFacts
<1>6. h.handlerSet => h.pDisconnect
  BY DEF ForwardInv, HeldRefs
<1>7. HandlerForgotten(h, h')
  BY <1>4, <1>5, <1>6 DEF HandlerForgotten, SameRefs
<1>8. Unsent /\ exec.ret = "none" /\ returned = "none" /\ exec.pc = "send"
  BY AtStart DEF SendRequestFails
<1>9. /\ exec'.pc = "dereference" /\ exec'.ret = "finish"
      /\ exec' \in [pc : Places, ret : {"none", "pending"} \cup Final]
      /\ UNCHANGED <<wsVars, httpVars, notify, returned>>
  BY DEF SendRequestFails, Places, Final
<1>10. Typing'
  BY <1>5, <1>9 DEF ForwardInv, Typing, wsVars, httpVars
<1>11. HeldRefs'
  BY <1>7, <1>8, <1>9 DEF ForwardInv, HeldRefs, HandlerForgotten, Open, Ended
<1>12. SocketInv'
  BY <1>9, SocketSame DEF ForwardInv
<1>13. Unsent'
  BY <1>4, <1>5, <1>8, <1>9
     DEF Unsent, NobodysTurn, SameHandles, SameAnswer, SameRequest, wsVars, httpVars
<1> QED BY <1>10, <1>11, <1>12, <1>13 DEF ForwardInv, Phases

LEMMA DoUpgradeOptionFails == ForwardInv /\ UpgradeOptionFails => ForwardInv'
<1> SUFFICES ASSUME ForwardInv, UpgradeOptionFails PROVE ForwardInv'
  OBVIOUS
<1>1. h \in Handler
  BY DEF ForwardInv, Typing
<1>2. /\ h' \in Handler /\ SameHandles(h, h') /\ SameRefs(h, h') /\ SameRequest(h, h')
      /\ h'.status = "SENDING" /\ h'.hasError = h.hasError /\ h'.wsInClose = h.wsInClose
  <2>1. "SENDING" \in Statuses
    BY DEF Statuses
  <2> QED BY <1>1, <2>1, StatusFields DEF UpgradeOptionFails
<1>3. Unsent /\ exec.ret = "none" /\ returned = "none" /\ exec.pc = "send"
  BY AtStart DEF UpgradeOptionFails
<1>4. /\ exec'.pc = "dereference" /\ exec'.ret = "continue"
      /\ exec' \in [pc : Places, ret : {"none", "pending"} \cup Final]
      /\ UNCHANGED <<wsVars, httpVars, notify, returned>>
  BY DEF UpgradeOptionFails, Places, Final
<1>5. Typing'
  BY <1>2, <1>4 DEF ForwardInv, Typing, wsVars, httpVars
<1>6. HeldRefs'
  BY <1>2, <1>3, <1>4 DEF ForwardInv, HeldRefs, SameRefs, Ended
<1>7. SocketInv'
  BY <1>4, SocketSame DEF ForwardInv
<1>8. Unsent'
  BY <1>2, <1>3, <1>4
     DEF Unsent, NobodysTurn, SameHandles, SameRequest, wsVars, httpVars
<1> QED BY <1>5, <1>6, <1>7, <1>8 DEF ForwardInv, Phases

\* A step that changes nothing a phase looks at, but perhaps who has references.
LEMMA PhasesSame ==
  ASSUME Phases, SamePhase(h, h'), UNCHANGED <<wsVars, httpVars, returned>>,
         exec'.ret = exec.ret, exec'.pc = exec.pc
  PROVE  Phases'
<1> USE DEF SamePhase, SameRequest, SameHandles, SameAnswer, wsVars, httpVars, NobodysTurn
<1>1. CASE Unsent
  <2>1. Unsent'
    BY <1>1 DEF Unsent
  <2> QED BY <2>1 DEF Phases
<1>2. CASE Forwards
  <2>1. Forwards'
    BY <1>2 DEF Forwards, SendsTurn, ReceivesTurn, SwitchesTurn
  <2> QED BY <2>1 DEF Phases
<1>3. CASE Session
  <2>1. Session'
    BY <1>3 DEF Session, Open
  <2> QED BY <2>1 DEF Phases
<1>4. CASE Closes
  <2>1. Closes'
    BY <1>4 DEF Closes, Open, Idle, InCallbacks, Counting, Complete
  <2> QED BY <2>1 DEF Phases
<1> QED BY <1>1, <1>2, <1>3, <1>4 DEF Phases

LEMMA DoExecuteReturns == ForwardInv /\ ExecuteReturns => ForwardInv'
<1> SUFFICES ASSUME ForwardInv, ExecuteReturns PROVE ForwardInv'
  OBVIOUS
<1>1. h \in Handler /\ exec \in [pc : Places, ret : {"none", "pending"} \cup Final]
  BY DEF ForwardInv, Typing
<1>2. PICK n : n = h.refs - 1 /\ n \in Int
  BY <1>1 DEF Handler
<1>3. h' = [h EXCEPT !.refs = n]
  BY <1>2 DEF ExecuteReturns
<1>4. /\ h' \in Handler /\ SamePhase(h, h')
      /\ h'.refs = n /\ h'.handlerSet = h.handlerSet /\ h'.pDisconnect = h.pDisconnect
  BY <1>1, <1>2, <1>3, RefsFields DEF SamePhase
<1>5. /\ exec.pc = "dereference" /\ exec'.pc = "done" /\ exec'.ret = exec.ret
      /\ exec' \in [pc : Places, ret : {"none", "pending"} \cup Final]
      /\ UNCHANGED <<wsVars, httpVars, notify>>
  BY <1>1 DEF ExecuteReturns, Places
<1>6. returned' = IF exec.ret \in Final THEN exec.ret ELSE returned
  BY DEF ExecuteReturns
<1>7. Typing'
  BY <1>4, <1>5, <1>6 DEF ForwardInv, Typing, wsVars, httpVars
<1>8. HeldRefs'
  <2>1. /\ h.refs = 2 + (IF h.handlerSet THEN 1 ELSE 0)
                     + (IF notify \in {"terminate", "dereference"} THEN 1 ELSE 0)
        /\ h.handlerSet => h.pDisconnect /\ notify = "none"
        /\ exec.ret # "none"
    BY <1>5 DEF ForwardInv, HeldRefs
  <2> QED BY <2>1, <1>2, <1>4, <1>5 DEF HeldRefs
<1>9. SocketInv'
  BY <1>5, SocketSame DEF ForwardInv
<1>10. Phases'
  <2> USE <1>4, <1>5, <1>6
      DEF SamePhase, SameRequest, SameHandles, SameAnswer, wsVars, httpVars, NobodysTurn
  <2>1. CASE Unsent
    <3>1. Unsent'
      BY <2>1 DEF Unsent
    <3> QED BY <3>1 DEF Phases
  <2>2. CASE Forwards
    <3>1. Forwards'
      BY <2>2 DEF Forwards, SendsTurn, ReceivesTurn, SwitchesTurn, Final
    <3> QED BY <3>1 DEF Phases
  <2>3. CASE Session
    BY <2>3 DEF Session
  <2>4. CASE Closes
    <3>1. ~h.done
      BY <2>4 DEF Closes
    <3>2. Closes'
      BY <2>4, <3>1 DEF Closes, Open, Idle, InCallbacks, Counting, Complete, Final
    <3> QED BY <3>2 DEF Phases
  <2> QED BY <2>1, <2>2, <2>3, <2>4 DEF ForwardInv, Phases
<1> QED BY <1>7, <1>8, <1>9, <1>10 DEF ForwardInv

LEMMA DoModuleEnds == ForwardInv /\ ModuleEnds => ForwardInv'
<1> SUFFICES ASSUME ForwardInv, ModuleEnds PROVE ForwardInv'
  OBVIOUS
<1>1. h \in Handler /\ exec \in [pc : Places, ret : {"none", "pending"} \cup Final]
  BY DEF ForwardInv, Typing
<1>2. PICK n : n = h.refs - 1 /\ n \in Int
  BY <1>1 DEF Handler
<1>3. h' = [h EXCEPT !.refs = n]
  BY <1>2 DEF ModuleEnds
<1>4. /\ h' \in Handler /\ SamePhase(h, h')
      /\ h'.refs = n /\ h'.handlerSet = h.handlerSet /\ h'.pDisconnect = h.pDisconnect
  BY <1>1, <1>2, <1>3, RefsFields DEF SamePhase
<1>5. /\ exec.pc = "done" /\ exec'.pc = "released" /\ exec'.ret = exec.ret
      /\ exec' \in [pc : Places, ret : {"none", "pending"} \cup Final]
      /\ UNCHANGED <<wsVars, httpVars, notify, returned>>
  BY <1>1 DEF ModuleEnds, Places
<1>6. Ended
  BY DEF ModuleEnds
<1>7. Typing'
  BY <1>4, <1>5 DEF ForwardInv, Typing, wsVars, httpVars
<1>8. HeldRefs'
  <2>1. /\ h.refs = 1 + (IF h.handlerSet THEN 1 ELSE 0)
                     + (IF notify \in {"terminate", "dereference"} THEN 1 ELSE 0)
        /\ h.handlerSet => h.pDisconnect /\ notify = "none"
        /\ exec.ret # "none"
    BY <1>5 DEF ForwardInv, HeldRefs
  <2> QED BY <2>1, <1>2, <1>4, <1>5, <1>6 DEF HeldRefs, Ended
<1>9. SocketInv'
  BY <1>5, SocketSame DEF ForwardInv
<1>10. Phases'
  <2> USE <1>4, <1>5, <1>6
      DEF SamePhase, SameRequest, SameHandles, SameAnswer, wsVars, httpVars, NobodysTurn
  <2>1. CASE Unsent
    <3>1. Unsent'
      BY <2>1 DEF Unsent
    <3> QED BY <3>1 DEF Phases
  <2>2. CASE Forwards
    BY <2>2 DEF Forwards, Ended, Final
  <2>3. CASE Session
    BY <2>3 DEF Session, Ended, Final
  <2>4. CASE Closes
    <3>1. Closes'
      BY <2>4 DEF Closes, Open, Idle, InCallbacks, Counting, Complete
    <3> QED BY <3>1 DEF Phases
  <2> QED BY <2>1, <2>2, <2>3, <2>4 DEF ForwardInv, Phases
<1> QED BY <1>7, <1>8, <1>9, <1>10 DEF ForwardInv

LEMMA DoNotifyDisconnect == ForwardInv /\ NotifyDisconnect => ForwardInv'
<1> SUFFICES ASSUME ForwardInv, NotifyDisconnect PROVE ForwardInv'
  OBVIOUS
<1>1. h \in Handler
  BY DEF ForwardInv, Typing
<1>2. h' = [h EXCEPT !.handlerSet = FALSE]
  BY DEF NotifyDisconnect
<1>3. h' \in Handler
  BY <1>1, <1>2 DEF Handler
<1>4. SamePhase(h, h') /\ h'.refs = h.refs /\ ~h'.handlerSet
  BY <1>1, <1>2, <1>3 DEF Handler, SamePhase, SameRequest, SameHandles, SameAnswer
<1>5. /\ notify = "none" /\ h.handlerSet /\ notify' = "terminate"
      /\ UNCHANGED <<wsVars, httpVars, exec, returned>>
  BY DEF NotifyDisconnect
<1>6. Typing'
  BY <1>3, <1>5 DEF ForwardInv, Typing, wsVars, httpVars
<1>7. HeldRefs'
  BY <1>4, <1>5 DEF ForwardInv, HeldRefs, Ended
<1>8. SocketInv'
  BY <1>5, SocketSame DEF ForwardInv
<1>9. Phases'
  BY <1>4, <1>5, PhasesSame DEF ForwardInv
<1> QED BY <1>6, <1>7, <1>8, <1>9 DEF ForwardInv

LEMMA DoTerminateRequest == ForwardInv /\ TerminateRequest => ForwardInv'
<1> SUFFICES ASSUME ForwardInv, TerminateRequest PROVE ForwardInv'
  OBVIOUS
<1>1. h \in Handler
  BY DEF ForwardInv, Typing
<1>2. PICK b \in BOOLEAN : b = IF h.httpInClose THEN h.disconnected ELSE TRUE
  BY <1>1 DEF Handler
<1>3. h' = [h EXCEPT !.disconnected = b]
  BY <1>2 DEF TerminateRequest
<1>4. h' \in Handler
  BY <1>1, <1>3 DEF Handler
<1>5. /\ h'.upgrade = h.upgrade /\ h'.handlers = h.handlers /\ h'.webSocket = h.webSocket
      /\ h'.toReceive = h.toReceive /\ h'.content = h.content /\ h'.finish = h.finish
      /\ h'.done = h.done /\ h'.posts = h.posts /\ h'.wsInClose = h.wsInClose
      /\ SameHandles(h, h') /\ SameAnswer(h, h') /\ SameRefs(h, h') /\ h'.disconnected = b
  BY <1>1, <1>3, <1>4 DEF Handler, SameHandles, SameAnswer, SameRefs
<1>6. /\ notify = "terminate" /\ notify' = "dereference"
      /\ UNCHANGED <<wsVars, httpVars, exec, returned>>
  BY DEF TerminateRequest
<1>7. Typing'
  BY <1>4, <1>6 DEF ForwardInv, Typing, wsVars, httpVars
<1>8. HeldRefs'
  BY <1>5, <1>6 DEF ForwardInv, HeldRefs, Ended, SameRefs
<1>9. SocketInv'
  BY <1>6, SocketSame DEF ForwardInv
<1>10. Phases'
  <2> USE <1>5, <1>6 DEF SameHandles, SameAnswer, wsVars, httpVars, NobodysTurn
  <2>1. CASE Unsent
    <3>1. Unsent'
      BY <2>1 DEF Unsent
    <3> QED BY <3>1 DEF Phases
  <2>2. CASE Forwards
    <3>1. Forwards'
      BY <2>2 DEF Forwards, SendsTurn, ReceivesTurn, SwitchesTurn
    <3> QED BY <3>1 DEF Phases
  <2>3. CASE Session
    <3>1. ~h'.disconnected
      BY <1>2, <2>3 DEF Session
    <3>2. Session'
      BY <2>3, <3>1 DEF Session, Open
    <3> QED BY <3>2 DEF Phases
  <2>4. CASE Closes
    <3>1. Closes'
      BY <2>4 DEF Closes, Open, Idle, InCallbacks, Counting, Complete
    <3> QED BY <3>1 DEF Phases
  <2> QED BY <2>1, <2>2, <2>3, <2>4 DEF ForwardInv, Phases
<1> QED BY <1>7, <1>8, <1>9, <1>10 DEF ForwardInv

LEMMA DoNotifyDereferences == ForwardInv /\ NotifyDereferences => ForwardInv'
<1> SUFFICES ASSUME ForwardInv, NotifyDereferences PROVE ForwardInv'
  OBVIOUS
<1>1. h \in Handler
  BY DEF ForwardInv, Typing
<1>2. PICK n : n = h.refs - 1 /\ n \in Int
  BY <1>1 DEF Handler
<1>3. h' = [h EXCEPT !.refs = n]
  BY <1>2 DEF NotifyDereferences
<1>4. /\ h' \in Handler /\ SamePhase(h, h')
      /\ h'.refs = n /\ h'.handlerSet = h.handlerSet /\ h'.pDisconnect = h.pDisconnect
  BY <1>1, <1>2, <1>3, RefsFields DEF SamePhase
<1>5. /\ notify = "dereference" /\ notify' = "done"
      /\ UNCHANGED <<wsVars, httpVars, exec, returned>>
  BY DEF NotifyDereferences
<1>6. Typing'
  BY <1>4, <1>5 DEF ForwardInv, Typing, wsVars, httpVars
<1>7. HeldRefs'
  BY <1>2, <1>4, <1>5 DEF ForwardInv, HeldRefs, Ended
<1>8. SocketInv'
  BY <1>5, SocketSame DEF ForwardInv
<1>9. Phases'
  BY <1>4, <1>5, PhasesSame DEF ForwardInv
<1> QED BY <1>6, <1>7, <1>8, <1>9 DEF ForwardInv

(***************************************************************************)
(* OnWinHttpCompletionInternal, for operations of the request.             *)
(***************************************************************************)
LEMMA CallbackPhase ==
  ASSUME ForwardInv, op # "none"
  PROVE  \/ Forwards /\ iis = "none" /\ h.posts = 0
         \/ Closes /\ op = "send"
<1>1. ~Unsent /\ ~Session
  BY DEF Unsent, Session, NobodysTurn
<1>2. Forwards => iis = "none" /\ h.posts = 0
  BY DEF Forwards, SendsTurn, ReceivesTurn, SwitchesTurn
<1>3. Closes => op = "send"
  BY DEF Closes
<1> QED BY <1>1, <1>2, <1>3 DEF ForwardInv, Phases

LEMMA CallbackForwards ==
  ASSUME ForwardInv, op # "none", h.status # "DONE"
  PROVE  Forwards /\ iis = "none" /\ h.posts = 0
BY CallbackPhase DEF Closes

\* A turn that fails: the handler is forgotten, its request closed.
LEMMA FailsForward ==
  ASSUME ForwardInv, Forwards, h' \in Handler, h'.status = "DONE", h'.hasError \/ Complete',
         h'.handlers = h.handlers,
         h'.webSocket = h.webSocket, h'.finish = h.finish, h'.done = h.done,
         h'.posts = 0, HandlesClose(h, h'),
         SameRefs(h, h') \/ HandlerForgotten(h, h'),
         op' = "none" \/ (op' = "send" /\ h'.hasError), iis' = "none",
         left' \in [body : Int, response : Int],
         UNCHANGED <<wsVars, exec, notify, returned>>
  PROVE  ForwardInv'
<1>1. Typing'
  BY TypingFrom DEF ForwardInv
<1>2. HeldRefs'
  BY RefsSame, RefsForgotten DEF ForwardInv
<1>3. SocketInv'
  BY SocketSame DEF ForwardInv
<1>4. ws'.handle = "none" /\ h'.handlers = 1 /\ ~h'.hRequest /\ h'.httpInClose
      /\ h'.http = "closing" /\ ~h'.finish /\ ~h'.done /\ pending' = {}
  BY DEF ForwardInv, SocketInv, Forwards, HandlesClose, NoWebSocket, wsVars
<1>5. Closes'
  BY <1>4 DEF Forwards, Closes, Open
<1> QED BY <1>1, <1>2, <1>3, <1>5 DEF ForwardInv, Phases

\* A callback of a request that is being closed already: nothing more happens to it.
LEMMA StaysClosing ==
  ASSUME ForwardInv, Closes, ~h.finish, h' \in Handler, h'.status = "DONE", h'.hasError,
         SameRequest(h, h'), HandlesClose(h, h'), HandlerForgotten(h, h'), op' = "none",
         op = "send",
         ws' = ws \/ ws' = Cleaned(ws), UNCHANGED ends \/ ends' = CleanedEnds("ServerStateUnavailable"),
         UNCHANGED <<pending, running, iis, left, exec, notify, returned>>
  PROVE  ForwardInv'
<1>1. /\ ws' \in WebSockets /\ ends' \in Ends
      /\ ws'.handle = ws.handle /\ ws'.outstanding = ws.outstanding
      /\ ws.cleanup => ws'.cleanup
      /\ ends'.counted = ends.counted /\ ends'.strayed = ends.strayed
  BY DEF ForwardInv, Typing, WebSockets, Ends, Cleaned, CleanedEnds
<1>2. Typing'
  BY <1>1 DEF ForwardInv, Typing, Closes
<1>3. HeldRefs'
  BY RefsForgotten DEF ForwardInv
<1>4. SocketInv'
  BY <1>1 DEF ForwardInv, SocketInv, Pumps, Counts, Counted, Counting, InCallbacks,
              NoCallbacks, ClosedSocket
<1>5. Closes'
  BY <1>1 DEF Closes, SameRequest, HandlesClose, SameHandles, Open, Idle, InCallbacks,
              Counting, Complete
<1> QED BY <1>2, <1>3, <1>4, <1>5 DEF ForwardInv, Phases

\* TerminateWebSocket changes nothing, or cleans up.
LEMMA TerminateChanges ==
  ASSUME NEW x, NEW closing \in BOOLEAN, NEW w, TerminateWebSocket(x, closing, w)
  PROVE  /\ ws' = w \/ ws' = Cleaned(w)
         /\ UNCHANGED ends \/ ends' = CleanedEnds("ServerStateUnavailable")
BY DEF TerminateWebSocket

LEMMA FailedForward ==
  ASSUME ForwardInv, Forwards, h.posts = 0, NEW more \in BOOLEAN,
         Finish(WinHttpFailure(h), more, FALSE),
         op' \in {"none", "send"}, iis' = "none",
         left' \in [body : Int, response : Int],
         UNCHANGED <<exec, notify, returned>>
  PROVE  ForwardInv'
<1>1. h \in Handler /\ Typing /\ (h.handlerSet => h.pDisconnect)
  BY DEF ForwardInv, Typing, HeldRefs
<1>2. ~h.webSocket /\ ~h.hasError
  BY DEF Forwards
<1>3. h' = FinishCallback(WinHttpFailure(h), more, FALSE)
  BY DEF Finish
<1>4. /\ h' \in Handler /\ SameRequest(h, h') /\ HandlesClose(h, h')
      /\ h'.status = "DONE" /\ h'.hasError /\ HandlerForgotten(h, h')
  BY <1>1, <1>2, <1>3, FailingFacts
<1>5. ~WinHttpFailure(h).webSocket
  BY <1>1, <1>2, WinHttpFailureFacts DEF SameRequest
<1>6. UNCHANGED wsVars
  BY <1>5, NotTerminated DEF Finish
<1> QED BY <1>4, <1>6, FailsForward DEF SameRequest

LEMMA DoCallbackFails == ForwardInv /\ CallbackFails => ForwardInv'
<1> SUFFICES ASSUME ForwardInv, CallbackFails PROVE ForwardInv'
  OBVIOUS
<1>1. /\ op # "none" /\ ~h.finish /\ op' = "none"
      /\ Finish(WinHttpFailure(h), FALSE, FALSE)
      /\ UNCHANGED <<iis, left, exec, notify, returned>>
  BY DEF CallbackFails, Callback, EndsCallback
<1>2. CASE Forwards /\ iis = "none" /\ h.posts = 0
  <2>1. left \in [body : Int, response : Int]
    BY DEF ForwardInv, Typing
  <2> QED BY <1>1, <1>2, <2>1, FailedForward
<1>3. CASE Closes /\ op = "send"
  <2>1. h \in Handler /\ Typing /\ (h.handlerSet => h.pDisconnect)
    BY DEF ForwardInv, Typing, HeldRefs
  <2>2. h.status = "DONE"
    BY <1>3 DEF Closes
  <2>3. h' = FinishCallback(WinHttpFailure(h), FALSE, FALSE)
    BY <1>1 DEF Finish
  <2>4. /\ h' \in Handler /\ SameRequest(h, h') /\ HandlesClose(h, h')
        /\ h'.status = "DONE" /\ h'.hasError /\ HandlerForgotten(h, h')
    BY <2>1, <2>2, <2>3, FailingFacts
  <2>5. /\ ws' = ws \/ ws' = Cleaned(ws)
        /\ UNCHANGED ends \/ ends' = CleanedEnds("ServerStateUnavailable")
        /\ UNCHANGED <<pending, running>>
    BY <1>1, TerminateChanges DEF Finish
  <2> QED BY <1>1, <1>3, <2>4, <2>5, StaysClosing
<1> QED BY <1>1, <1>2, <1>3, CallbackPhase

LEMMA DoNotificationOfDisconnected == ForwardInv /\ NotificationOfDisconnected => ForwardInv'
<1> SUFFICES ASSUME ForwardInv, NotificationOfDisconnected PROVE ForwardInv'
  OBVIOUS
<1>1. /\ op = "send" /\ h.status # "DONE"
      /\ Finish(WinHttpFailure(h), TRUE, FALSE)
      /\ UNCHANGED <<op, iis, left, exec, notify, returned>>
  BY DEF NotificationOfDisconnected, Callback, EndsCallback, Aborted
<1>2. Forwards /\ iis = "none" /\ h.posts = 0
  BY <1>1, CallbackForwards
<1>3. left \in [body : Int, response : Int]
  BY DEF ForwardInv, Typing
<1> QED BY <1>1, <1>2, <1>3, FailedForward

\* A turn that goes on: the request keeps its handles and references.
KeepsRequest(x, y) ==
  /\ SameHandles(x, y) /\ SameRefs(x, y)
  /\ y.handlers = x.handlers /\ y.webSocket = x.webSocket
  /\ y.finish = x.finish /\ y.done = x.done /\ y.wsInClose = x.wsInClose
  /\ y.hasError = x.hasError

LEMMA MovesOn ==
  ASSUME ForwardInv, Forwards, h' \in Handler, KeepsRequest(h, h'), UNCHANGED wsVars,
         op' \in {"none", "send", "write", "receive", "query", "read"},
         iis' \in {"none", "readBody", "flush"},
         left' \in [body : Int, response : Int],
         UNCHANGED <<exec, notify, returned>>,
         SendsTurn' \/ ReceivesTurn' \/ SwitchesTurn'
  PROVE  ForwardInv'
<1>1. Typing'
  BY TypingFrom DEF ForwardInv
<1>2. HeldRefs'
  BY RefsSame DEF ForwardInv, KeepsRequest
<1>3. SocketInv'
  BY SocketSame DEF ForwardInv
<1>4. Forwards'
  BY DEF Forwards, KeepsRequest, SameHandles, wsVars
<1> QED BY <1>1, <1>2, <1>3, <1>4 DEF ForwardInv, Phases

LEMMA FinishMore ==
  ASSUME NEW x, x.status # "DONE", ~x.webSocket, Finish(x, TRUE, FALSE)
  PROVE  h' = x /\ UNCHANGED wsVars
<1>1. h' = x
  BY DEF Finish, FinishCallback, LastClosed
<1>2. UNCHANGED wsVars
  BY NotTerminated DEF Finish
<1> QED BY <1>1, <1>2

LEMMA ForwardTypes ==
  ASSUME ForwardInv
  PROVE  /\ h \in Handler /\ Typing /\ HeldRefs /\ (h.handlerSet => h.pDisconnect)
         /\ left \in [body : Int, response : Int]
         /\ h.toReceive \in BodyLengths /\ h.content \in Contents
         /\ h.posts \in PostCounts /\ h.handlers \in HandlerCounts
BY DEF ForwardInv, Typing, HeldRefs, Handler

LEMMA DoReadsBody == ForwardInv /\ ReadsBody => ForwardInv'
<1> SUFFICES ASSUME ForwardInv, ReadsBody PROVE ForwardInv'
  OBVIOUS
<1>1. /\ op \in {"send", "write"} /\ h.status = "SENDING" /\ h.toReceive # 0
      /\ op' = "none" /\ iis' = "readBody" /\ Finish(h, TRUE, FALSE)
      /\ UNCHANGED <<left, exec, notify, returned>>
  BY DEF ReadsBody, Callback, EndsCallback
<1>2. Forwards /\ iis = "none" /\ h.posts = 0
  BY <1>1, CallbackForwards
<1>3. h' = h /\ UNCHANGED wsVars
  BY <1>1, <1>2, FinishMore DEF Forwards
<1>4. KeepsRequest(h, h')
  BY <1>3 DEF KeepsRequest, SameHandles, SameRefs
<1>5. SendsTurn'
  BY <1>1, <1>2, <1>3 DEF Forwards, SendsTurn, ReceivesTurn, SwitchesTurn
<1> QED BY <1>1, <1>2, <1>3, <1>4, <1>5, ForwardTypes, MovesOn

LEMMA DoEndsChunkedBody == ForwardInv /\ EndsChunkedBody => ForwardInv'
<1> SUFFICES ASSUME ForwardInv, EndsChunkedBody PROVE ForwardInv'
  OBVIOUS
<1>0. PICK x : x = [h EXCEPT !.toReceive = 0]
  OBVIOUS
<1>1. /\ op \in {"send", "write"} /\ h.status = "SENDING"
      /\ op' = "write" /\ Finish(x, TRUE, FALSE)
      /\ UNCHANGED <<iis, left, exec, notify, returned>>
  BY <1>0 DEF EndsChunkedBody, Callback, EndsCallback
<1>2. Forwards /\ iis = "none" /\ h.posts = 0
  BY <1>1, CallbackForwards
<1>x. /\ x \in Handler /\ SameHandles(h, x) /\ SameAnswer(h, x) /\ SameRefs(h, x)
      /\ x.upgrade = h.upgrade /\ x.handlers = h.handlers /\ x.webSocket = h.webSocket
      /\ x.content = h.content /\ x.finish = h.finish /\ x.done = h.done
      /\ x.wsInClose = h.wsInClose /\ x.posts = h.posts
  <2>1. PICK n : n = 0 /\ n \in BodyLengths
    BY SizeAssumption DEF BodyLengths
  <2> QED BY <1>0, <2>1, ForwardTypes, LengthFields
<1>3. h' = x /\ UNCHANGED wsVars
  BY <1>1, <1>2, <1>x, FinishMore DEF Forwards, SameAnswer
<1>4. KeepsRequest(h, h')
  BY <1>3, <1>x DEF KeepsRequest, SameAnswer
<1>5. SendsTurn'
  BY <1>1, <1>2, <1>3, <1>x DEF Forwards, SendsTurn, ReceivesTurn, SwitchesTurn, SameAnswer
<1> QED BY <1>1, <1>2, <1>3, <1>x, <1>4, <1>5, ForwardTypes, MovesOn

LEMMA DoReceivesResponse == ForwardInv /\ ReceivesResponse => ForwardInv'
<1> SUFFICES ASSUME ForwardInv, ReceivesResponse PROVE ForwardInv'
  OBVIOUS
<1>0. PICK x : x = [h EXCEPT !.status = "RECEIVING"]
  OBVIOUS
<1>1. /\ op \in {"send", "write"} /\ h.status = "SENDING" /\ h.toReceive = 0
      /\ op' = "receive" /\ Finish(x, TRUE, FALSE)
      /\ UNCHANGED <<iis, left, exec, notify, returned>>
  BY <1>0 DEF ReceivesResponse, Callback, EndsCallback
<1>2. Forwards /\ iis = "none" /\ h.posts = 0
  BY <1>1, CallbackForwards
<1>x. /\ x \in Handler /\ SameHandles(h, x) /\ SameRefs(h, x) /\ SameRequest(h, x)
      /\ x.status = "RECEIVING" /\ x.hasError = h.hasError /\ x.wsInClose = h.wsInClose
  <2>1. "RECEIVING" \in Statuses
    BY DEF Statuses
  <2> QED BY <1>0, <2>1, ForwardTypes, StatusFields
<1>3. h' = x /\ UNCHANGED wsVars
  BY <1>1, <1>2, <1>x, FinishMore DEF Forwards, SameRequest
<1>4. KeepsRequest(h, h')
  BY <1>3, <1>x DEF KeepsRequest, SameRequest
<1>5. ReceivesTurn'
  BY <1>1, <1>2, <1>3, <1>x DEF Forwards, SendsTurn, ReceivesTurn, SwitchesTurn, SameRequest
<1> QED BY <1>1, <1>2, <1>3, <1>x, <1>4, <1>5, ForwardTypes, MovesOn

LEMMA DoHeadersAvailable == ForwardInv /\ HeadersAvailable => ForwardInv'
<1> SUFFICES ASSUME ForwardInv, HeadersAvailable PROVE ForwardInv'
  OBVIOUS
<1>1. /\ op = "receive" /\ op' = "none"
      /\ UNCHANGED <<iis, left, exec, notify, returned>>
  BY DEF HeadersAvailable, Callback, EndsCallback
<1>2. Forwards /\ iis = "none" /\ h.posts = 0
  BY <1>1, CallbackPhase
<1>b. PICK n \in Contents :
        Finish([h EXCEPT !.content = n, !.upgrade = FALSE], FALSE, FALSE)
  BY DEF HeadersAvailable, Contents
<1>0. PICK x : x = [h EXCEPT !.content = n, !.upgrade = FALSE]
  OBVIOUS
<1>x. /\ x \in Handler /\ SameHandles(h, x) /\ SameAnswer(h, x) /\ SameRefs(h, x)
      /\ ~x.upgrade /\ x.handlers = h.handlers /\ x.webSocket = h.webSocket
      /\ x.toReceive = h.toReceive /\ x.finish = h.finish /\ x.done = h.done
      /\ x.wsInClose = h.wsInClose /\ x.posts = h.posts
  <2>1. h \in Handler
    BY ForwardTypes
  <2>2. x \in Handler
    BY <1>0, <2>1 DEF Handler
  <2> QED BY <1>0, <2>1, <2>2 DEF Handler, SameHandles, SameAnswer, SameRefs
<1>c. h.status = "RECEIVING" /\ h.toReceive = 0
  BY <1>1, <1>2 DEF Forwards, SendsTurn, ReceivesTurn, SwitchesTurn
<1>d. Finish(x, FALSE, FALSE)
  BY <1>0, <1>b
<1>e. h' = PostCompletion(x)
  BY <1>c, <1>d, <1>x, <1>2 DEF Finish, FinishCallback, LastClosed, SameAnswer, Forwards
<1>f. PICK one : one = 1 /\ one \in PostCounts
  BY DEF PostCounts
<1>g. h' = [x EXCEPT !.posts = one]
  BY <1>e, <1>f, <1>x, <1>2 DEF PostCompletion
<1>h. /\ h' \in Handler /\ SameHandles(x, h') /\ SameAnswer(x, h') /\ SameRefs(x, h')
      /\ h'.upgrade = x.upgrade /\ h'.handlers = x.handlers /\ h'.webSocket = x.webSocket
      /\ h'.toReceive = x.toReceive /\ h'.finish = x.finish /\ h'.done = x.done
      /\ h'.wsInClose = x.wsInClose /\ h'.posts = 1
  BY <1>f, <1>g, <1>x, PostFields
<1>3. UNCHANGED wsVars
  BY <1>2, <1>d, <1>x, NotTerminated DEF Finish, Forwards
<1>4. KeepsRequest(h, h')
  BY <1>h, <1>x DEF KeepsRequest, SameHandles, SameAnswer, SameRefs
<1>5. ReceivesTurn'
  BY <1>1, <1>2, <1>c, <1>h, <1>x DEF ReceivesTurn, SameAnswer
<1> QED BY <1>1, <1>2, <1>3, <1>h, <1>4, <1>5, ForwardTypes, MovesOn

LEMMA DoUpgradeAnswered == ForwardInv /\ UpgradeAnswered => ForwardInv'
<1> SUFFICES ASSUME ForwardInv, UpgradeAnswered PROVE ForwardInv'
  OBVIOUS
<1>0. PICK x : x = [h EXCEPT !.status = "WEBSOCKET"]
  OBVIOUS
<1>1. /\ op = "receive" /\ op' = "none" /\ iis' = "flush" /\ h.upgrade
      /\ Finish(x, TRUE, FALSE)
      /\ UNCHANGED <<left, exec, notify, returned>>
  BY <1>0 DEF UpgradeAnswered, Callback, EndsCallback
<1>2. Forwards /\ iis = "none" /\ h.posts = 0
  BY <1>1, CallbackPhase
<1>x. /\ x \in Handler /\ SameHandles(h, x) /\ SameRefs(h, x) /\ SameRequest(h, x)
      /\ x.status = "WEBSOCKET" /\ x.hasError = h.hasError /\ x.wsInClose = h.wsInClose
  <2>1. "WEBSOCKET" \in Statuses
    BY DEF Statuses
  <2> QED BY <1>0, <2>1, ForwardTypes, StatusFields
<1>3. h' = x /\ UNCHANGED wsVars
  BY <1>1, <1>2, <1>x, FinishMore DEF Forwards, SameRequest
<1>4. KeepsRequest(h, h')
  BY <1>3, <1>x DEF KeepsRequest, SameRequest
<1>5. SwitchesTurn'
  BY <1>1, <1>2, <1>3, <1>x DEF Forwards, SendsTurn, ReceivesTurn, SwitchesTurn, SameRequest
<1> QED BY <1>1, <1>2, <1>3, <1>x, <1>4, <1>5, ForwardTypes, MovesOn

LEMMA DoDataAvailable == ForwardInv /\ DataAvailable => ForwardInv'
<1> SUFFICES ASSUME ForwardInv, DataAvailable PROVE ForwardInv'
  OBVIOUS
<1>1. /\ op = "query" /\ op' = "read"
      /\ left' = [left EXCEPT !.response = @ - 1]
      /\ Finish([h EXCEPT !.content = IF @ = 0 THEN 0 ELSE @ - 1], TRUE, FALSE)
      /\ UNCHANGED <<iis, exec, notify, returned>>
  BY DEF DataAvailable, Callback, EndsCallback
<1>2. Forwards /\ iis = "none" /\ h.posts = 0
  BY <1>1, CallbackPhase
<1>a. PICK n : n = (IF h.content = 0 THEN 0 ELSE h.content - 1) /\ n \in Contents
  BY ForwardTypes, SizeAssumption DEF Contents
<1>0. PICK x : x = [h EXCEPT !.content = n]
  OBVIOUS
<1>b. Finish(x, TRUE, FALSE)
  BY <1>0, <1>1, <1>a
<1>x. /\ x \in Handler /\ SameHandles(h, x) /\ SameAnswer(h, x) /\ SameRefs(h, x)
      /\ x.upgrade = h.upgrade /\ x.handlers = h.handlers /\ x.webSocket = h.webSocket
      /\ x.toReceive = h.toReceive /\ x.finish = h.finish /\ x.done = h.done
      /\ x.wsInClose = h.wsInClose /\ x.posts = h.posts
  BY <1>0, <1>a, ForwardTypes, ContentFields
<1>c. h.status = "RECEIVING" /\ h.toReceive = 0 /\ ~h.upgrade
  BY <1>1, <1>2 DEF Forwards, SendsTurn, ReceivesTurn, SwitchesTurn
<1>3. h' = x /\ UNCHANGED wsVars
  BY <1>b, <1>2, <1>c, <1>x, FinishMore DEF Forwards, SameAnswer
<1>4. KeepsRequest(h, h')
  BY <1>3, <1>x DEF KeepsRequest, SameAnswer
<1>5. ReceivesTurn'
  BY <1>1, <1>2, <1>3, <1>c, <1>x DEF ReceivesTurn, SameAnswer
<1>6. left' \in [body : Int, response : Int]
  BY <1>1, ForwardTypes
<1> QED BY <1>1, <1>2, <1>3, <1>x, <1>4, <1>5, <1>6, MovesOn, ForwardTypes

LEMMA DoReadComplete == ForwardInv /\ ReadComplete => ForwardInv'
<1> SUFFICES ASSUME ForwardInv, ReadComplete PROVE ForwardInv'
  OBVIOUS
<1>1. /\ op = "read" /\ op' = "none" /\ iis' = "flush" /\ Finish(h, TRUE, FALSE)
      /\ UNCHANGED <<left, exec, notify, returned>>
  BY DEF ReadComplete, Callback, EndsCallback
<1>2. Forwards /\ iis = "none" /\ h.posts = 0
  BY <1>1, CallbackPhase
<1>c. h.status = "RECEIVING" /\ h.toReceive = 0 /\ ~h.upgrade
  BY <1>1, <1>2 DEF Forwards, SendsTurn, ReceivesTurn, SwitchesTurn
<1>3. h' = h /\ UNCHANGED wsVars
  BY <1>1, <1>2, <1>c, FinishMore DEF Forwards
<1>4. KeepsRequest(h, h')
  BY <1>3 DEF KeepsRequest, SameHandles, SameRefs
<1>5. ReceivesTurn'
  BY <1>1, <1>2, <1>3, <1>c DEF ReceivesTurn
<1> QED BY <1>1, <1>2, <1>3, <1>4, <1>5, ForwardTypes, MovesOn

LEMMA DoEndOfData == ForwardInv /\ EndOfData => ForwardInv'
<1> SUFFICES ASSUME ForwardInv, EndOfData PROVE ForwardInv'
  OBVIOUS
<1>1. /\ op = "query" /\ op' = "none"
      /\ UNCHANGED <<iis, left, exec, notify, returned>>
  BY DEF EndOfData, Callback, EndsCallback
<1>2. Forwards /\ iis = "none" /\ h.posts = 0
  BY <1>1, CallbackPhase
<1>3. CASE h.content # 0
  <2>1. Finish(WinHttpFailure(h), FALSE, FALSE)
    BY <1>3 DEF EndOfData
  <2> QED BY <1>1, <1>2, <2>1, FailedForward, ForwardTypes
<1>4. CASE h.content = 0
  <2>1. PICK x : x = [h EXCEPT !.status = "DONE"]
    OBVIOUS
  <2>2. Finish(x, FALSE, FALSE)
    BY <1>4, <2>1 DEF EndOfData
  <2>3. /\ x \in Handler /\ SameHandles(h, x) /\ SameRefs(h, x) /\ SameRequest(h, x)
        /\ x.status = "DONE" /\ x.hasError = h.hasError /\ x.wsInClose = h.wsInClose
    <3>1. "DONE" \in Statuses
      BY DEF Statuses
    <3> QED BY <2>1, <3>1, ForwardTypes, StatusFields
  <2>4. h' = FinishCallback(x, FALSE, FALSE) /\ ~LastClosed(x, FALSE)
    BY <2>2 DEF Finish, LastClosed
  <2>5. /\ h' \in Handler /\ SameRequest(x, h') /\ SameAnswer(x, h') /\ HandlesClose(x, h')
        /\ (x.handlerSet => x.pDisconnect) => HandlerForgotten(x, h')
    BY <2>3, <2>4, FinishDone, ForwardTypes
  <2>6. HandlerForgotten(h, h') /\ HandlesClose(h, h')
    BY <2>3, <2>5, ForwardTypes DEF HandlerForgotten, HandlesClose, SameHandles, SameRefs
  <2>7. UNCHANGED wsVars
    BY <1>2, <2>2, <2>3, NotTerminated DEF Finish, Forwards, SameRequest
  <2>8. h.toReceive = 0 /\ ~h.upgrade
    BY <1>1, <1>2 DEF Forwards, SendsTurn, ReceivesTurn, SwitchesTurn
  <2>9. Complete'
    BY <1>4, <2>3, <2>5, <2>8 DEF Complete, SameRequest
  <2> QED BY <1>1, <1>2, <2>3, <2>5, <2>6, <2>7, <2>9, FailsForward, ForwardTypes
      DEF SameRequest, SameAnswer
<1> QED BY <1>3, <1>4

LEMMA DoOnWinHttpCompletion == ForwardInv /\ OnWinHttpCompletion => ForwardInv'
BY DoCallbackFails, DoReadsBody, DoEndsChunkedBody, DoReceivesResponse, DoHeadersAvailable,
   DoUpgradeAnswered, DoDataAvailable, DoEndOfData, DoReadComplete DEF OnWinHttpCompletion

(***************************************************************************)
(* The handles close.                                                      *)
(***************************************************************************)
ClosedFrom(x, n, y) ==
  /\ y \in Handler /\ SameAnswer(x, y) /\ SameRefs(x, y)
  /\ y.hRequest = x.hRequest /\ y.httpInClose = x.httpInClose /\ y.http = "closed"
  /\ y.upgrade = x.upgrade /\ y.handlers = n /\ y.webSocket = x.webSocket
  /\ y.toReceive = x.toReceive /\ y.content = x.content /\ y.finish = x.finish
  /\ y.done = x.done /\ y.disconnected = x.disconnected
  /\ y.wsInClose = x.wsInClose /\ y.posts = x.posts

LEMMA HandleClosedFields ==
  ASSUME NEW x \in Handler, NEW n \in HandlerCounts
  PROVE  ClosedFrom(x, n, [x EXCEPT !.http = "closed", !.handlers = n])
<1>0. "closed" \in HandleStates
  BY DEF HandleStates
<1>1. PICK y : y = [x EXCEPT !.http = "closed", !.handlers = n]
  OBVIOUS
<1>2. y \in Handler
  BY <1>0, <1>1 DEF Handler
<1>3. ClosedFrom(x, n, y)
  BY <1>1, <1>2 DEF Handler, SameAnswer, SameRefs, ClosedFrom
<1> QED BY <1>1, <1>3

LEMMA ForgetsHandleFields ==
  ASSUME NEW x \in Handler, NEW y, y = [x EXCEPT !.hRequest = FALSE]
  PROVE  /\ y \in Handler /\ SameAnswer(x, y) /\ SameRefs(x, y) /\ SameRequest(x, y)
         /\ ~y.hRequest /\ y.httpInClose = x.httpInClose /\ y.http = x.http
         /\ y.wsInClose = x.wsInClose
<1>1. y \in Handler
  BY DEF Handler
<1> QED BY <1>1 DEF Handler, SameAnswer, SameRefs, SameRequest

LEMMA FinishFields ==
  ASSUME NEW x \in Handler, NEW y, y = [x EXCEPT !.finish = TRUE, !.webSocket = FALSE]
  PROVE  /\ y \in Handler /\ SameAnswer(x, y) /\ SameRefs(x, y) /\ SameHandles(x, y)
         /\ y.finish /\ ~y.webSocket
         /\ y.upgrade = x.upgrade /\ y.handlers = x.handlers
         /\ y.toReceive = x.toReceive /\ y.content = x.content
         /\ y.done = x.done /\ y.disconnected = x.disconnected
         /\ y.wsInClose = x.wsInClose /\ y.posts = x.posts
<1>1. y \in Handler
  BY DEF Handler
<1> QED BY <1>1 DEF Handler, SameAnswer, SameRefs, SameHandles

\* The last handle: the request is given back to IIS.
LEMMA LastFacts ==
  ASSUME NEW x \in Handler, NEW more \in BOOLEAN, x.handlers = 0, x.posts = 0
  PROVE  LET y == FinishCallback(x, more, TRUE) IN
         /\ y \in Handler /\ SameAnswer(x, y) /\ SameHandles(x, y)
         /\ y.finish /\ ~y.webSocket /\ y.posts = 1
         /\ y.upgrade = x.upgrade /\ y.handlers = x.handlers
         /\ y.toReceive = x.toReceive /\ y.content = x.content
         /\ y.done = x.done
         /\ (x.handlerSet => x.pDisconnect) => HandlerForgotten(x, y)
<1>1. PICK a : a = RemoveRequest(x)
  OBVIOUS
<1>2. PICK b : b = [a EXCEPT !.finish = TRUE, !.webSocket = FALSE]
  OBVIOUS
<1>3. PICK one : one = 1 /\ one \in PostCounts
  BY DEF PostCounts
<1>4. PICK y : y = [b EXCEPT !.posts = one]
  OBVIOUS
<1>5. /\ a \in Handler /\ SameRequest(x, a) /\ SameHandles(x, a) /\ SameAnswer(x, a)
      /\ (x.handlerSet => x.pDisconnect) => HandlerForgotten(x, a)
  BY <1>1, RemoveRequestFacts
<1>6. /\ b \in Handler /\ SameAnswer(a, b) /\ SameRefs(a, b) /\ SameHandles(a, b)
      /\ b.finish /\ ~b.webSocket
      /\ b.upgrade = a.upgrade /\ b.handlers = a.handlers
      /\ b.toReceive = a.toReceive /\ b.content = a.content
      /\ b.done = a.done /\ b.posts = a.posts
  BY <1>2, <1>5, FinishFields, ZenonT(40)
<1>7. /\ y \in Handler /\ SameHandles(b, y) /\ SameAnswer(b, y) /\ SameRefs(b, y)
      /\ y.upgrade = b.upgrade /\ y.handlers = b.handlers /\ y.webSocket = b.webSocket
      /\ y.toReceive = b.toReceive /\ y.content = b.content /\ y.finish = b.finish
      /\ y.done = b.done /\ y.posts = one
  <2>1. b \in Handler /\ one \in PostCounts
    BY <1>3, <1>6
  <2> QED BY <1>4, <2>1, PostFields
<1>8. FinishCallback(x, more, TRUE) = PostCompletion(b)
  BY <1>1, <1>2 DEF FinishCallback, LastClosed
<1>9. PostCompletion(b) = y
  <2>1. b.posts = 0
    BY <1>5, <1>6 DEF SameRequest
  <2> QED BY <2>1, <1>3, <1>4 DEF PostCompletion
<1>10. /\ SameAnswer(x, y) /\ SameHandles(x, y)
       /\ y.upgrade = x.upgrade /\ y.handlers = x.handlers
       /\ y.toReceive = x.toReceive /\ y.content = x.content /\ y.done = x.done
  BY <1>5, <1>6, <1>7 DEF SameAnswer, SameHandles, SameRequest
<1>11. (x.handlerSet => x.pDisconnect) => HandlerForgotten(x, y)
  BY <1>5, <1>6, <1>7 DEF HandlerForgotten, SameRefs
<1>12. y.posts = 1 /\ y.finish /\ ~y.webSocket
  BY <1>3, <1>6, <1>7
<1> QED BY <1>7, <1>8, <1>9, <1>10, <1>11, <1>12

\* A callback in the phase of closing that is not the last one.
LEMMA ClosesOn ==
  ASSUME Closes, ~h.finish, h'.status = "DONE",
         h'.hasError \/ h'.hasError = h.hasError,
         "whSend" \in pending' => "whSend" \in pending /\ h'.hasError = h.hasError,
         h'.webSocket = h.webSocket, ends.strayed => ends'.strayed,
         ws.handle = "none" <=> ws'.handle = "none",
         ws'.handle \in {"open", "closing"} => ws.handle \in {"open", "closing"},
         h'.upgrade = h.upgrade, h'.toReceive = h.toReceive, h'.content = h.content,
         h'.done = h.done, h'.posts = h.posts, h'.finish = h.finish,
         ~h'.hRequest, h'.httpInClose, h'.http \in {"closing", "closed"},
         h'.handlers = Open(h'.http = "closing") + Open(ws'.handle \in {"open", "closing"}),
         h'.handlers # 0,
         op' = "none" \/ (op' = op /\ h'.http = h.http),
         ws'.handle = "open" =>
           ws.handle = "open" /\ pending' \subseteq pending /\ (ws.cleanup => ws'.cleanup),
         \/ UNCHANGED iis
         \/ iis' = "flush" /\ ends'.strayed /\ h.webSocket /\ ws.handle # "none",
         UNCHANGED <<left, exec, returned>>
  PROVE  Closes'
BY DEF Closes, Open, Complete

LEMMA ClosesLast ==
  ASSUME Closes, ~h.finish, h'.status = "DONE", h'.hasError = h.hasError,
         h'.upgrade = h.upgrade, h'.toReceive = h.toReceive, h'.content = h.content,
         h'.done = h.done, h'.posts = 1, h'.finish, h'.handlers = 0, ~h'.webSocket,
         ~h'.hRequest, h'.httpInClose, h'.http = "closed", op' = "none",
         ws'.handle \in {"none", "closed"}, Idle("winhttp")',
         ws.handle # "none" => ws'.handle # "none", ends.strayed => ends'.strayed,
         UNCHANGED <<pending, iis, left, exec, returned>>
  PROVE  Closes'
BY DEF Closes, Open, Complete

LEMMA SocketCleaned ==
  ASSUME SocketInv, ws' = ws \/ ws' = Cleaned(ws),
         UNCHANGED ends \/ ends' = CleanedEnds("ServerStateUnavailable"), Typing,
         UNCHANGED <<pending, running>>
  PROVE  /\ SocketInv' /\ ws' \in WebSockets /\ ends' \in Ends /\ ws'.handle = ws.handle
         /\ ws.cleanup => ws'.cleanup
         /\ ends'.strayed = ends.strayed
<1>1. /\ ws' \in WebSockets /\ ends' \in Ends
      /\ ws'.handle = ws.handle /\ ws'.outstanding = ws.outstanding
      /\ ws.cleanup => ws'.cleanup
      /\ ends'.counted = ends.counted /\ ends'.strayed = ends.strayed
  BY DEF Typing, WebSockets, Ends, Cleaned, CleanedEnds
<1> QED BY <1>1 DEF SocketInv, Pumps, Counts, Counted, Counting, InCallbacks, NoCallbacks,
                    ClosedSocket

LEMMA DoRequestClosed == ForwardInv /\ RequestClosed => ForwardInv'
<1> SUFFICES ASSUME ForwardInv, RequestClosed PROVE ForwardInv'
  OBVIOUS
<1>1. /\ h.http = "closing" /\ op = "none" /\ ClosingLock
      /\ Closed([h EXCEPT !.http = "closed", !.handlers = @ - 1])
      /\ UNCHANGED <<op, iis, left, exec, notify, returned>>
  BY DEF RequestClosed, httpVars, EndsCallback
<1>2. Session \/ Closes
  BY <1>1 DEF ForwardInv, Phases, Unsent, Forwards
<1>3. h.handlers = 1 + Open(ws.handle \in {"open", "closing"})
  BY <1>1, <1>2 DEF Session, Closes, Open
<1>4. PICK n : n = h.handlers - 1 /\ n \in HandlerCounts
  BY <1>3 DEF HandlerCounts, Open
<1>5. PICK x : x = [h EXCEPT !.http = "closed", !.handlers = n]
  OBVIOUS
<1>6. x = [h EXCEPT !.http = "closed", !.handlers = @ - 1]
  BY <1>4, <1>5
<1>7. /\ x \in Handler /\ SameAnswer(h, x) /\ SameRefs(h, x)
      /\ x.hRequest = h.hRequest /\ x.httpInClose = h.httpInClose /\ x.http = "closed"
      /\ x.upgrade = h.upgrade /\ x.handlers = n /\ x.webSocket = h.webSocket
      /\ x.toReceive = h.toReceive /\ x.content = h.content /\ x.finish = h.finish
      /\ x.done = h.done /\ x.disconnected = h.disconnected
      /\ x.wsInClose = h.wsInClose /\ x.posts = h.posts
  <2>1. h \in Handler
    BY ForwardTypes
  <2>2. n \in HandlerCounts
    BY <1>4
  <2>3. \A g \in Handler, m \in HandlerCounts :
          ClosedFrom(g, m, [g EXCEPT !.http = "closed", !.handlers = m])
    BY HandleClosedFields
  <2>4. ClosedFrom(h, n, x)
    BY <2>1, <2>2, <2>3, <1>5, Zenon
  <2> QED BY <2>4 DEF ClosedFrom
<1>8. ~h.finish /\ x.handlers = Open(ws.handle \in {"open", "closing"})
  BY <1>2, <1>3, <1>4, <1>7 DEF Session, Closes, Open
<1>9. CASE Session
  <2>1. ~Aborted /\ Routed /\ h.status = "WEBSOCKET"
    BY <1>9 DEF Session, Aborted, Routed
  <2>2. Finish(x, TRUE, TRUE)
    BY <1>1, <1>6, <2>1 DEF Closed, ForgetsRequest
  <2>3. ~LastClosed(x, TRUE) /\ x.status # "DONE"
    BY <1>7, <1>8, <1>9, <2>1 DEF Session, LastClosed, Open, SameAnswer
  <2>4. h' = x
    BY <2>2, <2>3 DEF Finish, FinishCallback
  <2>5. UNCHANGED wsVars
    BY <2>2, <2>3 DEF Finish, TerminateWebSocket, wsVars
  <2>6. Typing'
    BY <1>1, <1>7, <2>4, <2>5, ForwardTypes, TypingFrom DEF Typing
  <2>7. HeldRefs'
    BY <1>1, <1>7, <2>4, ForwardTypes, RefsSame
  <2>8. SocketInv'
    BY <2>5, SocketSame DEF ForwardInv
  <2>9. /\ h'.status = "WEBSOCKET" /\ h'.webSocket /\ ~h'.wsInClose
        /\ ~h'.hRequest /\ h'.httpInClose /\ h'.http = "closed"
        /\ h'.posts = 0 /\ ~h'.disconnected /\ ~h'.hasError /\ ~h'.finish /\ ~h'.done
        /\ h'.toReceive = 0 /\ h'.upgrade
    BY <1>7, <1>9, <2>4 DEF Session, NobodysTurn, SameAnswer
  <2>10. ws'.handle = "open" /\ h'.handlers = 1
    BY <1>8, <1>9, <2>4, <2>5 DEF Session, Open, wsVars
  <2>11. Session'
    BY <1>1, <1>9, <2>9, <2>10 DEF Session, NobodysTurn, Open
  <2> QED BY <2>6, <2>7, <2>8, <2>11 DEF ForwardInv, Phases
<1>10. CASE Closes
  <2>1. ~Aborted /\ ~Routed /\ h.status = "DONE"
    BY <1>10 DEF Closes, Aborted, Routed
  <2>2. PICK z : z = [x EXCEPT !.hRequest = FALSE]
    OBVIOUS
  <2>3. Finish(z, FALSE, TRUE)
    BY <1>1, <1>6, <2>1, <2>2 DEF Closed, ForgetsRequest
  <2>4. /\ z \in Handler /\ SameAnswer(x, z) /\ SameRefs(x, z) /\ SameRequest(x, z)
        /\ ~z.hRequest /\ z.httpInClose = x.httpInClose /\ z.http = x.http
        /\ z.wsInClose = x.wsInClose
    BY <1>7, <2>2, ForgetsHandleFields
  <2>5. h.posts = 0 /\ ~h.done /\ returned = "none" /\ h.httpInClose
    BY <1>8, <1>10 DEF Closes, Open
  <2>6. h' = FinishCallback(z, FALSE, TRUE)
    BY <2>3 DEF Finish
  <2>7. /\ ws' = ws \/ ws' = Cleaned(ws)
        /\ UNCHANGED ends \/ ends' = CleanedEnds("ServerStateUnavailable")
        /\ UNCHANGED <<pending, running>>
    BY <2>3, TerminateChanges DEF Finish
  <2>8. /\ SocketInv' /\ ws' \in WebSockets /\ ends' \in Ends /\ ws'.handle = ws.handle
        /\ (ws.cleanup => ws'.cleanup) /\ ends'.strayed = ends.strayed
    BY <2>7, SocketCleaned, ForwardTypes DEF ForwardInv
  <2>9. SameAnswer(h, z) /\ SameRefs(h, z)
    BY <1>7, <2>4 DEF SameAnswer, SameRefs
  <2>10. CASE x.handlers = 0
    <3>1. z.handlers = 0 /\ z.posts = 0
      BY <1>7, <2>4, <2>5, <2>10 DEF SameRequest
    <3>2. /\ h' \in Handler /\ SameAnswer(z, h') /\ SameHandles(z, h')
          /\ h'.finish /\ ~h'.webSocket /\ h'.posts = 1
          /\ h'.upgrade = z.upgrade /\ h'.handlers = z.handlers
          /\ h'.toReceive = z.toReceive /\ h'.content = z.content
          /\ h'.done = z.done
          /\ (z.handlerSet => z.pDisconnect) => HandlerForgotten(z, h')
      BY <2>4, <2>6, <3>1, LastFacts
    <3>3. HandlerForgotten(h, h')
      BY <2>9, <3>2, ForwardTypes DEF HandlerForgotten, SameRefs
    <3>4. Typing'
      BY <1>1, <2>7, <2>8, <3>2, ForwardTypes DEF Typing
    <3>5. HeldRefs'
      BY <1>1, <3>3, ForwardTypes, RefsForgotten
    <3>6. Idle("winhttp")'
      BY <1>1, <2>1, <2>7 DEF ClosingLock, Exclusive, Idle, InCallbacks, Counting
    <3>7. ws'.handle \in {"none", "closed"}
      BY <1>8, <2>8, <2>10 DEF Open, WebSockets, HandleStates
    <3>8. /\ h'.status = "DONE" /\ h'.hasError = h.hasError /\ h'.upgrade = h.upgrade
          /\ h'.toReceive = h.toReceive /\ h'.content = h.content /\ h'.done = h.done
          /\ h'.handlers = 0 /\ ~h'.hRequest /\ h'.httpInClose /\ h'.http = "closed"
      BY <1>7, <2>1, <2>4, <2>5, <2>9, <3>1, <3>2 DEF SameAnswer, SameHandles, SameRequest
    <3>9. Closes'
      BY <1>1, <1>8, <1>10, <2>7, <2>8, <3>2, <3>6, <3>7, <3>8, ClosesLast
    <3> QED BY <2>8, <3>4, <3>5, <3>9 DEF ForwardInv, Phases
  <2>11. CASE x.handlers # 0
    <3>1. ~LastClosed(z, TRUE) /\ z.status = "DONE"
      BY <2>1, <2>4, <2>9, <2>11 DEF LastClosed, SameAnswer, SameRequest
    <3>2. /\ h' \in Handler /\ SameRequest(z, h') /\ SameAnswer(z, h') /\ HandlesClose(z, h')
          /\ (z.handlerSet => z.pDisconnect) => HandlerForgotten(z, h')
      BY <2>4, <2>6, <3>1, FinishDone, ForwardTypes
    <3>3. HandlerForgotten(h, h')
      BY <2>9, <3>2, ForwardTypes DEF HandlerForgotten, SameRefs
    <3>4. Typing'
      BY <1>1, <2>7, <2>8, <3>2, ForwardTypes DEF Typing
    <3>5. HeldRefs'
      BY <1>1, <3>3, ForwardTypes, RefsForgotten
    <3>6. /\ h'.status = "DONE" /\ h'.hasError = h.hasError /\ h'.upgrade = h.upgrade
          /\ h'.toReceive = h.toReceive /\ h'.content = h.content /\ h'.done = h.done
          /\ h'.posts = h.posts /\ h'.finish = h.finish /\ h'.webSocket = h.webSocket
          /\ h'.handlers = x.handlers /\ ~h'.hRequest /\ h'.httpInClose /\ h'.http = "closed"
      BY <1>7, <2>1, <2>4, <2>5, <2>9, <3>2
         DEF SameAnswer, SameHandles, SameRequest, HandlesClose
    <3>7. h'.handlers = Open(h'.http = "closing") + Open(ws'.handle \in {"open", "closing"})
      BY <1>8, <2>8, <3>6 DEF Open
    <3>8. Closes'
      BY <1>1, <1>8, <1>10, <2>7, <2>8, <2>11, <3>6, <3>7, ClosesOn
    <3> QED BY <2>8, <3>4, <3>5, <3>8 DEF ForwardInv, Phases
  <2> QED BY <2>10, <2>11
<1> QED BY <1>2, <1>9, <1>10

\* The handle of the web socket is closed, and perhaps cleaned up as well.
LEMMA SocketClosed ==
  ASSUME Typing, SocketInv, NEW w, w = [ws EXCEPT !.handle = "closed"],
         ws.handle = "closing", pending \cap WinHttpOps = {},
         ws' = w \/ ws' = Cleaned(w),
         UNCHANGED ends \/ ends' = CleanedEnds("ServerStateUnavailable"),
         UNCHANGED <<pending, running>>
  PROVE  /\ SocketInv' /\ ws' \in WebSockets /\ ends' \in Ends /\ ws'.handle = "closed"
         /\ ends'.strayed = ends.strayed
<1>0. "closed" \in HandleStates
  BY DEF HandleStates
<1>1. /\ ws' \in WebSockets /\ ends' \in Ends
      /\ ws'.handle = "closed"
      /\ ws.cleanup => ws'.cleanup
      /\ ends'.counted = ends.counted /\ ends'.strayed = ends.strayed
  BY <1>0, ZenonT(40) DEF Typing, WebSockets, Ends, Cleaned, CleanedEnds
<1> QED BY <1>1 DEF SocketInv, Pumps, Counting, InCallbacks, ClosedSocket

LEMMA DoWebSocketClosed == ForwardInv /\ WebSocketClosed => ForwardInv'
<1> SUFFICES ASSUME ForwardInv, WebSocketClosed PROVE ForwardInv'
  OBVIOUS
<1>1. PICK w : w = [ws EXCEPT !.handle = "closed"]
  OBVIOUS
<1>2. PICK x : x = [h EXCEPT !.handlers = @ - 1]
  OBVIOUS
<1>3. /\ ws.handle = "closing" /\ pending \cap WinHttpOps = {} /\ Exclusive
      /\ h' = FinishCallback(x, FALSE, TRUE)
      /\ TerminateWebSocket(x, TRUE, w)
      /\ UNCHANGED <<pending, running, op, iis, left, exec, notify, returned>>
  BY <1>1, <1>2 DEF WebSocketClosed, httpVars, EndsCallback
<1>4. Closes
  BY <1>3 DEF ForwardInv, Phases, Unsent, Forwards, Session, NoWebSocket
<1>5. h.handlers = 1 + Open(h.http = "closing")
  BY <1>3, <1>4 DEF Closes, Open
<1>6. /\ ws' = w \/ ws' = Cleaned(w)
      /\ UNCHANGED ends \/ ends' = CleanedEnds("ServerStateUnavailable")
  BY <1>3, TerminateChanges
<1>7. /\ SocketInv' /\ ws' \in WebSockets /\ ends' \in Ends /\ ws'.handle = "closed"
      /\ ends'.strayed = ends.strayed
  BY <1>1, <1>3, <1>6, SocketClosed DEF ForwardInv
<1>8. PICK n \in HandlerCounts : n = h.handlers - 1
  BY <1>5 DEF HandlerCounts, Open
<1>9. /\ x \in Handler /\ SameHandles(h, x) /\ SameAnswer(h, x) /\ SameRefs(h, x)
      /\ x.upgrade = h.upgrade /\ x.handlers = n
      /\ x.toReceive = h.toReceive /\ x.content = h.content /\ x.finish = h.finish
      /\ x.done = h.done /\ x.posts = h.posts /\ x.webSocket = h.webSocket
  <2>1. x = [h EXCEPT !.handlers = n]
    BY <1>2, <1>8
  <2> QED BY <2>1, ForwardTypes, CountFields
<1>10. ~h.finish /\ x.handlers = Open(h.http = "closing") /\ h.posts = 0
  BY <1>4, <1>5, <1>8, <1>9 DEF Closes, Open
<1>11. /\ h.status = "DONE" /\ ~h.hRequest /\ h.httpInClose
       /\ h.http \in {"closing", "closed"}
  BY <1>4 DEF Closes
<1>12. CASE x.handlers = 0
  <2>1. /\ h' \in Handler /\ SameAnswer(x, h') /\ SameHandles(x, h')
        /\ h'.finish /\ ~h'.webSocket /\ h'.posts = 1
        /\ h'.upgrade = x.upgrade /\ h'.handlers = x.handlers
        /\ h'.toReceive = x.toReceive /\ h'.content = x.content /\ h'.done = x.done
        /\ (x.handlerSet => x.pDisconnect) => HandlerForgotten(x, h')
    <3>1. x \in Handler /\ x.posts = 0
      BY <1>9, <1>10
    <3> QED BY <3>1, <1>3, <1>12, LastFacts
  <2>2. HandlerForgotten(h, h')
    BY <1>9, <2>1, ForwardTypes DEF HandlerForgotten, SameRefs
  <2>3. Typing'
    BY <1>3, <1>7, <2>1, ForwardTypes DEF Typing
  <2>4. HeldRefs'
    BY <1>3, <2>2, ForwardTypes, RefsForgotten
  <2>5. Idle("winhttp")'
    BY <1>3 DEF Exclusive, Idle, InCallbacks, Counting
  <2>6. h.http = "closed"
    BY <1>10, <1>11, <1>12 DEF Open
  <2>7. /\ h'.status = "DONE" /\ h'.hasError = h.hasError /\ h'.upgrade = h.upgrade
        /\ h'.toReceive = h.toReceive /\ h'.content = h.content /\ h'.done = h.done
        /\ h'.handlers = 0 /\ ~h'.hRequest /\ h'.httpInClose /\ h'.http = "closed"
    BY <1>9, <1>11, <1>12, <2>1, <2>6 DEF SameAnswer, SameHandles
  <2>8. op' = "none"
    BY <1>3, <1>4, <2>6 DEF Closes
  <2>9. Closes'
    BY <1>3, <1>4, <1>7, <1>10, <2>1, <2>5, <2>7, <2>8, ClosesLast
  <2> QED BY <1>7, <2>3, <2>4, <2>9 DEF ForwardInv, Phases
<1>13. CASE x.handlers # 0
  <2>1. ~LastClosed(x, TRUE) /\ x.status = "DONE"
    BY <1>9, <1>11, <1>13 DEF LastClosed, SameAnswer
  <2>2. /\ h' \in Handler /\ SameRequest(x, h') /\ SameAnswer(x, h') /\ HandlesClose(x, h')
        /\ (x.handlerSet => x.pDisconnect) => HandlerForgotten(x, h')
    <3>1. x \in Handler
      BY <1>9
    <3> QED BY <3>1, <1>3, <2>1, FinishDone, ForwardTypes
  <2>3. HandlerForgotten(h, h')
    BY <1>9, <2>2, ForwardTypes DEF HandlerForgotten, SameRefs
  <2>4. Typing'
    BY <1>3, <1>7, <2>2, ForwardTypes DEF Typing
  <2>5. HeldRefs'
    BY <1>3, <2>3, ForwardTypes, RefsForgotten
  <2>6. /\ h'.status = "DONE" /\ h'.hasError = h.hasError /\ h'.upgrade = h.upgrade
        /\ h'.toReceive = h.toReceive /\ h'.content = h.content /\ h'.done = h.done
        /\ h'.posts = h.posts /\ h'.finish = h.finish /\ h'.webSocket = h.webSocket
        /\ h'.handlers = x.handlers /\ ~h'.hRequest /\ h'.httpInClose /\ h'.http = h.http
    BY <1>9, <1>11, <2>2 DEF SameAnswer, SameHandles, SameRequest, HandlesClose
  <2>7. h'.handlers = Open(h'.http = "closing") + Open(ws'.handle \in {"open", "closing"})
    BY <1>7, <1>9, <1>10, <2>6 DEF Open
  <2>8. Closes'
    BY <1>3, <1>4, <1>7, <1>10, <1>11, <1>13, <2>6, <2>7, ClosesOn
  <2> QED BY <1>7, <2>4, <2>5, <2>8 DEF ForwardInv, Phases
<1> QED BY <1>12, <1>13

LEMMA DoHandleClosing == ForwardInv /\ HandleClosing => ForwardInv'
BY DoRequestClosed, DoWebSocketClosed DEF HandleClosing

\* A callback that is not routed to the web socket removes its operation.
LEMMA SocketForgets ==
  ASSUME Typing, SocketInv, NEW o \in pending \cap WinHttpOps, pending' = pending \ {o},
         ws.handle = "open" => o = "whCleanup",
         ws' = ws \/ ws' = Cleaned(ws), ends' \in Ends, ends'.counted = ends.counted,
         UNCHANGED running
  PROVE  /\ SocketInv' /\ ws' \in WebSockets /\ ws'.handle = ws.handle
         /\ ws.cleanup => ws'.cleanup
<1>1. /\ ws' \in WebSockets
      /\ ws'.handle = ws.handle /\ ws'.outstanding = ws.outstanding
      /\ ws.cleanup => ws'.cleanup
  BY DEF Typing, WebSockets, Cleaned
<1>2. ws.handle = "open" => Counted' = Counted
  <2>1. CASE ws.handle = "open"
    <3>1. pending' \ {"whCleanup"} = pending \ {"whCleanup"}
      BY <2>1
    <3> QED BY <3>1 DEF Counted, Counting
  <2> QED BY <2>1
<1>3. ws'.handle = "open" => Counts'
  BY <1>1, <1>2 DEF SocketInv, Counts
<1>4. /\ Pumps' /\ ("whCleanup" \in pending' => ws'.cleanup /\ ~ends'.counted)
      /\ ends'.counted => ws'.cleanup
  BY <1>1 DEF SocketInv, Pumps
<1>5. InCallbacks("winhttp")' + InCallbacks("iis")' <= Threads
  BY DEF SocketInv, InCallbacks, Counting
<1>6. ws'.handle # "none"
  BY <1>1 DEF SocketInv
<1>7. ws'.handle \in {"closing", "closed"} => ClosedSocket'
  BY <1>1 DEF SocketInv, ClosedSocket
<1>8. ws'.handle = "closed" => pending' \cap WinHttpOps = {}
  BY <1>1 DEF SocketInv
<1> QED BY <1>1, <1>3, <1>4, <1>5, <1>6, <1>7, <1>8 DEF SocketInv

\* It comes while the handles close, and is the last one that could be a send.
LEMMA UnroutedPhase ==
  ASSUME ForwardInv, h.status = "DONE", NEW o \in pending \cap WinHttpOps,
         pending' = pending \ {o}
  PROVE  /\ Closes /\ ws.handle \in {"open", "closing"}
         /\ ws.handle = "open" => o = "whCleanup"
         /\ "whSend" \notin pending'
<1>1. SocketInv /\ ws.handle \in HandleStates
  BY DEF ForwardInv, Typing, WebSockets
<1>2. ws.handle # "none" /\ ws.handle # "closed"
  BY <1>1 DEF SocketInv
<1>3. Closes
  BY <1>2 DEF ForwardInv, Phases, Unsent, Forwards, Session, NoWebSocket
<1>4. ws.handle = "open" => o = "whCleanup" /\ "whSend" \notin pending
  BY <1>3 DEF Closes, WinHttpOps
<1>5. ws.handle = "closing" => pending' = {}
  BY <1>1 DEF SocketInv, ClosedSocket
<1> QED BY <1>1, <1>2, <1>3, <1>4, <1>5 DEF HandleStates

\* Whatever it is taken for, the request goes on closing.
LEMMA UnroutedGoesOn ==
  ASSUME ForwardInv, h.status = "DONE", ~h.finish, NEW o \in pending \cap WinHttpOps,
         pending' = pending \ {o},
         h' \in Handler, SameRequest(h, h'), HandlesClose(h, h'), HandlerForgotten(h, h'),
         h'.status = "DONE", h'.hasError \/ h'.hasError = h.hasError,
         ws' = ws \/ ws' = Cleaned(ws),
         ends' \in Ends, ends'.counted = ends.counted, ends.strayed => ends'.strayed,
         UNCHANGED iis \/ (iis' = "flush" /\ ends'.strayed /\ h.webSocket),
         UNCHANGED <<running, op, left, exec, notify, returned>>
  PROVE  ForwardInv'
<1>1. /\ Closes /\ ws.handle \in {"open", "closing"}
      /\ ws.handle = "open" => o = "whCleanup"
      /\ "whSend" \notin pending'
  BY UnroutedPhase
<1>2. /\ SocketInv' /\ ws' \in WebSockets /\ ws'.handle = ws.handle
      /\ ws.cleanup => ws'.cleanup
  BY <1>1, SocketForgets DEF ForwardInv
<1>3. Typing'
  BY <1>2, ForwardTypes DEF Typing
<1>4. HeldRefs'
  BY ForwardTypes, RefsForgotten
<1>5. /\ ~h'.hRequest /\ h'.httpInClose /\ h'.http = h.http
      /\ h'.handlers = h.handlers
  BY <1>1 DEF Closes, HandlesClose, SameHandles, SameRequest
<1>6. h.handlers = Open(h.http = "closing") + Open(ws.handle \in {"open", "closing"})
      /\ h.handlers # 0 /\ h.http \in {"closing", "closed"}
  BY <1>1 DEF Closes
<1>7. Closes'
  BY <1>1, <1>2, <1>5, <1>6, ClosesOn DEF SameRequest
<1> QED BY <1>2, <1>3, <1>4, <1>7 DEF ForwardInv, Phases

LEMMA CleanedKeeps ==
  ASSUME Typing, UNCHANGED ends \/ ends' = CleanedEnds("ServerStateUnavailable")
  PROVE  ends' \in Ends /\ ends'.counted = ends.counted /\ ends'.strayed = ends.strayed
BY DEF Typing, Ends, CleanedEnds

LEMMA DoUnroutedError == ForwardInv /\ UnroutedError => ForwardInv'
<1> SUFFICES ASSUME ForwardInv, UnroutedError PROVE ForwardInv'
  OBVIOUS
<1>1. PICK o \in pending \cap WinHttpOps : pending' = pending \ {o}
  BY DEF UnroutedError, Unrouted
<1>2. /\ h.status = "DONE" /\ ~h.finish
      /\ h' = FinishCallback(WinHttpFailure(h), FALSE, FALSE)
      /\ TerminateWebSocket(WinHttpFailure(h), FALSE, ws)
      /\ UNCHANGED <<running, op, iis, left, exec, notify, returned>>
  BY DEF UnroutedError, Unrouted, UnroutedEnds, httpVars, EndsCallback
<1>3. /\ ws' = ws \/ ws' = Cleaned(ws)
      /\ UNCHANGED ends \/ ends' = CleanedEnds("ServerStateUnavailable")
  BY <1>2, TerminateChanges
<1>4. /\ h' \in Handler /\ SameRequest(h, h') /\ HandlesClose(h, h')
      /\ h'.status = "DONE" /\ h'.hasError /\ HandlerForgotten(h, h')
  BY <1>2, ForwardTypes, FailingFacts
<1>5. ends' \in Ends /\ ends'.counted = ends.counted /\ ends'.strayed = ends.strayed
  BY <1>3, ForwardTypes, CleanedKeeps
<1> QED BY <1>1, <1>2, <1>3, <1>4, <1>5, UnroutedGoesOn

LEMMA DoUnroutedSend == ForwardInv /\ UnroutedSend => ForwardInv'
<1> SUFFICES ASSUME ForwardInv, UnroutedSend PROVE ForwardInv'
  OBVIOUS
<1>0. PICK x : x = [h EXCEPT !.status = "RECEIVING"]
  OBVIOUS
<1>1. /\ "whSend" \in pending \cap WinHttpOps /\ pending' = pending \ {"whSend"}
      /\ h.status = "DONE" /\ ~h.finish
      /\ h' = FinishCallback(WinHttpFailure(x), FALSE, FALSE)
      /\ TerminateWebSocket(WinHttpFailure(x), FALSE, ws)
      /\ UNCHANGED <<running, op, iis, left, exec, notify, returned>>
  BY <1>0 DEF UnroutedSend, Unrouted, UnroutedEnds, httpVars, EndsCallback, WinHttpOps
<1>2. Closes /\ ~h.hasError
  BY <1>1, UnroutedPhase DEF Closes
<1>3. /\ ws' = ws \/ ws' = Cleaned(ws)
      /\ UNCHANGED ends \/ ends' = CleanedEnds("ServerStateUnavailable")
  BY <1>1, TerminateChanges
<1>4. /\ x \in Handler /\ SameHandles(h, x) /\ SameRefs(h, x) /\ SameRequest(h, x)
      /\ x.hasError = h.hasError
  <2>1. "RECEIVING" \in Statuses
    BY DEF Statuses
  <2> QED BY <1>0, <2>1, ForwardTypes, StatusFields
<1>5. /\ h' \in Handler /\ SameRequest(x, h') /\ HandlesClose(x, h')
      /\ h'.status = "DONE" /\ h'.hasError
      /\ (x.handlerSet => x.pDisconnect) => HandlerForgotten(x, h')
  BY <1>1, <1>2, <1>4, ForwardTypes, FailingFacts
<1>6. SameRequest(h, h') /\ HandlesClose(h, h') /\ HandlerForgotten(h, h')
  BY <1>4, <1>5, ForwardTypes
     DEF SameRequest, HandlesClose, SameHandles, HandlerForgotten, SameRefs
<1>7. ends' \in Ends /\ ends'.counted = ends.counted /\ ends'.strayed = ends.strayed
  BY <1>3, ForwardTypes, CleanedKeeps
<1> QED BY <1>1, <1>3, <1>5, <1>6, <1>7, UnroutedGoesOn

\* The stray read: its flush is one the request never asked for.
LEMMA DoUnroutedRead == ForwardInv /\ UnroutedRead => ForwardInv'
<1> SUFFICES ASSUME ForwardInv, UnroutedRead PROVE ForwardInv'
  OBVIOUS
<1>1. /\ "whReceive" \in pending \cap WinHttpOps /\ pending' = pending \ {"whReceive"}
      /\ h.status = "DONE" /\ ~h.finish
      /\ h' = FinishCallback(h, TRUE, FALSE) /\ iis' = "flush"
      /\ UNCHANGED <<running, op, left, exec, notify, returned>>
  BY DEF UnroutedRead, Unrouted, EndsCallback, WinHttpOps
<1>2. ws' = ws \/ ws' = Cleaned(ws)
  BY DEF UnroutedRead
<1>3. /\ ends' \in Ends /\ ends'.counted = ends.counted /\ ends'.strayed
  BY ForwardTypes DEF UnroutedRead, CleanedEnds, Typing, Ends
<1>4. h.webSocket
  BY <1>1, UnroutedPhase DEF Closes
<1>5. ~LastClosed(h, FALSE)
  BY DEF LastClosed
<1>6. /\ h' \in Handler /\ SameRequest(h, h') /\ SameAnswer(h, h') /\ HandlesClose(h, h')
      /\ HandlerForgotten(h, h')
  BY <1>1, <1>5, ForwardTypes, FinishDone
<1>7. h'.status = "DONE" /\ h'.hasError = h.hasError
  BY <1>1, <1>6 DEF SameAnswer
<1> QED BY <1>1, <1>2, <1>3, <1>4, <1>6, <1>7, UnroutedGoesOn

LEMMA DoUnroutedCallback == ForwardInv /\ UnroutedCallback => ForwardInv'
BY DoUnroutedError, DoUnroutedSend, DoUnroutedRead DEF UnroutedCallback

(***************************************************************************)
(* OnAsyncCompletion.                                                      *)
(***************************************************************************)
\* A completion is that of an operation of IIS, or one that was posted.
LEMMA CompletesPhase ==
  ASSUME ForwardInv, NEW c \in Completions, Completes(c)
  PROVE  /\ exec.pc = "done" /\ Exclusive /\ op = "none"
         /\ c = "post" => h.posts = 1 /\ iis' = iis
         /\ c # "post" => iis = c /\ iis' = "none"
         /\ \/ Forwards /\ iis' = "none" /\ (c # "post" => h.posts = 0)
            \/ Closes /\ h.status = "DONE" /\ (h.finish \/ (c = "flush" /\ h.webSocket))
<1>1. /\ exec.pc = "done" /\ Exclusive
      /\ c = "post" => h.posts > 0 /\ iis' = iis
      /\ c # "post" => iis = c /\ iis' = "none"
      /\ c \in {"post", "readBody", "flush"}
  BY DEF Completes, Completions
<1>2. h.posts \in 0 .. 1
  BY ForwardTypes DEF PostCounts
<1>3. ~Unsent /\ ~Session
  BY <1>1, <1>2 DEF Unsent, Session, NobodysTurn
<1>4. ASSUME Forwards
      PROVE  /\ op = "none" /\ iis' = "none" /\ (c # "post" => h.posts = 0)
  BY <1>1, <1>2, <1>4 DEF Forwards, SendsTurn, ReceivesTurn, SwitchesTurn
<1>5. ASSUME Closes
      PROVE  op = "none" /\ h.status = "DONE" /\ (h.finish \/ (c = "flush" /\ h.webSocket))
  <2>1. h.status = "DONE" /\ (h.finish => h.http # "closing")
    BY <1>5 DEF Closes, Open
  <2>2. h.finish \/ (c = "flush" /\ h.webSocket)
    BY <1>1, <1>2, <1>5 DEF Closes, Open
  <2>3. op = "none"
    BY <1>1, <1>5, <2>1, <2>2 DEF Closes
  <2> QED BY <2>1, <2>2, <2>3
<1>6. Forwards \/ Closes
  BY <1>3 DEF ForwardInv, Phases
<1>7. c = "post" => h.posts = 1
  BY <1>1, <1>2
<1> QED BY <1>1, <1>4, <1>5, <1>6, <1>7

\* Taking a completion leaves none of that kind.
LEMMA TakenFacts ==
  ASSUME ForwardInv, NEW c \in Completions, Completes(c)
  PROVE  LET x == Taken(c) IN
         /\ x \in Handler /\ SameHandles(h, x) /\ SameAnswer(h, x) /\ SameRefs(h, x)
         /\ x.upgrade = h.upgrade /\ x.handlers = h.handlers /\ x.webSocket = h.webSocket
         /\ x.toReceive = h.toReceive /\ x.content = h.content /\ x.finish = h.finish
         /\ x.done = h.done /\ x.wsInClose = h.wsInClose
         /\ x.posts = IF c = "post" THEN 0 ELSE h.posts
         /\ c # "post" => x = h
<1>1. c = "post" => h.posts = 1
  BY CompletesPhase
<1>2. CASE c = "post"
  <2>1. PICK n : n = 0 /\ n \in PostCounts
    BY DEF PostCounts
  <2>2. PICK x : x = [h EXCEPT !.posts = n]
    OBVIOUS
  <2>3. Taken(c) = x
    BY <1>1, <1>2, <2>1, <2>2 DEF Taken
  <2>4. n \in PostCounts
    BY <2>1
  <2>5. /\ x \in Handler /\ SameHandles(h, x) /\ SameAnswer(h, x) /\ SameRefs(h, x)
        /\ x.upgrade = h.upgrade /\ x.handlers = h.handlers /\ x.webSocket = h.webSocket
        /\ x.toReceive = h.toReceive /\ x.content = h.content /\ x.finish = h.finish
        /\ x.done = h.done /\ x.wsInClose = h.wsInClose /\ x.posts = n
    BY <2>2, <2>4, ForwardTypes, PostFields
  <2> QED BY <1>2, <2>1, <2>3, <2>5
<1>3. CASE c # "post"
  <2>1. Taken(c) = h
    BY <1>3 DEF Taken
  <2> QED BY <1>3, <2>1, ForwardTypes DEF SameHandles, SameAnswer, SameRefs
<1> QED BY <1>2, <1>3

LEMMA DoAsyncFails ==
  ASSUME NEW c \in Completions PROVE ForwardInv /\ AsyncFails(c) => ForwardInv'
<1> SUFFICES ASSUME ForwardInv, AsyncFails(c) PROVE ForwardInv'
  OBVIOUS
<1>1. /\ Completes(c) /\ h' = AsyncFailure(Taken(c))
      /\ h.status = "DONE" => ~h.webSocket /\ ~h.finish
      /\ UNCHANGED <<wsVars, op, left, exec, notify, returned>>
  BY DEF AsyncFails, AsyncPending, Released
<1>2. Forwards /\ op = "none" /\ iis' = "none" /\ (c # "post" => h.posts = 0)
  BY <1>1, CompletesPhase
<1>3. PICK x : x = Taken(c)
  OBVIOUS
<1>4. /\ x \in Handler /\ SameHandles(h, x) /\ SameAnswer(h, x) /\ SameRefs(h, x)
      /\ x.handlers = h.handlers /\ x.webSocket = h.webSocket
      /\ x.finish = h.finish /\ x.done = h.done /\ x.posts = 0
  BY <1>1, <1>2, <1>3, TakenFacts
<1>5. h' = AsyncFailure(x)
  BY <1>1, <1>3
<1>6. /\ h' \in Handler /\ SameRequest(x, h') /\ SameRefs(x, h') /\ HandlesClose(x, h')
      /\ h'.status = "DONE" /\ h'.hasError
  BY <1>4, <1>5, ForwardTypes, AsyncFailureFacts
<1>7. /\ h'.handlers = h.handlers /\ h'.webSocket = h.webSocket
      /\ h'.finish = h.finish /\ h'.done = h.done /\ h'.posts = 0
      /\ HandlesClose(h, h') /\ SameRefs(h, h')
  BY <1>4, <1>6 DEF SameRequest, HandlesClose, SameHandles, SameRefs
<1> QED BY <1>1, <1>2, <1>6, <1>7, ForwardTypes, FailsForward

\* Only the flush of a stray read comes before the handles are gone.
LEMMA DoAsyncIgnored ==
  ASSUME NEW c \in Completions PROVE ForwardInv /\ AsyncIgnored(c) => ForwardInv'
<1> SUFFICES ASSUME ForwardInv, AsyncIgnored(c) PROVE ForwardInv'
  OBVIOUS
<1>1. /\ Completes(c) /\ h.status = "DONE" /\ ~Released(h) /\ h' = Taken(c)
      /\ UNCHANGED <<wsVars, op, left, exec, notify, returned>>
  BY DEF AsyncIgnored, AsyncPending
<1>2. Closes
  BY <1>1, CompletesPhase DEF Forwards, SendsTurn, ReceivesTurn, SwitchesTurn
<1>3. ~h.finish
  BY <1>1, <1>2 DEF Closes, Released
<1>4. c # "post" /\ op = "none" /\ iis' = "none"
  BY <1>1, <1>2, <1>3, CompletesPhase DEF Closes, Open
<1>5. h' = h
  BY <1>1, <1>4, TakenFacts
<1>6. Typing'
  BY <1>1, <1>4, <1>5, ForwardTypes, TypingFrom DEF Typing
<1>7. HeldRefs'
  BY <1>1, <1>5, ForwardTypes, RefsSame DEF SameRefs
<1>8. SocketInv'
  BY <1>1, SocketSame DEF ForwardInv
<1>9. Closes'
  BY <1>1, <1>2, <1>4, <1>5
     DEF Closes, Open, Complete, wsVars, Idle, InCallbacks, Counting
<1> QED BY <1>6, <1>7, <1>8, <1>9 DEF ForwardInv, Phases

LEMMA DoOnReceivingResponse ==
  ASSUME NEW c \in Completions PROVE ForwardInv /\ OnReceivingResponse(c) => ForwardInv'
<1> SUFFICES ASSUME ForwardInv, OnReceivingResponse(c) PROVE ForwardInv'
  OBVIOUS
<1>1. /\ Completes(c) /\ h.status = "RECEIVING" /\ h' = Taken(c) /\ op' = "query"
      /\ UNCHANGED <<wsVars, left, exec, notify, returned>>
  BY DEF OnReceivingResponse, AsyncPending
<1>2. Forwards /\ op = "none" /\ iis' = "none" /\ (c = "post" \/ (iis = c /\ h.posts = 0))
  BY <1>1, CompletesPhase
<1>3. /\ h' \in Handler /\ SameHandles(h, h') /\ SameAnswer(h, h') /\ SameRefs(h, h')
      /\ h'.upgrade = h.upgrade /\ h'.handlers = h.handlers /\ h'.webSocket = h.webSocket
      /\ h'.toReceive = h.toReceive /\ h'.content = h.content /\ h'.finish = h.finish
      /\ h'.done = h.done /\ h'.wsInClose = h.wsInClose /\ h'.posts = 0
  BY <1>1, <1>2, TakenFacts
<1>4. h.toReceive = 0 /\ ~h.upgrade
  BY <1>1, <1>2 DEF Forwards, SendsTurn, ReceivesTurn, SwitchesTurn
<1>5. ReceivesTurn'
  BY <1>1, <1>2, <1>3, <1>4 DEF ReceivesTurn, SameAnswer
<1>6. KeepsRequest(h, h')
  BY <1>3 DEF KeepsRequest, SameAnswer
<1> QED BY <1>1, <1>2, <1>3, <1>5, <1>6, ForwardTypes, MovesOn

LEMMA DoBodyRead == ForwardInv /\ BodyRead => ForwardInv'
<1> SUFFICES ASSUME ForwardInv, BodyRead PROVE ForwardInv'
  OBVIOUS
<1>1. /\ Completes("readBody") /\ h.status = "SENDING" /\ op' = "write"
      /\ h' = [h EXCEPT !.toReceive = IF @ = Infinite THEN @ ELSE @ - 1]
      /\ left' = [left EXCEPT !.body = @ - 1]
      /\ UNCHANGED <<wsVars, exec, notify, returned>>
  BY DEF BodyRead, AsyncPending
<1>2. "readBody" \in Completions
  BY DEF Completions
<1>3. Forwards /\ op = "none" /\ iis = "readBody" /\ iis' = "none" /\ h.posts = 0
  BY <1>1, <1>2, CompletesPhase DEF Closes
<1>4. h.toReceive # 0
  BY <1>1, <1>3 DEF Forwards, SendsTurn, ReceivesTurn, SwitchesTurn
<1>5. PICK n \in BodyLengths : n = IF h.toReceive = Infinite THEN h.toReceive
                                   ELSE h.toReceive - 1
  BY <1>4, ForwardTypes, SizeAssumption DEF BodyLengths, Infinite
<1>6. /\ h' \in Handler /\ SameHandles(h, h') /\ SameAnswer(h, h') /\ SameRefs(h, h')
      /\ h'.upgrade = h.upgrade /\ h'.handlers = h.handlers /\ h'.webSocket = h.webSocket
      /\ h'.content = h.content /\ h'.finish = h.finish /\ h'.done = h.done
      /\ h'.wsInClose = h.wsInClose /\ h'.posts = h.posts
  <2>1. h' = [h EXCEPT !.toReceive = n]
    BY <1>1, <1>5
  <2> QED BY <2>1, ForwardTypes, LengthFields
<1>7. SendsTurn'
  BY <1>1, <1>3, <1>6 DEF Forwards, SendsTurn, ReceivesTurn, SwitchesTurn, SameAnswer
<1>8. KeepsRequest(h, h')
  BY <1>6 DEF KeepsRequest, SameAnswer
<1>9. left' \in [body : Int, response : Int]
  BY <1>1, ForwardTypes
<1> QED BY <1>1, <1>3, <1>6, <1>7, <1>8, <1>9, MovesOn

LEMMA DoBodyEnds == ForwardInv /\ BodyEnds => ForwardInv'
<1> SUFFICES ASSUME ForwardInv, BodyEnds PROVE ForwardInv'
  OBVIOUS
<1>1. /\ Completes("readBody") /\ h.status = "SENDING" /\ op' = "write"
      /\ h' = [h EXCEPT !.toReceive = 0]
      /\ UNCHANGED <<wsVars, left, exec, notify, returned>>
  BY DEF BodyEnds, AsyncPending
<1>2. "readBody" \in Completions
  BY DEF Completions
<1>3. Forwards /\ op = "none" /\ iis = "readBody" /\ iis' = "none" /\ h.posts = 0
  BY <1>1, <1>2, CompletesPhase DEF Closes
<1>4. PICK n \in BodyLengths : n = 0
  BY SizeAssumption DEF BodyLengths
<1>5. /\ h' \in Handler /\ SameHandles(h, h') /\ SameAnswer(h, h') /\ SameRefs(h, h')
      /\ h'.upgrade = h.upgrade /\ h'.handlers = h.handlers /\ h'.webSocket = h.webSocket
      /\ h'.content = h.content /\ h'.finish = h.finish /\ h'.done = h.done
      /\ h'.wsInClose = h.wsInClose /\ h'.posts = h.posts
  <2>1. h' = [h EXCEPT !.toReceive = n]
    BY <1>1, <1>4
  <2> QED BY <2>1, ForwardTypes, LengthFields
<1>6. SendsTurn'
  BY <1>1, <1>3, <1>5 DEF Forwards, SendsTurn, ReceivesTurn, SwitchesTurn, SameAnswer
<1>7. KeepsRequest(h, h')
  BY <1>5 DEF KeepsRequest, SameAnswer
<1> QED BY <1>1, <1>3, <1>5, <1>6, <1>7, ForwardTypes, MovesOn

\* m_pWebSocket is set, and one more handle is counted once it exists.
SwitchedFrom(x, n, y) ==
  /\ y \in Handler /\ SameAnswer(x, y) /\ SameRefs(x, y) /\ SameHandles(x, y)
  /\ y.upgrade = x.upgrade /\ y.handlers = n /\ y.webSocket
  /\ y.toReceive = x.toReceive /\ y.content = x.content /\ y.finish = x.finish
  /\ y.done = x.done /\ y.disconnected = x.disconnected
  /\ y.wsInClose = x.wsInClose /\ y.posts = x.posts

LEMMA SwitchedFields ==
  ASSUME NEW x \in Handler, NEW n \in HandlerCounts
  PROVE  SwitchedFrom(x, n, [x EXCEPT !.webSocket = TRUE, !.handlers = n])
<1>1. PICK y : y = [x EXCEPT !.webSocket = TRUE, !.handlers = n]
  OBVIOUS
<1>2. y \in Handler
  BY <1>1 DEF Handler
<1>3. SwitchedFrom(x, n, y)
  BY <1>1, <1>2 DEF Handler, SameAnswer, SameRefs, SameHandles, SwitchedFrom
<1> QED BY <1>1, <1>3

LEMMA SwitchedOnly ==
  ASSUME NEW x \in Handler
  PROVE  SwitchedFrom(x, x.handlers, [x EXCEPT !.webSocket = TRUE])
<1>1. PICK y : y = [x EXCEPT !.webSocket = TRUE]
  OBVIOUS
<1>2. y \in Handler
  BY <1>1 DEF Handler
<1>3. SwitchedFrom(x, x.handlers, y)
  BY <1>1, <1>2 DEF Handler, SameAnswer, SameRefs, SameHandles, SwitchedFrom
<1> QED BY <1>1, <1>3

LEMMA TwoHandles ==
  ASSUME h \in Handler, h.handlers = 1
  PROVE  SwitchedFrom(h, 2, [h EXCEPT !.webSocket = TRUE, !.handlers = @ + 1])
<1>1. PICK n \in HandlerCounts : n = 2
  BY DEF HandlerCounts
<1>2. [h EXCEPT !.webSocket = TRUE, !.handlers = @ + 1]
        = [h EXCEPT !.webSocket = TRUE, !.handlers = n]
  BY <1>1
<1>3. SwitchedFrom(h, n, [h EXCEPT !.webSocket = TRUE, !.handlers = n])
  BY SwitchedFields
<1> QED BY <1>1, <1>2, <1>3

LEMMA Switching ==
  ASSUME ForwardInv, Completes("flush"), h.status = "WEBSOCKET"
  PROVE  /\ exec.pc = "done" /\ op = "none" /\ iis' = "none"
         /\ Forwards /\ SwitchesTurn
         /\ ws = NoWebSocket /\ pending = {} /\ NoCallbacks /\ ~ends.counted
<1>1. "flush" \in Completions
  BY DEF Completions
<1>2. exec.pc = "done" /\ op = "none" /\ iis' = "none" /\ Forwards
  BY <1>1, CompletesPhase DEF Closes
<1>3. SwitchesTurn /\ ws = NoWebSocket
  BY <1>2 DEF Forwards, SendsTurn, ReceivesTurn
<1>4. pending = {} /\ NoCallbacks /\ ~ends.counted
  BY <1>3 DEF ForwardInv, SocketInv, NoWebSocket
<1> QED BY <1>2, <1>3, <1>4

\* The web socket comes to be: nothing but the operations just started is counted.
LEMMA SocketStarts ==
  ASSUME NoCallbacks, UNCHANGED running, ws'.handle = "open",
         NEW ops, pending' \ {"whCleanup"} = ops, ws'.outstanding = Cardinality(ops),
         Cardinality(ops) \in Int, ~ends'.counted,
         "whCleanup" \in pending' => ws'.cleanup, Pumps'
  PROVE  SocketInv'
<1>1. /\ Counting("winhttp")' = 0 /\ Counting("iis")' = 0
      /\ InCallbacks("winhttp")' = 0 /\ InCallbacks("iis")' = 0
  BY DEF NoCallbacks, Counting, InCallbacks, Callers, Stages, Reasons
<1>2. Counted' = Cardinality(ops)
  <2>1. Counted' = Cardinality(ops) + 0 + 0
    BY <1>1 DEF Counted
  <2> QED BY <2>1
<1>3. Counts'
  BY <1>2 DEF Counts
<1> QED BY <1>1, <1>3, ThreadsAssumption DEF SocketInv

LEMMA StartedOperations == Cardinality({"iisRead", "whReceive"}) = 2
<1>1. Cardinality({"iisRead"}) = 1 /\ IsFiniteSet({"iisRead"})
  BY FS_Singleton
<1>2. {"iisRead", "whReceive"} = {"iisRead"} \cup {"whReceive"} /\ "whReceive" \notin {"iisRead"}
  OBVIOUS
<1> QED BY <1>1, <1>2, FS_AddElement

LEMMA DoWebSocketStarts == ForwardInv /\ WebSocketStarts => ForwardInv'
<1> SUFFICES ASSUME ForwardInv, WebSocketStarts PROVE ForwardInv'
  OBVIOUS
<1>1. PICK x : x = [h EXCEPT !.webSocket = TRUE, !.handlers = @ + 1]
  OBVIOUS
<1>2. /\ Completes("flush") /\ ~Aborted /\ h.status = "WEBSOCKET"
      /\ h' = CloseRequest(x) /\ ws' = Upgraded(2) /\ pending' = {"iisRead", "whReceive"}
      /\ UNCHANGED <<running, ends, op, left, exec, notify, returned>>
  BY <1>1 DEF WebSocketStarts, AsyncPending, ProcessRequestStarts
<1>3. /\ exec.pc = "done" /\ op = "none" /\ iis' = "none"
      /\ Forwards /\ SwitchesTurn
      /\ ws = NoWebSocket /\ pending = {} /\ NoCallbacks /\ ~ends.counted
  BY <1>2, Switching
<1>4. SwitchedFrom(h, 2, x)
  BY <1>1, <1>3, ForwardTypes, TwoHandles DEF Forwards
<1>5. /\ h' \in Handler
      /\ SameRequest(x, h') /\ SameAnswer(x, h') /\ SameRefs(x, h')
      /\ h'.wsInClose = x.wsInClose
      /\ x.hRequest /\ ~x.httpInClose => h'.httpInClose /\ ~h'.hRequest /\ h'.http = "closing"
  <2>1. x \in Handler
    BY <1>4 DEF SwitchedFrom
  <2> QED BY <1>2, <2>1, CloseRequestFacts
<1>6. /\ ws' \in WebSockets /\ ws'.handle = "open" /\ ws'.outstanding = 2
  <2>1. ws' = [outstanding |-> 2, cleanup |-> FALSE, indicate |-> FALSE,
               receivedClose |-> FALSE, handle |-> "open"]
    BY <1>2, <1>3 DEF Upgraded, NoWebSocket
  <2>2. "open" \in HandleStates
    BY DEF HandleStates
  <2> QED BY <2>1, <2>2 DEF WebSockets
<1>7. Typing'
  BY <1>2, <1>3, <1>5, <1>6, ForwardTypes DEF Typing, WinHttpOps, IisOps
<1>8. HeldRefs'
  <2>1. SameRefs(h, h')
    BY <1>4, <1>5 DEF SwitchedFrom, SameRefs
  <2> QED BY <1>2, <2>1, ForwardTypes, RefsSame
<1>9. SocketInv'
  <2>1. pending' \ {"whCleanup"} = {"iisRead", "whReceive"} /\ Pumps'
    BY <1>2 DEF Pumps
  <2> QED BY <1>2, <1>3, <1>6, <2>1, StartedOperations, SocketStarts
<1>10. Session'
  <2>1. /\ h'.status = "WEBSOCKET" /\ h'.webSocket /\ ~h'.wsInClose
        /\ ~h'.hRequest /\ h'.httpInClose /\ h'.http = "closing" /\ h'.handlers = 2
        /\ h'.posts = 0 /\ ~h'.hasError /\ ~h'.finish /\ ~h'.done
        /\ h'.toReceive = 0 /\ h'.upgrade
    BY <1>2, <1>3, <1>4, <1>5
       DEF SwitchedFrom, SameRequest, SameAnswer, SameHandles, Forwards, SwitchesTurn
  <2>2. ~h'.disconnected
    BY <1>2, <1>4, <1>5 DEF Aborted, SwitchedFrom, SameRequest
  <2>3. exec'.ret = "pending" /\ exec'.pc = "done" /\ returned' = "none"
    BY <1>2, <1>3 DEF Forwards
  <2> QED BY <1>2, <1>3, <1>6, <2>1, <2>2, <2>3 DEF Session, NobodysTurn, Open
<1> QED BY <1>7, <1>8, <1>9, <1>10 DEF ForwardInv, Phases

\* A failure while the request becomes a web socket.
LEMMA SwitchFails ==
  ASSUME ForwardInv, Forwards, SwitchesTurn, NEW n, NEW x, SwitchedFrom(h, n, x),
         h' = AsyncFailure(x), n = 1 + Open(ws'.handle = "open"),
         ws'.handle \in {"none", "open"}, ws' \in WebSockets, ends' \in Ends,
         pending' \subseteq WinHttpOps \cup IisOps,
         ws'.handle = "open" => pending' \cap WinHttpOps \subseteq {"whCleanup"} /\ ws'.cleanup,
         SocketInv', iis' = "none", "whSend" \notin pending',
         UNCHANGED <<running, op, left, exec, notify, returned>>
  PROVE  ForwardInv'
<1>1. /\ h' \in Handler /\ SameRequest(x, h') /\ SameRefs(x, h') /\ HandlesClose(x, h')
      /\ h'.status = "DONE" /\ h'.hasError
  <2>1. x \in Handler
    BY DEF SwitchedFrom
  <2> QED BY <2>1, ForwardTypes, AsyncFailureFacts
<1>2. Typing'
  BY <1>1, ForwardTypes DEF Typing
<1>3. HeldRefs'
  <2>1. SameRefs(h, h')
    BY <1>1 DEF SwitchedFrom, SameRefs
  <2> QED BY <2>1, ForwardTypes, RefsSame
<1>4. /\ ~h'.hRequest /\ h'.httpInClose /\ h'.http = "closing" /\ h'.handlers = n
      /\ h'.posts = 0 /\ ~h'.finish /\ ~h'.done /\ h'.webSocket
  BY <1>1 DEF SwitchedFrom, SameRequest, SameHandles, HandlesClose, Forwards, SwitchesTurn
<1>5. Closes'
  BY <1>1, <1>4 DEF Closes, Open, Forwards, SwitchesTurn
<1> QED BY <1>2, <1>3, <1>5 DEF ForwardInv, Phases

\* Cleanup notes what it does to the two ends, and nothing else about them.
LEMMA CleanupEnds ==
  ASSUME Typing, NEW r, NEW w, NEW ops, CleanupCall(r, w, ops)
  PROVE  ends' \in Ends /\ ends'.counted = ends.counted /\ ends'.strayed = ends.strayed
<1>1. CASE ws.cleanup
  BY <1>1 DEF CleanupCall, Typing
<1>2. CASE ~ws.cleanup
  <2>1. PICK sent \in BOOLEAN : ends' = Forsaken(r, w, sent, CleanedEnds(r))
    BY <1>2 DEF CleanupCall
  <2>2. PICK e : e = CleanedEnds(r)
    OBVIOUS
  <2>3. e \in Ends /\ e.counted = ends.counted /\ e.strayed = ends.strayed
    BY <2>2 DEF CleanedEnds, Typing, Ends
  <2>4. PICK a \in BOOLEAN, b \in BOOLEAN : ends' = [e EXCEPT !.unread = a, !.untold = b]
    BY <2>1, <2>2 DEF Forsaken
  <2> QED BY <2>3, <2>4 DEF Ends
<1> QED BY <1>1, <1>2

LEMMA DoWebSocketFails == ForwardInv /\ WebSocketFails => ForwardInv'
<1> SUFFICES ASSUME ForwardInv, WebSocketFails PROVE ForwardInv'
  OBVIOUS
<1>1. PICK x : x = [h EXCEPT !.webSocket = TRUE, !.handlers = @ + 1]
  OBVIOUS
<1>2. /\ Completes("flush") /\ h.status = "WEBSOCKET" /\ h' = AsyncFailure(x)
      /\ UNCHANGED <<running, op, left, exec, notify, returned>>
  BY <1>1 DEF WebSocketFails, AsyncPending
<1>3. /\ op = "none" /\ iis' = "none" /\ Forwards /\ SwitchesTurn
      /\ ws = NoWebSocket /\ pending = {} /\ NoCallbacks /\ ~ends.counted
  BY <1>2, Switching
<1>4. PICK ops \in {{}, {"iisRead"}} :
        CleanupCall("ServerStateUnavailable", Upgraded(Cardinality(ops)), ops)
  BY DEF WebSocketFails, ProcessRequestFails
<1>5. Cardinality(ops) \in Int
  BY FS_Singleton, FS_EmptySet
<1>6. PICK w : w = Upgraded(Cardinality(ops))
  OBVIOUS
<1>7. /\ ws' = Cleaned(w)
      /\ pending' = ops \/ pending' = ops \cup {"whCleanup"}
  BY <1>3, <1>4, <1>6 DEF CleanupCall, NoWebSocket
<1>8. /\ ws' \in WebSockets /\ ws'.handle = "open" /\ ws'.cleanup
      /\ ws'.outstanding = Cardinality(ops)
  BY <1>3, <1>5, <1>6, <1>7 DEF Cleaned, Upgraded, NoWebSocket, WebSockets, HandleStates
<1>9. ends' \in Ends /\ ~ends'.counted
  <2>1. ends' \in Ends /\ ends'.counted = ends.counted
    BY <1>4, ForwardTypes, CleanupEnds
  <2> QED BY <1>3, <2>1
<1>10. /\ pending' \subseteq WinHttpOps \cup IisOps
       /\ pending' \cap WinHttpOps \subseteq {"whCleanup"} /\ "whSend" \notin pending'
  BY <1>7 DEF WinHttpOps, IisOps
<1>11. SocketInv'
  <2>1. pending' \ {"whCleanup"} = ops /\ Pumps'
    BY <1>7 DEF Pumps
  <2> QED BY <1>2, <1>3, <1>5, <1>8, <1>9, <2>1, SocketStarts
<1>12. SwitchedFrom(h, 2, x)
  BY <1>1, <1>3, ForwardTypes, TwoHandles DEF Forwards
<1>13. 2 = 1 + Open(ws'.handle = "open")
  BY <1>8 DEF Open
<1> QED BY <1>2, <1>3, <1>8, <1>9, <1>10, <1>11, <1>12, <1>13, SwitchFails

LEMMA DoUpgradeFails == ForwardInv /\ UpgradeFails => ForwardInv'
<1> SUFFICES ASSUME ForwardInv, UpgradeFails PROVE ForwardInv'
  OBVIOUS
<1>1. PICK x : x = [h EXCEPT !.webSocket = TRUE]
  OBVIOUS
<1>2. /\ Completes("flush") /\ h.status = "WEBSOCKET" /\ h' = AsyncFailure(x)
      /\ CleanupCall("ServerStateUnavailable", ws, pending)
      /\ UNCHANGED <<running, op, left, exec, notify, returned>>
  BY <1>1 DEF UpgradeFails, AsyncPending
<1>3. /\ op = "none" /\ iis' = "none" /\ Forwards /\ SwitchesTurn
      /\ ws = NoWebSocket /\ pending = {} /\ NoCallbacks /\ ~ends.counted
  BY <1>2, Switching
<1>4. ws' = Cleaned(ws) /\ UNCHANGED pending
  BY <1>2, <1>3 DEF CleanupCall, MayTell, NoWebSocket
<1>5. ends' \in Ends /\ ends'.counted = ends.counted
  BY <1>2, ForwardTypes, CleanupEnds
<1>6. ws' \in WebSockets /\ ws'.handle = "none"
  BY <1>3, <1>4, ForwardTypes DEF NoWebSocket, Cleaned, Typing, WebSockets
<1>x. SocketInv'
  BY <1>2, <1>3, <1>4, <1>5, <1>6, ThreadsAssumption
     DEF ForwardInv, SocketInv, Pumps, NoCallbacks, InCallbacks, Counting
<1>7. SwitchedFrom(h, h.handlers, x)
  BY <1>1, ForwardTypes, SwitchedOnly
<1>8. h.handlers = 1 + Open(ws'.handle = "open")
  BY <1>3, <1>6 DEF Open, Forwards
<1>9. pending' \subseteq WinHttpOps \cup IisOps
  BY <1>3, <1>4
<1> QED BY <1>2, <1>3, <1>4, <1>5, <1>6, <1>x, <1>7, <1>8, <1>9, SwitchFails

\* IIS gets the request back, once.
LEMMA DoneFields ==
  ASSUME NEW x \in Handler, NEW y, y = [x EXCEPT !.done = TRUE]
  PROVE  /\ y \in Handler /\ SameAnswer(x, y) /\ SameRefs(x, y) /\ SameHandles(x, y)
         /\ y.upgrade = x.upgrade /\ y.handlers = x.handlers /\ y.webSocket = x.webSocket
         /\ y.toReceive = x.toReceive /\ y.content = x.content /\ y.finish = x.finish
         /\ y.done /\ y.posts = x.posts
<1>1. y \in Handler
  BY DEF Handler
<1> QED BY <1>1 DEF Handler, SameAnswer, SameRefs, SameHandles

LEMMA DoAsyncReleases ==
  ASSUME NEW c \in Completions PROVE ForwardInv /\ AsyncReleases(c) => ForwardInv'
<1> SUFFICES ASSUME ForwardInv, AsyncReleases(c) PROVE ForwardInv'
  OBVIOUS
<1>1. PICK x : x = Taken(c)
  OBVIOUS
<1>2. PICK z : z = [x EXCEPT !.done = TRUE]
  OBVIOUS
<1>3. /\ Completes(c) /\ Releases(h) /\ h' = RemoveRequest(z)
      /\ returned' = IF h.done THEN returned
                     ELSE IF h.hasError THEN "finish" ELSE "continue"
      /\ UNCHANGED <<wsVars, op, left, exec, notify>>
  BY <1>1, <1>2 DEF AsyncReleases
<1>4. /\ Closes /\ exec.pc = "done" /\ h.finish /\ op = "none"
      /\ iis' = iis \/ iis' = "none"
  BY <1>3, CompletesPhase DEF Releases, Released, Forwards
<1>5. /\ x \in Handler /\ SameHandles(h, x) /\ SameAnswer(h, x) /\ SameRefs(h, x)
      /\ x.upgrade = h.upgrade /\ x.handlers = h.handlers /\ x.webSocket = h.webSocket
      /\ x.toReceive = h.toReceive /\ x.content = h.content /\ x.finish = h.finish
      /\ x.posts = IF c = "post" THEN 0 ELSE h.posts
  BY <1>1, <1>3, TakenFacts
<1>6. /\ z \in Handler /\ SameAnswer(x, z) /\ SameRefs(x, z) /\ SameHandles(x, z)
      /\ z.upgrade = x.upgrade /\ z.handlers = x.handlers /\ z.webSocket = x.webSocket
      /\ z.toReceive = x.toReceive /\ z.content = x.content /\ z.finish = x.finish
      /\ z.done /\ z.posts = x.posts
  BY <1>2, <1>5, DoneFields
<1>7. /\ h' \in Handler /\ SameRequest(z, h') /\ SameHandles(z, h') /\ SameAnswer(z, h')
      /\ (z.handlerSet => z.pDisconnect) => HandlerForgotten(z, h')
  BY <1>3, <1>6, RemoveRequestFacts
<1>8. HandlerForgotten(h, h')
  BY <1>5, <1>6, <1>7, ForwardTypes DEF HandlerForgotten, SameRefs
<1>9. returned' \in {"none"} \cup Final
  BY <1>3, ForwardTypes DEF Typing, Final
<1>10. Typing'
  BY <1>3, <1>4, <1>7, <1>9, ForwardTypes DEF Typing, wsVars
<1>11. HeldRefs'
  <2>1. h'.refs = (IF exec.pc = "released" THEN 0 ELSE 1)
             + (IF exec.pc \in {"send", "dereference"} THEN 1 ELSE 0)
             + (IF notify \in {"terminate", "dereference"} THEN 1 ELSE 0)
    BY <1>8, ForwardTypes DEF HeldRefs, HandlerForgotten, Open
  <2> QED BY <1>3, <1>4, <1>8, <2>1, ForwardTypes DEF HeldRefs, HandlerForgotten
<1>12. SocketInv'
  BY <1>3, SocketSame DEF ForwardInv
<1>13. /\ h'.status = h.status /\ h'.hRequest = h.hRequest /\ h'.httpInClose = h.httpInClose
       /\ h'.http = h.http /\ h'.handlers = h.handlers /\ h'.hasError = h.hasError
       /\ h'.finish = h.finish /\ h'.webSocket = h.webSocket /\ h'.upgrade = h.upgrade
       /\ h'.toReceive = h.toReceive /\ h'.content = h.content /\ h'.done
       /\ h'.posts = IF c = "post" THEN 0 ELSE h.posts
  BY <1>5, <1>6, <1>7 DEF SameRequest, SameHandles, SameAnswer
<1>14. h'.posts = 0 \/ ends.strayed
  \* A completion besides the posted one is the flush of a stray read.
  <2>1. CASE c = "post"
    BY <1>13, <2>1
  <2>2. CASE c # "post"
    <3>1. iis = c /\ c \in {"readBody", "flush"}
      BY <1>3, <2>2, CompletesPhase DEF Completions
    <3> QED BY <1>4, <3>1 DEF Closes
  <2> QED BY <2>1, <2>2
<1>15. returned' = "continue" => Complete'
  <2>1. CASE h.done
    BY <1>3, <1>4, <1>13, <2>1 DEF Closes, Complete, wsVars
  <2>2. CASE ~h.done
    BY <1>3, <1>4, <1>13, <2>2 DEF Closes, Complete, wsVars
  <2> QED BY <2>1, <2>2
<1>16. h.hasError \/ Complete => h'.hasError \/ Complete'
  BY <1>3, <1>13 DEF Complete, wsVars
<1>17. Closes'
  BY <1>3, <1>4, <1>13, <1>14, <1>15, <1>16
     DEF Closes, Open, wsVars, Idle, InCallbacks, Counting
<1> QED BY <1>10, <1>11, <1>12, <1>17 DEF ForwardInv, Phases

LEMMA DoOnAsyncCompletion == ForwardInv /\ OnAsyncCompletion => ForwardInv'
BY DoBodyRead, DoBodyEnds, DoWebSocketStarts, DoWebSocketFails, DoUpgradeFails,
   DoAsyncFails, DoOnReceivingResponse, DoAsyncIgnored, DoAsyncReleases DEF OnAsyncCompletion

(***************************************************************************)
(* Callbacks that come and go.                                             *)
(***************************************************************************)
CountingStages == Reasons \cup {"decrement"}

LEMMA CellTypes ==
  ASSUME running \in Tables, NEW c \in Callers
  PROVE  /\ running[<<c, "Unknown">>] \in Nat /\ running[<<c, "ClientDisconnect">>] \in Nat
         /\ running[<<c, "ServerDisconnect">>] \in Nat /\ running[<<c, "decrement">>] \in Nat
         /\ running[<<c, "indicate">>] \in Nat /\ running[<<c, "finish">>] \in Nat
         /\ Counting(c) \in Nat /\ InCallbacks(c) \in Nat
<1>1. \A s \in Stages : <<c, s>> \in Callers \X Stages
  OBVIOUS
<1>2. /\ running[<<c, "Unknown">>] \in Nat /\ running[<<c, "ClientDisconnect">>] \in Nat
      /\ running[<<c, "ServerDisconnect">>] \in Nat /\ running[<<c, "decrement">>] \in Nat
      /\ running[<<c, "indicate">>] \in Nat /\ running[<<c, "finish">>] \in Nat
  BY <1>1 DEF Tables, Stages, Reasons
<1> QED BY <1>2 DEF Counting, InCallbacks

\* One cell of the table changes by d.
LEMMA CellChanges ==
  ASSUME running \in Tables, NEW c \in Callers, NEW s \in Stages, NEW n \in Nat,
         running' = [running EXCEPT ![<<c, s>>] = n]
  PROVE  /\ running' \in Tables
         /\ running'[<<c, s>>] = n
         /\ \A e \in Callers, t \in Stages :
              e # c \/ t # s => running'[<<e, t>>] = running[<<e, t>>]
<1>1. running' \in Tables
  BY DEF Tables
<1>2. <<c, s>> \in Callers \X Stages
  OBVIOUS
<1>3. running'[<<c, s>>] = n
  BY <1>2 DEF Tables
<1>4. ASSUME NEW e \in Callers, NEW t \in Stages, e # c \/ t # s
      PROVE  running'[<<e, t>>] = running[<<e, t>>]
  <2>1. <<e, t>> \in Callers \X Stages /\ <<e, t>> # <<c, s>>
    BY <1>4
  <2> QED BY <2>1 DEF Tables
<1> QED BY <1>1, <1>3, <1>4

\* What a caller's cells add up to, when only cell s has changed.
LEMMA SumsChange ==
  ASSUME running \in Tables, running' \in Tables, NEW c \in Callers, NEW s \in Stages,
         \A e \in Callers, t \in Stages :
              e # c \/ t # s => running'[<<e, t>>] = running[<<e, t>>]
  PROVE  /\ InCallbacks(c)' = InCallbacks(c) + running'[<<c, s>>] - running[<<c, s>>]
         /\ s \in CountingStages =>
              Counting(c)' = Counting(c) + running'[<<c, s>>] - running[<<c, s>>]
         /\ s \notin CountingStages => Counting(c)' = Counting(c)
         /\ \A e \in Callers \ {c} :
              InCallbacks(e)' = InCallbacks(e) /\ Counting(e)' = Counting(e)
<1>1. ASSUME NEW e \in Callers \ {c}
      PROVE  InCallbacks(e)' = InCallbacks(e) /\ Counting(e)' = Counting(e)
  BY DEF InCallbacks, Counting, Stages, Reasons
<1>2. /\ running[<<c, "Unknown">>] \in Nat /\ running[<<c, "ClientDisconnect">>] \in Nat
      /\ running[<<c, "ServerDisconnect">>] \in Nat /\ running[<<c, "decrement">>] \in Nat
      /\ running[<<c, "indicate">>] \in Nat /\ running[<<c, "finish">>] \in Nat
  BY CellTypes
<1>3. <<c, s>> \in Callers \X Stages
  OBVIOUS
<1>4. running'[<<c, s>>] \in Nat
  BY <1>3 DEF Tables
<1>5. \A t \in Stages : t # s => running'[<<c, t>>] = running[<<c, t>>]
  OBVIOUS
<1>6. s \in {"Unknown", "ClientDisconnect", "ServerDisconnect", "decrement", "indicate", "finish"}
  BY DEF Stages, Reasons
<1>7. /\ InCallbacks(c)' = InCallbacks(c) + running'[<<c, s>>] - running[<<c, s>>]
      /\ s \in CountingStages =>
           Counting(c)' = Counting(c) + running'[<<c, s>>] - running[<<c, s>>]
      /\ s \notin CountingStages => Counting(c)' = Counting(c)
  BY <1>2, <1>4, <1>5, <1>6, SMTT(30)
     DEF InCallbacks, Counting, Stages, Reasons, CountingStages
<1> QED BY <1>1, <1>7

\* The callbacks of both callers that have their count, and all of them.
AllCounting == Counting("winhttp") + Counting("iis")
AllInCallbacks == InCallbacks("winhttp") + InCallbacks("iis")

LEMMA SumTypes ==
  ASSUME running \in Tables
  PROVE  /\ Counting("winhttp") \in Nat /\ Counting("iis") \in Nat /\ AllCounting \in Nat
         /\ InCallbacks("winhttp") \in Nat /\ InCallbacks("iis") \in Nat
         /\ AllInCallbacks \in Nat
<1>1. "winhttp" \in Callers /\ "iis" \in Callers
  BY DEF Callers
<1>2. Counting("winhttp") \in Nat /\ InCallbacks("winhttp") \in Nat
  BY <1>1, CellTypes, Zenon
<1>3. Counting("iis") \in Nat /\ InCallbacks("iis") \in Nat
  BY <1>1, CellTypes, Zenon
<1> QED BY <1>2, <1>3 DEF AllCounting, AllInCallbacks

LEMMA TotalsChange ==
  ASSUME running \in Tables, running' \in Tables, NEW c \in Callers, NEW s \in Stages,
         NEW d \in Int, running'[<<c, s>>] = running[<<c, s>>] + d,
         \A e \in Callers, t \in Stages :
              e # c \/ t # s => running'[<<e, t>>] = running[<<e, t>>]
  PROVE  /\ AllInCallbacks' = AllInCallbacks + d
         /\ s \in CountingStages => AllCounting' = AllCounting + d
         /\ s \notin CountingStages => AllCounting' = AllCounting
         /\ c = "iis" => InCallbacks("winhttp")' = InCallbacks("winhttp")
<1>1. /\ InCallbacks(c)' = InCallbacks(c) + running'[<<c, s>>] - running[<<c, s>>]
      /\ s \in CountingStages =>
           Counting(c)' = Counting(c) + running'[<<c, s>>] - running[<<c, s>>]
      /\ s \notin CountingStages => Counting(c)' = Counting(c)
      /\ \A e \in Callers \ {c} :
           InCallbacks(e)' = InCallbacks(e) /\ Counting(e)' = Counting(e)
  BY SumsChange
<1>2. /\ Counting("winhttp") \in Nat /\ Counting("iis") \in Nat
      /\ InCallbacks("winhttp") \in Nat /\ InCallbacks("iis") \in Nat
  BY SumTypes
<1>3. running[<<c, s>>] \in Nat
  <2>1. <<c, s>> \in Callers \X Stages
    OBVIOUS
  <2> QED BY <2>1 DEF Tables
<1>4. CASE c = "winhttp"
  <2>1. "iis" \in Callers \ {c}
    BY <1>4 DEF Callers
  <2>2. InCallbacks("iis")' = InCallbacks("iis") /\ Counting("iis")' = Counting("iis")
    BY <1>1, <2>1
  <2> QED BY <1>1, <1>2, <1>3, <1>4, <2>2 DEF AllInCallbacks, AllCounting
<1>5. CASE c = "iis"
  <2>1. "winhttp" \in Callers \ {c}
    BY <1>5 DEF Callers
  <2>2. /\ InCallbacks("winhttp")' = InCallbacks("winhttp")
        /\ Counting("winhttp")' = Counting("winhttp")
    BY <1>1, <2>1
  <2> QED BY <1>1, <1>2, <1>3, <1>5, <2>2 DEF AllInCallbacks, AllCounting
<1> QED BY <1>4, <1>5 DEF Callers

\* Callbacks begin, end, and go on to their next part.
LEMMA EnterFacts ==
  ASSUME running \in Tables, NEW c \in Callers, NEW s \in CountingStages, Enter(c, s)
  PROVE  /\ running' \in Tables
         /\ AllInCallbacks' = AllInCallbacks + 1 /\ AllCounting' = AllCounting + 1
         /\ AllInCallbacks < Threads
         /\ c = "iis" => InCallbacks("winhttp")' = InCallbacks("winhttp")
<1>1. s \in Stages /\ <<c, s>> \in Callers \X Stages
  BY DEF CountingStages, Stages, Reasons
<1>2. PICK n \in Nat : n = running[<<c, s>>] + 1
  BY <1>1 DEF Tables
<1>3. running' = [running EXCEPT ![<<c, s>>] = n]
  BY <1>2 DEF Enter
<1>4. /\ running' \in Tables /\ running'[<<c, s>>] = n
      /\ \A e \in Callers, t \in Stages :
              e # c \/ t # s => running'[<<e, t>>] = running[<<e, t>>]
  BY <1>1, <1>3, CellChanges, ZenonT(40)
<1>5. running'[<<c, s>>] = running[<<c, s>>] + 1
  BY <1>2, <1>4
<1>6. /\ AllInCallbacks' = AllInCallbacks + 1 /\ AllCounting' = AllCounting + 1
      /\ c = "iis" => InCallbacks("winhttp")' = InCallbacks("winhttp")
  BY <1>1, <1>4, <1>5, TotalsChange
<1> QED BY <1>4, <1>6 DEF Enter, FreeThread, AllInCallbacks

LEMMA LeaveFacts ==
  ASSUME running \in Tables, NEW c \in Callers, NEW s \in Stages, Leave(c, s)
  PROVE  /\ running' \in Tables
         /\ running[<<c, s>>] > 0
         /\ AllInCallbacks' = AllInCallbacks - 1
         /\ s \in CountingStages => AllCounting' = AllCounting - 1
         /\ s \notin CountingStages => AllCounting' = AllCounting
         /\ c = "iis" => InCallbacks("winhttp")' = InCallbacks("winhttp")
<1>1. <<c, s>> \in Callers \X Stages
  OBVIOUS
<1>2. running[<<c, s>>] \in Nat /\ running[<<c, s>>] > 0
  BY <1>1 DEF Tables, Leave
<1>3. PICK n \in Nat : n = running[<<c, s>>] - 1
  BY <1>2
<1>4. running' = [running EXCEPT ![<<c, s>>] = n]
  BY <1>3 DEF Leave
<1>5. /\ running' \in Tables /\ running'[<<c, s>>] = n
      /\ \A e \in Callers, t \in Stages :
              e # c \/ t # s => running'[<<e, t>>] = running[<<e, t>>]
  BY <1>4, CellChanges, ZenonT(40)
<1>6. PICK d \in Int : d = -1
  OBVIOUS
<1>7. running'[<<c, s>>] = running[<<c, s>>] + d
  BY <1>2, <1>3, <1>5, <1>6
<1>8. /\ AllInCallbacks' = AllInCallbacks + d
      /\ s \in CountingStages => AllCounting' = AllCounting + d
      /\ s \notin CountingStages => AllCounting' = AllCounting
      /\ c = "iis" => InCallbacks("winhttp")' = InCallbacks("winhttp")
  BY <1>5, <1>7, TotalsChange
<1> QED BY <1>2, <1>5, <1>6, <1>8, SumTypes

\* Moving on is leaving and entering in one.
LEMMA MoveFacts ==
  ASSUME running \in Tables, NEW c \in Callers, NEW s \in Stages, NEW t \in Stages, s # t,
         MoveOn(c, s, t)
  PROVE  /\ running' \in Tables
         /\ running[<<c, s>>] > 0
         /\ AllInCallbacks' = AllInCallbacks
         /\ (s \in CountingStages <=> t \in CountingStages) => AllCounting' = AllCounting
         /\ s \in CountingStages /\ t \notin CountingStages => AllCounting' = AllCounting - 1
         /\ c = "iis" => InCallbacks("winhttp")' = InCallbacks("winhttp")
<1>1. /\ <<c, s>> \in Callers \X Stages /\ <<c, t>> \in Callers \X Stages
      /\ <<c, s>> # <<c, t>>
  OBVIOUS
<1>2. /\ running[<<c, s>>] \in Nat /\ running[<<c, s>>] > 0 /\ running[<<c, t>>] \in Nat
  BY <1>1 DEF Tables, MoveOn
<1>3. running' = [running EXCEPT ![<<c, s>>] = @ - 1, ![<<c, t>>] = @ + 1]
  BY DEF MoveOn
<1>4. running' \in Tables
  BY <1>1, <1>2, <1>3 DEF Tables
<1>5. running'[<<c, s>>] = running[<<c, s>>] - 1 /\ running'[<<c, t>>] = running[<<c, t>>] + 1
  BY <1>1, <1>2, <1>3 DEF Tables
<1>6. ASSUME NEW e \in Callers, NEW r \in Stages, e # c \/ (r # s /\ r # t)
      PROVE  running'[<<e, r>>] = running[<<e, r>>]
  <2>1. <<e, r>> \in Callers \X Stages /\ <<e, r>> # <<c, s>> /\ <<e, r>> # <<c, t>>
    BY <1>6
  <2> QED BY <1>3, <2>1 DEF Tables
<1>7. \A r \in Stages : r # s /\ r # t => running'[<<c, r>>] = running[<<c, r>>]
  BY <1>6
<1>8. \A e \in Callers \ {c} : InCallbacks(e)' = InCallbacks(e) /\ Counting(e)' = Counting(e)
  <2> SUFFICES ASSUME NEW e \in Callers \ {c}
               PROVE  InCallbacks(e)' = InCallbacks(e) /\ Counting(e)' = Counting(e)
    OBVIOUS
  <2>1. \A r \in Stages : running'[<<e, r>>] = running[<<e, r>>]
    BY <1>6
  <2> QED BY <2>1 DEF InCallbacks, Counting, Stages, Reasons
<1>9. /\ running[<<c, "Unknown">>] \in Nat /\ running[<<c, "ClientDisconnect">>] \in Nat
      /\ running[<<c, "ServerDisconnect">>] \in Nat /\ running[<<c, "decrement">>] \in Nat
      /\ running[<<c, "indicate">>] \in Nat /\ running[<<c, "finish">>] \in Nat
  BY CellTypes
<1>10. /\ InCallbacks(c)' = InCallbacks(c)
       /\ (s \in CountingStages <=> t \in CountingStages) => Counting(c)' = Counting(c)
       /\ s \in CountingStages /\ t \notin CountingStages => Counting(c)' = Counting(c) - 1
  <2>1. /\ s \in {"Unknown", "ClientDisconnect", "ServerDisconnect", "decrement", "indicate", "finish"}
        /\ t \in {"Unknown", "ClientDisconnect", "ServerDisconnect", "decrement", "indicate", "finish"}
    BY DEF Stages, Reasons
  <2> QED BY <1>2, <1>5, <1>7, <1>9, <2>1, SMTT(60)
       DEF InCallbacks, Counting, Stages, Reasons, CountingStages
<1>11. /\ Counting("winhttp") \in Nat /\ Counting("iis") \in Nat
       /\ InCallbacks("winhttp") \in Nat /\ InCallbacks("iis") \in Nat
  BY SumTypes
<1>12. CASE c = "winhttp"
  <2>1. "iis" \in Callers \ {c}
    BY <1>12 DEF Callers
  <2>2. InCallbacks("iis")' = InCallbacks("iis") /\ Counting("iis")' = Counting("iis")
    BY <1>8, <2>1
  <2> QED BY <1>2, <1>4, <1>10, <1>11, <1>12, <2>2 DEF AllInCallbacks, AllCounting
<1>13. CASE c = "iis"
  <2>1. "winhttp" \in Callers \ {c}
    BY <1>13 DEF Callers
  <2>2. /\ InCallbacks("winhttp")' = InCallbacks("winhttp")
        /\ Counting("winhttp")' = Counting("winhttp")
    BY <1>8, <2>1
  <2> QED BY <1>2, <1>4, <1>10, <1>11, <1>13, <2>2 DEF AllInCallbacks, AllCounting
<1> QED BY <1>12, <1>13 DEF Callers

\* Operations are few, so there is a number of them.
LEMMA PendingFinite ==
  ASSUME pending \subseteq WinHttpOps \cup IisOps
  PROVE  IsFiniteSet(pending) /\ IsFiniteSet(pending \ {"whCleanup"})
<1>1. IsFiniteSet(WinHttpOps \cup IisOps)
  <2>1. WinHttpOps \cup IisOps = ((({"whReceive"} \cup {"whSend"}) \cup {"whShutdown"})
                                \cup {"whCleanup"}) \cup ({"iisRead"} \cup {"iisWrite"})
    BY DEF WinHttpOps, IisOps
  <2>2. \A o : IsFiniteSet({o})
    BY FS_Singleton
  <2> QED BY <2>1, <2>2, FS_Union
<1> QED BY <1>1, FS_Subset

CountedOps == pending \ {"whCleanup"}

CountTypes == running \in Tables /\ pending \subseteq WinHttpOps \cup IisOps

SumsAdd ==
  /\ Counted = Cardinality(CountedOps) + AllCounting
  /\ Cardinality(CountedOps) \in Nat /\ AllCounting \in Nat /\ AllInCallbacks \in Nat

LEMMA CountedIs == CountTypes => SumsAdd
<1> SUFFICES ASSUME CountTypes PROVE SumsAdd
  OBVIOUS
<1>1. Cardinality(CountedOps) \in Nat
  BY PendingFinite, FS_CardinalityType DEF CountTypes, CountedOps
<1>2. /\ Counting("winhttp") \in Nat /\ Counting("iis") \in Nat /\ AllCounting \in Nat
      /\ AllInCallbacks \in Nat
  BY SumTypes DEF CountTypes
<1> QED BY <1>1, <1>2 DEF SumsAdd, Counted, CountedOps, AllCounting

\* Both before and after a step.
LEMMA CountedNow ==
  ASSUME CountTypes, CountTypes'
  PROVE  /\ Counted = Cardinality(CountedOps) + AllCounting
         /\ Cardinality(CountedOps) \in Nat /\ AllCounting \in Nat
         /\ Counted' = Cardinality(CountedOps)' + AllCounting'
         /\ Cardinality(CountedOps)' \in Nat /\ AllCounting' \in Nat
         /\ AllInCallbacks' \in Nat
<1>1. SumsAdd /\ SumsAdd'
  BY CountedIs, PTL
<1> QED BY <1>1 DEF SumsAdd

(***************************************************************************)
(* Steps of the web socket.                                                *)
(***************************************************************************)
\* What a step of the web socket leaves alone, and what never comes undone.
SocketOnly ==
  /\ UNCHANGED <<op, iis, left, exec, notify, returned>>
  /\ ws' \in WebSockets /\ ends' \in Ends /\ running' \in Tables
  /\ pending' \subseteq WinHttpOps \cup IisOps
  /\ ws.cleanup => ws'.cleanup
  /\ ends'.strayed = ends.strayed

\* The phase stays when the handle does and the request is left alone.
LEMMA SocketStep ==
  ASSUME ForwardInv, SocketOnly, UNCHANGED h, ws.handle # "none", ws'.handle = ws.handle,
         SocketInv',
         Closes /\ ws.handle = "open" => pending' \cap WinHttpOps \subseteq {"whCleanup"},
         Closes /\ "whSend" \in pending' => "whSend" \in pending,
         Closes /\ Idle("winhttp") => Idle("winhttp")'
  PROVE  ForwardInv'
<1>1. Typing'
  BY ForwardTypes DEF Typing, SocketOnly
<1>2. HeldRefs'
  BY ForwardTypes, RefsSame DEF SocketOnly, SameRefs
<1>3. Session \/ Closes
  BY DEF ForwardInv, Phases, Unsent, Forwards, NoWebSocket
<1>4. CASE Session
  <2>1. Session'
    BY <1>4 DEF Session, SocketOnly, NobodysTurn
  <2> QED BY <1>1, <1>2, <2>1 DEF ForwardInv, Phases
<1>5. CASE Closes
  <2>1. Closes'
    BY <1>5 DEF Closes, SocketOnly, Complete
  <2> QED BY <1>1, <1>2, <2>1 DEF ForwardInv, Phases
<1> QED BY <1>3, <1>4, <1>5

LEMMA Totals == ASSUME SocketInv PROVE AllInCallbacks <= Threads
BY DEF SocketInv, AllInCallbacks

\* The callback of an operation begins and starts no other.
LEMMA SocketLess ==
  ASSUME ForwardInv, SocketOnly, NEW c \in Callers, NEW s \in CountingStages, Enter(c, s),
         NEW o \in pending, pending' = pending \ {o},
         ws'.outstanding = ws.outstanding, ws'.handle = ws.handle,
         ends'.counted <=> ends.counted \/ o = "whCleanup"
  PROVE  SocketInv'
<1>1. Typing /\ SocketInv /\ running \in Tables
  BY DEF ForwardInv, Typing
<1>2. /\ AllInCallbacks' = AllInCallbacks + 1 /\ AllCounting' = AllCounting + 1
      /\ AllInCallbacks < Threads
  BY <1>1, EnterFacts
<1>3. ws.handle # "none"
  BY <1>1 DEF SocketInv
<1>4. /\ Counted = Cardinality(CountedOps) + AllCounting
      /\ Cardinality(CountedOps) \in Nat /\ AllCounting \in Nat
      /\ Counted' = Cardinality(CountedOps)' + AllCounting'
      /\ Cardinality(CountedOps)' \in Nat /\ AllCounting' \in Nat
  BY <1>1, CountedNow DEF CountTypes, SocketOnly, Typing
<1>5. o # "whCleanup" => Counted' = Counted
  <2>1. ASSUME o # "whCleanup" PROVE Cardinality(CountedOps)' = Cardinality(CountedOps) - 1
    <3>1. CountedOps' = CountedOps \ {o} /\ o \in CountedOps
      BY <2>1 DEF CountedOps
    <3>2. IsFiniteSet(CountedOps)
      BY <1>1, PendingFinite DEF Typing, CountedOps
    <3> QED BY <3>1, <3>2, FS_RemoveElement
  <2> QED BY <1>2, <1>4, <2>1
<1>6. o = "whCleanup" => Counted' = Counted + 1
  <2>1. ASSUME o = "whCleanup" PROVE CountedOps' = CountedOps
    BY <2>1 DEF CountedOps
  <2> QED BY <1>2, <1>4, <2>1
<1>7. Counted \in Int /\ ws.outstanding \in Int
  BY <1>1, <1>4 DEF Typing, WebSockets
<1>8. ws'.handle = "open" => Counts'
  <2> SUFFICES ASSUME ws'.handle = "open" PROVE Counts'
    OBVIOUS
  <2>1. Counts
    BY <1>1 DEF SocketInv
  <2>2. CASE o = "whCleanup"
    <3>1. ~ends.counted /\ ends'.counted
      BY <1>1, <2>2 DEF SocketInv
    <3> QED BY <1>6, <1>7, <2>1, <2>2, <3>1 DEF Counts
  <2>3. CASE o # "whCleanup"
    BY <1>5, <1>7, <2>1, <2>3 DEF Counts
  <2> QED BY <2>2, <2>3
<1>9. InCallbacks("winhttp")' + InCallbacks("iis")' <= Threads
  BY <1>1, <1>2, SumTypes, ThreadsAssumption DEF AllInCallbacks
<1>10. Pumps' /\ ("whCleanup" \in pending' => ws'.cleanup /\ ~ends'.counted)
       /\ (ends'.counted => ws'.cleanup)
  BY <1>1 DEF SocketInv, Pumps, SocketOnly
<1>11. ws'.handle \in {"closing", "closed"} => ClosedSocket'
  BY <1>1 DEF SocketInv, ClosedSocket
<1>12. ws'.handle = "closed" => pending' \cap WinHttpOps = {}
  BY <1>1 DEF SocketInv
<1> QED BY <1>3, <1>8, <1>9, <1>10, <1>11, <1>12 DEF SocketInv

\* The callback of an operation begins and starts another one.
LEMMA SocketSwap ==
  ASSUME ForwardInv, SocketOnly, NEW c \in Callers, NEW s \in CountingStages, Enter(c, s),
         NEW o \in pending, NEW n, n \notin pending, o # "whCleanup", n # "whCleanup",
         pending' = (pending \ {o}) \cup {n},
         ws'.outstanding = ws.outstanding + 1, ws.handle = "open", ws'.handle = "open",
         ends'.counted = ends.counted, Pumps'
  PROVE  SocketInv'
<1>1. Typing /\ SocketInv /\ running \in Tables
  BY DEF ForwardInv, Typing
<1>2. /\ AllInCallbacks' = AllInCallbacks + 1 /\ AllCounting' = AllCounting + 1
      /\ AllInCallbacks < Threads
  BY <1>1, EnterFacts
<1>3. /\ Counted = Cardinality(CountedOps) + AllCounting
      /\ Cardinality(CountedOps) \in Nat /\ AllCounting \in Nat
      /\ Counted' = Cardinality(CountedOps)' + AllCounting'
  BY <1>1, CountedNow DEF CountTypes, SocketOnly, Typing
<1>4. Cardinality(CountedOps)' = Cardinality(CountedOps)
  <2>1. /\ CountedOps' = (CountedOps \ {o}) \cup {n} /\ o \in CountedOps
        /\ n \notin CountedOps \ {o}
    BY DEF CountedOps
  <2>2. IsFiniteSet(CountedOps)
    BY <1>1, PendingFinite DEF Typing, CountedOps
  <2>3. /\ IsFiniteSet(CountedOps \ {o})
        /\ Cardinality(CountedOps \ {o}) = Cardinality(CountedOps) - 1
    BY <2>1, <2>2, FS_RemoveElement
  <2>4. Cardinality((CountedOps \ {o}) \cup {n}) = Cardinality(CountedOps \ {o}) + 1
    BY <2>1, <2>3, FS_AddElement
  <2> QED BY <1>3, <2>1, <2>3, <2>4
<1>5. Counted' = Counted + 1 /\ Counted \in Int /\ ws.outstanding \in Int
  BY <1>1, <1>2, <1>3, <1>4 DEF Typing, WebSockets
<1>7. Counts'
  <2>1. Counts
    BY <1>1 DEF SocketInv
  <2> QED BY <1>5, <2>1 DEF Counts
<1>8. InCallbacks("winhttp")' + InCallbacks("iis")' <= Threads
  BY <1>1, <1>2, SumTypes, ThreadsAssumption DEF AllInCallbacks
<1>9. /\ "whCleanup" \in pending' => ws'.cleanup /\ ~ends'.counted
      /\ ends'.counted => ws'.cleanup
  BY <1>1 DEF SocketInv, SocketOnly
<1> QED BY <1>7, <1>8, <1>9 DEF SocketInv

\* A callback goes on or ends; its count, if given back, leaves both sides.
LEMMA SocketMoves ==
  ASSUME ForwardInv, SocketOnly, NEW d \in Int, ends'.counted = ends.counted,
         AllInCallbacks' <= AllInCallbacks, AllCounting' = AllCounting + d,
         ws'.outstanding = ws.outstanding + d, ws.handle # "none", ws'.handle = ws.handle,
         \/ UNCHANGED pending
         \/ /\ pending' = pending \cup {"whCleanup"}
            /\ ~ws.cleanup /\ ws'.cleanup /\ ws.handle = "open"
  PROVE  SocketInv'
<1>1. Typing /\ SocketInv /\ running \in Tables
  BY DEF ForwardInv, Typing
<1>2. /\ Counted = Cardinality(CountedOps) + AllCounting
      /\ Cardinality(CountedOps) \in Nat /\ AllCounting \in Nat
      /\ Counted' = Cardinality(CountedOps)' + AllCounting'
  BY <1>1, CountedNow DEF CountTypes, SocketOnly, Typing
<1>3. Cardinality(CountedOps)' = Cardinality(CountedOps)
  <2>1. CountedOps' = CountedOps
    BY DEF CountedOps
  <2> QED BY <2>1
<1>4. Counted' = Counted + d /\ Counted \in Int /\ ws.outstanding \in Int
  BY <1>1, <1>2, <1>3 DEF Typing, WebSockets
<1>5. ws'.handle = "open" => Counts'
  BY <1>1, <1>4 DEF SocketInv, Counts
<1>6. InCallbacks("winhttp")' + InCallbacks("iis")' <= Threads
  <2>1. AllInCallbacks <= Threads /\ AllInCallbacks \in Nat
    BY <1>1, Totals, SumTypes
  <2>2. InCallbacks("winhttp")' + InCallbacks("iis")' <= AllInCallbacks
    BY DEF AllInCallbacks
  <2>3. AllInCallbacks' \in Int
    BY <1>1, CountedNow DEF CountTypes, SocketOnly, Typing
  <2> QED BY <2>1, <2>2, <2>3, ThreadsAssumption DEF AllInCallbacks
<1>7. Pumps' /\ ("whCleanup" \in pending' => ws'.cleanup /\ ~ends'.counted)
      /\ (ends'.counted => ws'.cleanup)
  BY <1>1 DEF SocketInv, Pumps, SocketOnly
<1>8. ws.handle # "open" => pending' = pending
  OBVIOUS
<1>9. ws'.handle \in {"closing", "closed"} => ClosedSocket'
  BY <1>1, <1>8 DEF SocketInv, ClosedSocket
<1>10. ws'.handle = "closed" => pending' \cap WinHttpOps = {}
  BY <1>1, <1>8 DEF SocketInv
<1> QED BY <1>5, <1>6, <1>7, <1>9, <1>10 DEF SocketInv

(***************************************************************************)
(* Callbacks of IIS and of WinHTTP.                                        *)
(***************************************************************************)
\* Operations are under way only once there is a handle.
LEMMA PendingPhase ==
  ASSUME ForwardInv, pending # {} PROVE ws.handle # "none"
BY DEF ForwardInv, SocketInv

LEMMA RoutedPhase ==
  ASSUME ForwardInv, Routed PROVE Session /\ ~Closes /\ ws.handle = "open"
BY DEF ForwardInv, Phases, Routed, Unsent, Forwards, Session, Closes

\* While nothing was cleaned up, an operation of IIS is that of a session.
LEMMA ReadingPhase ==
  ASSUME ForwardInv, ~ws.cleanup, NEW o \in pending \cap IisOps
  PROVE  ws.handle = "open" /\ ~Closes
<1>1. SocketInv /\ ws \in WebSockets
  BY DEF ForwardInv, Typing
<1>2. ws.handle = "open"
  BY <1>1 DEF SocketInv, ClosedSocket, WebSockets, HandleStates, IisOps
<1> QED BY <1>2 DEF Closes

\* A callback begins whose operation is taken out of pending.
LEMMA CallbackBegins ==
  ASSUME ForwardInv, NEW c \in Callers, NEW s \in CountingStages, Enter(c, s), UNCHANGED h,
         Alone, NEW o \in pending, pending' = pending \ {o},
         ws' \in WebSockets, ws'.outstanding = ws.outstanding, ws'.handle = ws.handle,
         ws'.cleanup = ws.cleanup, ends' \in Ends, ends'.strayed = ends.strayed,
         ends'.counted <=> ends.counted \/ o = "whCleanup",
         c = "iis" \/ Routed
  PROVE  ForwardInv'
<1>1. /\ running' \in Tables
      /\ c = "iis" => InCallbacks("winhttp")' = InCallbacks("winhttp")
  BY EnterFacts DEF ForwardInv, Typing
<1>2. SocketOnly
  BY <1>1 DEF SocketOnly, Alone, httpVars, ForwardInv, Typing
<1>3. SocketInv'
  BY <1>2, SocketLess
<1>4. ws.handle # "none"
  BY PendingPhase
<1>5. Closes /\ ws.handle = "open" => pending' \cap WinHttpOps \subseteq {"whCleanup"}
  BY DEF Closes
<1>6. Closes /\ Idle("winhttp") => Idle("winhttp")'
  BY <1>1, RoutedPhase DEF Idle
<1> QED BY <1>2, <1>3, <1>4, <1>5, <1>6, SocketStep

LEMMA CallbackGoesOn ==
  ASSUME ForwardInv, NEW c \in Callers, NEW s \in CountingStages, Enter(c, s), UNCHANGED h,
         Alone, NEW o \in pending, NEW n \in WinHttpOps \cup IisOps, n \notin pending,
         o # "whCleanup", n # "whCleanup", pending' = (pending \ {o}) \cup {n},
         ws' \in WebSockets, ws'.outstanding = ws.outstanding + 1, ws'.handle = ws.handle,
         ws'.cleanup = ws.cleanup, UNCHANGED ends, ws.handle = "open", ~Closes, Pumps'
  PROVE  ForwardInv'
<1>1. running' \in Tables
  BY EnterFacts DEF ForwardInv, Typing
<1>2. SocketOnly
  BY <1>1 DEF SocketOnly, Alone, httpVars, ForwardInv, Typing
<1>3. SocketInv'
  BY <1>2, SocketSwap
<1> QED BY <1>2, <1>3, SocketStep

LEMMA SocketFields ==
  ASSUME ForwardInv, ends' = [ends EXCEPT !.clientGone = TRUE]
                     \/ ends' = [ends EXCEPT !.serverGone = TRUE]
                     \/ ends' = [ends EXCEPT !.told = TRUE]
                     \/ UNCHANGED ends
  PROVE  /\ ends' \in Ends /\ ends'.counted = ends.counted
         /\ ends'.strayed = ends.strayed
BY DEF ForwardInv, Typing, Ends

LEMMA CountsOffFields ==
  ASSUME ForwardInv, NEW o, NEW e, e = [ends EXCEPT !.told = TRUE]
                                   \/ e = [ends EXCEPT !.serverGone = TRUE],
         ends' = CountsOff(o, e)
  PROVE  /\ ends' \in Ends /\ ends'.strayed = ends.strayed
         /\ ends'.counted <=> ends.counted \/ o = "whCleanup"
<1>1. e \in Ends /\ e.counted = ends.counted /\ e.strayed = ends.strayed
  BY DEF ForwardInv, Typing, Ends
<1>2. PICK b \in BOOLEAN : b <=> e.counted \/ o = "whCleanup"
  OBVIOUS
<1>3. ends' = [e EXCEPT !.counted = b]
  BY <1>1, <1>2 DEF CountsOff, Ends
<1> QED BY <1>1, <1>2, <1>3 DEF Ends

LEMMA DoIisFails ==
  ASSUME NEW o \in IisOps PROVE ForwardInv /\ IisFails(o) /\ Alone => ForwardInv'
<1> SUFFICES ASSUME ForwardInv, IisFails(o), Alone PROVE ForwardInv'
  OBVIOUS
<1>1. /\ o \in pending /\ Enter("iis", "ClientDisconnect") /\ pending' = pending \ {o}
      /\ ws' = ws /\ ends' = [ends EXCEPT !.clientGone = TRUE] /\ UNCHANGED h
  BY DEF IisFails, StartNothing
<1>2. "iis" \in Callers /\ "ClientDisconnect" \in CountingStages /\ o # "whCleanup"
  BY DEF Callers, CountingStages, Reasons, IisOps
<1>3. ws \in WebSockets
  BY DEF ForwardInv, Typing
<1> QED BY <1>1, <1>2, <1>3, SocketFields, CallbackBegins

LEMMA DoIisEndsInCleanup ==
  ASSUME NEW o \in IisOps PROVE ForwardInv /\ IisEndsInCleanup(o) /\ Alone => ForwardInv'
<1> SUFFICES ASSUME ForwardInv, IisEndsInCleanup(o), Alone PROVE ForwardInv'
  OBVIOUS
<1>1. /\ o \in pending /\ Enter("iis", "decrement") /\ pending' = pending \ {o}
      /\ ws' = ws /\ UNCHANGED ends /\ UNCHANGED h
  BY DEF IisEndsInCleanup, StartNothing
<1>2. "iis" \in Callers /\ "decrement" \in CountingStages /\ o # "whCleanup"
  BY DEF Callers, CountingStages, IisOps
<1>3. ws \in WebSockets
  BY DEF ForwardInv, Typing
<1> QED BY <1>1, <1>2, <1>3, SocketFields, CallbackBegins

\* One more operation is counted.
LEMMA StartFields ==
  ASSUME ForwardInv, ws' = [ws EXCEPT !.outstanding = @ + 1]
  PROVE  /\ ws' \in WebSockets /\ ws'.outstanding = ws.outstanding + 1
         /\ ws'.handle = ws.handle /\ ws'.cleanup = ws.cleanup
BY DEF ForwardInv, Typing, WebSockets

LEMMA DoOnIisReceiveComplete == ForwardInv /\ OnIisReceiveComplete /\ Alone => ForwardInv'
<1> SUFFICES ASSUME ForwardInv, OnIisReceiveComplete, Alone PROVE ForwardInv'
  OBVIOUS
<1>1. "iisRead" \in pending /\ ~ws.cleanup /\ UNCHANGED h
  BY DEF OnIisReceiveComplete
<1>2. /\ "iis" \in Callers /\ "decrement" \in CountingStages
      /\ "ServerDisconnect" \in CountingStages
  BY DEF Callers, CountingStages, Reasons
<1>3. ws.handle = "open" /\ ~Closes
  BY <1>1, ReadingPhase DEF IisOps
<1>4. Pumps /\ ws \in WebSockets
  BY DEF ForwardInv, Typing, SocketInv
<1>5. ASSUME NEW n \in {"whSend", "whShutdown"}, Start("iisRead", n),
             Enter("iis", "decrement"), UNCHANGED ends
      PROVE  ForwardInv'
  <2>1. /\ pending' = (pending \ {"iisRead"}) \cup {n}
        /\ ws' = [ws EXCEPT !.outstanding = @ + 1]
    BY <1>5 DEF Start
  <2>2. n \notin pending /\ n \in WinHttpOps \cup IisOps /\ n # "whCleanup" /\ Pumps'
    BY <1>1, <1>4, <2>1 DEF Pumps, WinHttpOps
  <2> QED BY <1>1, <1>2, <1>3, <1>5, <2>1, <2>2, StartFields, CallbackGoesOn
<1>6. ASSUME StartNothing("iisRead"), Enter("iis", "ServerDisconnect"),
             ends' = [ends EXCEPT !.serverGone = TRUE]
      PROVE  ForwardInv'
  BY <1>1, <1>2, <1>4, <1>6, SocketFields, CallbackBegins DEF StartNothing
<1> QED BY <1>5, <1>6 DEF OnIisReceiveComplete

LEMMA DoOnIisSendComplete == ForwardInv /\ OnIisSendComplete /\ Alone => ForwardInv'
<1> SUFFICES ASSUME ForwardInv, OnIisSendComplete, Alone PROVE ForwardInv'
  OBVIOUS
<1>1. "iisWrite" \in pending /\ ~ws.cleanup /\ UNCHANGED h
  BY DEF OnIisSendComplete
<1>2. /\ "iis" \in Callers /\ "decrement" \in CountingStages
      /\ "ServerDisconnect" \in CountingStages
  BY DEF Callers, CountingStages, Reasons
<1>3. ws.handle = "open" /\ ~Closes
  BY <1>1, ReadingPhase DEF IisOps
<1>4. Pumps /\ ws \in WebSockets
  BY DEF ForwardInv, Typing, SocketInv
<1>5. ASSUME Start("iisWrite", "whReceive"), Enter("iis", "decrement"), UNCHANGED ends
      PROVE  ForwardInv'
  <2>1. /\ pending' = (pending \ {"iisWrite"}) \cup {"whReceive"}
        /\ ws' = [ws EXCEPT !.outstanding = @ + 1]
    BY <1>5 DEF Start
  <2>2. "whReceive" \notin pending /\ "whReceive" \in WinHttpOps \cup IisOps /\ Pumps'
    BY <1>1, <1>4, <2>1 DEF Pumps, WinHttpOps
  <2> QED BY <1>1, <1>2, <1>3, <1>5, <2>1, <2>2, StartFields, CallbackGoesOn
<1>6. ASSUME StartNothing("iisWrite"), Enter("iis", "ServerDisconnect"),
             ends' = [ends EXCEPT !.serverGone = TRUE]
      PROVE  ForwardInv'
  BY <1>1, <1>2, <1>4, <1>6, SocketFields, CallbackBegins DEF StartNothing
<1>7. ASSUME StartNothing("iisWrite"), Enter("iis", "decrement"), UNCHANGED ends
      PROVE  ForwardInv'
  BY <1>1, <1>2, <1>4, <1>7, SocketFields, CallbackBegins DEF StartNothing
<1> QED BY <1>5, <1>6, <1>7 DEF OnIisSendComplete

LEMMA DoWinHttpEndsInCleanup ==
  ASSUME NEW o \in {"whReceive", "whSend"}
  PROVE  ForwardInv /\ WinHttpEndsInCleanup(o) /\ Alone => ForwardInv'
<1> SUFFICES ASSUME ForwardInv, WinHttpEndsInCleanup(o), Alone PROVE ForwardInv'
  OBVIOUS
<1>1. /\ o \in pending /\ Enter("winhttp", "decrement") /\ pending' = pending \ {o}
      /\ ws' = ws /\ UNCHANGED ends /\ UNCHANGED h /\ Routed
  BY DEF WinHttpEndsInCleanup, StartNothing
<1>2. "winhttp" \in Callers /\ "decrement" \in CountingStages /\ o # "whCleanup"
  BY DEF Callers, CountingStages
<1>3. ws \in WebSockets
  BY DEF ForwardInv, Typing
<1> QED BY <1>1, <1>2, <1>3, SocketFields, CallbackBegins

LEMMA DoOnWinHttpReceiveComplete ==
  ForwardInv /\ OnWinHttpReceiveComplete /\ Alone => ForwardInv'
<1> SUFFICES ASSUME ForwardInv, OnWinHttpReceiveComplete, Alone PROVE ForwardInv'
  OBVIOUS
<1>1. "whReceive" \in pending /\ Routed /\ ~ws.cleanup /\ UNCHANGED h
  BY DEF OnWinHttpReceiveComplete
<1>2. /\ "winhttp" \in Callers /\ "decrement" \in CountingStages
      /\ "ClientDisconnect" \in CountingStages
  BY DEF Callers, CountingStages, Reasons
<1>3. ws.handle = "open" /\ ~Closes
  BY <1>1, RoutedPhase
<1>4. Pumps /\ ws \in WebSockets
  BY DEF ForwardInv, Typing, SocketInv
<1>5. ASSUME Start("whReceive", "iisWrite"), Enter("winhttp", "decrement"), UNCHANGED ends
      PROVE  ForwardInv'
  <2>1. /\ pending' = (pending \ {"whReceive"}) \cup {"iisWrite"}
        /\ ws' = [ws EXCEPT !.outstanding = @ + 1]
    BY <1>5 DEF Start
  <2>2. "iisWrite" \notin pending /\ "iisWrite" \in WinHttpOps \cup IisOps /\ Pumps'
    BY <1>1, <1>4, <2>1 DEF Pumps, IisOps
  <2> QED BY <1>1, <1>2, <1>3, <1>5, <2>1, <2>2, StartFields, CallbackGoesOn
<1>6. ASSUME StartNothing("whReceive"), Enter("winhttp", "ClientDisconnect"),
             ends' = [ends EXCEPT !.clientGone = TRUE]
      PROVE  ForwardInv'
  BY <1>1, <1>2, <1>4, <1>6, SocketFields, CallbackBegins DEF StartNothing
<1> QED BY <1>5, <1>6 DEF OnWinHttpReceiveComplete

LEMMA MarkFields ==
  ASSUME NEW w \in WebSockets
  PROVE  /\ MarkClosed(w) \in WebSockets /\ MarkClosed(w).outstanding = w.outstanding
         /\ MarkClosed(w).handle = w.handle /\ MarkClosed(w).cleanup = w.cleanup
BY DEF MarkClosed, WebSockets

LEMMA DoOnWinHttpReceiveClose ==
  ForwardInv /\ OnWinHttpReceiveClose /\ Alone => ForwardInv'
<1> SUFFICES ASSUME ForwardInv, OnWinHttpReceiveClose, Alone PROVE ForwardInv'
  OBVIOUS
<1>1. "whReceive" \in pending /\ Routed /\ ~ws.cleanup /\ UNCHANGED h
  BY DEF OnWinHttpReceiveClose
<1>2. /\ "winhttp" \in Callers /\ "decrement" \in CountingStages
      /\ "ClientDisconnect" \in CountingStages
  BY DEF Callers, CountingStages, Reasons
<1>3. ws.handle = "open" /\ ~Closes
  BY <1>1, RoutedPhase
<1>4. Pumps /\ ws \in WebSockets
  BY DEF ForwardInv, Typing, SocketInv
<1>5. ASSUME pending' = (pending \ {"whReceive"}) \cup {"iisWrite"},
             ws' = MarkClosed([ws EXCEPT !.outstanding = @ + 1]),
             Enter("winhttp", "decrement"), UNCHANGED ends
      PROVE  ForwardInv'
  <2>1. PICK w : w = [ws EXCEPT !.outstanding = @ + 1]
    OBVIOUS
  <2>2. /\ w \in WebSockets /\ w.outstanding = ws.outstanding + 1
        /\ w.handle = ws.handle /\ w.cleanup = ws.cleanup
    BY <1>4, <2>1 DEF WebSockets
  <2>3. ws' = MarkClosed(w)
    BY <1>5, <2>1
  <2>4. /\ ws' \in WebSockets /\ ws'.outstanding = ws.outstanding + 1
        /\ ws'.handle = ws.handle /\ ws'.cleanup = ws.cleanup
    BY <2>2, <2>3, MarkFields
  <2>5. "iisWrite" \notin pending /\ "iisWrite" \in WinHttpOps \cup IisOps /\ Pumps'
    BY <1>1, <1>4, <1>5 DEF Pumps, IisOps
  <2> QED BY <1>1, <1>2, <1>3, <1>5, <2>4, <2>5, CallbackGoesOn
<1>6. ASSUME pending' = pending \ {"whReceive"}, ws' = MarkClosed(ws),
             Enter("winhttp", "ClientDisconnect"),
             ends' = [ends EXCEPT !.clientGone = TRUE]
      PROVE  ForwardInv'
  <2>1. /\ ws' \in WebSockets /\ ws'.outstanding = ws.outstanding
        /\ ws'.handle = ws.handle /\ ws'.cleanup = ws.cleanup
    BY <1>4, <1>6, MarkFields
  <2> QED BY <1>1, <1>2, <1>6, <2>1, SocketFields, CallbackBegins
<1> QED BY <1>5, <1>6 DEF OnWinHttpReceiveClose

LEMMA DoOnWinHttpSendComplete ==
  ForwardInv /\ OnWinHttpSendComplete /\ Alone => ForwardInv'
<1> SUFFICES ASSUME ForwardInv, OnWinHttpSendComplete, Alone PROVE ForwardInv'
  OBVIOUS
<1>1. "whSend" \in pending /\ Routed /\ ~ws.cleanup /\ UNCHANGED h
  BY DEF OnWinHttpSendComplete
<1>2. "winhttp" \in Callers /\ "decrement" \in CountingStages /\ "Unknown" \in CountingStages
  BY DEF Callers, CountingStages, Reasons
<1>3. ws.handle = "open" /\ ~Closes
  BY <1>1, RoutedPhase
<1>4. Pumps /\ ws \in WebSockets
  BY DEF ForwardInv, Typing, SocketInv
<1>5. ASSUME Start("whSend", "iisRead"), Enter("winhttp", "decrement"), UNCHANGED ends
      PROVE  ForwardInv'
  <2>1. /\ pending' = (pending \ {"whSend"}) \cup {"iisRead"}
        /\ ws' = [ws EXCEPT !.outstanding = @ + 1]
    BY <1>5 DEF Start
  <2>2. "iisRead" \notin pending /\ "iisRead" \in WinHttpOps \cup IisOps /\ Pumps'
    BY <1>1, <1>4, <2>1 DEF Pumps, IisOps
  <2> QED BY <1>1, <1>2, <1>3, <1>5, <2>1, <2>2, StartFields, CallbackGoesOn
<1>6. ASSUME StartNothing("whSend"), Enter("winhttp", "Unknown"),
             ends' = [ends EXCEPT !.clientGone = TRUE]
      PROVE  ForwardInv'
  BY <1>1, <1>2, <1>4, <1>6, SocketFields, CallbackBegins DEF StartNothing
<1> QED BY <1>5, <1>6 DEF OnWinHttpSendComplete

LEMMA DoOnWinHttpShutdownComplete ==
  ForwardInv /\ OnWinHttpShutdownComplete /\ Alone => ForwardInv'
<1> SUFFICES ASSUME ForwardInv, OnWinHttpShutdownComplete, Alone PROVE ForwardInv'
  OBVIOUS
<1>1. PICK o \in pending \cap {"whShutdown", "whCleanup"} :
         StartNothing(o) /\ ends' = CountsOff(o, [ends EXCEPT !.told = TRUE])
  BY DEF OnWinHttpShutdownComplete
<1>2. Routed /\ Enter("winhttp", "decrement") /\ UNCHANGED h
  BY DEF OnWinHttpShutdownComplete
<1>3. "winhttp" \in Callers /\ "decrement" \in CountingStages
  BY DEF Callers, CountingStages
<1>4. ws \in WebSockets
  BY DEF ForwardInv, Typing
<1>5. /\ ends' \in Ends /\ ends'.strayed = ends.strayed
      /\ ends'.counted <=> ends.counted \/ o = "whCleanup"
  BY <1>1, CountsOffFields
<1> QED BY <1>1, <1>2, <1>3, <1>4, <1>5, CallbackBegins DEF StartNothing

LEMMA DoOnWinHttpIoError == ForwardInv /\ OnWinHttpIoError /\ Alone => ForwardInv'
<1> SUFFICES ASSUME ForwardInv, OnWinHttpIoError, Alone PROVE ForwardInv'
  OBVIOUS
<1>1. PICK o \in pending \cap WinHttpOps :
         StartNothing(o) /\ ends' = CountsOff(o, [ends EXCEPT !.serverGone = TRUE])
  BY DEF OnWinHttpIoError
<1>2. Routed /\ Enter("winhttp", "ServerDisconnect") /\ UNCHANGED h
  BY DEF OnWinHttpIoError
<1>3. "winhttp" \in Callers /\ "ServerDisconnect" \in CountingStages
  BY DEF Callers, CountingStages, Reasons
<1>4. ws \in WebSockets
  BY DEF ForwardInv, Typing
<1>5. /\ ends' \in Ends /\ ends'.strayed = ends.strayed
      /\ ends'.counted <=> ends.counted \/ o = "whCleanup"
  BY <1>1, CountsOffFields
<1> QED BY <1>1, <1>2, <1>3, <1>4, <1>5, CallbackBegins DEF StartNothing

(***************************************************************************)
(* Cleanup, DecrementOutstandingIo and IndicateCompletionToIIS.            *)
(***************************************************************************)
\* A callback is running: there is a handle, and its caller is not idle.
LEMMA Running ==
  ASSUME ForwardInv, NEW c \in Callers, NEW s \in Stages, running[<<c, s>>] > 0
  PROVE  ws.handle # "none" /\ ~Idle(c)
<1>1. running \in Tables /\ SocketInv
  BY DEF ForwardInv, Typing
<1>2. <<c, s>> \in Callers \X Stages
  OBVIOUS
<1>3. ws.handle # "none"
  BY <1>1, <1>2 DEF SocketInv, NoCallbacks
<1>4. /\ running[<<c, "Unknown">>] \in Nat /\ running[<<c, "ClientDisconnect">>] \in Nat
      /\ running[<<c, "ServerDisconnect">>] \in Nat /\ running[<<c, "decrement">>] \in Nat
      /\ running[<<c, "indicate">>] \in Nat /\ running[<<c, "finish">>] \in Nat
  BY <1>1, CellTypes
<1>5. s \in {"Unknown", "ClientDisconnect", "ServerDisconnect", "decrement", "indicate", "finish"}
  BY DEF Stages, Reasons
<1>6. ~Idle(c)
  BY <1>4, <1>5 DEF Idle, InCallbacks, Counting
<1> QED BY <1>3, <1>6

LEMMA StaysIdle ==
  ASSUME ForwardInv, NEW c \in Callers, NEW s \in Stages, running[<<c, s>>] > 0,
         c = "iis" => InCallbacks("winhttp")' = InCallbacks("winhttp"),
         Idle("winhttp")
  PROVE  Idle("winhttp")'
<1>1. c = "iis"
  BY Running DEF Callers
<1> QED BY <1>1 DEF Idle

LEMMA DoCleanup ==
  ASSUME NEW c \in Callers, NEW r \in Reasons
  PROVE  ForwardInv /\ Cleanup(c, r) /\ Alone => ForwardInv'
<1> SUFFICES ASSUME ForwardInv, Cleanup(c, r), Alone PROVE ForwardInv'
  OBVIOUS
<1>1. MoveOn(c, r, "decrement") /\ CleanupCall(r, ws, pending) /\ UNCHANGED h
  BY DEF Cleanup
<1>2. /\ r \in Stages /\ "decrement" \in Stages /\ r # "decrement"
      /\ r \in CountingStages /\ "decrement" \in CountingStages
  BY DEF Stages, Reasons, CountingStages
<1>3. Typing /\ running \in Tables /\ pending \subseteq WinHttpOps \cup IisOps
  BY DEF ForwardInv, Typing
<1>4. /\ running' \in Tables /\ running[<<c, r>>] > 0
      /\ AllInCallbacks' = AllInCallbacks /\ AllCounting' = AllCounting
      /\ c = "iis" => InCallbacks("winhttp")' = InCallbacks("winhttp")
  BY <1>1, <1>2, <1>3, MoveFacts
<1>5. ws.handle # "none"
  BY <1>2, <1>4, Running
<1>6. /\ ws' \in WebSockets /\ ends' \in Ends
      /\ ws'.outstanding = ws.outstanding /\ ws'.handle = ws.handle
      /\ ws.cleanup => ws'.cleanup /\ UNCHANGED pending
      /\ ends'.counted = ends.counted /\ ends'.strayed = ends.strayed
  <2>1. ends' \in Ends /\ ends'.counted = ends.counted /\ ends'.strayed = ends.strayed
    BY <1>1, <1>3, CleanupEnds
  <2> QED BY <1>1, <1>3, <2>1 DEF CleanupCall, Cleaned, Typing, WebSockets
<1>7. \/ UNCHANGED pending
      \/ /\ pending' = pending \cup {"whCleanup"}
         /\ ~ws.cleanup /\ ws'.cleanup /\ ws.handle = "open"
  <2>1. CASE ws.cleanup
    BY <1>6, <2>1
  <2>2. CASE ~ws.cleanup
    <3>1. Cleaned(ws).cleanup
      BY <1>3 DEF Cleaned, Typing, WebSockets
    <3> QED BY <1>1, <2>2, <3>1 DEF CleanupCall, MayTell
  <2> QED BY <2>1, <2>2
<1>8. SocketOnly
  <2>1. pending' \subseteq WinHttpOps \cup IisOps
    BY <1>3, <1>7 DEF WinHttpOps
  <2> QED BY <1>4, <1>6, <2>1 DEF SocketOnly, Alone, httpVars
<1>9. SocketInv'
  <2>1. PICK d \in Int : d = 0
    OBVIOUS
  <2>2. AllInCallbacks' <= AllInCallbacks /\ AllCounting' = AllCounting + d
    BY <1>3, <1>4, <2>1, SumTypes
  <2>3. ws'.outstanding = ws.outstanding + d
    BY <1>3, <1>6, <2>1 DEF Typing, WebSockets
  <2> QED BY <1>5, <1>6, <1>7, <1>8, <2>2, <2>3, SocketMoves
<1>10. Closes /\ ws.handle = "open" => pending' \cap WinHttpOps \subseteq {"whCleanup"}
  BY <1>6 DEF Closes
<1>11. Closes /\ Idle("winhttp") => Idle("winhttp")'
  BY <1>2, <1>4, StaysIdle
<1>12. "whSend" \in pending' => "whSend" \in pending
  BY <1>7
<1> QED BY <1>1, <1>5, <1>6, <1>8, <1>9, <1>10, <1>11, <1>12, SocketStep

\* A callback returns: of WinHTTP, to the end of OnWinHttpCompletionInternal.
LEMMA ReturnFacts ==
  ASSUME running \in Tables, NEW c \in Callers, NEW s \in {"decrement", "indicate"},
         Return(c, s)
  PROVE  /\ running' \in Tables /\ running[<<c, s>>] > 0
         /\ AllInCallbacks' = AllInCallbacks \/ AllInCallbacks' = AllInCallbacks - 1
         /\ s = "decrement" => AllCounting' = AllCounting - 1
         /\ s = "indicate" => AllCounting' = AllCounting
         /\ c = "iis" => InCallbacks("winhttp")' = InCallbacks("winhttp")
<1>1. /\ s \in Stages /\ "finish" \in Stages /\ s # "finish"
      /\ "finish" \notin CountingStages /\ (s \in CountingStages <=> s = "decrement")
  BY DEF Stages, CountingStages, Reasons
<1>2. CASE MoveOn(c, s, "finish")
  BY <1>1, <1>2, MoveFacts
<1>3. CASE Leave(c, s)
  BY <1>1, <1>3, LeaveFacts
<1> QED BY <1>2, <1>3 DEF Return

LEMMA DoDecrement ==
  ASSUME NEW c \in Callers
  PROVE  ForwardInv /\ DecrementOutstandingIo(c) /\ Alone => ForwardInv'
<1> SUFFICES ASSUME ForwardInv, DecrementOutstandingIo(c), Alone PROVE ForwardInv'
  OBVIOUS
<1>1. /\ ws' = [ws EXCEPT !.outstanding = @ - 1] /\ UNCHANGED <<pending, ends, h>>
      /\ MoveOn(c, "decrement", "indicate") \/ Return(c, "decrement")
  BY DEF DecrementOutstandingIo, IndicatesToo
<1>2. /\ "decrement" \in Stages /\ "indicate" \in Stages
      /\ "decrement" \in CountingStages /\ "indicate" \notin CountingStages
  BY DEF Stages, CountingStages, Reasons
<1>3. Typing /\ running \in Tables /\ pending \subseteq WinHttpOps \cup IisOps
  BY DEF ForwardInv, Typing
<1>4. /\ running' \in Tables /\ running[<<c, "decrement">>] > 0
      /\ AllInCallbacks' = AllInCallbacks \/ AllInCallbacks' = AllInCallbacks - 1
      /\ AllCounting' = AllCounting - 1
      /\ c = "iis" => InCallbacks("winhttp")' = InCallbacks("winhttp")
  <2>1. CASE MoveOn(c, "decrement", "indicate")
    BY <1>2, <1>3, <2>1, MoveFacts
  <2>2. CASE Return(c, "decrement")
    BY <1>3, <2>2, ReturnFacts
  <2> QED BY <1>1, <2>1, <2>2
<1>5. ws.handle # "none"
  BY <1>2, <1>4, Running
<1>6. /\ ws' \in WebSockets /\ ws'.outstanding = ws.outstanding - 1
      /\ ws'.handle = ws.handle /\ ws'.cleanup = ws.cleanup
  BY <1>1, <1>3 DEF Typing, WebSockets
<1>7. SocketOnly
  BY <1>1, <1>3, <1>4, <1>6 DEF SocketOnly, Alone, httpVars, Typing
<1>8. SocketInv'
  <2>1. PICK d \in Int : d = -1
    OBVIOUS
  <2>2. AllInCallbacks' <= AllInCallbacks /\ AllCounting' = AllCounting + d
    BY <1>3, <1>4, <2>1, SumTypes
  <2>3. ws'.outstanding = ws.outstanding + d
    BY <1>3, <1>6, <2>1 DEF Typing, WebSockets
  <2> QED BY <1>1, <1>5, <1>6, <1>7, <2>2, <2>3, SocketMoves
<1>9. Closes /\ ws.handle = "open" => pending' \cap WinHttpOps \subseteq {"whCleanup"}
  BY <1>1 DEF Closes
<1>10. Closes /\ Idle("winhttp") => Idle("winhttp")'
  BY <1>2, <1>4, StaysIdle
<1> QED BY <1>1, <1>5, <1>6, <1>7, <1>8, <1>9, <1>10, SocketStep

\* The count has reached zero: what is still pending was counted by nobody,
\* or the count was one less.
LEMMA NothingCounted ==
  ASSUME ForwardInv, ws.handle = "open", ws.outstanding = 0
  PROVE  ClosedSocket
<1>1. /\ CountTypes /\ Counts
      /\ "whCleanup" \in pending => ~ends.counted
  BY DEF ForwardInv, Typing, CountTypes, SocketInv
<1>2. SumsAdd
  BY <1>1, CountedIs
<1>3. IsFiniteSet(CountedOps)
  BY <1>1, PendingFinite DEF CountTypes, CountedOps
<1>4. CASE ends.counted
  <2>1. Cardinality(CountedOps) <= 1 /\ CountedOps = pending
    BY <1>1, <1>2, <1>4 DEF Counts, SumsAdd, CountedOps
  <2>2. ASSUME NEW o \in pending, NEW p \in pending, o # p PROVE FALSE
    <3>1. /\ {o, p} \subseteq CountedOps /\ IsFiniteSet({p}) /\ Cardinality({p}) = 1
          /\ o \notin {p} /\ {p} \cup {o} = {o, p}
      BY <2>1, <2>2, FS_Singleton
    <3>2. Cardinality({o, p}) = 2
      BY <3>1, FS_AddElement
    <3>3. Cardinality({o, p}) <= Cardinality(CountedOps)
      BY <1>3, <3>1, FS_Subset
    <3> QED BY <1>2, <2>1, <3>2, <3>3 DEF SumsAdd
  <2> QED BY <1>4, <2>2 DEF ClosedSocket
<1>5. CASE ~ends.counted
  <2>1. Cardinality(CountedOps) = 0
    BY <1>1, <1>2, <1>5 DEF Counts, SumsAdd
  <2>2. CountedOps = {}
    BY <1>3, <2>1, FS_EmptySet
  <2> QED BY <2>2 DEF ClosedSocket, CountedOps
<1> QED BY <1>4, <1>5

LEMMA DoIndicate ==
  ASSUME NEW c \in Callers
  PROVE  ForwardInv /\ IndicateCompletionToIIS(c) /\ Alone => ForwardInv'
<1> SUFFICES ASSUME ForwardInv, IndicateCompletionToIIS(c), Alone PROVE ForwardInv'
  OBVIOUS
<1>1. Return(c, "indicate") /\ UNCHANGED <<pending, ends>>
  BY DEF IndicateCompletionToIIS
<1>2. "indicate" \in Stages
  BY DEF Stages
<1>3. Typing /\ running \in Tables /\ pending \subseteq WinHttpOps \cup IisOps /\ h \in Handler
      /\ ws \in WebSockets /\ SocketInv
  BY DEF ForwardInv, Typing
<1>4. /\ running' \in Tables /\ running[<<c, "indicate">>] > 0
      /\ AllInCallbacks' = AllInCallbacks \/ AllInCallbacks' = AllInCallbacks - 1
      /\ AllCounting' = AllCounting
      /\ c = "iis" => InCallbacks("winhttp")' = InCallbacks("winhttp")
  BY <1>1, <1>3, ReturnFacts
<1>5. ws.handle # "none"
  BY <1>2, <1>4, Running
<1>6. CASE ws.handle = "open" /\ ws.outstanding = 0
  <2>1. ws' = CloseWebSocket(ws) /\ h' = [h EXCEPT !.status = "DONE"]
    BY <1>6 DEF IndicateCompletionToIIS
  <2>2. /\ ws' \in WebSockets /\ ws'.handle = "closing" /\ ws'.cleanup = ws.cleanup
    BY <1>3, <2>1 DEF CloseWebSocket, WebSockets, HandleStates
  <2>3. /\ h' \in Handler /\ SameHandles(h, h') /\ SameRefs(h, h') /\ SameRequest(h, h')
        /\ h'.status = "DONE" /\ h'.hasError = h.hasError
    <3>1. "DONE" \in Statuses
      BY DEF Statuses
    <3> QED BY <1>3, <2>1, <3>1, StatusFields
  <2>4. Typing'
    BY <1>1, <1>3, <1>4, <2>2, <2>3 DEF Typing, Alone, httpVars
  <2>5. HeldRefs'
    BY <2>3, ForwardTypes, RefsSame DEF Alone
  <2>6. InCallbacks("winhttp")' + InCallbacks("iis")' <= Threads
    <3>1. AllInCallbacks <= Threads /\ AllInCallbacks \in Nat
      BY <1>3, Totals, SumTypes
    <3> QED BY <1>4, <3>1, ThreadsAssumption DEF AllInCallbacks
  <2>7. SocketInv'
    <3>1. ClosedSocket'
      BY <1>1, <1>6, NothingCounted DEF ClosedSocket
    <3> QED BY <1>1, <1>3, <2>2, <2>6, <3>1 DEF SocketInv, Pumps
  <2>8. Session \/ Closes
    BY <1>5 DEF ForwardInv, Phases, Unsent, Forwards, NoWebSocket
  <2>9. CASE Session
    <3>1. /\ h'.handlers = Open(h'.http = "closing") + Open(ws'.handle \in {"open", "closing"})
          /\ h'.handlers # 0
      BY <2>2, <2>3, <2>9 DEF Session, Open, SameRequest, SameHandles
    <3>2. ~h'.finish /\ ~h'.done /\ h'.posts = 0 /\ Complete'
      BY <2>2, <2>3, <2>9 DEF Session, SameRequest, Complete, NobodysTurn, Alone, httpVars
    <3>3. Closes'
      BY <1>1, <2>2, <2>3, <2>9, <3>1, <3>2
         DEF Session, Closes, SameHandles, SameRequest, NobodysTurn, Open, Alone, httpVars
    <3> QED BY <2>4, <2>5, <2>7, <3>3 DEF ForwardInv, Phases
  <2>10. CASE Closes
    <3>1. /\ h'.handlers = Open(h'.http = "closing") + Open(ws'.handle \in {"open", "closing"})
          /\ h'.handlers # 0 /\ h'.handlers = h.handlers
      BY <1>6, <2>2, <2>3, <2>10 DEF Closes, Open, SameRequest, SameHandles
    <3>2. ~h.finish
      BY <2>10, <3>1 DEF Closes
    <3>3. Closes'
      <4>1. /\ ~h'.hRequest /\ h'.httpInClose /\ h'.http = h.http
            /\ h'.http \in {"closing", "closed"}
        BY <2>3, <2>10 DEF Closes, SameHandles
      <4>2. /\ h'.upgrade = h.upgrade /\ h'.toReceive = h.toReceive
            /\ h'.content = h.content /\ h'.done = h.done
            /\ h'.posts = h.posts /\ h'.finish = h.finish
            /\ h'.webSocket = h.webSocket
        BY <2>3 DEF SameRequest
      <4>3. UNCHANGED <<op, iis, left, exec, returned>>
        BY DEF Alone, httpVars
      <4> QED BY <1>1, <1>6, <2>2, <2>3, <2>10, <3>1, <3>2, <4>1, <4>2, <4>3, ClosesOn
    <3> QED BY <2>4, <2>5, <2>7, <3>3 DEF ForwardInv, Phases
  <2> QED BY <2>8, <2>9, <2>10
<1>7. CASE ~(ws.handle = "open" /\ ws.outstanding = 0)
  <2>1. UNCHANGED <<ws, h>>
    BY <1>7 DEF IndicateCompletionToIIS
  <2>2. SocketOnly
    BY <1>1, <1>3, <1>4, <2>1 DEF SocketOnly, Alone, httpVars, Typing
  <2>3. SocketInv'
    <3>1. PICK d \in Int : d = 0
      OBVIOUS
    <3>2. AllInCallbacks' <= AllInCallbacks /\ AllCounting' = AllCounting + d
      BY <1>3, <1>4, <3>1, SumTypes
    <3>3. ws'.outstanding = ws.outstanding + d /\ ws'.handle = ws.handle
      BY <1>3, <2>1, <3>1 DEF WebSockets
    <3> QED BY <1>1, <1>5, <2>2, <3>2, <3>3, SocketMoves
  <2>4. Closes /\ ws.handle = "open" => pending' \cap WinHttpOps \subseteq {"whCleanup"}
    BY <1>1 DEF Closes
  <2>5. Closes /\ Idle("winhttp") => Idle("winhttp")'
    BY <1>2, <1>4, StaysIdle
  <2> QED BY <1>1, <1>5, <2>1, <2>2, <2>3, <2>4, <2>5, SocketStep
<1> QED BY <1>6, <1>7

\* The end of a callback of WinHTTP, which may be the first to see that
\* another one has set DONE.
LEMMA DoCallbackEnds == ForwardInv /\ CallbackEnds => ForwardInv'
<1> SUFFICES ASSUME ForwardInv, CallbackEnds PROVE ForwardInv'
  OBVIOUS
<1>1. /\ Leave("winhttp", "finish") /\ h' = FinishCallback(h, TRUE, FALSE)
      /\ TerminateWebSocket(h, FALSE, ws)
      /\ UNCHANGED <<pending, op, iis, left, exec, notify, returned>>
  BY DEF CallbackEnds, httpVars, EndsCallback
<1>2. "winhttp" \in Callers /\ "finish" \in Stages /\ "finish" \notin CountingStages
  BY DEF Callers, Stages, CountingStages, Reasons
<1>3. Typing /\ running \in Tables /\ h \in Handler /\ ws \in WebSockets /\ SocketInv
  BY DEF ForwardInv, Typing
<1>4. /\ running' \in Tables /\ running[<<"winhttp", "finish">>] > 0
      /\ AllInCallbacks' = AllInCallbacks - 1 /\ AllCounting' = AllCounting
  BY <1>1, <1>2, <1>3, LeaveFacts
<1>5. ws.handle # "none" /\ ~Idle("winhttp")
  BY <1>2, <1>4, Running
<1>6. /\ ws' = ws \/ ws' = Cleaned(ws)
      /\ UNCHANGED ends \/ ends' = CleanedEnds("ServerStateUnavailable")
  BY <1>1, TerminateChanges
<1>7. /\ ws' \in WebSockets /\ ws'.handle = ws.handle /\ ws'.outstanding = ws.outstanding
      /\ ws.cleanup => ws'.cleanup
  BY <1>3, <1>6 DEF WebSockets, Cleaned
<1>8. ends' \in Ends /\ ends'.counted = ends.counted /\ ends'.strayed = ends.strayed
  BY <1>3, <1>6, CleanedKeeps
<1>9. SocketOnly
  BY <1>1, <1>3, <1>4, <1>7, <1>8 DEF SocketOnly, Typing
<1>10. SocketInv'
  <2>1. PICK d \in Int : d = 0
    OBVIOUS
  <2>2. AllInCallbacks' <= AllInCallbacks /\ AllCounting' = AllCounting + d
    BY <1>3, <1>4, <2>1, SumTypes
  <2>3. ws'.outstanding = ws.outstanding + d
    BY <1>3, <1>7, <2>1 DEF WebSockets
  <2> QED BY <1>1, <1>5, <1>7, <1>8, <1>9, <2>2, <2>3, SocketMoves
<1>11. ~LastClosed(h, FALSE)
  BY DEF LastClosed
<1>12. Session \/ Closes
  BY <1>5 DEF ForwardInv, Phases, Unsent, Forwards, NoWebSocket
<1>13. CASE Session
  <2>1. UNCHANGED h
    BY <1>1, <1>11, <1>13 DEF FinishCallback, Session
  <2>2. ~Closes
    BY <1>13 DEF Session, Closes
  <2> QED BY <1>5, <1>7, <1>9, <1>10, <2>1, <2>2, SocketStep
<1>14. CASE Closes
  <2>1. h.status = "DONE" /\ ~h.finish
    BY <1>5, <1>14 DEF Closes
  <2>2. /\ h' \in Handler /\ SameRequest(h, h') /\ SameAnswer(h, h') /\ HandlesClose(h, h')
        /\ HandlerForgotten(h, h')
    BY <1>1, <1>11, <2>1, ForwardTypes, FinishDone
  <2>3. Typing'
    BY <1>1, <1>3, <1>9, <2>2 DEF Typing, SocketOnly
  <2>4. HeldRefs'
    BY <1>1, <2>2, ForwardTypes, RefsForgotten
  <2>5. /\ ~h'.hRequest /\ h'.httpInClose /\ h'.http = h.http
        /\ h'.handlers = h.handlers
    BY <1>14, <2>2 DEF Closes, HandlesClose, SameHandles, SameRequest
  <2>6. /\ h.handlers = Open(h.http = "closing") + Open(ws.handle \in {"open", "closing"})
        /\ h.handlers # 0 /\ h.http \in {"closing", "closed"}
    BY <1>14, <2>1 DEF Closes
  <2>7. h'.status = "DONE" /\ h'.hasError = h.hasError
    BY <2>1, <2>2 DEF SameAnswer
  <2>8. Closes'
    BY <1>1, <1>7, <1>8, <1>14, <2>1, <2>2, <2>5, <2>6, <2>7, ClosesOn DEF SameRequest
  <2> QED BY <1>10, <2>3, <2>4, <2>8 DEF ForwardInv, Phases
<1> QED BY <1>12, <1>13, <1>14

LEMMA DoWebSocket == ForwardInv /\ WebSocket => ForwardInv'
<1> SUFFICES ASSUME ForwardInv, WebSocket PROVE ForwardInv'
  OBVIOUS
<1>1. Alone
  BY DEF WebSocket, Alone
<1>2. CASE IisCallback
  BY <1>1, <1>2, DoIisFails, DoIisEndsInCleanup, DoOnIisReceiveComplete,
     DoOnIisSendComplete DEF IisCallback
<1>3. CASE WinHttpCallback
  BY <1>1, <1>3, DoWinHttpEndsInCleanup, DoOnWinHttpReceiveComplete,
     DoOnWinHttpReceiveClose, DoOnWinHttpSendComplete, DoOnWinHttpShutdownComplete,
     DoOnWinHttpIoError DEF WinHttpCallback
<1>4. CASE RunningCallback
  BY <1>1, <1>4, DoCleanup, DoDecrement, DoIndicate DEF RunningCallback
<1> QED BY <1>2, <1>3, <1>4 DEF WebSocket

(***************************************************************************)
(* The invariant, and the properties.                                      *)
(***************************************************************************)
LEMMA DoExecute == ForwardInv /\ Execute => ForwardInv'
BY DoExecuteFails, DoCreateFails, DoSetHandler, DoSendRequest, DoSendRequestFails,
   DoUpgradeOptionFails, DoExecuteReturns, DoModuleEnds DEF Execute

LEMMA ForwardStutters == ForwardInv /\ UNCHANGED vars => ForwardInv'
<1> SUFFICES ASSUME ForwardInv, UNCHANGED vars PROVE ForwardInv'
  OBVIOUS
<1>1. /\ UNCHANGED wsVars /\ UNCHANGED httpVars
      /\ UNCHANGED <<h, op, iis, left, exec, notify, returned>>
  BY DEF vars, httpVars
<1>2. Typing'
  BY <1>1, ForwardTypes, TypingFrom DEF Typing
<1>3. HeldRefs'
  BY <1>1, ForwardTypes, RefsSame DEF SameRefs
<1>4. SocketInv'
  BY <1>1, SocketSame DEF ForwardInv
<1>5. SamePhase(h, h')
  BY <1>1 DEF SamePhase, SameRequest, SameHandles, SameAnswer
<1>6. Phases'
  BY <1>1, <1>5, PhasesSame DEF ForwardInv
<1> QED BY <1>2, <1>3, <1>4, <1>6 DEF ForwardInv

LEMMA StepsForward == ForwardInv /\ Next => ForwardInv' \/ UnsetMemory
BY DoExecute, DoOnWinHttpCompletion, DoHandleClosing, DoOnAsyncCompletion,
   DoNotificationOfDisconnected, DoUnroutedCallback, DoCallbackEnds,
   DoNotifyDisconnect, DoTerminateRequest, DoNotifyDereferences, DoWebSocket
   DEF Next, Steps, Disconnect

\* No cell of the table can exceed the number of threads.
LEMMA RunningBounded ==
  ASSUME ForwardInv PROVE running \in [Callers \X Stages -> 0 .. Threads]
<1>1. running \in Tables /\ AllInCallbacks <= Threads
  BY Totals DEF ForwardInv, Typing
<1>2. /\ InCallbacks("winhttp") \in Nat /\ InCallbacks("iis") \in Nat
  BY <1>1, SumTypes
<1>3. ASSUME NEW c \in Callers, NEW s \in Stages PROVE running[<<c, s>>] \in 0 .. Threads
  <2>1. /\ running[<<c, "Unknown">>] \in Nat /\ running[<<c, "ClientDisconnect">>] \in Nat
        /\ running[<<c, "ServerDisconnect">>] \in Nat /\ running[<<c, "decrement">>] \in Nat
        /\ running[<<c, "indicate">>] \in Nat /\ running[<<c, "finish">>] \in Nat /\ InCallbacks(c) \in Nat
    BY <1>1, CellTypes
  <2>2. s \in {"Unknown", "ClientDisconnect", "ServerDisconnect", "decrement", "indicate", "finish"}
    BY DEF Stages, Reasons
  <2>3. running[<<c, s>>] \in Nat /\ running[<<c, s>>] <= InCallbacks(c)
    BY <2>1, <2>2 DEF InCallbacks, Counting
  <2>4. InCallbacks(c) <= AllInCallbacks
    BY <1>2 DEF AllInCallbacks, Callers
  <2> QED BY <1>1, <1>2, <2>1, <2>3, <2>4, ThreadsAssumption DEF AllInCallbacks
<1> QED BY <1>1, <1>3 DEF Tables

LEMMA RefsBounded == ASSUME ForwardInv PROVE h.refs \in 0 .. 3
<1>1. HeldRefs
  BY DEF ForwardInv
<1>2. h.handlerSet => ~(notify \in {"terminate", "dereference"})
  BY <1>1 DEF HeldRefs
<1> QED BY <1>1, <1>2 DEF HeldRefs

LEMMA TypesHold == ASSUME ForwardInv PROVE TypeOK
<1>1. Typing
  BY DEF ForwardInv
<1>2. /\ h.status \in Statuses /\ h.handlers \in 0 .. 2 /\ h.posts \in 0 .. 1
      /\ h.content \in 0 .. MaxResponse /\ h.toReceive \in {Infinite} \cup 0 .. MaxBody
      /\ h.http \in {"none", "open", "closing", "closed"}
  BY <1>1 DEF Typing, Handler, HandlerCounts, PostCounts, Contents, BodyLengths, HandleStates
<1>3. ws.handle \in {"none", "open", "closing", "closed"} /\ ws.outstanding \in Int
  BY <1>1 DEF Typing, WebSockets, HandleStates
<1> QED BY <1>1, <1>2, <1>3, RunningBounded, RefsBounded DEF TypeOK, Typing

\* Whose turn it is, in any phase; a stray flush has none.
LEMMA AtMostOne ==
  ASSUME ForwardInv
  PROVE  \/ op = "none" /\ (iis = "none" \/ ends.strayed)
         \/ op = "none" /\ h.posts = 0
         \/ iis = "none" /\ h.posts = 0
<1>1. Closes => \/ op = "none" /\ (iis = "none" \/ ends.strayed)
                \/ iis = "none" /\ h.posts = 0
  <2> SUFFICES ASSUME Closes
               PROVE  \/ op = "none" /\ (iis = "none" \/ ends.strayed)
                      \/ iis = "none" /\ h.posts = 0
    OBVIOUS
  <2>1. h.http = "closing" => ~h.finish
    BY DEF Closes, Open
  <2> QED BY <2>1 DEF Closes, Open
<1>2. Forwards => \/ op = "none" /\ iis = "none"
                  \/ op = "none" /\ h.posts = 0
                  \/ iis = "none" /\ h.posts = 0
  BY DEF Forwards, SendsTurn, ReceivesTurn, SwitchesTurn
<1> QED BY <1>1, <1>2 DEF ForwardInv, Phases, Unsent, Session, NobodysTurn

LEMMA OneTurnHolds == ASSUME ForwardInv PROVE OneTurn
<1> DEFINE Turns == {x \in {"op", "iis", "post"} :
                       CASE x = "op"   -> op # "none"
                         [] x = "iis"  -> iis # "none" /\ ~ends.strayed
                         [] x = "post" -> h.posts > 0}
<1>1. PICK x : Turns \subseteq {x}
  <2>1. CASE op = "none" /\ (iis = "none" \/ ends.strayed)
    <3>1. Turns \subseteq {"post"}
      BY <2>1
    <3> QED BY <3>1
  <2>2. CASE op = "none" /\ h.posts = 0
    <3>1. ~(h.posts > 0)
      BY <2>2
    <3>2. Turns \subseteq {"iis"}
      BY <2>2, <3>1, Zenon
    <3> QED BY <3>2
  <2>3. CASE iis = "none" /\ h.posts = 0
    <3>1. ~(h.posts > 0)
      BY <2>3
    <3>2. Turns \subseteq {"op"}
      BY <2>3, <3>1, Zenon
    <3> QED BY <3>2
  <2> QED BY <2>1, <2>2, <2>3, AtMostOne
<1>2. Cardinality(Turns) <= 1
  <2> HIDE DEF Turns
  <2>1. IsFiniteSet({x}) /\ Cardinality({x}) = 1
    BY FS_Singleton
  <2> QED BY <1>1, <2>1, FS_Subset
<1>3. h.status = "DONE" => /\ iis # "none" => ends.strayed
                           /\ h.posts > 0 => Releases(h)
  <2> SUFFICES ASSUME h.status = "DONE"
               PROVE  /\ iis # "none" => ends.strayed
                      /\ h.posts > 0 => Releases(h)
    OBVIOUS
  <2>1. Unsent \/ Closes
    BY DEF ForwardInv, Phases, Forwards, SendsTurn, ReceivesTurn, SwitchesTurn, Session
  <2>2. CASE Unsent
    BY <2>2 DEF Unsent, NobodysTurn
  <2>3. CASE Closes
    <3>1. h.posts > 0 => h.finish
      BY <2>3 DEF Closes, Open
    <3> QED BY <2>3, <3>1 DEF Closes, Releases, Released
  <2> QED BY <2>1, <2>2, <2>3
<1> QED BY <1>2, <1>3 DEF OneTurn

LEMMA ReleasedIsQuiet ==
  ASSUME ForwardInv, h.finish
  PROVE  /\ Closes /\ op = "none" /\ (iis = "none" \/ ends.strayed)
         /\ h.handlers = 0 /\ h.http = "closed"
         /\ ws.handle \in {"none", "closed"} /\ Idle("winhttp")
<1>1. Closes
  BY DEF ForwardInv, Phases, Unsent, Forwards, Session
<1>2. h.handlers = 0
  BY <1>1 DEF Closes
<1>3. h.http = "closed" /\ ws.handle \notin {"open", "closing"}
  BY <1>1, <1>2 DEF Closes, Open
<1>4. ws.handle \in {"none", "closed"}
  BY <1>3 DEF ForwardInv, Typing, WebSockets, HandleStates
<1>5. op = "none" /\ (iis = "none" \/ ends.strayed) /\ Idle("winhttp")
  BY <1>1, <1>3 DEF Closes
<1> QED BY <1>1, <1>2, <1>3, <1>4, <1>5

LEMMA RefsAreHeldHolds == ASSUME ForwardInv PROVE RefsAreHeld
<1>1. HeldRefs
  BY DEF ForwardInv
<1>2. h.refs = 0 => /\ op = "none" /\ Idle("winhttp")
                    /\ ends.strayed \/ (iis = "none" /\ h.posts = 0)
  <2> SUFFICES ASSUME h.refs = 0
               PROVE  /\ op = "none" /\ Idle("winhttp")
                      /\ ends.strayed \/ (iis = "none" /\ h.posts = 0)
    OBVIOUS
  <2>1. exec.pc = "released" /\ Ended
    BY <1>1 DEF HeldRefs
  <2>2. Unsent \/ Closes
    BY <2>1 DEF ForwardInv, Phases, Forwards, Session, Ended, Final
  <2>3. CASE Unsent
    <3>1. NoCallbacks
      BY <2>3 DEF ForwardInv, SocketInv, Unsent, NoWebSocket
    <3>2. Idle("winhttp")
      BY <3>1 DEF NoCallbacks, Idle, InCallbacks, Counting, Callers, Stages, Reasons
    <3> QED BY <2>3, <3>2 DEF Unsent, NobodysTurn
  <2>4. CASE Closes
    <3>1. h.done /\ h.finish /\ (h.posts = 0 \/ ends.strayed)
      BY <2>1, <2>4 DEF Closes, Ended, Final
    <3> QED BY <3>1, ReleasedIsQuiet
  <2> QED BY <2>2, <2>3, <2>4
<1> QED BY <1>1, <1>2 DEF HeldRefs, RefsAreHeld

LEMMA QuietHolds == ASSUME ForwardInv PROVE QuietWhenReleased
<1> SUFFICES ASSUME h.done
             PROVE  /\ op = "none" /\ (ends.strayed \/ (iis = "none" /\ h.posts = 0))
                    /\ h.handlers = 0 /\ h.http = "closed"
                    /\ ws.handle \in {"none", "closed"}
                    /\ pending \cap WinHttpOps = {} /\ Idle("winhttp")
                    /\ pending = {} \/ ends.counted
  BY DEF QuietWhenReleased
<1>1. h.finish /\ (h.posts = 0 \/ ends.strayed)
  BY DEF ForwardInv, Phases, Unsent, Forwards, Session, Closes
<1>2. /\ op = "none" /\ (iis = "none" \/ ends.strayed) /\ h.handlers = 0
      /\ h.http = "closed" /\ ws.handle \in {"none", "closed"} /\ Idle("winhttp")
  BY <1>1, ReleasedIsQuiet
<1>3. SocketInv
  BY DEF ForwardInv
<1>4. pending \cap WinHttpOps = {} /\ (pending = {} \/ ends.counted)
  BY <1>2, <1>3 DEF SocketInv, ClosedSocket, WinHttpOps
<1> QED BY <1>1, <1>2, <1>4

LEMMA CompleteHolds == ASSUME ForwardInv PROVE SuccessIsComplete
<1> SUFFICES ASSUME h.done, returned = "continue"
             PROVE  h.toReceive = 0 /\ IF h.upgrade THEN ws.handle = "closed" ELSE h.content = 0
  BY DEF SuccessIsComplete
<1>1. Closes
  BY DEF ForwardInv, Phases, Unsent, Forwards, Session
<1>2. h.finish /\ Complete
  BY <1>1 DEF Closes
<1> QED BY <1>2, ReleasedIsQuiet DEF Complete

LEMMA CountHolds == ASSUME ForwardInv PROVE WebSocketCounts
BY DEF ForwardInv, SocketInv, Counts, ClosedSocket, WebSocketCounts, CountIsOutstanding,
       ClosedWhenQuiet

\* What is true of a request at any time, and stays true if its process dies:
\* nothing happens any more.
Promises ==
  TurnsAndReferences /\ QuietWhenReleased /\ SuccessIsComplete /\ WebSocketCounts

Stopped == ~Alive /\ Promises

LEMMA Kept == ForwardInv => Promises
BY TypesHold, OneTurnHolds, RefsAreHeldHolds, QuietHolds, CompleteHolds, CountHolds
   DEF Promises, TurnsAndReferences

LEMMA Stops ==
  ASSUME Promises, returned' \in {"faulted", returned},
         UNCHANGED <<h, wsVars, httpVars, exec, notify>>
  PROVE  Promises'
<1>1. UNCHANGED <<h, ws, pending, running, ends, op, iis, left, exec, notify>>
  BY DEF wsVars, httpVars
<1>2. TypeOK'
  BY <1>1 DEF Promises, TurnsAndReferences, TypeOK
<1>3. OneTurn'
  BY <1>1, Zenon DEF Promises, TurnsAndReferences, OneTurn, Releases, Released
<1>4. RefsAreHeld'
  BY <1>1 DEF Promises, TurnsAndReferences, RefsAreHeld, Idle, InCallbacks, Counting
<1>5. QuietWhenReleased'
  BY <1>1 DEF Promises, QuietWhenReleased, Idle, InCallbacks, Counting
<1>6. SuccessIsComplete'
  BY <1>1 DEF Promises, SuccessIsComplete
<1>7. WebSocketCounts'
  BY <1>1 DEF Promises, WebSocketCounts, CountIsOutstanding, ClosedWhenQuiet, Routed,
              Counted, Counting
<1> QED BY <1>2, <1>3, <1>4, <1>5, <1>6, <1>7 DEF Promises, TurnsAndReferences

LEMMA Safe == Spec => [](ForwardInv \/ Stopped)
<1>1. Init => ForwardInv \/ Stopped
  BY InitForward
<1>2. (ForwardInv \/ Stopped) /\ [Next]_vars => (ForwardInv \/ Stopped)'
  <2>1. ASSUME ForwardInv, Next PROVE (ForwardInv \/ Stopped)'
    <3>1. CASE UnsetMemory
      <4>1. returned' = "faulted" /\ UNCHANGED <<h, wsVars, httpVars, exec, notify>>
        BY <3>1 DEF UnsetMemory
      <4>2. Promises'
        BY <2>1, <4>1, Kept, Stops
      <4> QED BY <4>1, <4>2 DEF Stopped, Alive
    <3> QED BY <2>1, <3>1, StepsForward
  <2>2. ~(Stopped /\ Next)
    BY DEF Stopped, Next
  <2>3. ASSUME ForwardInv, UNCHANGED vars PROVE ForwardInv'
    BY <2>3, ForwardStutters
  <2>4. ASSUME Stopped, UNCHANGED vars PROVE Stopped'
    <3>1. returned' = returned /\ UNCHANGED <<h, wsVars, httpVars, exec, notify>>
      BY <2>4 DEF vars
    <3>2. Promises'
      BY <2>4, <3>1, Stops DEF Stopped
    <3> QED BY <2>4, <3>1, <3>2 DEF Stopped, Alive
  <2> QED BY <2>1, <2>2, <2>3, <2>4
<1> QED BY <1>1, <1>2, PTL DEF Spec

\* Whatever fails, disconnects or overtakes what, a request whose process is
\* alive is in one of its phases, its references have holders and the count
\* of its web socket is what its operations say.
THEOREM ForwardInvHolds == Spec => [](Alive => ForwardInv)
<1>1. (ForwardInv \/ Stopped) => (Alive => ForwardInv)
  BY DEF Stopped
<1> QED BY <1>1, Safe, PTL

\* The request belongs to one party at a time, but for the flush of a stray
\* read, and each reference of the handler has a holder, at any moment of any
\* request.
THEOREM TurnsAndReferencesHolds == Spec => []TurnsAndReferences
<1>1. (ForwardInv \/ Stopped) => TurnsAndReferences
  BY Kept DEF Stopped, Promises
<1> QED BY <1>1, Safe, PTL

\* Once IIS has the final status nothing of the request is under way, but for
\* an operation the count was one short of, or the flush of a stray read.
THEOREM QuietWhenReleasedHolds == Spec => []QuietWhenReleased
<1>1. (ForwardInv \/ Stopped) => QuietWhenReleased
  BY Kept DEF Stopped, Promises
<1> QED BY <1>1, Safe, PTL

\* A request that goes on without an error was forwarded and answered in
\* full, an upgrade that was refused like any other, and an upgrade that was
\* accepted has had its web socket.
THEOREM SuccessIsCompleteHolds == Spec => []SuccessIsComplete
<1>1. (ForwardInv \/ Stopped) => SuccessIsComplete
  BY Kept DEF Stopped, Promises
<1> QED BY <1>1, Safe, PTL

\* The count that closes the handle of the web socket is exact until the
\* callback of the shutdown that Cleanup sends, and one less from then on;
\* while it is exact, the handle closes only with no counted operation pending.
THEOREM WebSocketCountsHolds == Spec => []WebSocketCounts
<1>1. (ForwardInv \/ Stopped) => WebSocketCounts
  BY Kept DEF Stopped, Promises
<1> QED BY <1>1, Safe, PTL

=============================================================================
