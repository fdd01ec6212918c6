---------------------------- MODULE IISHttpContext ----------------------------
(***************************************************************************)
(* One request of the managed in-process server: the application, the two  *)
(* pumps between its pipes and the I/O engine (ReadBody and WriteBody),    *)
(* the start of the response and the teardown in ProcessRequestAsync       *)
(* (IISHttpContext*.cs, IISHttpContextOfT.cs, OutputProducer.cs).          *)
(*                                                                         *)
(* The engine is RequestIO, which AsyncIOEngine implements.  The pipes are *)
(* System.IO.Pipelines and external: a byte count, the completion of each  *)
(* side, a pending cancellation of the reader and a pause threshold.  The  *)
(* application is external too: it reads with one thread and writes with   *)
(* another, awaits what it calls, and lets a failure end the request.      *)
(***************************************************************************)
EXTENDS RequestIO

CONSTANTS
  MaxOps,          (* calls the application makes in each direction         *)
  MaxBody,         (* bytes in the request body                             *)
  InPause,         (* pauseWriterThreshold of the body input pipe           *)
  OutPause         (* PauseWriterThreshold of the output pipe               *)

VARIABLES
  main,            (* where ProcessRequestAsync is                          *)
  appIn,           (* the application's reading thread                      *)
  appOut,          (* the application's writing thread                      *)
  call,            (* what it called first: "write" or "flush"              *)
  opsLeft,         (* calls each thread may still start                     *)
  threw,           (* an application thread got or threw an exception       *)
  readBody,        (* the ReadBody task                                     *)
  writeBody,       (* the WriteBody task                                    *)
  flush,           (* the flush variable of WriteBody                       *)
  writing,         (* the read result WriteBody works on                    *)
  asyncIO,         (* AsyncIO: 0 is null, else the number of the engine     *)
  lost,            (* whose call an engine has that AsyncIO no longer names *)
  raced,           (* history: both threads found AsyncIO null at once      *)
  hasResponseStarted,
  hasRequestReadingStarted,
  applicationException,
  onStarting,      (* an OnStarting callback is registered                  *)
  inPipe,          (* _bodyInputPipe: [buf, writer, reader]                 *)
  outPipe,         (* _bodyOutput:  [buf, writer, reader, cancel]           *)
  received,        (* bytes of the body that ReadBody got                   *)
  consumed,        (* bytes of the body that the application got            *)
  sawEnd,          (* the application was told that the body has ended      *)
  bodyEnd,         (* IIS reported the end of the body                      *)
  produced,        (* bytes the application wrote                           *)
  sent             (* bytes written to IIS                                  *)

appVars  == <<appIn, appOut, call, opsLeft, threw, consumed, sawEnd, produced>>
readVars == <<readBody, inPipe, received, bodyEnd>>
writeVars == <<writeBody, flush, writing, outPipe, sent>>
startVars == <<asyncIO, lost, raced, hasResponseStarted, hasRequestReadingStarted, onStarting>>
vars == <<ioVars, main, appVars, readVars, writeVars, startVars, applicationException>>

Reader == "reader"
Writer == "writer"

(* ReadBody reads, and WriteBody or whoever starts the response writes.    *)
ASSUME ContextAssumption ==
  /\ Clients = {Reader, Writer} /\ Nobody \notin Clients
  /\ MaxBytes \in Nat

ContextInit ==
  /\ Init
  /\ main = "app"
  /\ appIn = "idle" /\ appOut = "idle" /\ call = "write"
  /\ opsLeft = [t \in {Reader, Writer} |-> MaxOps]
  /\ threw = FALSE
  /\ readBody = "none" /\ writeBody = "none"
  /\ flush = FALSE
  /\ writing = [bytes |-> 0, completed |-> FALSE]
  /\ asyncIO = 0
  /\ lost = Nobody /\ raced = FALSE
  /\ hasResponseStarted = FALSE /\ hasRequestReadingStarted = FALSE
  /\ applicationException = FALSE
  /\ onStarting \in BOOLEAN
  /\ inPipe = [buf |-> 0, writer |-> "open", reader |-> "open"]
  /\ outPipe = [buf |-> 0, writer |-> "open", reader |-> "open", cancel |-> FALSE]
  /\ received = 0 /\ consumed = 0 /\ produced = 0 /\ sent = 0
  /\ sawEnd = FALSE /\ bodyEnd = FALSE

-----------------------------------------------------------------------------
(* EnsureIOInitialized: two threads may both find AsyncIO null.  The later *)
(* engine takes the place of the earlier one, which may have a call then.  *)

AlwaysCreates == TRUE
FindsNone == asyncIO = 0

Races(other) == raced' = (raced \/ (asyncIO = 0 /\ other = "creating"))

CreateEngine ==
  /\ asyncIO' = asyncIO + 1
  /\ lost' = IF first # Nobody THEN first ELSE lost
  /\ first' = Nobody
  /\ canceled' = FALSE
  /\ UNCHANGED <<stopped, op, second, answer, got, raced>>

(* Whether IIS hands over what the client still has to send.               *)
BodyAvailable == answer'[Reader] > 0 => received + answer'[Reader] <= MaxBody

-----------------------------------------------------------------------------
(* The reading side: ReadAsync, InitializeRequestIO, ReadBody.             *)

AppReads ==
  /\ main = "app" /\ appIn = "idle" /\ ~threw /\ opsLeft[Reader] > 0
  /\ opsLeft' = [opsLeft EXCEPT ![Reader] = @ - 1]
  /\ hasRequestReadingStarted' = TRUE
  /\ IF hasRequestReadingStarted
     THEN appIn' = "reading" /\ UNCHANGED readBody
     ELSE IF FindsNone
     THEN appIn' = "creating" /\ UNCHANGED readBody
     ELSE appIn' = "reading" /\ readBody' = "read"
  /\ IF hasRequestReadingStarted THEN UNCHANGED raced ELSE Races(appOut)
  /\ UNCHANGED <<ioVars, main, appOut, call, threw, consumed, sawEnd, produced, inPipe,
                 received, bodyEnd, writeVars, asyncIO, lost,
                 hasResponseStarted, onStarting, applicationException>>

AppReadsCreates ==
  /\ appIn = "creating"
  /\ CreateEngine
  /\ appIn' = "reading"
  /\ readBody' = "read"
  /\ UNCHANGED <<main, appOut, call, opsLeft, threw, consumed, sawEnd, produced, inPipe,
                 received, bodyEnd, writeVars, hasResponseStarted,
                 hasRequestReadingStarted, onStarting, applicationException>>

(* How much of the buffer fits into the memory the application passed.     *)
Copied(buffer) == 1..buffer

(* await _bodyInputPipe.Reader.ReadAsync() and what ReadAsync makes of it. *)
AppReadReturns ==
  /\ appIn = "reading"
  /\ \/ /\ inPipe.buf > 0 /\ inPipe.writer # "failed"
        /\ \E n \in Copied(inPipe.buf) :
             /\ consumed' = consumed + n
             /\ inPipe' = [inPipe EXCEPT !.buf = @ - n]
        /\ UNCHANGED <<threw, sawEnd>>
     \/ /\ inPipe.buf = 0 /\ inPipe.writer = "completed"
        /\ sawEnd' = TRUE
        /\ UNCHANGED <<threw, consumed, inPipe>>
     \/ /\ inPipe.writer = "failed"
        /\ threw' = TRUE
        /\ UNCHANGED <<sawEnd, consumed, inPipe>>
  /\ appIn' = "idle"
  /\ UNCHANGED <<ioVars, main, appOut, call, opsLeft, produced, readBody, received,
                 bodyEnd, writeVars, startVars, applicationException>>

ReadBodyReads ==
  /\ readBody = "read"
  /\ Submit(Reader, "read")
  /\ BodyAvailable
  /\ readBody' = "await"
  /\ UNCHANGED <<main, appVars, inPipe, received, bodyEnd, writeVars, startVars,
                 applicationException>>

(* The engine refuses the read: the exception completes the pipe.          *)
ReadBodyRetries ==
  /\ readBody = "read"
  /\ Refuse(Reader)
  /\ UNCHANGED <<main, appVars, readVars, writeVars, startVars, applicationException>>
ReadBodyRefused ==
  /\ readBody = "read"
  /\ Refuse(Reader)
  /\ readBody' = "done"
  /\ inPipe' = [inPipe EXCEPT !.writer = "failed"]
  /\ UNCHANGED <<main, appVars, received, bodyEnd, writeVars, startVars,
                 applicationException>>

EndOfBodyOrAborted(read) == read \in {0, Aborted}
EndOfBody(read) == read = 0

ReadBodyGets ==
  /\ readBody = "await"
  /\ Take(Reader)
  /\ LET read == answer[Reader]
     IN  /\ bodyEnd' = (bodyEnd \/ read = 0)
         /\ IF read > 0
            THEN /\ received' = received + read
                 /\ inPipe' = [inPipe EXCEPT !.buf = @ + read]
                 /\ readBody' = "flush"
            ELSE /\ UNCHANGED received
                 /\ IF read = Failed
                    THEN inPipe' = [inPipe EXCEPT !.writer = "failed"] /\ readBody' = "done"
                    ELSE IF EndOfBody(read)
                    THEN inPipe' = [inPipe EXCEPT !.writer = "completed"] /\ readBody' = "done"
                    ELSE UNCHANGED inPipe /\ readBody' = "flush"
  /\ UNCHANGED <<main, appVars, writeVars, startVars, applicationException>>

(* await _bodyInputPipe.Writer.FlushAsync(): waits while the application   *)
(* does not read, and ends the loop when the reader has been completed.    *)
ReadBodyFlushes ==
  /\ readBody = "flush"
  /\ IF inPipe.reader = "completed"
     THEN readBody' = "done" /\ inPipe' = [inPipe EXCEPT !.writer = "completed"]
     ELSE inPipe.buf < InPause /\ readBody' = "read" /\ UNCHANGED inPipe
  /\ UNCHANGED <<ioVars, main, appVars, received, bodyEnd, writeVars, startVars,
                 applicationException>>

-----------------------------------------------------------------------------
(* Starting the response: InitializeResponse and ProduceStart.  The writer *)
(* thread of the application comes here on its first WriteAsync or         *)
(* FlushAsync, ProcessRequestAsync when the application did neither.       *)

(* FireOnStarting: a callback that throws is recorded, not rethrown.       *)
FireOnStarting ==
  /\ onStarting' = FALSE
  /\ applicationException' \in IF onStarting THEN {applicationException, TRUE}
                                             ELSE {applicationException}

(* A pipe completed by its reader drops what is written to it, and never   *)
(* makes the writer wait.                                                  *)
Blocked == outPipe.buf >= OutPause /\ outPipe.reader = "open"

(* OutputProducer.WriteAsync and FlushAsync put bytes into the pipe and    *)
(* cancel its pending read, then wait for room.                            *)
Deliver(c) ==
  IF c = "write"
  THEN /\ produced' = produced + 1
       /\ outPipe' = [outPipe EXCEPT !.buf = IF outPipe.reader = "open" THEN @ + 1 ELSE @]
  ELSE /\ outPipe' = [outPipe EXCEPT !.cancel = TRUE]
       /\ UNCHANGED produced

AppWrites(c) ==
  /\ main = "app" /\ appOut = "idle" /\ ~threw /\ opsLeft[Writer] > 0
  /\ opsLeft' = [opsLeft EXCEPT ![Writer] = @ - 1]
  /\ IF hasResponseStarted
     THEN appOut' = "room" /\ Deliver(c) /\ UNCHANGED call
     ELSE appOut' = "starting" /\ call' = c /\ UNCHANGED <<produced, outPipe>>
  /\ UNCHANGED <<ioVars, main, appIn, threw, consumed, sawEnd, readVars, writeBody,
                 flush, writing, sent, startVars, applicationException>>

(* The await of the pipe's FlushAsync.                                     *)
AppHasRoom ==
  /\ appOut = "room"
  /\ ~Blocked
  /\ appOut' = "idle"
  /\ UNCHANGED <<ioVars, main, appIn, call, opsLeft, threw, consumed, sawEnd, produced,
                 readVars, writeVars, startVars, applicationException>>

(* WriteBody is started once the headers are set, and flushed if asked.    *)
StartWriteBody(flushHeaders) == writeBody' = "read" /\ flush' = ~flushHeaders

AppStarts ==
  /\ appOut = "starting"
  /\ FireOnStarting
  /\ IF applicationException'
     THEN appOut' = "idle" /\ threw' = TRUE /\ UNCHANGED hasResponseStarted
     ELSE appOut' = "headers" /\ hasResponseStarted' = TRUE /\ UNCHANGED threw
  /\ UNCHANGED <<ioVars, main, appIn, call, opsLeft, consumed, sawEnd, produced, readVars,
                 writeVars, asyncIO, lost, raced, hasRequestReadingStarted>>

(* SetResponseHeaders, and the null check of EnsureIOInitialized.          *)
AppSetsHeaders ==
  /\ appOut = "headers"
  /\ \/ /\ "headers" \in MayFail
        /\ appOut' = "idle" /\ threw' = TRUE
        /\ UNCHANGED raced
     \/ /\ appOut' = IF FindsNone THEN "creating" ELSE "issuing"
        /\ Races(appIn)
        /\ UNCHANGED threw
  /\ UNCHANGED <<ioVars, main, appIn, call, opsLeft, consumed, sawEnd, produced, readVars,
                 writeVars, asyncIO, lost, hasResponseStarted, hasRequestReadingStarted,
                 onStarting, applicationException>>

AppWriteCreates ==
  /\ appOut = "creating"
  /\ CreateEngine
  /\ appOut' = "issuing"
  /\ UNCHANGED <<main, appIn, call, opsLeft, threw, consumed, sawEnd, produced, readVars,
                 writeVars, hasResponseStarted, hasRequestReadingStarted, onStarting,
                 applicationException>>

(* A first write starts WriteBody at once, a first flush sends the headers *)
(* and waits for them.                                                     *)
AppIssues ==
  /\ appOut = "issuing"
  /\ IF call = "write"
     THEN /\ StartWriteBody(FALSE)
          /\ Deliver(call)
          /\ appOut' = "room"
          /\ UNCHANGED ioVars
     ELSE /\ Submit(Writer, "flush")
          /\ appOut' = "flushing"
          /\ UNCHANGED <<writeBody, flush, produced, outPipe>>
  /\ UNCHANGED <<main, appIn, call, opsLeft, threw, consumed, sawEnd, readVars, writing,
                 sent, startVars, applicationException>>

AppHeadersFlushed ==
  /\ appOut = "flushing"
  /\ Take(Writer)
  /\ IF answer[Writer] = Failed
     THEN /\ threw' = TRUE /\ appOut' = "idle"
          /\ UNCHANGED <<writeBody, flush, produced, outPipe>>
     ELSE /\ StartWriteBody(TRUE)
          /\ Deliver(call)
          /\ appOut' = "room"
          /\ UNCHANGED threw
  /\ UNCHANGED <<main, appIn, call, opsLeft, consumed, sawEnd, readVars, writing, sent,
                 startVars, applicationException>>

-----------------------------------------------------------------------------
(* The writing side: WriteBody.                                            *)

(* flush | result.IsCanceled                                               *)
ForgetsFlush == flush
MustFlush == flush \/ outPipe.cancel

WriteBodyReads ==
  /\ writeBody = "read"
  /\ outPipe.buf > 0 \/ outPipe.writer = "completed" \/ outPipe.cancel
  /\ writing' = [bytes |-> outPipe.buf, completed |-> outPipe.writer = "completed"]
  /\ outPipe' = [outPipe EXCEPT !.cancel = FALSE]
  /\ flush' = MustFlush
  /\ writeBody' = IF outPipe.buf > 0 THEN "write"
                  ELSE IF writing'.completed THEN "advance"
                  ELSE IF flush' THEN "flush" ELSE "advance"
  /\ UNCHANGED <<ioVars, main, appVars, readVars, sent, startVars, applicationException>>

Awaiting == [write |-> "awaitWrite", flush |-> "awaitFlush"]

(* AsyncIO.WriteAsync(buffer) and AsyncIO.FlushAsync().  The engine never  *)
(* refuses them: if it did, WriteBody would be stuck here and              *)
(* RequestEnds would not hold.                                             *)
WriteBodyCalls(k) ==
  /\ writeBody = k
  /\ Submit(Writer, k)
  /\ writeBody' = Awaiting[k]
  /\ UNCHANGED <<main, appVars, readVars, flush, writing, outPipe, sent, startVars,
                 applicationException>>

(* An exception advances and completes the reader of the pipe.             *)
CloseOutput(how) ==
  /\ outPipe' = [outPipe EXCEPT !.buf = 0, !.reader = how]
  /\ writeBody' = "done"

WriteBodyGets(k) ==
  /\ writeBody = Awaiting[k]
  /\ Take(Writer)
  /\ IF answer[Writer] = Failed
     THEN CloseOutput("failed") /\ UNCHANGED <<flush, sent>>
     ELSE IF k = "write"
     THEN /\ sent' = IF answer[Writer] = Aborted THEN sent ELSE sent + writing.bytes
          /\ writeBody' = IF ~writing.completed /\ flush THEN "flush" ELSE "advance"
          /\ UNCHANGED <<flush, outPipe>>
     ELSE /\ flush' = FALSE
          /\ writeBody' = "advance"
          /\ UNCHANGED <<sent, outPipe>>
  /\ UNCHANGED <<main, appVars, readVars, writing, startVars, applicationException>>

(* AdvanceTo(buffer.End) and round again, or out when all is written.      *)
WriteBodyAdvances ==
  /\ writeBody = "advance"
  /\ IF writing.completed
     THEN CloseOutput("completed")
     ELSE /\ outPipe' = [outPipe EXCEPT !.buf = @ - writing.bytes]
          /\ writeBody' = "read"
  /\ UNCHANGED <<ioVars, main, appVars, readVars, flush, writing, sent, startVars,
                 applicationException>>

-----------------------------------------------------------------------------
(* ProcessRequestAsync once the application is done, or has thrown.        *)

AppReturns ==
  /\ main = "app" /\ appIn = "idle" /\ appOut = "idle"
  /\ \E throws \in {threw, TRUE} : applicationException' = (applicationException \/ throws)
  /\ main' = "finally"
  /\ UNCHANGED <<ioVars, appVars, readVars, writeVars, startVars>>

(* The finally block: OnStarting callbacks if there is still a response to *)
(* start, then the OnCompleted callbacks, whose exceptions are recorded.   *)
RunCallbacks ==
  /\ main = "finally"
  /\ main' = "end"
  /\ onStarting' = (onStarting /\ (hasResponseStarted \/ applicationException))
  /\ applicationException' \in {applicationException, TRUE}
  /\ UNCHANGED <<ioVars, appVars, readVars, writeVars, asyncIO, lost, raced,
                 hasResponseStarted, hasRequestReadingStarted>>

(* ProduceEnd: nothing to do if the response has started.  Otherwise it is *)
(* started here, and a failure leaves ProcessRequestAsync.                 *)
ProduceEnd ==
  /\ main = "end"
  /\ hasResponseStarted' = TRUE
  /\ \/ /\ hasResponseStarted
        /\ main' = "complete"
        /\ UNCHANGED <<ioVars, asyncIO>>
     \/ /\ ~hasResponseStarted /\ "headers" \in MayFail
        /\ main' = "crashed"
        /\ UNCHANGED <<ioVars, asyncIO>>
     \/ /\ ~hasResponseStarted
        /\ Submit(Writer, "flush")
        /\ asyncIO' = IF asyncIO = 0 THEN 1 ELSE asyncIO
        /\ main' = "flushing"
  /\ UNCHANGED <<appVars, readVars, writeVars, lost, raced, hasRequestReadingStarted,
                 onStarting, applicationException>>

ProduceEndAwaited ==
  /\ main = "flushing"
  /\ Take(Writer)
  /\ IF answer[Writer] = Failed
     THEN main' = "crashed" /\ UNCHANGED <<writeBody, flush, outPipe>>
     ELSE /\ StartWriteBody(TRUE)
          /\ outPipe' = [outPipe EXCEPT !.cancel = TRUE]
          /\ main' = "complete"
  /\ UNCHANGED <<appVars, readVars, writing, sent, startVars, applicationException>>

(* _bodyOutput.Dispose() and _bodyInputPipe?.Reader.Complete().            *)
CompletePipes ==
  /\ main = "complete"
  /\ outPipe' = [outPipe EXCEPT !.writer = "completed"]
  /\ inPipe' = [inPipe EXCEPT !.reader = "completed"]
  /\ main' = "drain"
  /\ UNCHANGED <<ioVars, appVars, readBody, received, bodyEnd, writeBody, flush,
                 writing, sent, startVars, applicationException>>

(* await _writeBodyTask, then AsyncIO.Dispose(): AsyncIO may be null when  *)
(* setting the headers failed.                                             *)
DoNotAwait(task) == TRUE
Awaited(task) == task \in {"none", "done"}

DisposeIO ==
  /\ main = "drain"
  /\ Awaited(writeBody)
  /\ IF asyncIO = 0
     THEN main' = "crashed" /\ UNCHANGED ioVars
     ELSE main' = "stopped" /\ Close
  /\ UNCHANGED <<appVars, readVars, writeVars, startVars, applicationException>>

(* await _readBodyTask, then CompleteRequest posts the completion.         *)
CompleteRequest ==
  /\ main = "stopped"
  /\ Awaited(readBody)
  /\ main' = "posted"
  /\ UNCHANGED <<ioVars, appVars, readVars, writeVars, startVars, applicationException>>

-----------------------------------------------------------------------------
(* IIS completes the call in progress.                                     *)
IISFinishes ==
  /\ Finish
  /\ BodyAvailable
  /\ UNCHANGED <<main, appVars, readVars, writeVars, startVars, applicationException>>

(* IIS completes a lost call: NotifyCompletion goes to the engine that     *)
(* took the place of its own, which has no call or another one.  What that *)
(* does to the request is not followed.                                    *)
IISFinishesLost ==
  /\ lost # Nobody
  /\ main' = "astray"
  /\ UNCHANGED <<ioVars, appVars, readVars, writeVars, startVars, applicationException>>

(* The request is over, or ProcessRequestAsync has thrown.                 *)
Ended == main \in {"posted", "crashed", "astray"} /\ UNCHANGED vars

AppInNext == AppReadsCreates \/ AppReadReturns
AppOutNext == AppHasRoom \/ AppStarts \/ AppSetsHeaders \/ AppWriteCreates \/ AppIssues
              \/ AppHeadersFlushed
ReadBodyNext == ReadBodyReads \/ ReadBodyRefused \/ ReadBodyGets \/ ReadBodyFlushes
WriteBodyNext ==
  \/ WriteBodyReads
  \/ \E k \in {"write", "flush"} : WriteBodyCalls(k) \/ WriteBodyGets(k)
  \/ WriteBodyAdvances
MainNext == RunCallbacks \/ ProduceEnd \/ ProduceEndAwaited \/ CompletePipes
            \/ DisposeIO \/ CompleteRequest

Followed == main # "astray"

ContextNext ==
  \/ /\ Followed
     /\ \/ AppReads
        \/ \E c \in {"write", "flush"} : AppWrites(c)
        \/ AppReturns
        \/ AppInNext \/ AppOutNext \/ ReadBodyNext \/ WriteBodyNext \/ MainNext
        \/ IISFinishes
        \/ IISFinishesLost
  \/ Ended

(* Tasks that can run do run, and IIS ends every call but a read that      *)
(* nothing waits behind.  The application need not make another call, nor  *)
(* return.                                                                 *)
ContextSpec ==
  /\ ContextInit /\ [][ContextNext]_vars
  /\ WF_vars(Followed /\ AppInNext) /\ WF_vars(Followed /\ AppOutNext)
  /\ WF_vars(Followed /\ ReadBodyNext) /\ WF_vars(Followed /\ WriteBodyNext)
  /\ WF_vars(Followed /\ MainNext)
  /\ WF_vars(/\ Followed /\ IISFinishes
             /\ op[first] # "read" \/ second # Nobody \/ stopped)

-----------------------------------------------------------------------------
ContextTypeOK ==
  /\ stopped \in BOOLEAN /\ canceled \in BOOLEAN
  /\ op \in [Clients -> Kinds \union {"none"}]
  /\ first \in Clients \union {Nobody} /\ second \in Clients \union {Nobody}
  /\ answer \in [Clients -> Outcome] /\ got \in [Clients -> Outcome]
  /\ main \in {"app", "finally", "end", "flushing", "complete", "drain", "stopped",
               "posted", "crashed", "astray"}
  /\ appIn \in {"idle", "creating", "reading"}
  /\ appOut \in {"idle", "starting", "headers", "creating", "issuing", "flushing", "room"}
  /\ call \in {"write", "flush"}
  /\ readBody \in {"none", "read", "await", "flush", "done"}
  /\ writeBody \in {"none", "read", "write", "flush", "awaitWrite", "awaitFlush",
                    "advance", "done"}
  /\ asyncIO \in 0..2 /\ lost \in Clients \union {Nobody} /\ raced \in BOOLEAN
  /\ inPipe.buf \in Nat /\ outPipe.buf \in Nat

(* When the completion of the request is posted to IIS, nothing of it is   *)
(* still running: no call to IIS, no pump, no answer to be taken.          *)
QuietWhenPosted ==
  main = "posted" =>
    /\ first = Nobody /\ lost = Nobody /\ \A c \in Clients : op[c] = "none"
    /\ readBody \in {"none", "done"} /\ writeBody \in {"none", "done"}

(* A request whose output did not fail has sent all of it by then.         *)
ResponseComplete ==
  main = "posted" /\ outPipe.reader # "failed" => sent = produced

(* The application is told that the body ended only when IIS said so and   *)
(* everything received has been handed over; a read that was cancelled for *)
(* a write is not the end.                                                 *)
EndIsTheEnd == sawEnd => bodyEnd /\ consumed = received

(* A completion is forwarded to the engine in AsyncIO, so that must be the *)
(* engine that made the call (Debug.Assert(_runningOperation != null)).    *)
(* It is, but for one race: the application's reading and writing thread   *)
(* make their first calls so that each finds AsyncIO null before the other *)
(* has set it.  Then at most one call is lost, and its client keeps        *)
(* waiting: it never takes another's answer.                               *)
CompletionsReachTheirEngine ==
  lost # Nobody => /\ raced
                   /\ lost \notin {first, second}
                   /\ op[lost] # "none" /\ answer[lost] = Unset

(* Nothing of a request outlives its completion, not even a lost call, and *)
(* no completion of IIS goes astray but after that race                    *)
(* (ProcessRequestAsync, EnsureIOInitialized, NotifyCompletion).           *)
ContextSafe == ContextTypeOK /\ QuietWhenPosted /\ CompletionsReachTheirEngine

(* Once the application is done the request comes to its end: its          *)
(* completion is posted, or an exception has left ProcessRequestAsync.  A  *)
(* request with a lost call waits for it for ever.                         *)
RequestEnds == (main # "app") ~> (main \in {"posted", "crashed"} \/ lost # Nobody)

(* Backpressure ends: a thread that waits for room in the output pipe gets *)
(* it, even while a read is outstanding, unless the call was lost.         *)
WritersProceed == (appOut = "room") ~> (appOut = "idle" \/ lost # Nobody)

(* A flush the application asked for reaches IIS, unless the response ends *)
(* or fails first, or a call was lost.                                     *)
FlushHonoured ==
  outPipe.cancel ~> (op[Writer] = "flush" \/ outPipe.writer = "completed"
                     \/ outPipe.reader # "open" \/ lost # Nobody)

(* What the application writes goes out while the client may never send    *)
(* another byte (WriteBody, FlushAsync).                                   *)
OutputFlows == WritersProceed /\ FlushHonoured

=============================================================================
