------------------------- MODULE IISHttpContext_proofs -------------------------
(***************************************************************************)
(* Proofs about IISHttpContext, for bodies, pipes and calls of any number  *)
(* and size.  The engine answers one call of each of its two clients at a  *)
(* time; which call that is follows from where the tasks of the request    *)
(* are, and the byte counts of both pipes from where the two pumps are.    *)
(***************************************************************************)
EXTENDS IISHttpContext, TLAPS

(* The records of the two pipes and of the read WriteBody works on.        *)
InputPipe == [buf : Nat, writer : {"open", "completed", "failed"}, reader : {"open", "completed"}]
OutputPipe == [buf : Nat, writer : {"open", "completed"},
               reader : {"open", "completed", "failed"}, cancel : BOOLEAN]
ReadResult == [bytes : Nat, completed : BOOLEAN]

(* The engine: a call is in progress or waits as long as it has no answer. *)
EngineInv ==
  /\ stopped \in BOOLEAN /\ canceled \in BOOLEAN
  /\ op \in [Clients -> Kinds \union {"none"}]
  /\ first \in Clients \union {Nobody} /\ second \in Clients \union {Nobody}
  /\ answer \in [Clients -> Outcome] /\ got \in [Clients -> Outcome]
  /\ second # Nobody => first \notin {Nobody, second}
  /\ lost \in Clients \union {Nobody}
  /\ lost # Nobody => lost \notin {first, second}
  /\ \A c \in Clients :
       /\ c \in {first, second, lost} <=> op[c] # "none" /\ answer[c] = Unset
       /\ op[c] = "none" => answer[c] = Unset
       /\ answer[c] = Aborted => op[c] = "read" \/ stopped
  /\ canceled => first # Nobody /\ (op[first] = "read" \/ stopped)
  /\ stopped => op[Writer] = "none"

(* Whose calls they are.                                                   *)
Flushing == appOut = "flushing" \/ main = "flushing" \/ writeBody = "awaitFlush"

CallerInv ==
  /\ op[Reader] = IF readBody = "await" THEN "read" ELSE "none"
  /\ main # "astray" =>
       op[Writer] = IF Flushing THEN "flush"
                    ELSE IF writeBody = "awaitWrite" THEN "write" ELSE "none"

(* Where the tasks of the request are, and that the response is started by *)
(* one of them.                                                            *)
Places ==
  /\ main \in {"app", "finally", "end", "flushing", "complete", "drain", "stopped",
               "posted", "crashed", "astray"}
  /\ appIn \in {"idle", "creating", "reading"}
  /\ appOut \in {"idle", "starting", "headers", "creating", "issuing", "flushing", "room"}
  /\ call \in {"write", "flush"}
  /\ readBody \in {"none", "read", "await", "flush", "done"}
  /\ writeBody \in {"none", "read", "write", "flush", "awaitWrite", "awaitFlush",
                    "advance", "done"}
  /\ threw \in BOOLEAN /\ flush \in BOOLEAN
  /\ hasResponseStarted \in BOOLEAN /\ hasRequestReadingStarted \in BOOLEAN

StartingWriter == {"headers", "creating", "issuing", "flushing"}

StartInv ==
  /\ Places
  /\ main \notin {"app", "astray"} => appIn = "idle" /\ appOut = "idle"
  /\ appIn = "creating" => readBody = "none" /\ hasRequestReadingStarted
  /\ readBody # "none" => hasRequestReadingStarted
  /\ appOut = "starting" => ~hasResponseStarted
  /\ appOut \in StartingWriter => hasResponseStarted /\ writeBody = "none"
  /\ appOut = "room" => writeBody # "none"
  /\ writeBody # "none" => hasResponseStarted
  /\ main = "app" /\ appOut = "idle" /\ hasResponseStarted /\ ~threw => writeBody # "none"
  /\ main = "flushing" => writeBody = "none" /\ hasResponseStarted
  /\ main \in {"stopped", "posted"} => writeBody \in {"none", "done"}
  /\ main = "posted" => readBody \in {"none", "done"}

(* What ReadBody received is consumed or in the pipe, and the pipe is      *)
(* completed early only for the end of the body.                           *)
Closing == {"drain", "stopped", "posted", "crashed", "astray"}

InputInv ==
  /\ inPipe \in InputPipe
  /\ received \in Nat /\ consumed \in Nat /\ sawEnd \in BOOLEAN /\ bodyEnd \in BOOLEAN
  /\ received = consumed + inPipe.buf
  /\ readBody # "done" => inPipe.writer = "open"
  /\ inPipe.writer = "completed" => bodyEnd \/ inPipe.reader = "completed"
  /\ inPipe.reader = "completed" => main \in Closing
  /\ sawEnd => bodyEnd /\ readBody = "done" /\ inPipe.buf = 0

(* What the application produced is sent or in the pipe; what WriteBody    *)
(* has sent leaves the pipe when it advances.                              *)
Working == writeBody \in {"write", "awaitWrite", "flush", "awaitFlush", "advance"}
Written == IF writeBody \in {"flush", "awaitFlush", "advance"} THEN writing.bytes ELSE 0

OutputInv ==
  /\ outPipe \in OutputPipe /\ writing \in ReadResult
  /\ produced \in Nat /\ sent \in Nat
  /\ outPipe.writer = "completed" => main \in Closing
  /\ writeBody = "none" => produced = 0 /\ sent = 0
  /\ writeBody = "done" <=> outPipe.reader # "open"
  /\ Working => writing.bytes <= outPipe.buf
  /\ Working /\ writing.completed =>
       outPipe.writer = "completed" /\ writing.bytes = outPipe.buf
  /\ outPipe.reader = "open" => sent + outPipe.buf = produced + Written
  /\ outPipe.reader = "completed" => outPipe.writer = "completed" /\ sent = produced

(* Each thread of the application creates at most one engine, and nobody   *)
(* calls before there is one.                                              *)
ReaderHasNoEngine == appIn = "creating" \/ ~hasRequestReadingStarted
WriterHasNoEngine == ~hasResponseStarted \/ appOut \in {"headers", "creating"}

CreatedInv ==
  /\ asyncIO \in 0..2
  /\ readBody # "none" \/ writeBody # "none" => asyncIO # 0
  /\ appOut \in {"issuing", "flushing"} \/ main = "flushing" => asyncIO # 0
  /\ ReaderHasNoEngine \/ WriterHasNoEngine => asyncIO <= 1
  /\ ReaderHasNoEngine /\ WriterHasNoEngine => asyncIO = 0

(* A second engine, and with it a lost call, comes from a race only.       *)
RaceInv ==
  /\ raced \in BOOLEAN
  /\ lost # Nobody => asyncIO = 2
  /\ \/ asyncIO = 2
     \/ appIn = "creating" /\ appOut = "creating"
     \/ asyncIO # 0 /\ (appIn = "creating" \/ appOut = "creating")
     => raced

ContextInv ==
  EngineInv /\ CallerInv /\ StartInv /\ InputInv /\ OutputInv /\ CreatedInv /\ RaceInv

-----------------------------------------------------------------------------
(* The engine's operations.                                                *)

LEMMA OutcomesTyped ==
  ASSUME NEW k
  PROVE  /\ Outcomes(k) \subseteq Outcome /\ {Unset, Failed, Aborted} \subseteq Outcome
         /\ Unset \notin Outcomes(k) /\ Aborted \notin Outcomes(k) /\ Unset # Aborted
         /\ Unset # Failed /\ Aborted # Failed
  BY ContextAssumption DEF Outcomes, Outcome, Unset, Failed, Aborted

LEMMA SubmitKeeps ==
  ASSUME EngineInv, lost' = lost, NEW c \in Clients, NEW k \in Kinds, Submit(c, k)
  PROVE  EngineInv' /\ op[c] = "none" /\ op' = [op EXCEPT ![c] = k] /\ ~stopped'
<1>0. /\ Outcomes(k) \subseteq Outcome /\ Unset \in Outcome /\ Unset \notin Outcomes(k)
      /\ Aborted \notin Outcomes(k) /\ Unset # Aborted
  BY OutcomesTyped
<1>1. /\ op[c] = "none" /\ ~stopped /\ op' = [op EXCEPT ![c] = k] /\ ~stopped'
      /\ got' = [got EXCEPT ![c] = Unset]
  BY DEF Submit, AnswerAtOnce, Start, Queue, Accept, EngineInv
<1>2. c \notin {first, second} /\ answer[c] = Unset /\ k # "none"
  BY <1>1 DEF EngineInv, Kinds
<1>3. /\ op' \in [Clients -> Kinds \union {"none"}] /\ got' \in [Clients -> Outcome]
      /\ op'[c] = k /\ \A d \in Clients \ {c} : op'[d] = op[d]
  BY <1>0, <1>1 DEF EngineInv
<1>4. CASE AnswerAtOnce(c, k)
  BY <1>0, <1>1, <1>2, <1>3, <1>4, ContextAssumption DEF AnswerAtOnce, EngineInv
<1>5. CASE Start(c, k)
  BY <1>0, <1>1, <1>2, <1>3, <1>5, ContextAssumption DEF Start, EngineInv
<1>6. CASE Queue(c, k)
  BY <1>0, <1>1, <1>2, <1>3, <1>6, ContextAssumption DEF Queue, EngineInv
<1> QED BY <1>1, <1>4, <1>5, <1>6 DEF Submit

LEMMA TakeKeeps ==
  ASSUME EngineInv, lost' = lost, NEW c \in Clients, Take(c)
  PROVE  EngineInv' /\ op' = [op EXCEPT ![c] = "none"]
         /\ (answer[c] = Aborted => op[c] = "read" \/ stopped)
<1>0. Unset \in Outcome /\ Unset # Aborted
  BY OutcomesTyped
<1> QED BY <1>0, ContextAssumption DEF Take, EngineInv

LEMMA RefuseKeeps ==
  ASSUME EngineInv, lost' = lost, NEW c \in Clients, Refuse(c)
  PROVE  EngineInv' /\ op' = op
  BY OutcomesTyped DEF Refuse, EngineInv

LEMMA FinishKeeps ==
  ASSUME EngineInv, lost' = lost, Finish
  PROVE  EngineInv' /\ op' = op
<1>1. first \in Clients
  BY DEF Finish, EngineInv
<1>2. PICK oc \in Outcomes(op[first]) \union (IF canceled \/ stopped THEN {Aborted} ELSE {}) :
        answer' = [answer EXCEPT ![first] = oc]
  BY DEF Finish
<1>3. /\ oc \in Outcome /\ oc # Unset /\ Unset # Aborted
      /\ oc = Aborted => op[first] = "read" \/ stopped
  BY <1>1, <1>2, OutcomesTyped DEF EngineInv
<1> QED BY <1>1, <1>2, <1>3, ContextAssumption DEF Finish, EngineInv

LEMMA CloseKeeps ==
  ASSUME EngineInv, lost' = lost, Close, op[Writer] = "none"
  PROVE  EngineInv' /\ op' = op
  BY ContextAssumption DEF Close, EngineInv

LEMMA Initially == ContextInit => ContextInv
<1> SUFFICES ASSUME ContextInit PROVE ContextInv
  OBVIOUS
<1> USE DEF ContextInit
<1>1. EngineInv
  BY OutcomesTyped, ContextAssumption DEF EngineInv, Init
<1>2. CallerInv
  BY ContextAssumption DEF CallerInv, Init, Flushing
<1>3. StartInv
  BY DEF StartInv, Places, StartingWriter
<1>4. InputInv
  <2>1. inPipe \in InputPipe /\ inPipe.buf = 0 /\ inPipe.writer = "open" /\ inPipe.reader = "open"
    BY DEF InputPipe
  <2>2. received \in Nat /\ consumed \in Nat /\ received = consumed + inPipe.buf
    BY <2>1
  <2> QED BY <2>1, <2>2, Zenon DEF InputInv
<1>5. OutputInv
  <2>1. /\ outPipe \in OutputPipe /\ writing \in ReadResult /\ outPipe.buf = 0
        /\ outPipe.writer = "open" /\ outPipe.reader = "open"
    BY DEF OutputPipe, ReadResult
  <2> QED BY <2>1 DEF OutputInv, Working, Written
<1>6. CreatedInv
  BY DEF CreatedInv, ReaderHasNoEngine, WriterHasNoEngine
<1>7. RaceInv
  <2>1. asyncIO = 0 /\ asyncIO # 2 /\ lost = Nobody /\ raced = FALSE
    OBVIOUS
  <2>2. appIn # "creating" /\ appOut # "creating"
    OBVIOUS
  <2> QED BY <2>1, <2>2, Zenon DEF RaceInv
<1> QED BY <1>1, <1>2, <1>3, <1>4, <1>5, <1>6, <1>7 DEF ContextInv

-----------------------------------------------------------------------------
(* The tasks.                                                              *)

LEMMA StartKept == ContextInv /\ Followed /\ ContextNext => StartInv'
<1> SUFFICES ASSUME ContextInv, main # "astray", ContextNext PROVE StartInv'
  BY DEF Followed
<1>0. StartInv /\ inPipe \in InputPipe /\ outPipe \in OutputPipe
  BY DEF ContextInv, InputInv, OutputInv
<1>1. CASE AppReads
  BY <1>0, <1>1 DEF StartInv, Places, StartingWriter, AppReads, writeVars
<1>2. ASSUME NEW c \in {"write", "flush"}, AppWrites(c) PROVE StartInv'
  BY <1>0, <1>2 DEF StartInv, Places, StartingWriter, AppWrites, readVars, startVars
<1>3. CASE AppReturns
  BY <1>0, <1>3
      DEF StartInv, Places, StartingWriter, AppReturns, appVars, readVars,
          writeVars, startVars
<1>4. CASE AppReadsCreates
  BY <1>0, <1>4 DEF StartInv, Places, StartingWriter, AppReadsCreates, writeVars
<1>12. CASE AppReadReturns
  <2>1. /\ appIn' = "idle" /\ threw' \in {threw, TRUE}
        /\ UNCHANGED <<main, appOut, call, readBody, writeBody, flush, hasResponseStarted,
                       hasRequestReadingStarted>>
    BY <1>12 DEF AppReadReturns, writeVars, startVars
  <2>2. threw' \in BOOLEAN /\ (threw => threw')
    BY <1>0, <2>1, Zenon DEF StartInv, Places
  <2> QED BY <1>0, <2>1, <2>2 DEF StartInv, Places, StartingWriter
<1>5. CASE AppHasRoom \/ AppStarts \/ AppSetsHeaders \/ AppWriteCreates
  BY <1>0, <1>5, ZenonT(120)
      DEF StartInv, Places, StartingWriter, AppHasRoom, AppStarts, AppSetsHeaders,
          AppWriteCreates, readVars, writeVars, startVars
<1>6. CASE AppIssues \/ AppHeadersFlushed
  BY <1>0, <1>6
      DEF StartInv, Places, StartingWriter, AppIssues, AppHeadersFlushed,
          StartWriteBody, readVars, writeVars, startVars
<1>7. CASE ReadBodyNext
  BY <1>0, <1>7
      DEF StartInv, Places, StartingWriter, ReadBodyNext, ReadBodyReads,
          ReadBodyRefused, ReadBodyGets, ReadBodyFlushes,
       appVars, writeVars, startVars
<1>8. CASE WriteBodyNext
  <2>1. /\ UNCHANGED <<main, appIn, appOut, call, threw, readBody, hasResponseStarted,
                       hasRequestReadingStarted>>
    BY <1>8 DEF WriteBodyNext, WriteBodyReads, WriteBodyCalls, WriteBodyGets, WriteBodyAdvances,
         appVars, readVars, startVars
  <2>2. /\ writeBody \notin {"none", "done"} /\ flush' \in BOOLEAN
        /\ writeBody' \in {"read", "write", "flush", "awaitWrite", "awaitFlush", "advance", "done"}
    <3>1. CASE WriteBodyReads
      BY <1>0, <3>1 DEF StartInv, Places, StartingWriter, WriteBodyReads, MustFlush, OutputPipe
    <3>2. ASSUME NEW k \in {"write", "flush"}, WriteBodyCalls(k)
          PROVE  /\ writeBody = k /\ flush' = flush /\ writeBody' \in {"awaitWrite", "awaitFlush"}
      BY <3>2 DEF WriteBodyCalls, Awaiting
    <3>4. ASSUME NEW k \in {"write", "flush"}, WriteBodyGets(k)
          PROVE  /\ writeBody \in {"awaitWrite", "awaitFlush"} /\ flush' \in {flush, FALSE}
                 /\ writeBody' \in {"done", "flush", "advance"}
      <4>1. writeBody \in {"awaitWrite", "awaitFlush"}
        BY <3>4 DEF WriteBodyGets, Awaiting
      <4>2. flush' \in {flush, FALSE}
        BY <3>4, Zenon DEF WriteBodyGets
      <4>3. writeBody' \in {"done", "flush", "advance"}
        BY <3>4, Zenon DEF WriteBodyGets, CloseOutput
      <4> QED BY <4>1, <4>2, <4>3
    <3>3. CASE WriteBodyAdvances
      BY <1>0, <3>3 DEF StartInv, Places, StartingWriter, WriteBodyAdvances, CloseOutput
    <3> QED BY <1>0, <1>8, <3>1, <3>2, <3>3, <3>4 DEF WriteBodyNext, StartInv, Places
  <2> QED BY <1>0, <2>1, <2>2 DEF StartInv, Places, StartingWriter
<1>9. CASE RunCallbacks \/ ProduceEnd \/ ProduceEndAwaited
  BY <1>0, <1>9
      DEF StartInv, Places, StartingWriter, RunCallbacks, ProduceEnd,
          ProduceEndAwaited, StartWriteBody, appVars, readVars, writeVars,
       startVars
<1>10. CASE CompletePipes \/ DisposeIO \/ CompleteRequest
  BY <1>0, <1>10
      DEF StartInv, Places, StartingWriter, CompletePipes, DisposeIO,
          CompleteRequest, Awaited, appVars, readVars, writeVars,
       startVars
<1>11. CASE IISFinishes \/ IISFinishesLost \/ Ended
  BY <1>0, <1>11
      DEF StartInv, Places, StartingWriter, IISFinishes, IISFinishesLost, Ended, vars, appVars,
          readVars, writeVars, startVars
<1> QED BY <1>1, <1>2, <1>3, <1>4, <1>5, <1>6, <1>7, <1>8, <1>9, <1>10, <1>11, <1>12
        DEF ContextNext, AppInNext, AppOutNext, MainNext

-----------------------------------------------------------------------------
(* The calls.                                                              *)

(* Steps that leave the engine and its callers alone.                      *)
LEMMA CallsUntouched ==
  ASSUME EngineInv, CallerInv, UNCHANGED <<ioVars, lost>>,
         main # "astray" \/ main' = "astray", main' = "astray" \/ Flushing' = Flushing,
         readBody' = "await" <=> readBody = "await",
         writeBody' = "awaitWrite" <=> writeBody = "awaitWrite"
  PROVE  EngineInv' /\ CallerInv'
<1>1. EngineInv'
  BY DEF EngineInv, ioVars
<1>2. op' = op
  BY DEF ioVars
<1> QED BY <1>1, <1>2 DEF CallerInv

(* A second engine finds at most one call in the first: the one whose      *)
(* client does not create it.                                              *)
LEMMA CreateKeeps ==
  ContextInv /\ Followed /\ (AppReadsCreates \/ AppWriteCreates) => EngineInv' /\ CallerInv'
<1> SUFFICES ASSUME ContextInv, main # "astray", AppReadsCreates \/ AppWriteCreates
             PROVE  EngineInv' /\ CallerInv'
  BY DEF Followed
<1>0. /\ EngineInv /\ CallerInv /\ StartInv /\ CreatedInv /\ RaceInv
      /\ Clients = {Reader, Writer} /\ Reader # Writer /\ Nobody \notin Clients
  BY ContextAssumption DEF ContextInv, Reader, Writer
<1>1. /\ CreateEngine /\ Flushing' = Flushing /\ writeBody' = writeBody
      /\ readBody' = "await" <=> readBody = "await"
  BY <1>0 DEF AppReadsCreates, AppWriteCreates, writeVars, readVars, Flushing, StartInv
<1>2. PICK c \in Clients : op[c] = "none"
  <2>1. AppReadsCreates => op[Reader] = "none"
    BY <1>0 DEF AppReadsCreates, CallerInv, StartInv
  <2>2. AppWriteCreates => op[Writer] = "none"
    BY <1>0 DEF AppWriteCreates, CallerInv, StartInv, StartingWriter, Flushing
  <2> QED BY <1>0, <2>1, <2>2
<1>3. lost = Nobody
  BY <1>0 DEF CreatedInv, RaceInv, AppReadsCreates, AppWriteCreates, ReaderHasNoEngine,
     WriterHasNoEngine
<1>4. second = Nobody
  BY <1>0, <1>2 DEF EngineInv
<1>5. EngineInv'
  BY <1>0, <1>1, <1>3, <1>4 DEF EngineInv, CreateEngine
<1>6. CallerInv'
  BY <1>0, <1>1 DEF CallerInv, CreateEngine
<1> QED BY <1>5, <1>6

LEMMA CallsKept == ContextInv /\ Followed /\ ContextNext => EngineInv' /\ CallerInv'
<1> SUFFICES ASSUME ContextInv, main # "astray", ContextNext, ~AppReadsCreates, ~AppWriteCreates
             PROVE  EngineInv' /\ CallerInv'
  BY CreateKeeps DEF Followed
<1>l. lost' = lost
  BY DEF ContextNext, AppInNext, AppOutNext, ReadBodyNext, WriteBodyNext, MainNext, AppReads,
     AppReadReturns, AppWrites, AppReturns, AppHasRoom, AppStarts, AppSetsHeaders, AppIssues,
     AppHeadersFlushed, ReadBodyReads, ReadBodyRefused, ReadBodyGets, ReadBodyFlushes,
     WriteBodyReads, WriteBodyCalls, WriteBodyGets, WriteBodyAdvances, RunCallbacks, ProduceEnd,
     ProduceEndAwaited, CompletePipes, DisposeIO, CompleteRequest, IISFinishes, IISFinishesLost,
     Ended, vars, startVars
<1>0. /\ EngineInv /\ CallerInv /\ StartInv /\ Reader \in Clients /\ Writer \in Clients
      /\ Clients = {Reader, Writer} /\ Reader # Writer
      /\ op \in [Clients -> Kinds \union {"none"}] /\ Kinds = {"read", "write", "flush"}
  BY ContextAssumption DEF ContextInv, EngineInv, Reader, Writer, Kinds
<1>1. CASE AppReads \/ AppReadReturns \/ (\E c \in {"write", "flush"} : AppWrites(c)) \/ AppReturns
  <2>1. /\ UNCHANGED ioVars /\ Flushing' = Flushing /\ writeBody' = writeBody
        /\ readBody' = "await" <=> readBody = "await"
    BY <1>0, <1>l, <1>1
        DEF AppReads, AppReadReturns, AppWrites,
            AppReturns,
         appVars, readVars, writeVars, Flushing, StartInv, Places
  <2> QED BY <1>0, <1>l, <2>1, CallsUntouched
<1>2. CASE AppHasRoom \/ AppStarts \/ AppSetsHeaders
  <2>1. /\ UNCHANGED ioVars /\ Flushing' = Flushing /\ UNCHANGED <<writeBody, readBody>>
    BY <1>2 DEF AppHasRoom, AppStarts, AppSetsHeaders,
         readVars, writeVars, Flushing
  <2> QED BY <1>0, <1>l, <2>1, CallsUntouched
<1>3. CASE AppIssues
  <2>1. CASE call = "write"
    <3>1. /\ UNCHANGED ioVars /\ Flushing' = Flushing /\ readBody' = readBody
          /\ writeBody # "awaitWrite" /\ writeBody' # "awaitWrite"
      BY <1>0, <1>l, <1>3, <2>1 DEF AppIssues, readVars, Flushing, StartWriteBody, StartInv,
           StartingWriter, Deliver
    <3> QED BY <1>0, <1>l, <3>1, CallsUntouched
  <2>2. CASE call # "write"
    <3>1. /\ Submit(Writer, "flush") /\ Flushing' /\ readBody' = readBody
      BY <1>3, <2>2 DEF AppIssues, readVars, Flushing
    <3>2. EngineInv' /\ op' = [op EXCEPT ![Writer] = "flush"]
      BY <1>0, <1>l, <3>1, SubmitKeeps
    <3> QED BY <1>0, <1>l, <3>1, <3>2 DEF CallerInv
  <2> QED BY <2>1, <2>2
<1>4. CASE AppHeadersFlushed
  <2>1. /\ Take(Writer) /\ readBody' = readBody /\ appOut' # "flushing" /\ main' = main
        /\ appOut = "flushing" /\ writeBody' \in {writeBody, "read"}
    BY <1>4 DEF AppHeadersFlushed, readVars, StartWriteBody
  <2>2. EngineInv' /\ op' = [op EXCEPT ![Writer] = "none"]
    BY <1>0, <1>l, <2>1, TakeKeeps
  <2>3. ~Flushing' /\ writeBody' # "awaitWrite"
    BY <1>0, <1>l, <2>1 DEF StartInv, StartingWriter, Flushing
  <2> QED BY <1>0, <1>l, <2>1, <2>2, <2>3 DEF CallerInv
<1>5. CASE ReadBodyReads
  <2>1. /\ Submit(Reader, "read") /\ readBody' = "await" /\ Flushing' = Flushing
        /\ writeBody' = writeBody
    BY <1>5 DEF ReadBodyReads, Flushing, appVars, writeVars
  <2>2. EngineInv' /\ op' = [op EXCEPT ![Reader] = "read"]
    BY <1>0, <1>l, <2>1, SubmitKeeps
  <2> QED BY <1>0, <1>l, <2>1, <2>2 DEF CallerInv
<1>6. CASE ReadBodyRefused
  <2>1. /\ Refuse(Reader) /\ readBody = "read" /\ readBody' = "done" /\ Flushing' = Flushing
        /\ writeBody' = writeBody
    BY <1>6 DEF ReadBodyRefused, Flushing, appVars, writeVars
  <2>2. EngineInv' /\ op' = op
    BY <1>0, <1>l, <2>1, RefuseKeeps
  <2> QED BY <1>0, <1>l, <2>1, <2>2 DEF CallerInv
<1>7. CASE ReadBodyGets
  <2>1. /\ Take(Reader) /\ readBody = "await" /\ readBody' \in {"flush", "done"}
        /\ Flushing' = Flushing /\ writeBody' = writeBody
    BY <1>7 DEF ReadBodyGets, Flushing, appVars, writeVars
  <2>2. EngineInv' /\ op' = [op EXCEPT ![Reader] = "none"]
    BY <1>0, <1>l, <2>1, TakeKeeps
  <2> QED BY <1>0, <1>l, <2>1, <2>2 DEF CallerInv
<1>8. CASE ReadBodyFlushes
  <2>1. /\ UNCHANGED ioVars /\ Flushing' = Flushing /\ writeBody' = writeBody
        /\ readBody # "await" /\ readBody' # "await"
    BY <1>8 DEF ReadBodyFlushes, Flushing, appVars, writeVars
  <2> QED BY <1>0, <1>l, <2>1, CallsUntouched
<1>9. CASE WriteBodyReads \/ WriteBodyAdvances
  <2>1. /\ UNCHANGED ioVars /\ readBody' = readBody /\ UNCHANGED <<main, appOut>>
        /\ writeBody \in {"read", "advance"}
        /\ writeBody' \in {"read", "write", "flush", "advance", "done"}
    BY <1>9 DEF WriteBodyReads, WriteBodyAdvances, CloseOutput, appVars, readVars
  <2>2. Flushing' = Flushing
    BY <2>1 DEF Flushing
  <2> QED BY <1>0, <1>l, <2>1, <2>2, CallsUntouched
<1>10. ASSUME NEW k \in {"write", "flush"}, WriteBodyCalls(k) PROVE EngineInv' /\ CallerInv'
  <2>1. /\ Submit(Writer, k) /\ readBody' = readBody /\ UNCHANGED <<main, appOut>>
        /\ writeBody = k /\ writeBody' = IF k = "write" THEN "awaitWrite" ELSE "awaitFlush"
    BY <1>10 DEF WriteBodyCalls, Awaiting, appVars, readVars
  <2>2. EngineInv' /\ op' = [op EXCEPT ![Writer] = k]
    BY <1>0, <1>l, <2>1, SubmitKeeps
  <2>3. Flushing' <=> k = "flush"
    BY <1>0, <1>l, <2>1 DEF Flushing, StartInv, StartingWriter
  <2> QED BY <1>0, <1>l, <2>1, <2>2, <2>3 DEF CallerInv
<1>11. ASSUME NEW k \in {"write", "flush"}, WriteBodyGets(k) PROVE EngineInv' /\ CallerInv'
  <2>1. /\ Take(Writer) /\ readBody' = readBody /\ UNCHANGED <<main, appOut>>
        /\ writeBody \in {"awaitWrite", "awaitFlush"}
    BY <1>11 DEF WriteBodyGets, Awaiting, appVars, readVars
  <2>2. writeBody' \in {"done", "flush", "advance"}
    BY <1>11, Zenon DEF WriteBodyGets, CloseOutput
  <2>3. EngineInv' /\ op' = [op EXCEPT ![Writer] = "none"]
    BY <1>0, <1>l, <2>1, TakeKeeps
  <2>4. ~Flushing'
    BY <1>0, <1>l, <2>1, <2>2 DEF Flushing, StartInv, StartingWriter
  <2> QED BY <1>0, <1>l, <2>1, <2>2, <2>3, <2>4 DEF CallerInv
<1>12. CASE RunCallbacks \/ CompletePipes \/ CompleteRequest
  <2>1. UNCHANGED ioVars /\ UNCHANGED <<readBody, writeBody>> /\ Flushing' = Flushing
    BY <1>12
        DEF RunCallbacks, CompletePipes, CompleteRequest, appVars, readVars,
            writeVars, Flushing
  <2> QED BY <1>0, <1>l, <2>1, CallsUntouched
<1>13. CASE ProduceEnd
  <2>1. /\ UNCHANGED <<readBody, writeBody, appOut>> /\ main = "end"
        /\ main' = "flushing" <=> ~UNCHANGED ioVars
        /\ main' = "flushing" => Submit(Writer, "flush")
    <3>1. ~hasResponseStarted /\ Submit(Writer, "flush") => op' # op
      BY <1>0, <1>l, SubmitKeeps
    <3> QED BY <1>13, <3>1 DEF ProduceEnd, appVars, readVars, writeVars, ioVars
  <2>2. CASE main' = "flushing"
    <3>1. EngineInv' /\ op' = [op EXCEPT ![Writer] = "flush"]
      BY <1>0, <1>l, <2>1, <2>2, SubmitKeeps
    <3>2. Flushing'
      BY <2>2 DEF Flushing
    <3> QED BY <1>0, <1>l, <2>1, <3>1, <3>2 DEF CallerInv
  <2>3. CASE main' # "flushing"
    <3>1. Flushing' = Flushing
      BY <2>1, <2>3 DEF Flushing
    <3> QED BY <1>0, <1>l, <2>1, <2>3, <3>1, CallsUntouched
  <2> QED BY <2>2, <2>3
<1>14. CASE ProduceEndAwaited
  <2>1. /\ Take(Writer) /\ readBody' = readBody /\ appOut' = appOut /\ main' # "flushing"
        /\ main = "flushing" /\ writeBody' \in {writeBody, "read"}
    BY <1>14 DEF ProduceEndAwaited, readVars, appVars, StartWriteBody
  <2>2. EngineInv' /\ op' = [op EXCEPT ![Writer] = "none"]
    BY <1>0, <1>l, <2>1, TakeKeeps
  <2>3. ~Flushing' /\ writeBody' # "awaitWrite"
    BY <1>0, <1>l, <2>1 DEF StartInv, Flushing
  <2> QED BY <1>0, <1>l, <2>1, <2>2, <2>3 DEF CallerInv
<1>15. CASE DisposeIO
  <2>1. /\ UNCHANGED <<readBody, writeBody, appOut>> /\ main = "drain" /\ main' # "flushing"
        /\ writeBody \in {"none", "done"} /\ (Close \/ UNCHANGED ioVars)
    BY <1>15 DEF DisposeIO, Awaited, appVars, readVars, writeVars
  <2>2. Flushing' = Flushing /\ ~Flushing
    BY <1>0, <1>l, <2>1 DEF Flushing, StartInv
  <2>3. op[Writer] = "none"
    BY <1>0, <1>l, <2>1, <2>2 DEF CallerInv
  <2>4. CASE Close
    <3>1. EngineInv' /\ op' = op
      BY <1>0, <1>l, <2>3, <2>4, CloseKeeps
    <3> QED BY <1>0, <1>l, <2>1, <2>2, <3>1 DEF CallerInv
  <2> QED BY <1>0, <1>l, <2>1, <2>2, <2>4, CallsUntouched
<1>16. CASE IISFinishes
  <2>1. Finish /\ UNCHANGED <<readBody, writeBody>> /\ Flushing' = Flushing
    BY <1>16 DEF IISFinishes, appVars, readVars, writeVars, Flushing
  <2>2. EngineInv' /\ op' = op
    BY <1>0, <1>l, <2>1, FinishKeeps
  <2> QED BY <1>0, <1>l, <2>1, <2>2 DEF CallerInv
<1>17. CASE Ended \/ IISFinishesLost
  <2>1. /\ UNCHANGED <<ioVars, readBody, writeBody>>
        /\ main' = "astray" \/ Flushing' = Flushing
    BY <1>17 DEF Ended, IISFinishesLost, vars, appVars, readVars, writeVars, Flushing
  <2> QED BY <1>0, <1>l, <2>1, CallsUntouched
<1> QED BY <1>1, <1>2, <1>3, <1>4, <1>5, <1>6, <1>7, <1>8, <1>9, <1>10, <1>11, <1>12, <1>13,
           <1>14, <1>15, <1>16, <1>17
        DEF ContextNext, AppInNext, AppOutNext, ReadBodyNext, WriteBodyNext, MainNext

-----------------------------------------------------------------------------
(* The two pipes.                                                          *)

(* What a change of one field of a pipe leaves alone.                      *)
LEMMA InputPipeGives ==
  ASSUME NEW p \in InputPipe, NEW n \in Nat, NEW w \in {"open", "completed", "failed"}
  PROVE  /\ LET q == [p EXCEPT !.buf = n] IN
              q \in InputPipe /\ q.buf = n /\ q.writer = p.writer /\ q.reader = p.reader
         /\ LET q == [p EXCEPT !.writer = w] IN
              q \in InputPipe /\ q.buf = p.buf /\ q.writer = w /\ q.reader = p.reader
         /\ LET q == [p EXCEPT !.reader = "completed"] IN
              q \in InputPipe /\ q.buf = p.buf /\ q.writer = p.writer /\ q.reader = "completed"
  BY DEF InputPipe

LEMMA OutputPipeGives ==
  ASSUME NEW p \in OutputPipe, NEW n \in Nat, NEW b \in BOOLEAN,
         NEW how \in {"completed", "failed"}
  PROVE  /\ LET q == [p EXCEPT !.buf = n] IN
              q \in OutputPipe /\ q.buf = n /\ q.writer = p.writer /\ q.reader = p.reader
         /\ LET q == [p EXCEPT !.cancel = b] IN
              q \in OutputPipe /\ q.buf = p.buf /\ q.writer = p.writer /\ q.reader = p.reader
         /\ LET q == [p EXCEPT !.writer = "completed"] IN
              q \in OutputPipe /\ q.buf = p.buf /\ q.writer = "completed" /\ q.reader = p.reader
         /\ LET q == [p EXCEPT !.buf = 0, !.reader = how] IN
              q \in OutputPipe /\ q.buf = 0 /\ q.writer = p.writer /\ q.reader = how
  BY DEF OutputPipe

LEMMA InputUntouched ==
  ASSUME InputInv, UNCHANGED <<inPipe, received, consumed, sawEnd, bodyEnd>>,
         main \in Closing => main' \in Closing,
         readBody = "done" <=> readBody' = "done"
  PROVE  InputInv'
  BY DEF InputInv

LEMMA InputKept == ContextInv /\ Followed /\ ContextNext => InputInv'
<1> SUFFICES ASSUME ContextInv, main # "astray", ContextNext PROVE InputInv'
  BY DEF Followed
<1>0. /\ InputInv /\ EngineInv /\ CallerInv /\ StartInv /\ Places /\ inPipe \in InputPipe
      /\ Reader \in Clients
  BY ContextAssumption DEF ContextInv, InputInv, StartInv
<1>1. CASE AppReads \/ AppReadsCreates
  <2>1. /\ UNCHANGED <<inPipe, received, consumed, sawEnd, bodyEnd, main>>
        /\ readBody' # "done" /\ (readBody = "done" => readBody' = "done")
        \/ UNCHANGED <<inPipe, received, consumed, sawEnd, bodyEnd, main, readBody>>
    BY <1>0, <1>1 DEF AppReads, AppReadsCreates, readVars, StartInv
  <2> QED BY <1>0, <2>1, InputUntouched
<1>2. CASE (\E c \in {"write", "flush"} : AppWrites(c)) \/ AppReturns \/ AppOutNext
  <2>1. /\ UNCHANGED <<inPipe, received, consumed, sawEnd, bodyEnd, readBody>>
        /\ main \in Closing => main' \in Closing
    BY <1>0, <1>2 DEF AppWrites, AppReturns, AppOutNext, AppHasRoom, AppStarts, AppSetsHeaders,
       AppWriteCreates, AppIssues, AppHeadersFlushed, readVars, appVars, Closing
  <2> QED BY <1>0, <2>1, InputUntouched
<1>3. CASE AppReadReturns
  <2>1. main = "app" /\ inPipe.reader = "open"
    BY <1>0, <1>3 DEF AppReadReturns, InputInv, InputPipe, StartInv, Closing
  <2>2. UNCHANGED <<main, readBody, received, bodyEnd>>
    BY <1>3 DEF AppReadReturns, startVars
  <2>3. CASE /\ inPipe.buf > 0
             /\ \E n \in Copied(inPipe.buf) :
                  consumed' = consumed + n /\ inPipe' = [inPipe EXCEPT !.buf = @ - n]
             /\ UNCHANGED sawEnd
    <3>1. PICK n \in 1 .. inPipe.buf :
            consumed' = consumed + n /\ inPipe' = [inPipe EXCEPT !.buf = @ - n]
      BY <2>3 DEF Copied
    <3>2. n \in Nat /\ inPipe.buf \in Nat /\ inPipe.buf - n \in Nat
      BY <1>0 DEF InputPipe
    <3>3. /\ inPipe' \in InputPipe /\ inPipe'.buf = inPipe.buf - n
          /\ inPipe'.writer = inPipe.writer /\ inPipe'.reader = inPipe.reader
      BY <1>0, <3>1, <3>2, InputPipeGives, ZenonT(40)
    <3> QED BY <1>0, <2>1, <2>2, <2>3, <3>1, <3>2, <3>3 DEF InputInv
  <2>4. CASE /\ inPipe.buf = 0 /\ inPipe.writer = "completed" /\ sawEnd' = TRUE
             /\ UNCHANGED <<consumed, inPipe>>
    BY <1>0, <2>1, <2>2, <2>4 DEF InputInv, InputPipe
  <2>5. CASE UNCHANGED <<sawEnd, consumed, inPipe>>
    BY <1>0, <2>2, <2>5, InputUntouched
  <2> QED BY <1>3, <2>3, <2>4, <2>5 DEF AppReadReturns
<1>4. CASE ReadBodyReads
  <2>1. /\ UNCHANGED <<inPipe, received, consumed, sawEnd, bodyEnd, main>>
        /\ readBody = "read" /\ readBody' = "await"
    BY <1>4 DEF ReadBodyReads, appVars
  <2> QED BY <1>0, <2>1, InputUntouched
<1>5. CASE ReadBodyRefused
  <2>1. /\ UNCHANGED <<received, consumed, sawEnd, bodyEnd, main>> /\ readBody = "read"
        /\ inPipe' = [inPipe EXCEPT !.writer = "failed"]
    BY <1>5 DEF ReadBodyRefused, appVars
  <2>2. /\ inPipe' \in InputPipe /\ inPipe'.buf = inPipe.buf
        /\ inPipe'.writer = "failed" /\ inPipe'.reader = inPipe.reader
    BY <1>0, <2>1, InputPipeGives
  <2>3. ~sawEnd /\ ~sawEnd' /\ readBody' = "done"
    BY <1>0, <1>5, <2>1 DEF InputInv, ReadBodyRefused
  <2> QED BY <1>0, <2>1, <2>2, <2>3 DEF InputInv
<1>6. CASE ReadBodyGets
  <2> DEFINE read == answer[Reader]
  <2>1. /\ UNCHANGED <<consumed, sawEnd, main>> /\ readBody = "await"
        /\ bodyEnd' = (bodyEnd \/ read = 0) /\ bodyEnd' \in BOOLEAN
    BY <1>6 DEF ReadBodyGets, appVars
  <2>2. /\ ~sawEnd /\ inPipe.writer = "open" /\ bodyEnd \in BOOLEAN
        /\ received = consumed + inPipe.buf /\ inPipe.buf \in Nat
    BY <1>0, <2>1 DEF InputInv, InputPipe
  <2>3. read \in Int
    BY <1>0, ContextAssumption DEF EngineInv, Outcome, Unset
  <2>4. CASE read > 0
    <3>1. /\ received' = received + read /\ readBody' = "flush"
          /\ inPipe' = [inPipe EXCEPT !.buf = @ + read]
      BY <1>6, <2>4, Zenon DEF ReadBodyGets
    <3>2. inPipe.buf + read \in Nat
      BY <2>2, <2>3, <2>4
    <3>3. /\ inPipe' \in InputPipe /\ inPipe'.buf = inPipe.buf + read
          /\ inPipe'.writer = inPipe.writer /\ inPipe'.reader = inPipe.reader
      BY <1>0, <3>1, <3>2, InputPipeGives, ZenonT(40)
    <3> QED BY <1>0, <2>1, <2>2, <2>3, <2>4, <3>1, <3>3 DEF InputInv
  <2>5. CASE ~(read > 0)
    <3>1. /\ received' = received
          /\ \/ inPipe' = [inPipe EXCEPT !.writer = "failed"] /\ readBody' = "done"
             \/ inPipe' = [inPipe EXCEPT !.writer = "completed"] /\ readBody' = "done" /\ read = 0
             \/ inPipe' = inPipe /\ readBody' = "flush"
      BY <1>6, <2>5, Zenon DEF ReadBodyGets, EndOfBody
    <3>2. /\ inPipe' \in InputPipe /\ inPipe'.buf = inPipe.buf /\ inPipe'.reader = inPipe.reader
          /\ \/ inPipe'.writer = "failed" /\ readBody' = "done"
             \/ inPipe'.writer = "completed" /\ readBody' = "done" /\ read = 0
             \/ inPipe'.writer = "open" /\ readBody' = "flush"
      <4>1. CASE inPipe' = [inPipe EXCEPT !.writer = "failed"] /\ readBody' = "done"
        BY <1>0, <4>1, InputPipeGives
      <4>2. CASE /\ inPipe' = [inPipe EXCEPT !.writer = "completed"] /\ readBody' = "done"
                 /\ read = 0
        BY <1>0, <4>2, InputPipeGives
      <4>3. CASE inPipe' = inPipe /\ readBody' = "flush"
        BY <1>0, <2>2, <4>3
      <4> QED BY <3>1, <4>1, <4>2, <4>3
    <3> QED BY <1>0, <2>1, <2>2, <3>1, <3>2 DEF InputInv
  <2> QED BY <2>4, <2>5
<1>7. CASE ReadBodyFlushes
  <2>1. UNCHANGED <<consumed, sawEnd, main, received, bodyEnd>> /\ readBody = "flush"
    BY <1>7 DEF ReadBodyFlushes, appVars
  <2>2. CASE inPipe.reader = "completed"
    <3>1. inPipe' = [inPipe EXCEPT !.writer = "completed"]
      BY <1>7, <2>2 DEF ReadBodyFlushes
    <3>2. /\ inPipe' \in InputPipe /\ inPipe'.buf = inPipe.buf
          /\ inPipe'.writer = "completed" /\ inPipe'.reader = "completed"
      BY <1>0, <2>2, <3>1, InputPipeGives
    <3>3. ~sawEnd /\ ~sawEnd' /\ readBody' = "done"
      BY <1>0, <1>7, <2>1, <2>2 DEF InputInv, ReadBodyFlushes
    <3> QED BY <1>0, <2>1, <2>2, <3>2, <3>3 DEF InputInv
  <2>3. CASE inPipe.reader # "completed"
    <3>1. inPipe' = inPipe /\ readBody' = "read"
      BY <1>7, <2>3 DEF ReadBodyFlushes
    <3> QED BY <1>0, <2>1, <3>1, InputUntouched
  <2> QED BY <2>2, <2>3
<1>8. CASE WriteBodyNext
  <2>1. UNCHANGED <<inPipe, received, consumed, sawEnd, bodyEnd, readBody, main>>
    BY <1>8 DEF WriteBodyNext, WriteBodyReads, WriteBodyCalls, WriteBodyGets, WriteBodyAdvances,
       appVars, readVars
  <2> QED BY <1>0, <2>1, InputUntouched
<1>9. CASE CompletePipes
  <2>1. /\ UNCHANGED <<readBody, received, consumed, sawEnd, bodyEnd>> /\ main' \in Closing
        /\ inPipe' = [inPipe EXCEPT !.reader = "completed"]
    BY <1>9 DEF CompletePipes, appVars, Closing
  <2>2. /\ inPipe' \in InputPipe /\ inPipe'.buf = inPipe.buf
        /\ inPipe'.writer = inPipe.writer /\ inPipe'.reader = "completed"
    BY <1>0, <2>1, InputPipeGives
  <2> QED BY <1>0, <2>1, <2>2 DEF InputInv
<1>10. CASE RunCallbacks \/ ProduceEnd \/ ProduceEndAwaited \/ DisposeIO \/ CompleteRequest
            \/ IISFinishes \/ IISFinishesLost \/ Ended
  <2>1. /\ UNCHANGED <<inPipe, received, consumed, sawEnd, bodyEnd, readBody>>
        /\ main \in Closing => main' \in Closing
    BY <1>10 DEF RunCallbacks, ProduceEnd, ProduceEndAwaited, DisposeIO, CompleteRequest,
       IISFinishes, IISFinishesLost, Ended, vars, appVars, readVars, Closing
  <2> QED BY <1>0, <2>1, InputUntouched
<1> QED BY <1>1, <1>2, <1>3, <1>4, <1>5, <1>6, <1>7, <1>8, <1>9, <1>10
        DEF ContextNext, AppInNext, ReadBodyNext, MainNext

LEMMA OutputUntouched ==
  ASSUME OutputInv, UNCHANGED <<outPipe, writing, produced, sent, writeBody>>,
         main \in Closing => main' \in Closing
  PROVE  OutputInv'
  BY DEF OutputInv, Working, Written

(* What the application delivers is in the pipe, unless nobody reads it    *)
(* any more.                                                               *)
LEMMA DeliverGives ==
  ASSUME OutputInv, NEW c \in {"write", "flush"}, Deliver(c)
  PROVE  /\ outPipe' \in OutputPipe /\ produced' \in Nat
         /\ outPipe'.writer = outPipe.writer /\ outPipe'.reader = outPipe.reader
         /\ outPipe'.buf >= outPipe.buf
         /\ outPipe.reader = "open" => outPipe'.buf - outPipe.buf = produced' - produced
<1>0. outPipe \in OutputPipe /\ produced \in Nat /\ outPipe.buf \in Nat
  BY DEF OutputInv, OutputPipe
<1>1. CASE c = "write"
  <2> DEFINE n == IF outPipe.reader = "open" THEN outPipe.buf + 1 ELSE outPipe.buf
  <2>1. n \in Nat
    BY <1>0
  <2>2. produced' = produced + 1 /\ outPipe' = [outPipe EXCEPT !.buf = n]
    BY <1>1 DEF Deliver
  <2>3. /\ outPipe' \in OutputPipe /\ outPipe'.buf = n
        /\ outPipe'.writer = outPipe.writer /\ outPipe'.reader = outPipe.reader
    BY <1>0, <2>1, <2>2, OutputPipeGives
  <2> QED BY <1>0, <2>2, <2>3
<1>2. CASE c = "flush"
  <2>1. produced' = produced /\ outPipe' = [outPipe EXCEPT !.cancel = TRUE]
    BY <1>2 DEF Deliver
  <2>2. /\ outPipe' \in OutputPipe /\ outPipe'.buf = outPipe.buf
        /\ outPipe'.writer = outPipe.writer /\ outPipe'.reader = outPipe.reader
    BY <1>0, <2>1, OutputPipeGives
  <2> QED BY <1>0, <2>1, <2>2
<1> QED BY <1>1, <1>2

LEMMA DeliverKeeps ==
  ASSUME OutputInv, NEW c \in {"write", "flush"}, Deliver(c), main = "app", main' = "app",
         UNCHANGED <<writing, sent>>,
         \/ writeBody # "none" /\ writeBody' = writeBody
         \/ writeBody = "none" /\ writeBody' = "read"
  PROVE  OutputInv'
<1>1. /\ outPipe' \in OutputPipe /\ produced' \in Nat
      /\ outPipe'.writer = outPipe.writer /\ outPipe'.reader = outPipe.reader
      /\ outPipe'.buf >= outPipe.buf
      /\ outPipe.reader = "open" => outPipe'.buf - outPipe.buf = produced' - produced
  BY DeliverGives
<1>2. /\ outPipe.writer = "open" /\ outPipe.reader # "completed" /\ outPipe.buf \in Nat
      /\ outPipe'.buf \in Nat /\ writing.bytes \in Nat /\ writing.completed \in BOOLEAN
  BY <1>1 DEF OutputInv, OutputPipe, ReadResult, Closing
<1>3. Working' => Working /\ ~writing.completed
  BY <1>2 DEF OutputInv, Working
<1>4. Written' = Written /\ Written \in Nat
  BY <1>2 DEF Written
<1>5. outPipe'.reader = "open" => sent' + outPipe'.buf = produced' + Written'
  BY <1>1, <1>2, <1>4 DEF OutputInv
<1> QED BY <1>1, <1>2, <1>3, <1>5 DEF OutputInv

LEMMA OutputKept == ContextInv /\ Followed /\ ContextNext => OutputInv'
<1> SUFFICES ASSUME ContextInv, main # "astray", ContextNext PROVE OutputInv'
  BY DEF Followed
<1>0. /\ OutputInv /\ EngineInv /\ CallerInv /\ StartInv /\ Writer \in Clients
      /\ outPipe \in OutputPipe /\ writing \in ReadResult /\ outPipe.buf \in Nat
      /\ writing.bytes \in Nat /\ writing.completed \in BOOLEAN
      /\ produced \in Nat /\ sent \in Nat
  BY ContextAssumption DEF ContextInv, OutputInv, OutputPipe, ReadResult
<1>1. CASE AppReads \/ AppInNext \/ AppReturns \/ ReadBodyNext
  <2>1. /\ UNCHANGED <<outPipe, writing, produced, sent, writeBody>>
        /\ main \in Closing => main' \in Closing
    BY <1>1 DEF AppReads, AppInNext, AppReadsCreates, AppReadReturns, AppReturns, ReadBodyNext,
       ReadBodyReads, ReadBodyRefused, ReadBodyGets, ReadBodyFlushes, appVars, writeVars, Closing
  <2> QED BY <1>0, <2>1, OutputUntouched
<1>2. ASSUME NEW c \in {"write", "flush"}, AppWrites(c) PROVE OutputInv'
  <2>1. UNCHANGED <<writing, sent, writeBody, main>> /\ main = "app" /\ appOut = "idle" /\ ~threw
    BY <1>2 DEF AppWrites
  <2>2. CASE hasResponseStarted
    <3>1. Deliver(c) /\ writeBody # "none"
      BY <1>0, <1>2, <2>1, <2>2 DEF AppWrites, StartInv
    <3> QED BY <1>0, <2>1, <3>1, DeliverKeeps
  <2>3. CASE ~hasResponseStarted
    BY <1>0, <1>2, <2>1, <2>3, OutputUntouched DEF AppWrites
  <2> QED BY <2>2, <2>3
<1>3. CASE AppHasRoom \/ AppStarts \/ AppSetsHeaders \/ AppWriteCreates
  <2>1. UNCHANGED <<outPipe, writing, produced, sent, writeBody, main>>
    BY <1>3 DEF AppHasRoom, AppStarts, AppSetsHeaders, AppWriteCreates, writeVars
  <2> QED BY <1>0, <2>1, OutputUntouched
<1>4. CASE AppIssues
  <2>1. /\ UNCHANGED <<writing, sent, main>> /\ main = "app" /\ writeBody = "none"
        /\ call \in {"write", "flush"}
    BY <1>0, <1>4 DEF AppIssues, StartInv, StartingWriter, Places
  <2>2. \/ Deliver(call) /\ writeBody' = "read"
        \/ UNCHANGED <<writeBody, produced, outPipe>>
    BY <1>4 DEF AppIssues, StartWriteBody
  <2> QED BY <1>0, <2>1, <2>2, DeliverKeeps, OutputUntouched
<1>5. CASE AppHeadersFlushed
  <2>1. /\ UNCHANGED <<writing, sent, main>> /\ main = "app" /\ writeBody = "none"
        /\ call \in {"write", "flush"}
    BY <1>0, <1>5 DEF AppHeadersFlushed, StartInv, StartingWriter, Places
  <2>2. \/ Deliver(call) /\ writeBody' = "read"
        \/ UNCHANGED <<writeBody, produced, outPipe>>
    BY <1>5 DEF AppHeadersFlushed, StartWriteBody
  <2> QED BY <1>0, <2>1, <2>2, DeliverKeeps, OutputUntouched
<1>6. CASE WriteBodyReads
  <2>1. /\ writeBody = "read" /\ UNCHANGED <<main, produced, sent>>
        /\ writing' = [bytes |-> outPipe.buf, completed |-> outPipe.writer = "completed"]
        /\ outPipe' = [outPipe EXCEPT !.cancel = FALSE]
    BY <1>6 DEF WriteBodyReads, appVars
  <2>2. /\ outPipe' \in OutputPipe /\ outPipe'.buf = outPipe.buf
        /\ outPipe'.writer = outPipe.writer /\ outPipe'.reader = outPipe.reader
    BY <1>0, <2>1, OutputPipeGives
  <2>3. /\ writing' \in ReadResult /\ writing'.bytes = outPipe.buf
        /\ writing'.completed = (outPipe.writer = "completed")
    BY <1>0, <2>1 DEF ReadResult
  <2>4. \/ writeBody' = "write"
        \/ writeBody' \in {"advance", "flush"} /\ outPipe.buf = 0
    BY <1>0, <1>6 DEF WriteBodyReads
  <2>5. outPipe.reader = "open" /\ sent + outPipe.buf = produced
    BY <1>0, <2>1 DEF OutputInv, Written
  <2>6. outPipe'.reader = "open" => sent' + outPipe'.buf = produced' + Written'
    BY <1>0, <2>1, <2>2, <2>3, <2>4, <2>5 DEF Written
  <2>7. /\ writing'.bytes = outPipe'.buf
        /\ writing'.completed => outPipe'.writer = "completed"
    BY <2>2, <2>3
  <2>8. writeBody # "done" /\ writeBody' \notin {"none", "done"} /\ outPipe'.reader = "open"
    BY <2>1, <2>2, <2>4, <2>5
  <2>9. outPipe'.writer = "completed" => main' \in Closing
    BY <1>0, <2>1, <2>2 DEF OutputInv
  <2> QED BY <1>0, <2>1, <2>2, <2>3, <2>6, <2>7, <2>8, <2>9 DEF OutputInv
<1>7. ASSUME NEW k \in {"write", "flush"}, WriteBodyCalls(k) PROVE OutputInv'
  <2>1. /\ UNCHANGED <<outPipe, writing, produced, sent, main>> /\ writeBody = k
        /\ writeBody' = IF k = "write" THEN "awaitWrite" ELSE "awaitFlush"
    BY <1>7 DEF WriteBodyCalls, Awaiting, appVars
  <2>2. Written' = Written /\ Working' = Working
    BY <2>1 DEF Written, Working
  <2> QED BY <1>0, <2>1, <2>2 DEF OutputInv
<1>8. ASSUME NEW k \in {"write", "flush"}, WriteBodyGets(k) PROVE OutputInv'
  <2>1. /\ Take(Writer) /\ UNCHANGED <<writing, produced, main>>
        /\ writeBody = IF k = "write" THEN "awaitWrite" ELSE "awaitFlush"
    BY <1>8 DEF WriteBodyGets, Awaiting, appVars
  <2>2. Working /\ outPipe.reader = "open" /\ sent + outPipe.buf = produced + Written
    BY <1>0, <2>1 DEF OutputInv, Working
  <2>3. CASE answer[Writer] = Failed
    <3>1. /\ outPipe' = [outPipe EXCEPT !.buf = 0, !.reader = "failed"] /\ writeBody' = "done"
          /\ sent' = sent
      BY <1>8, <2>3, Zenon DEF WriteBodyGets, CloseOutput
    <3>2. /\ outPipe' \in OutputPipe /\ outPipe'.writer = outPipe.writer
          /\ outPipe'.reader = "failed"
      BY <1>0, <3>1, OutputPipeGives
    <3> QED BY <1>0, <2>1, <3>1, <3>2 DEF OutputInv, Working
  <2>4. CASE answer[Writer] # Failed /\ k = "write"
    <3>1. /\ outPipe' = outPipe /\ writeBody' \in {"flush", "advance"}
          /\ sent' = IF answer[Writer] = Aborted THEN sent ELSE sent + writing.bytes
      BY <1>8, <2>4, Zenon DEF WriteBodyGets
    <3>2. op[Writer] = "write"
      <4>1. ~Flushing
        BY <1>0, <2>1, <2>4 DEF Flushing, StartInv, StartingWriter
      <4> QED BY <1>0, <2>1, <2>4, <4>1 DEF CallerInv
    <3>3. answer[Writer] # Aborted
      BY <1>0, <3>2 DEF EngineInv
    <3>4. Written = 0 /\ Written' = writing.bytes /\ Working'
      BY <2>1, <2>4, <3>1 DEF Written, Working
    <3> QED BY <1>0, <2>1, <2>2, <3>1, <3>3, <3>4 DEF OutputInv
  <2>5. CASE answer[Writer] # Failed /\ k # "write"
    <3>1. UNCHANGED <<outPipe, sent>> /\ writeBody' = "advance"
      BY <1>8, <2>5, Zenon DEF WriteBodyGets
    <3>2. Written' = Written /\ Working'
      BY <2>1, <2>5, <3>1 DEF Written, Working
    <3> QED BY <1>0, <2>1, <2>2, <3>1, <3>2 DEF OutputInv
  <2> QED BY <2>3, <2>4, <2>5
<1>9. CASE WriteBodyAdvances
  <2>1. /\ writeBody = "advance" /\ UNCHANGED <<writing, produced, sent, main>>
    BY <1>9 DEF WriteBodyAdvances, appVars
  <2>2. /\ outPipe.reader = "open" /\ sent + outPipe.buf = produced + writing.bytes
        /\ writing.bytes <= outPipe.buf
        /\ writing.completed => outPipe.writer = "completed" /\ writing.bytes = outPipe.buf
    BY <1>0, <2>1 DEF OutputInv, Working, Written
  <2>3. CASE writing.completed
    <3>1. /\ outPipe' = [outPipe EXCEPT !.buf = 0, !.reader = "completed"]
          /\ writeBody' = "done"
      BY <1>9, <2>3 DEF WriteBodyAdvances, CloseOutput
    <3>2. /\ outPipe' \in OutputPipe /\ outPipe'.writer = outPipe.writer
          /\ outPipe'.reader = "completed"
      BY <1>0, <3>1, OutputPipeGives
    <3>3. sent = produced
      BY <1>0, <2>2, <2>3
    <3> QED BY <1>0, <2>1, <2>2, <2>3, <3>1, <3>2, <3>3 DEF OutputInv, Working
  <2>4. CASE ~writing.completed
    <3>1. /\ outPipe' = [outPipe EXCEPT !.buf = outPipe.buf - writing.bytes]
          /\ writeBody' = "read"
      BY <1>9, <2>4 DEF WriteBodyAdvances
    <3>2. outPipe.buf - writing.bytes \in Nat
      BY <1>0, <2>2
    <3>3. /\ outPipe' \in OutputPipe /\ outPipe'.writer = outPipe.writer
          /\ outPipe'.reader = outPipe.reader /\ outPipe'.buf = outPipe.buf - writing.bytes
      BY <1>0, <3>1, <3>2, OutputPipeGives
    <3>4. sent + outPipe'.buf = produced + 0
      BY <1>0, <2>2, <3>3
    <3> QED BY <1>0, <2>1, <2>2, <3>1, <3>3, <3>4 DEF OutputInv, Working, Written
  <2> QED BY <2>3, <2>4
<1>10. CASE RunCallbacks \/ ProduceEnd \/ DisposeIO \/ CompleteRequest \/ IISFinishes \/ IISFinishesLost \/ Ended
  <2>1. /\ UNCHANGED <<outPipe, writing, produced, sent, writeBody>>
        /\ main \in Closing => main' \in Closing
    BY <1>10 DEF RunCallbacks, ProduceEnd, DisposeIO, CompleteRequest, IISFinishes, IISFinishesLost, Ended,
       vars, appVars, writeVars, Closing
  <2> QED BY <1>0, <2>1, OutputUntouched
<1>11. CASE ProduceEndAwaited
  <2>1. main = "flushing" /\ main' \in {"crashed", "complete"} /\ UNCHANGED <<writing, produced, sent>>
    BY <1>11 DEF ProduceEndAwaited, appVars
  <2>2. CASE UNCHANGED <<outPipe, writeBody>>
    BY <1>0, <2>1, <2>2, OutputUntouched DEF Closing
  <2>3. CASE writeBody' = "read" /\ outPipe' = [outPipe EXCEPT !.cancel = TRUE]
    <3>1. /\ outPipe' \in OutputPipe /\ outPipe'.buf = outPipe.buf
          /\ outPipe'.writer = outPipe.writer /\ outPipe'.reader = outPipe.reader
      BY <1>0, <2>3, OutputPipeGives
    <3>2. writeBody = "none" /\ outPipe.writer = "open" /\ outPipe.reader = "open" /\ Written = 0
      BY <1>0, <2>1 DEF StartInv, OutputInv, OutputPipe, Closing, Written
    <3>3. Written' = 0 /\ ~Working'
      BY <2>3 DEF Written, Working
    <3> QED BY <1>0, <2>1, <2>3, <3>1, <3>2, <3>3 DEF OutputInv
  <2> QED BY <1>11, <2>2, <2>3 DEF ProduceEndAwaited, StartWriteBody
<1>12. CASE CompletePipes
  <2>1. /\ UNCHANGED <<writing, produced, sent, writeBody>> /\ main' \in Closing
        /\ outPipe' = [outPipe EXCEPT !.writer = "completed"]
    BY <1>12 DEF CompletePipes, appVars, Closing
  <2>2. /\ outPipe' \in OutputPipe /\ outPipe'.buf = outPipe.buf
        /\ outPipe'.writer = "completed" /\ outPipe'.reader = outPipe.reader
    BY <1>0, <2>1, OutputPipeGives
  <2>3. Working' = Working /\ Written' = Written
    BY <2>1 DEF Working, Written
  <2> QED BY <1>0, <2>1, <2>2, <2>3 DEF OutputInv
<1> QED BY <1>1, <1>2, <1>3, <1>4, <1>5, <1>6, <1>7, <1>8, <1>9, <1>10, <1>11, <1>12
        DEF ContextNext, AppOutNext, WriteBodyNext, MainNext

-----------------------------------------------------------------------------
(* The engine of the request.                                              *)

LEMMA CreatedKept == ContextInv /\ Followed /\ ContextNext => CreatedInv'
<1> SUFFICES ASSUME ContextInv, main # "astray", ContextNext PROVE CreatedInv'
  BY DEF Followed
<1>0. CreatedInv /\ StartInv /\ Places /\ Reader \in Clients /\ Writer \in Clients
  BY ContextAssumption DEF ContextInv, StartInv
<1> USE DEF CreatedInv, ReaderHasNoEngine, WriterHasNoEngine
<1>1. CASE AppReads
  <2>1. /\ UNCHANGED <<main, appOut, writeBody, asyncIO, hasResponseStarted>>
        /\ hasRequestReadingStarted' = TRUE
        /\ \/ readBody' = readBody /\ appIn' = "reading" /\ hasRequestReadingStarted
           \/ readBody' = readBody /\ appIn' = "creating" /\ ~hasRequestReadingStarted
           \/ asyncIO # 0 /\ appIn' = "reading"
    BY <1>0, <1>1 DEF AppReads, FindsNone, writeVars, Places
  <2> QED BY <1>0, <2>1
<1>2. ASSUME NEW c \in {"write", "flush"}, AppWrites(c) PROVE CreatedInv'
  BY <1>0, <1>2 DEF AppWrites, readVars, startVars
<1>3. CASE AppReadsCreates
  BY <1>0, <1>3 DEF AppReadsCreates, CreateEngine, StartInv
<1>4. CASE AppReadReturns
  <2>1. /\ UNCHANGED <<main, appOut, readBody, writeBody, startVars>> /\ appIn' = "idle"
    BY <1>4 DEF AppReadReturns, writeVars
  <2> QED BY <1>0, <2>1 DEF startVars
<1>5. CASE AppHasRoom \/ AppStarts \/ AppSetsHeaders
  BY <1>0, <1>5
      DEF AppHasRoom, AppStarts, AppSetsHeaders, FindsNone, readVars, writeVars, startVars,
          StartInv, StartingWriter
<1>6. CASE AppWriteCreates
  BY <1>0, <1>6 DEF AppWriteCreates, CreateEngine, readVars, writeVars, StartInv, StartingWriter
<1>7. CASE AppIssues \/ AppHeadersFlushed
  <2>1. /\ UNCHANGED <<main, appIn, readBody, asyncIO, hasResponseStarted, hasRequestReadingStarted>>
        /\ appOut \in {"issuing", "flushing"} /\ appOut' \in {"idle", "flushing", "room"}
    BY <1>7 DEF AppIssues, AppHeadersFlushed, readVars, startVars
  <2> QED BY <1>0, <2>1 DEF StartInv, StartingWriter
<1>8. CASE ReadBodyNext
  <2>1. /\ UNCHANGED <<main, appIn, appOut, writeBody, asyncIO, hasResponseStarted,
                       hasRequestReadingStarted>>
        /\ readBody # "none"
    BY <1>8 DEF ReadBodyNext, ReadBodyReads, ReadBodyRefused, ReadBodyGets, ReadBodyFlushes,
       appVars, writeVars, startVars
  <2> QED BY <1>0, <2>1
<1>9. CASE WriteBodyNext
  <2>1. /\ UNCHANGED <<main, appIn, appOut, readBody, asyncIO, hasResponseStarted,
                       hasRequestReadingStarted>>
        /\ writeBody # "none"
    BY <1>9 DEF WriteBodyNext, WriteBodyReads, WriteBodyCalls, WriteBodyGets, WriteBodyAdvances,
       Awaiting, appVars, readVars, startVars
  <2> QED BY <1>0, <2>1
<1>10. CASE AppReturns \/ RunCallbacks \/ CompletePipes \/ DisposeIO \/ CompleteRequest \/ IISFinishes \/ IISFinishesLost \/ Ended
  <2>1. /\ UNCHANGED <<appIn, appOut, readBody, writeBody, asyncIO, hasResponseStarted,
                       hasRequestReadingStarted>>
        /\ main' = "flushing" => main = "flushing"
    BY <1>10
        DEF AppReturns, RunCallbacks, CompletePipes, DisposeIO, CompleteRequest,
            IISFinishes, IISFinishesLost,
       Ended, vars, appVars, readVars, writeVars, startVars
  <2> QED BY <1>0, <2>1
<1>11. CASE ProduceEnd
  <2>1. /\ UNCHANGED <<appIn, appOut, readBody, writeBody, hasRequestReadingStarted>>
        /\ main = "end" /\ main' \in {"complete", "crashed", "flushing"} /\ hasResponseStarted' = TRUE
        /\ \/ UNCHANGED <<asyncIO>> /\ main' # "flushing"
           \/ /\ asyncIO' = IF asyncIO = 0 THEN 1 ELSE asyncIO
    BY <1>11 DEF ProduceEnd, appVars, readVars, writeVars
  <2>2. appIn = "idle" /\ appOut = "idle"
    BY <1>0, <2>1 DEF StartInv
  <2> QED BY <1>0, <2>1, <2>2
<1>12. CASE ProduceEndAwaited
  <2>1. /\ UNCHANGED <<appIn, appOut, readBody, asyncIO, hasResponseStarted,
                       hasRequestReadingStarted>>
        /\ main = "flushing" /\ main' # "flushing"
    BY <1>12 DEF ProduceEndAwaited, appVars, readVars, startVars
  <2> QED BY <1>0, <2>1
<1> QED BY <1>1, <1>2, <1>3, <1>4, <1>5, <1>6, <1>7, <1>8, <1>9, <1>10, <1>11, <1>12
        DEF ContextNext, AppInNext, AppOutNext, MainNext

(* Who finds AsyncIO null while the other thread does, races.              *)
LEMMA RaceKept == ContextInv /\ Followed /\ ContextNext => RaceInv'
<1> SUFFICES ASSUME ContextInv, main # "astray", ContextNext PROVE RaceInv'
  BY DEF Followed
<1>0. /\ RaceInv /\ CreatedInv /\ StartInv /\ Places /\ EngineInv /\ CallerInv
      /\ Reader \in Clients /\ Writer \in Clients /\ Clients = {Reader, Writer}
  BY ContextAssumption DEF ContextInv, StartInv
<1> USE DEF RaceInv
<1>1. CASE AppReads
  <2>1. CASE hasRequestReadingStarted
    BY <1>0, <1>1, <2>1 DEF AppReads
  <2>2. CASE ~hasRequestReadingStarted
    BY <1>0, <1>1, <2>2 DEF AppReads, Races, FindsNone
  <2> QED BY <2>1, <2>2
<1>2. CASE AppSetsHeaders
  BY <1>0, <1>2 DEF AppSetsHeaders, Races, FindsNone
<1>3. CASE AppReadsCreates \/ AppWriteCreates
  <2>1. asyncIO = 0 => first = Nobody
    BY <1>0 DEF CreatedInv, EngineInv, CallerInv, Flushing, StartInv
  <2>2. asyncIO \in 0..1
    BY <1>0, <1>3 DEF CreatedInv, ReaderHasNoEngine, WriterHasNoEngine, AppReadsCreates,
       AppWriteCreates
  <2>3. /\ asyncIO' = asyncIO + 1 /\ raced' = raced
        /\ lost' = IF first # Nobody THEN first ELSE lost
        /\ asyncIO = 1 => raced
        /\ appIn' = "creating" \/ appOut' = "creating" => appIn = "creating" /\ appOut = "creating"
        /\ ~(appIn' = "creating" /\ appOut' = "creating")
    BY <1>0, <1>3, <2>2 DEF AppReadsCreates, AppWriteCreates, CreateEngine, StartInv, Places
  <2> QED BY <1>0, <2>1, <2>2, <2>3
<1>4. CASE ProduceEnd
  <2>1. /\ appIn = "idle" /\ appOut = "idle"
        /\ UNCHANGED <<appIn, appOut, lost, raced>>
        /\ asyncIO' \in {asyncIO, 1} /\ (asyncIO' # asyncIO => asyncIO = 0)
    BY <1>0, <1>4 DEF ProduceEnd, StartInv, appVars
  <2> QED BY <1>0, <2>1
<1>5. CASE AppReadReturns \/ AppHasRoom \/ AppStarts \/ AppIssues \/ AppHeadersFlushed
           \/ (\E c \in {"write", "flush"} : AppWrites(c)) \/ AppReturns
  <2>1. /\ UNCHANGED <<asyncIO, lost, raced>>
        /\ appIn' \in {appIn, "idle"}
        /\ appOut' \in {appOut, "idle", "room", "starting", "headers", "flushing"}
    BY <1>5 DEF AppReadReturns, AppHasRoom, AppStarts, AppIssues, AppHeadersFlushed, AppWrites,
       AppReturns, startVars, appVars
  <2> QED BY <1>0, <2>1
<1>6. CASE \/ ReadBodyNext \/ WriteBodyNext \/ RunCallbacks \/ ProduceEndAwaited \/ CompletePipes
           \/ DisposeIO \/ CompleteRequest \/ IISFinishes \/ IISFinishesLost \/ Ended
  <2>1. UNCHANGED <<asyncIO, lost, raced, appIn, appOut>>
    BY <1>6 DEF ReadBodyNext, ReadBodyReads, ReadBodyRefused, ReadBodyGets, ReadBodyFlushes,
       WriteBodyNext, WriteBodyReads, WriteBodyCalls, WriteBodyGets, WriteBodyAdvances,
       RunCallbacks, ProduceEndAwaited, CompletePipes, DisposeIO, CompleteRequest, IISFinishes,
       IISFinishesLost, Ended, vars, appVars, startVars
  <2> QED BY <1>0, <2>1
<1> QED BY <1>1, <1>2, <1>3, <1>4, <1>5, <1>6
        DEF ContextNext, AppInNext, AppOutNext, MainNext

-----------------------------------------------------------------------------
(* Every step of the application, of the two pumps, of ProcessRequestAsync *)
(* and of IIS keeps the inductive invariant.                               *)
THEOREM ContextInvHolds == ContextSpec => []ContextInv
<1>1. ContextInv /\ [ContextNext]_vars => ContextInv'
  <2> SUFFICES ASSUME ContextInv, [ContextNext]_vars PROVE ContextInv'
    OBVIOUS
  <2>1. CASE Followed /\ ContextNext
    <3> QED BY <2>1, StartKept, CallsKept, InputKept, OutputKept, CreatedKept, RaceKept
            DEF ContextInv
  <2>2. CASE UNCHANGED vars
    <3> USE <2>2 DEF vars, ioVars, appVars, readVars, writeVars, startVars
    <3>1. EngineInv' /\ CallerInv'
      BY CallsUntouched DEF ContextInv, Flushing
    <3>2. StartInv'
      BY DEF ContextInv, StartInv, Places
    <3>3. InputInv' /\ OutputInv'
      BY InputUntouched, OutputUntouched DEF ContextInv
    <3>4. CreatedInv'
      BY DEF ContextInv, CreatedInv, ReaderHasNoEngine, WriterHasNoEngine
    <3>5. RaceInv'
      BY DEF ContextInv, RaceInv
    <3> QED BY <3>1, <3>2, <3>3, <3>4, <3>5 DEF ContextInv
  <2>3. ContextNext /\ ~Followed => UNCHANGED vars
    BY DEF ContextNext, Ended
  <2> QED BY <2>1, <2>2, <2>3
<1> QED BY <1>1, Initially, PTL DEF ContextSpec

(* Nothing of the request outlives its completion: when the completion is  *)
(* posted, IIS has no call of the request, both pumps have ended and no    *)
(* answer waits to be taken.                                               *)
THEOREM Quiet == ContextSpec => [](ContextTypeOK /\ QuietWhenPosted)
<1>1. ContextInv => ContextTypeOK
  BY DEF ContextInv, ContextTypeOK, EngineInv, StartInv, Places, CreatedInv, RaceInv, InputInv,
     OutputInv, InputPipe, OutputPipe
<1>2. ContextInv => QuietWhenPosted
  <2> SUFFICES ASSUME ContextInv, main = "posted" PROVE QuietWhenPosted
    BY DEF QuietWhenPosted
  <2>0. EngineInv /\ CallerInv /\ StartInv
    BY DEF ContextInv
  <2>1. readBody \in {"none", "done"} /\ writeBody \in {"none", "done"} /\ ~Flushing
    BY <2>0 DEF StartInv, Flushing
  <2>2. \A c \in Clients : op[c] = "none"
    BY <2>0, <2>1, ContextAssumption DEF CallerInv
  <2>3. first = Nobody /\ lost = Nobody
    BY <2>0, <2>2 DEF EngineInv
  <2> QED BY <2>1, <2>2, <2>3 DEF QuietWhenPosted
<1> QED BY <1>1, <1>2, ContextInvHolds, PTL

(* A call is lost to an engine that AsyncIO does not name only when the    *)
(* application's two threads found AsyncIO null at once; it is one call,   *)
(* and nobody answers it; and a request that has one is not handed back.   *)
THEOREM ContextSafeHolds == ContextSpec => []ContextSafe
<1>1. ContextInv => CompletionsReachTheirEngine
  BY DEF ContextInv, EngineInv, RaceInv, CompletionsReachTheirEngine
<1> QED BY <1>1, ContextInvHolds, Quiet, PTL DEF ContextSafe

(* Unless a write has failed, the response is complete when the completion *)
(* of the request is posted, whatever was aborted or cancelled before.     *)
THEOREM ResponseCompleteHolds == ContextSpec => []ResponseComplete
<1>1. ContextInv => ResponseComplete
  <2> SUFFICES ASSUME ContextInv, main = "posted", outPipe.reader # "failed" PROVE sent = produced
    BY DEF ResponseComplete
  <2>1. writeBody \in {"none", "done"}
    BY DEF ContextInv, StartInv
  <2>2. outPipe.reader \in {"open", "completed"}
    BY DEF ContextInv, OutputInv, OutputPipe
  <2> QED BY <2>1, <2>2 DEF ContextInv, OutputInv
<1> QED BY <1>1, ContextInvHolds, PTL

(* The application reads the end of the body only if IIS reported it and   *)
(* has then received every byte; a read that was cancelled to make room    *)
(* for a write is not taken for the end.                                   *)
THEOREM EndIsTheEndHolds == ContextSpec => []EndIsTheEnd
<1>1. ContextInv => EndIsTheEnd
  <2> SUFFICES ASSUME ContextInv, sawEnd PROVE bodyEnd /\ consumed = received
    BY DEF EndIsTheEnd
  <2> QED BY DEF ContextInv, InputInv
<1> QED BY <1>1, ContextInvHolds, PTL

=============================================================================
