----------------------------- MODULE CommandStream -----------------------------
(***************************************************************************)
(* RunCommandStream and RunCommand                                         *)
(* (src/internal/agent/install/install_service.go), one call of either:    *)
(* bash runs a command under runCtx, its output is read line by line by    *)
(* two goroutines that share the stream to the client (mode "stream"), or  *)
(* collected by CombinedOutput (mode "unary").                             *)
(*                                                                         *)
(* A line is its number in its stream, so a pipe is the difference of two  *)
(* counters.  In mode "stream" cmd.Wait closes the read ends of the pipes  *)
(* as soon as bash ended, whatever is still in them; in mode "unary" it    *)
(* first waits until the output was copied to its end.  Only bash is       *)
(* killed: a process it left in the background keeps the pipes open.       *)
(***************************************************************************)
EXTENDS Naturals

CONSTANTS
  Streams,    \* "stdout" and "stderr"
  Free,       \* the holder of a free sendMu
  MaxLines,   \* bound on the lines written to a stream
  PipeCap,    \* lines a pipe holds before its writer blocks
  LongLines   \* whether a line may be longer than the scanner's 4 MiB

ASSUME StreamsAssumption == Free \notin Streams
ASSUME LimitsAssumption ==
  MaxLines \in Nat /\ PipeCap \in Nat \ {0} /\ LongLines \in BOOLEAN

VARIABLES
  mode,       \* "stream" or "unary"
  main,       \* the handler: "start", "waiting" (cmd.Wait), "collect", "answer", "returned"
  outcome,    \* what the client is told: a "result", an "error" or "timeout" event,
              \* or "rpcError"
  open,       \* the read ends of the pipes are open
  child,      \* bash: "none", "running", "ok", "failed" or "killed"
  killed,     \* cmd.Cancel got through before bash was waited for
  holder,     \* a process in the background has the write ends
  written,    \* lines written to each stream
  long,       \* which line is too long, 0 for none
  reader,     \* where each reader is: "done" after the end, "failed" after an error
  fetched,    \* lines that left the pipe
  sent,       \* lines given to the client's stream, or kept for the answer
  sendMu,
  runCtx,     \* "live", "deadline" or "canceled"
  gone        \* the RPC's own ctx is done

mainVars == <<mode, main, outcome, open>>
childVars == <<child, killed, holder, written, long>>
readerVars == <<reader, fetched, sent, sendMu>>
ctxVars == <<runCtx, gone>>
vars == <<mainVars, childVars, readerVars, ctxVars>>

Ended == {"ok", "failed", "killed"}
Stopped == {"done", "failed"}
Writers == child = "running" \/ holder

Init ==
  /\ mode \in {"stream", "unary"}
  /\ main = "start"
  /\ outcome = "none"
  /\ open = TRUE
  /\ child = "none"
  /\ killed = FALSE
  /\ holder = FALSE
  /\ written = [s \in Streams |-> 0]
  /\ long = [s \in Streams |-> 0]
  /\ reader = [s \in Streams |-> "reading"]
  /\ fetched = [s \in Streams |-> 0]
  /\ sent = [s \in Streams |-> 0]
  /\ sendMu = Free
  /\ runCtx = "live"
  /\ gone = FALSE

-----------------------------------------------------------------------------
\* cmd.Start, and the two readers.
Start ==
  /\ main = "start"
  /\ runCtx = "live"
  /\ main' = "waiting"
  /\ child' = "running"
  /\ UNCHANGED <<mode, outcome, open, killed, holder, written, long, readerVars, ctxVars>>

Return(o) == main' = "returned" /\ outcome' = o

\* A pipe or the process cannot be had, or runCtx is done before.
StartFails ==
  /\ main = "start"
  /\ \/ mode = "unary" /\ Return(IF runCtx = "deadline" THEN "timeout" ELSE "error")
     \/ mode = "stream" /\ ~gone /\ Return("error")
     \/ mode = "stream" /\ gone /\ Return("rpcError")
  /\ UNCHANGED <<mode, open, childVars, readerVars, ctxVars>>

\* The command, or what it left in the background, writes a line and blocks
\* while the pipe is full.
Write(s) ==
  /\ Writers
  /\ open
  /\ written[s] < MaxLines
  /\ written[s] - fetched[s] < PipeCap
  /\ written' = [written EXCEPT ![s] = @ + 1]
  /\ \/ UNCHANGED long
     \/ /\ LongLines
        /\ mode = "stream" /\ long[s] = 0
        /\ long' = [long EXCEPT ![s] = written[s] + 1]
  /\ UNCHANGED <<mainVars, child, killed, holder, readerVars, ctxVars>>

\* bash ends by itself.
ChildEnds ==
  /\ child = "running"
  /\ child' \in {"ok", "failed"}
  /\ holder' \in BOOLEAN
  /\ UNCHANGED <<mainVars, killed, written, long, readerVars, ctxVars>>

HolderEnds ==
  /\ holder
  /\ holder' = FALSE
  /\ UNCHANGED <<mainVars, child, killed, written, long, readerVars, ctxVars>>

\* The goroutine of CommandContext kills bash once runCtx is done; bash may
\* have ended meanwhile, as long as nobody waited for it.
Kill ==
  /\ main = "waiting"
  /\ runCtx # "live" /\ ~killed
  /\ killed' = TRUE
  /\ IF child = "running"
     THEN child' = "killed" /\ holder' \in BOOLEAN
     ELSE UNCHANGED <<child, holder>>
  /\ UNCHANGED <<mainVars, written, long, readerVars, ctxVars>>

Expire ==
  /\ runCtx = "live"
  /\ runCtx' = "deadline"
  /\ UNCHANGED <<mainVars, childVars, readerVars, gone>>

\* The client cancels or disappears, or the server stops.
ClientGone ==
  /\ ~gone
  /\ gone' = TRUE
  /\ runCtx' = IF runCtx = "live" THEN "canceled" ELSE runCtx
  /\ UNCHANGED <<mainVars, childVars, readerVars>>

-----------------------------------------------------------------------------
Move(s, phase) == reader' = [reader EXCEPT ![s] = phase]

\* What the scanner can take out of the pipe: a line that is too long stops it.
Readable(s) == IF long[s] = 0 THEN written[s] ELSE long[s] - 1

\* One read of the pipe brings one or more lines, which CombinedOutput keeps ...
Fetch(s) ==
  /\ reader[s] = "reading"
  /\ open
  /\ \E n \in fetched[s] + 1 .. Readable(s) : fetched' = [fetched EXCEPT ![s] = n]
  /\ IF mode = "unary"
     THEN sent' = fetched' /\ UNCHANGED reader
     ELSE Move(s, "lock") /\ UNCHANGED sent
  /\ UNCHANGED <<mainVars, childVars, sendMu, ctxVars>>

\* ... and the reader of a stream sends one by one under sendMu.
LockSend(s) ==
  /\ reader[s] = "lock"
  /\ sendMu = Free
  /\ sendMu' = s
  /\ Move(s, "sending")
  /\ UNCHANGED <<mainVars, childVars, fetched, sent, ctxVars>>

Send(s) ==
  /\ reader[s] = "sending"
  /\ ~gone
  /\ sent' = [sent EXCEPT ![s] = @ + 1]
  /\ sendMu' = Free
  /\ Move(s, IF sent'[s] = fetched[s] THEN "reading" ELSE "lock")
  /\ UNCHANGED <<mainVars, childVars, fetched, ctxVars>>

\* The stream is gone: the lines the scanner still has are dropped.
SendFails(s) ==
  /\ reader[s] = "sending"
  /\ gone
  /\ sendMu' = Free
  /\ Move(s, "failed")
  /\ UNCHANGED <<mainVars, childVars, fetched, sent, ctxVars>>

\* bufio.ErrTooLong: nothing reads this pipe any more.
ReadTooLong(s) ==
  /\ reader[s] = "reading"
  /\ open
  /\ long[s] # 0 /\ fetched[s] = Readable(s)
  /\ Move(s, "failed")
  /\ UNCHANGED <<mainVars, childVars, fetched, sent, sendMu, ctxVars>>

\* Mutant: a reader that finds its pipe closed reports no error.
ReadClosedQuietly(s) ==
  /\ reader[s] = "reading"
  /\ ~open
  /\ Move(s, "done")
  /\ UNCHANGED <<mainVars, childVars, fetched, sent, sendMu, ctxVars>>

\* os.ErrClosed, from the pipe that cmd.Wait closed.
ReadClosed(s) ==
  /\ reader[s] = "reading"
  /\ ~open
  /\ Move(s, "failed")
  /\ UNCHANGED <<mainVars, childVars, fetched, sent, sendMu, ctxVars>>

\* io.EOF: everything was read and nobody can write.
ReadEOF(s) ==
  /\ reader[s] = "reading"
  /\ open
  /\ child \in Ended /\ ~holder /\ fetched[s] = written[s]
  /\ Move(s, "done")
  /\ UNCHANGED <<mainVars, childVars, fetched, sent, sendMu, ctxVars>>

-----------------------------------------------------------------------------
\* Mutant: the pipes stay open until everything was read.
ReapLeavingPipes ==
  /\ main = "waiting"
  /\ child \in Ended
  /\ main' = "collect"
  /\ UNCHANGED <<mode, outcome, open, childVars, readerVars, ctxVars>>

\* cmd.Wait: bash ended; the pipes of StdoutPipe and StderrPipe are closed at once.
Reap ==
  /\ main = "waiting"
  /\ child \in Ended
  /\ main' = "collect"
  /\ open' = (mode = "unary")
  /\ UNCHANGED <<mode, outcome, childVars, readerVars, ctxVars>>

WaitFails == child # "ok" \/ killed

\* Mutant: only one of the two readers is waited for.
AllStoppedOne == \E s \in Streams : reader[s] \in Stopped
AllStopped == \A s \in Streams : reader[s] \in Stopped

\* Both readers reported on streamErrCh (CombinedOutput's goroutine ended); the
\* error of one of them is the answer of the RPC.
Collect ==
  /\ main = "collect"
  /\ AllStopped
  /\ IF \E s \in Streams : reader[s] = "failed"
     THEN Return("rpcError")
     ELSE main' = "answer" /\ UNCHANGED outcome
  /\ UNCHANGED <<mode, open, childVars, readerVars, ctxVars>>

\* The result, or why there is none: whether runCtx ran out is looked up now.
Answer ==
  /\ main = "answer"
  /\ sendMu = Free
  /\ IF mode = "stream" /\ gone
     THEN Return("rpcError")
     ELSE Return(CASE ~WaitFails -> "result"
                   [] WaitFails /\ runCtx = "deadline" -> "timeout"
                   [] WaitFails /\ runCtx # "deadline" -> "error")
  /\ UNCHANGED <<mode, open, childVars, readerVars, ctxVars>>

Main == Start \/ StartFails \/ Reap \/ Collect \/ Answer

Reader(s) ==
  \/ Fetch(s) \/ Send(s) \/ SendFails(s)
  \/ ReadTooLong(s) \/ ReadClosed(s) \/ ReadEOF(s)

Next ==
  \/ Main
  \/ \E s \in Streams : Write(s) \/ LockSend(s) \/ Reader(s)
  \/ ChildEnds \/ HolderEnds
  \/ Kill \/ Expire \/ ClientGone

Spec == Init /\ [][Next]_vars

\* The deadline passes and is acted on, goroutines run, and a client reads its
\* stream or goes.  Nothing is assumed of the command or of what it left behind.
FairSpec ==
  /\ Spec
  /\ WF_vars(Main) /\ WF_vars(Kill) /\ WF_vars(Expire)
  /\ \A s \in Streams : WF_vars(Reader(s)) /\ SF_vars(LockSend(s))

-----------------------------------------------------------------------------
\* Types of the locals of RunCommandStream; lines are written, then read, then sent.
TypeOK ==
  /\ mode \in {"stream", "unary"}
  /\ main \in {"start", "waiting", "collect", "answer", "returned"}
  /\ outcome \in {"none", "result", "error", "timeout", "rpcError"}
  /\ open \in BOOLEAN /\ killed \in BOOLEAN /\ holder \in BOOLEAN /\ gone \in BOOLEAN
  /\ child \in Ended \cup {"none", "running"}
  /\ written \in [Streams -> 0 .. MaxLines]
  /\ long \in [Streams -> 0 .. MaxLines]
  /\ reader \in [Streams -> Stopped \cup {"reading", "lock", "sending"}]
  /\ fetched \in [Streams -> 0 .. MaxLines]
  /\ sent \in [Streams -> 0 .. MaxLines]
  /\ \A s \in Streams : sent[s] <= fetched[s] /\ fetched[s] <= written[s]
  /\ sendMu \in Streams \cup {Free}
  /\ runCtx \in {"live", "deadline", "canceled"}

\* A success is told only of a command that ended well by itself, and after
\* every line of both streams, although cmd.Wait may close the pipes before they
\* are read to the end: the reader that loses them turns the answer into an error.
ResultIsComplete ==
  outcome = "result" =>
    /\ child = "ok" /\ ~killed
    /\ \A s \in Streams : sent[s] = written[s]

\* When the RPC returns, it leaves nothing behind: bash ended and was waited for,
\* both readers are through and nobody holds sendMu, so no goroutine can use the
\* stream after the handler returned.
NothingLeftBehind ==
  main = "returned" =>
    /\ child # "running"
    /\ child # "none" => \A s \in Streams : reader[s] \in Stopped
    /\ sendMu = Free

\* The deadline ends a call whatever the command does: it may run for ever, block on
\* a pipe nobody reads or leave a process behind that keeps the pipes open.
\* Of RunCommand the last is excepted: CombinedOutput waits for that process.
CallEnds ==
  main = "waiting" ~> main = "returned" \/ [](mode = "unary" /\ holder)
=============================================================================
