-------------------------- MODULE CommandStreamProofs --------------------------
(***************************************************************************)
(* Proofs about CommandStream, for any streams, any number of lines and    *)
(* any size of the pipes.                                                  *)
(***************************************************************************)
EXTENDS CommandStream, TLAPS

\* A reader that still reads handed on all it fetched, one that sends has lines
\* left, and one that saw the end of its pipe left nothing in it, for good.
ReadersInv ==
  \A s \in Streams :
    /\ long[s] <= written[s]
    /\ reader[s] = "reading" => sent[s] = fetched[s]
    /\ reader[s] \in {"lock", "sending"} => mode = "stream" /\ sent[s] < fetched[s]
    /\ reader[s] = "done" =>
         /\ child \in Ended /\ ~holder
         /\ fetched[s] = written[s] /\ sent[s] = written[s]

\* sendMu is held by the reader that sends.
MutexInv ==
  /\ sendMu # Free => reader[sendMu] = "sending"
  /\ \A s \in Streams : reader[s] = "sending" => sendMu = s

\* Without a process the pipes are empty.
NotStartedInv ==
  child = "none" =>
    /\ open /\ ~holder
    /\ \A s \in Streams : written[s] = 0 /\ long[s] = 0 /\ reader[s] = "reading"

\* How far the handler is, seen from the process and the readers.
MainInv ==
  /\ main = "start" => child = "none"
  /\ main = "waiting" => child # "none"
  /\ main = "collect" => child \in Ended
  /\ main = "answer" => child \in Ended /\ \A s \in Streams : reader[s] = "done"
  /\ main = "returned" =>
       \/ child = "none"
       \/ child \in Ended /\ \A s \in Streams : reader[s] \in Stopped

ResultInv ==
  outcome = "result" =>
    /\ main = "returned"
    /\ child = "ok" /\ ~killed
    /\ \A s \in Streams : reader[s] = "done"

IInv ==
  TypeOK /\ ReadersInv /\ MutexInv /\ NotStartedInv /\ MainInv /\ ResultInv

LEMMA InitIInv == Init => IInv
  <1> SUFFICES ASSUME Init PROVE IInv
    OBVIOUS
  <1>1. TypeOK
    <2>1. 0 \in 0 .. MaxLines
      BY LimitsAssumption
    <2>2. open \in BOOLEAN /\ killed \in BOOLEAN /\ holder \in BOOLEAN /\ gone \in BOOLEAN
      BY DEF Init
    <2>3. /\ written \in [Streams -> 0 .. MaxLines]
          /\ long \in [Streams -> 0 .. MaxLines]
          /\ fetched \in [Streams -> 0 .. MaxLines]
          /\ sent \in [Streams -> 0 .. MaxLines]
          /\ \A s \in Streams : sent[s] <= fetched[s] /\ fetched[s] <= written[s]
      BY <2>1 DEF Init
    <2>4. reader \in [Streams -> Stopped \cup {"reading", "lock", "sending"}]
      BY DEF Init
    <2>5. QED
      BY <2>2, <2>3, <2>4 DEF Init, TypeOK
  <1>2. ReadersInv /\ NotStartedInv
    BY DEF Init, ReadersInv, NotStartedInv
  <1>3. MutexInv
    BY DEF Init, MutexInv
  <1>4. MainInv /\ ResultInv
    BY DEF Init, MainInv, ResultInv
  <1>5. QED
    BY <1>1, <1>2, <1>3, <1>4 DEF IInv

LEMMA NextTypeOK == IInv /\ [Next]_vars => TypeOK'
  <1> SUFFICES ASSUME IInv, [Next]_vars PROVE TypeOK'
    OBVIOUS
  <1> USE DEF IInv, mainVars, childVars, readerVars, ctxVars
  <1>1. CASE Main
    <2>1. open' \in BOOLEAN /\ killed' \in BOOLEAN /\ holder' \in BOOLEAN /\ gone' \in BOOLEAN
      BY <1>1 DEF TypeOK, Main, Start, StartFails, Reap, Collect, Answer
    <2>2. main' \in {"start", "waiting", "collect", "answer", "returned"}
      BY <1>1 DEF Main, Start, StartFails, Reap, Collect, Answer, Return
    <2>3. outcome' \in {"none", "result", "error", "timeout", "rpcError"}
      <3>1. CASE Start \/ Reap \/ Collect
        BY <3>1 DEF TypeOK, Start, Reap, Collect, Return
      <3>2. CASE StartFails
        BY <3>2 DEF StartFails, Return
      <3>3. CASE Answer
        BY <3>3 DEF Answer, Return
      <3>4. QED
        BY <1>1, <3>1, <3>2, <3>3 DEF Main
    <2>4. child' \in Ended \cup {"none", "running"}
      BY <1>1 DEF TypeOK, Main, Start, StartFails, Reap, Collect, Answer
    <2>5. UNCHANGED <<mode, written, long, readerVars, ctxVars>>
      BY <1>1 DEF Main, Start, StartFails, Reap, Collect, Answer
    <2>6. QED
      BY <2>1, <2>2, <2>3, <2>4, <2>5 DEF TypeOK
  <1>2. ASSUME NEW s \in Streams, Write(s) PROVE TypeOK'
    <2>1. written[s] + 1 \in 0 .. MaxLines
      BY <1>2, LimitsAssumption DEF TypeOK, Write
    <2>2. /\ written' \in [Streams -> 0 .. MaxLines]
          /\ \A t \in Streams : fetched[t] <= written'[t]
      BY <1>2, <2>1, LimitsAssumption DEF TypeOK, Write
    <2>3. long' \in [Streams -> 0 .. MaxLines]
      BY <1>2, <2>1 DEF TypeOK, Write
    <2>4. QED
      BY <1>2, <2>2, <2>3 DEF TypeOK, Write
  <1>3. ASSUME NEW s \in Streams, Fetch(s) PROVE TypeOK'
    <2>1. PICK n \in fetched[s] + 1 .. Readable(s) : fetched' = [fetched EXCEPT ![s] = n]
      BY <1>3 DEF Fetch
    <2>2. n \in 0 .. MaxLines /\ fetched[s] < n /\ n <= written[s]
      BY <2>1, LimitsAssumption DEF TypeOK, ReadersInv, Readable
    <2>3. /\ fetched' \in [Streams -> 0 .. MaxLines]
          /\ sent' \in [Streams -> 0 .. MaxLines]
          /\ \A t \in Streams : sent'[t] <= fetched'[t] /\ fetched'[t] <= written[t]
      <3>1. CASE mode = "unary"
        BY <1>3, <2>1, <2>2, <3>1, LimitsAssumption DEF TypeOK, Fetch
      <3>2. CASE mode # "unary"
        BY <1>3, <2>1, <2>2, <3>2, LimitsAssumption DEF TypeOK, Fetch
      <3>3. QED
        BY <3>1, <3>2
    <2>4. reader' \in [Streams -> Stopped \cup {"reading", "lock", "sending"}]
      BY <1>3 DEF TypeOK, Fetch, Move
    <2>5. QED
      BY <1>3, <2>3, <2>4 DEF TypeOK, Fetch
  <1>4. ASSUME NEW s \in Streams, Send(s) PROVE TypeOK'
    <2>1. sent[s] < fetched[s]
      BY <1>4 DEF Send, ReadersInv
    <2>2. /\ sent' \in [Streams -> 0 .. MaxLines]
          /\ \A t \in Streams : sent'[t] <= fetched[t]
      BY <1>4, <2>1, LimitsAssumption DEF TypeOK, Send
    <2>3. reader' \in [Streams -> Stopped \cup {"reading", "lock", "sending"}]
      BY <1>4 DEF TypeOK, Send, Move
    <2>4. QED
      BY <1>4, <2>2, <2>3 DEF TypeOK, Send
  <1>5. ASSUME NEW s \in Streams,
               LockSend(s) \/ SendFails(s) \/ ReadTooLong(s) \/ ReadClosed(s) \/ ReadEOF(s)
        PROVE  TypeOK'
    <2>1. reader' \in [Streams -> Stopped \cup {"reading", "lock", "sending"}]
      BY <1>5 DEF TypeOK, LockSend, SendFails, ReadTooLong, ReadClosed, ReadEOF, Move, Stopped
    <2>2. QED
      BY <1>5, <2>1
      DEF TypeOK, LockSend, SendFails, ReadTooLong, ReadClosed, ReadEOF
  <1>6. CASE ChildEnds \/ HolderEnds \/ Kill \/ Expire \/ ClientGone
    <2>1. open' \in BOOLEAN /\ killed' \in BOOLEAN /\ holder' \in BOOLEAN /\ gone' \in BOOLEAN
      BY <1>6 DEF TypeOK, ChildEnds, HolderEnds, Kill, Expire, ClientGone
    <2>2. child' \in Ended \cup {"none", "running"}
      BY <1>6 DEF TypeOK, ChildEnds, HolderEnds, Kill, Expire, ClientGone, Ended
    <2>3. runCtx' \in {"live", "deadline", "canceled"}
      BY <1>6 DEF TypeOK, ChildEnds, HolderEnds, Kill, Expire, ClientGone
    <2>4. UNCHANGED <<mainVars, written, long, readerVars>>
      BY <1>6 DEF ChildEnds, HolderEnds, Kill, Expire, ClientGone
    <2>5. QED
      BY <2>1, <2>2, <2>3, <2>4 DEF TypeOK
  <1>7. CASE UNCHANGED vars
    BY <1>7 DEF TypeOK, vars
  <1>8. QED
    BY <1>1, <1>2, <1>3, <1>4, <1>5, <1>6, <1>7 DEF Next, Reader

LEMMA NextReadersInv == IInv /\ [Next]_vars => ReadersInv'
  <1> SUFFICES ASSUME IInv, [Next]_vars, NEW t \in Streams
      PROVE  /\ long'[t] <= written'[t]
             /\ reader'[t] = "reading" => sent'[t] = fetched'[t]
             /\ reader'[t] \in {"lock", "sending"} =>
                  mode' = "stream" /\ sent'[t] < fetched'[t]
             /\ reader'[t] = "done" =>
                  /\ child' \in Ended /\ ~holder'
                  /\ fetched'[t] = written'[t] /\ sent'[t] = written'[t]
    BY DEF ReadersInv
  <1> USE DEF IInv, mainVars, childVars, readerVars, ctxVars
  <1>1. CASE Main
    <2>1. UNCHANGED <<mode, holder, written, long, readerVars>>
      BY <1>1 DEF Main, Start, StartFails, Reap, Collect, Answer
    <2>2. child \in Ended => child' = child
      BY <1>1 DEF Main, Start, StartFails, Reap, Collect, Answer, MainInv, Ended
    <2>3. QED
      BY <2>1, <2>2 DEF ReadersInv
  <1>2. ASSUME NEW s \in Streams, Write(s)
        PROVE  ReadersInv'
    <2>1. reader[s] # "done"
      BY <1>2 DEF Write, Writers, ReadersInv, Ended
    <2>2. QED
      BY <1>2, <2>1 DEF Write, ReadersInv, TypeOK
  <1>3. ASSUME NEW s \in Streams, Fetch(s)
        PROVE  ReadersInv'
    <2>1. PICK n \in fetched[s] + 1 .. Readable(s) : fetched' = [fetched EXCEPT ![s] = n]
      BY <1>3 DEF Fetch
    <2>2. fetched[s] < n /\ reader[s] = "reading"
      BY <1>3, <2>1, LimitsAssumption DEF TypeOK, Readable, Fetch
    <2>3. CASE mode = "unary"
      <3>1. sent' = fetched' /\ UNCHANGED <<mode, reader, long, written, child, holder>>
        BY <1>3, <2>3 DEF Fetch
      <3>2. \A u \in Streams \ {s} : fetched'[u] = fetched[u]
        BY <2>1 DEF TypeOK
      <3>3. QED
        BY <2>2, <2>3, <3>1, <3>2 DEF ReadersInv
    <2>4. CASE mode # "unary"
      BY <1>3, <2>1, <2>2, <2>4 DEF Fetch, ReadersInv, TypeOK, Move
    <2>5. QED
      BY <2>3, <2>4
  <1>4. ASSUME NEW s \in Streams, Send(s)
        PROVE  ReadersInv'
    BY <1>4 DEF Send, ReadersInv, TypeOK, Move
  <1>5. ASSUME NEW s \in Streams, LockSend(s) \/ SendFails(s) \/ ReadTooLong(s) \/ ReadClosed(s)
        PROVE  ReadersInv'
    BY <1>5 DEF LockSend, SendFails, ReadTooLong, ReadClosed, ReadersInv, TypeOK, Move
  <1>6. ASSUME NEW s \in Streams, ReadEOF(s)
        PROVE  ReadersInv'
    BY <1>6 DEF ReadEOF, ReadersInv, TypeOK, Move
  <1>7. CASE ChildEnds \/ HolderEnds \/ Kill
    BY <1>7 DEF ChildEnds, HolderEnds, Kill, ReadersInv, Ended
  <1>8. CASE Expire \/ ClientGone \/ UNCHANGED vars
    BY <1>8 DEF Expire, ClientGone, vars, ReadersInv
  <1>9. QED
    BY <1>1, <1>2, <1>3, <1>4, <1>5, <1>6, <1>7, <1>8 DEF Next, Reader, ReadersInv

LEMMA NextMutexInv == IInv /\ [Next]_vars => MutexInv'
  <1> SUFFICES ASSUME IInv, [Next]_vars PROVE MutexInv'
    OBVIOUS
  <1> USE DEF IInv, mainVars, childVars, readerVars, ctxVars
  <1>1. CASE UNCHANGED <<reader, sendMu>>
    BY <1>1 DEF MutexInv
  <1>2. ASSUME NEW s \in Streams, LockSend(s) PROVE MutexInv'
    BY <1>2, StreamsAssumption DEF MutexInv, LockSend, Move, TypeOK
  <1>3. ASSUME NEW s \in Streams, Send(s) \/ SendFails(s) PROVE MutexInv'
    <2>1. sendMu = s /\ sendMu' = Free
      BY <1>3 DEF Send, SendFails, MutexInv
    <2>2. \A t \in Streams : reader'[t] = "sending" => t # s /\ reader[t] = "sending"
      BY <1>3 DEF Send, SendFails, Move, TypeOK
    <2>3. QED
      BY <2>1, <2>2 DEF MutexInv
  <1>4. ASSUME NEW s \in Streams,
               Fetch(s) \/ ReadTooLong(s) \/ ReadClosed(s) \/ ReadEOF(s)
        PROVE  MutexInv'
    <2>1. sendMu' = sendMu /\ reader[s] = "reading"
      BY <1>4 DEF Fetch, ReadTooLong, ReadClosed, ReadEOF
    <2>2. reader' = reader \/ \E p \in {"lock", "done", "failed"} : Move(s, p)
      BY <1>4 DEF Fetch, ReadTooLong, ReadClosed, ReadEOF
    <2>3. QED
      BY <2>1, <2>2 DEF MutexInv, Move, TypeOK
  <1>5. QED
    <2>1. ASSUME NEW s \in Streams, Write(s) PROVE UNCHANGED <<reader, sendMu>>
      BY <2>1 DEF Write
    <2>2. CASE Main
      BY <1>1, <2>2 DEF Main, Start, StartFails, Reap, Collect, Answer
    <2>3. CASE ChildEnds \/ HolderEnds \/ Kill \/ Expire \/ ClientGone \/ UNCHANGED vars
      BY <1>1, <2>3 DEF ChildEnds, HolderEnds, Kill, Expire, ClientGone, vars
    <2>4. QED
      BY <1>1, <1>2, <1>3, <1>4, <2>1, <2>2, <2>3 DEF Next, Reader

LEMMA NextNotStartedInv == IInv /\ [Next]_vars => NotStartedInv'
  <1> SUFFICES ASSUME IInv, [Next]_vars, child' = "none"
      PROVE  /\ open' /\ ~holder'
             /\ \A t \in Streams :
                  written'[t] = 0 /\ long'[t] = 0 /\ reader'[t] = "reading"
    BY DEF NotStartedInv
  <1> USE DEF IInv, mainVars, childVars, readerVars, ctxVars
  <1>1. child = "none"
    <2>1. ASSUME child # "none" PROVE FALSE
      <3>1. ASSUME NEW s \in Streams, Write(s) \/ LockSend(s) \/ Reader(s) PROVE FALSE
        BY <2>1, <3>1
        DEF Write, LockSend, Reader, Fetch, Send, SendFails, ReadTooLong, ReadClosed, ReadEOF
      <3>2. CASE Main
        BY <2>1, <3>2 DEF Main, Start, StartFails, Reap, Collect, Answer
      <3>3. CASE ChildEnds \/ HolderEnds \/ Kill \/ Expire \/ ClientGone \/ UNCHANGED vars
        BY <2>1, <3>3 DEF ChildEnds, HolderEnds, Kill, Expire, ClientGone, vars
      <3>4. QED
        BY <3>1, <3>2, <3>3 DEF Next
    <2>2. QED
      BY <2>1
  <1>2. /\ open /\ ~holder
        /\ \A t \in Streams : written[t] = 0 /\ long[t] = 0 /\ reader[t] = "reading"
    BY <1>1 DEF NotStartedInv
  <1>3. ASSUME NEW s \in Streams, Write(s) \/ LockSend(s) \/ Reader(s) PROVE FALSE
    <2>1. fetched[s] \in 0 .. MaxLines /\ fetched[s] <= 0
      BY <1>2 DEF TypeOK
    <2>2. fetched[s] + 1 .. Readable(s) = {}
      BY <1>2, <2>1, LimitsAssumption DEF Readable
    <2>3. QED
      BY <1>1, <1>2, <1>3, <2>2
      DEF Write, Writers, LockSend, Reader, Fetch, Send, SendFails, ReadTooLong, ReadClosed,
          ReadEOF, Ended
  <1>4. UNCHANGED <<open, holder, written, long, reader>>
    <2>1. CASE Main
      BY <1>1, <2>1 DEF Main, Start, StartFails, Reap, Collect, Answer, MainInv, Ended
    <2>2. CASE ChildEnds \/ HolderEnds \/ Kill \/ Expire \/ ClientGone \/ UNCHANGED vars
      <3>1. ~ChildEnds /\ ~HolderEnds
        BY <1>1, <1>2 DEF ChildEnds, HolderEnds
      <3>2. QED
        BY <1>1, <2>2, <3>1 DEF Kill, Expire, ClientGone, vars
    <2>3. QED
      BY <1>3, <2>1, <2>2 DEF Next
  <1>5. QED
    BY <1>2, <1>4

LEMMA NextMainInv == IInv /\ [Next]_vars => MainInv'
  <1> SUFFICES ASSUME IInv, [Next]_vars PROVE MainInv'
    OBVIOUS
  <1> USE DEF IInv, mainVars, childVars, readerVars, ctxVars
  <1>1. ASSUME NEW s \in Streams, Write(s) \/ LockSend(s) \/ Reader(s) PROVE MainInv'
    <2>1. UNCHANGED <<main, child>>
      BY <1>1
      DEF Write, LockSend, Reader, Fetch, Send, SendFails, ReadTooLong, ReadClosed, ReadEOF
    <2>2. \A t \in Streams : reader[t] \in Stopped => reader'[t] = reader[t]
      BY <1>1
      DEF Write, LockSend, Reader, Fetch, Send, SendFails, ReadTooLong, ReadClosed, ReadEOF,
          Move, Stopped, TypeOK
    <2>3. \A t \in Streams : reader[t] = "done" => reader'[t] = "done"
      BY <2>2 DEF Stopped
    <2>4. \A t \in Streams : reader[t] \in Stopped => reader'[t] \in Stopped
      BY <2>2
    <2>5. QED
      BY <2>1, <2>3, <2>4 DEF MainInv
  <1>2. CASE Start \/ Reap
    BY <1>2 DEF Start, Reap, MainInv, Ended
  <1>3. CASE StartFails
    BY <1>3 DEF StartFails, Return, MainInv
  <1>4. CASE Collect
    <2>1. child \in Ended /\ \A t \in Streams : reader[t] \in Stopped
      BY <1>4 DEF Collect, AllStopped, MainInv
    <2>2. \/ main' = "returned"
          \/ main' = "answer" /\ \A t \in Streams : reader[t] # "failed"
      BY <1>4 DEF Collect, Return
    <2>3. UNCHANGED <<child, reader>>
      BY <1>4 DEF Collect
    <2>4. QED
      BY <2>1, <2>2, <2>3 DEF MainInv, Stopped
  <1>5. CASE Answer
    <2>1. main' = "returned" /\ UNCHANGED <<child, reader>>
      BY <1>5 DEF Answer, Return
    <2>2. QED
      BY <1>5, <2>1 DEF Answer, MainInv, Stopped
  <1>6. CASE ChildEnds \/ Kill
    BY <1>6 DEF ChildEnds, Kill, MainInv, Ended
  <1>7. CASE HolderEnds \/ Expire \/ ClientGone \/ UNCHANGED vars
    BY <1>7 DEF HolderEnds, Expire, ClientGone, vars, MainInv
  <1>8. QED
    BY <1>1, <1>2, <1>3, <1>4, <1>5, <1>6, <1>7 DEF Next, Main

LEMMA NextResultInv == IInv /\ [Next]_vars => ResultInv'
  <1> SUFFICES ASSUME IInv, [Next]_vars, outcome' = "result"
      PROVE  /\ main' = "returned"
             /\ child' = "ok" /\ ~killed'
             /\ \A t \in Streams : reader'[t] = "done"
    BY DEF ResultInv
  <1> USE DEF IInv, mainVars, childVars, readerVars, ctxVars
  <1>1. CASE outcome = "result"
    <2>1. /\ main = "returned" /\ child = "ok" /\ ~killed
          /\ \A t \in Streams : reader[t] = "done"
      BY <1>1 DEF ResultInv
    <2>2. ~Main /\ ~ChildEnds /\ ~Kill
      BY <2>1 DEF Main, Start, StartFails, Reap, Collect, Answer, ChildEnds, Kill
    <2>3. ASSUME NEW s \in Streams, LockSend(s) \/ Reader(s) PROVE FALSE
      BY <2>1, <2>3
      DEF LockSend, Reader, Fetch, Send, SendFails, ReadTooLong, ReadClosed, ReadEOF
    <2>4. UNCHANGED <<main, child, killed, reader>>
      BY <2>2, <2>3 DEF Next, Write, HolderEnds, Expire, ClientGone, vars
    <2>5. QED
      BY <2>1, <2>4
  <1>2. CASE outcome # "result"
    <2>1. Answer
      <3>1. outcome' # outcome
        BY <1>2
      <3>2. ASSUME NEW s \in Streams, Write(s) \/ LockSend(s) \/ Reader(s) PROVE FALSE
        BY <3>1, <3>2
        DEF Write, LockSend, Reader, Fetch, Send, SendFails, ReadTooLong, ReadClosed, ReadEOF
      <3>3. ~Start /\ ~Reap /\ ~ChildEnds /\ ~HolderEnds /\ ~Kill /\ ~Expire /\ ~ClientGone
        BY <3>1 DEF Start, Reap, ChildEnds, HolderEnds, Kill, Expire, ClientGone
      <3>4. ~StartFails /\ ~Collect
        BY <3>1 DEF StartFails, Collect, Return
      <3>5. QED
        BY <3>1, <3>2, <3>3, <3>4 DEF Next, Main, vars
    <2>2. ~WaitFails /\ main' = "returned" /\ UNCHANGED <<child, killed, reader>>
      BY <2>1 DEF Answer, Return
    <2>3. QED
      BY <2>1, <2>2 DEF Answer, WaitFails, MainInv
  <1>3. QED
    BY <1>1, <1>2

\* The invariant the theorems below follow from (RunCommandStream, lines 88 to 224).
THEOREM CommandInvariant == Spec => []IInv
  <1>1. IInv /\ [Next]_vars => IInv'
    BY NextTypeOK, NextReadersInv, NextMutexInv, NextNotStartedInv, NextMainInv,
       NextResultInv
    DEF IInv
  <1>2. QED
    BY InitIInv, <1>1, PTL DEF Spec

\* The locals of RunCommandStream keep their types, and no line is read before it is
\* written or sent before it is read (install_service.go lines 108 to 176).
THEOREM CommandTypeCorrect == Spec => []TypeOK
  <1>1. IInv => TypeOK
    BY DEF IInv
  <1>2. QED
    BY CommandInvariant, <1>1, PTL

\* A success is told only of a command that ended well by itself and all of whose
\* output was sent, whichever of cmd.Wait and the readers comes first
\* (install_service.go lines 164 to 223).
THEOREM CommandResultIsComplete == Spec => []ResultIsComplete
  <1>1. IInv => ResultIsComplete
    BY DEF IInv, ResultInv, ReadersInv, ResultIsComplete
  <1>2. QED
    BY CommandInvariant, <1>1, PTL

\* A handler that returned left no reader, no process and no lock behind
\* (install_service.go lines 183 to 191).
THEOREM CommandNothingLeftBehind == Spec => []NothingLeftBehind
  <1>1. IInv => NothingLeftBehind
    <2> SUFFICES ASSUME IInv, main = "returned"
        PROVE  /\ child # "running"
               /\ child # "none" => \A s \in Streams : reader[s] \in Stopped
               /\ sendMu = Free
      BY DEF NothingLeftBehind
    <2>1. child # "running" /\ (child # "none" => \A s \in Streams : reader[s] \in Stopped)
      BY DEF IInv, MainInv, Ended
    <2>2. \A s \in Streams : reader[s] # "sending"
      BY <2>1 DEF IInv, NotStartedInv, Stopped
    <2>3. QED
      BY <2>1, <2>2 DEF IInv, MutexInv, TypeOK
  <1>2. QED
    BY CommandInvariant, <1>1, PTL

=============================================================================
