---------------------------- MODULE MCBasicMetrics ----------------------------
(***************************************************************************)
(* Small instances of BasicMetrics for TLC: bytes for durations, a second   *)
(* of 10 units.  13 seconds are more than the byte holds and become -126.  *)
(***************************************************************************)
EXTENDS BasicMetrics

Every(f, b, s) == [flush |-> f, batchSample |-> b, streamSample |-> s]
Answer(stream, max, every) == [stream |-> stream, max |-> max, every |-> every]

MCDefaultPolicy == Answer(FALSE, 3, Every(60, 20, 10))
\* Both modes, figures left to the default, an overflow and too large a batch.
MCAnswers ==
  {Answer(FALSE, 2, Every(13, 2, 1)), Answer(TRUE, 9, Every(4, 2, 3)),
   Answer(TRUE, 0, Every(4, 2, 0))}
=============================================================================
