------------------------------ MODULE Harness ------------------------------
(***************************************************************************)
(* The query pool and who feeds it: a file, which may hold any lines, or   *)
(* the test harness of project1 (harness.cpp), which is joined to the pool *)
(* by two pipes.  The harness writes the lines of a batch as the pipe      *)
(* takes them, reads the results as they come, and goes on to the next     *)
(* batch when all results of this one are there and are right.             *)
(***************************************************************************)
EXTENDS QueryPool, FiniteSets

VARIABLES
    fed,        \* who feeds the pool
    workload,   \* the lines of the workload that are F
    harness,    \* where the harness is
    batchEnd,   \* the last line of the batch, or 0 before the first
    written,    \* lines written into the pipe
    flushed,    \* results that have left the buffer of cout
    received,   \* results read by the harness
    failed      \* failure_cnt is not 0

pipes == <<batchEnd, written, received>>
harnessVars == <<fed, workload, harness, pipes, flushed, failed>>
allVars == <<vars, harnessVars>>

\* The queries among the first n lines, which are the results to come for them.
results(n) == n - Cardinality({f \in workload : f <= n})

\* Lines after the last F are in no batch.
HInit ==
    /\ Init
    /\ fed \in {"file", "harness"}
    /\ workload \in IF fed = "harness" THEN SUBSET (1..MaxLines) ELSE {{}}
    /\ harness = IF fed = "harness" THEN "next" ELSE "ended"
    /\ batchEnd = 0 /\ written = 0
    /\ flushed = 0 /\ received = 0
    /\ failed = FALSE

-----------------------------------------------------------------------------
\* The next batch, if there is one; the end of the harness closes its pipes.
NextBatch ==
    /\ harness = "next"
    /\ LET ends == {f \in workload : f > batchEnd}
       IN  IF ends = {}
             THEN harness' = "ended" /\ UNCHANGED batchEnd
             ELSE /\ batchEnd' = CHOOSE f \in ends : \A g \in ends : f <= g
                  /\ harness' = "batch"
    /\ UNCHANGED <<vars, fed, workload, written, flushed, received, failed>>

\* The pipe takes some of the rest of the batch.
Feed ==
    /\ harness = "batch"
    /\ written < batchEnd
    /\ written' \in (written + 1)..batchEnd
    /\ UNCHANGED <<vars, fed, workload, harness, batchEnd, flushed, received, failed>>

\* Some of the results that are there are read.
Receive ==
    /\ harness = "batch"
    /\ received < results(batchEnd)
    /\ received' \in (received + 1)..flushed
    /\ UNCHANGED <<vars, fed, workload, harness, batchEnd, written, flushed, failed>>

\* All is written and read: one result that does not match is a failure.  (The
\* harness gives up after 100 of them, more than there are queries here.)
Compare ==
    /\ harness = "batch"
    /\ written = batchEnd
    /\ received >= results(batchEnd)
    /\ failed' = (failed \/ \E n \in 1..results(batchEnd) : output[n] # n)
    /\ harness' = "next"
    /\ UNCHANGED <<vars, fed, workload, pipes, flushed>>

harnessStep == NextBatch \/ Feed \/ Receive \/ Compare

-----------------------------------------------------------------------------
\* main's getline returns a line when one is in the pipe, and fails when there
\* is none and the pipe is closed.
arrives(isF) == fed = "file" \/ (lines < written /\ isF = (lines + 1 \in workload))
closed == fed = "file" \/ (lines = written /\ harness = "ended")

\* cin is tied to cout, so results wait in the buffer until main asks for the
\* next line - or until the buffer is full.
delivered ==
    IF main' = "read" THEN flushed' = Len(output')
    ELSE flushed' \in IF output' = output THEN {flushed} ELSE {flushed, Len(output')}

poolMain ==
    /\ \/ ReadF /\ arrives(TRUE)
       \/ ReadQuery /\ arrives(FALSE)
       \/ EndOfInput /\ closed
       \/ main # "read" /\ mainStep
    /\ delivered
    /\ UNCHANGED <<fed, workload, harness, pipes, failed>>

poolWorker(w) == thread_func(w) /\ UNCHANGED harnessVars

HNext ==
    \/ harnessStep
    \/ poolMain
    \/ \E w \in Worker : poolWorker(w) \/ (WakeSpuriously(w) /\ UNCHANGED harnessVars)
    \/ Ended /\ UNCHANGED harnessVars

HSpec ==
    /\ HInit /\ [][HNext]_allVars
    /\ WF_allVars(harnessStep)
    /\ WF_allVars(poolMain)
    /\ \A w \in Worker : WF_allVars(poolWorker(w))

-----------------------------------------------------------------------------
\* Harness and pool never wait for each other: every batch of a workload is
\* answered, all answers match, and the harness ends with success.
HarnessSucceeds == <>((harness = "ended" /\ ~failed) \/ spurious)
=============================================================================
