--------------------------- MODULE JobAnswerProofs ---------------------------
(***************************************************************************)
(* Theorems about what a job of JobStore is answered with and what its     *)
(* conversion leaves behind, for every set of jobs and callers and every   *)
(* table and worker budget.  The last part shows that every step of        *)
(* JobStore is a step of ParseContract or none at all, as long as the      *)
(* operating system starts the conversion threads: a refused thread leaves *)
(* its job running for ever, outside any worker slot.                      *)
(***************************************************************************)
EXTENDS JobStoreProofs

USE DEF Callers, TERMINAL, Status, Codes, Answers, SubmitPcs, RunPcs, ConvPcs, ReqPcs, http

\* One job at a time: no step of one job's threads touches the fields, the
\* frames or the staged input of another.
Untouched(k) ==
  /\ UNCHANGED <<status[k], cancel[k], error[k], result[k]>>
  /\ UNCHANGED <<submitPc[k], runPc[k], conv[k], outcome[k]>>
  /\ k \in files' <=> k \in files

LEMMA OneJobAtATime ==
  ASSUME TypeOK, NEW j \in Jobs, NEW k \in Jobs \ {j},
         Submit(j) \/ Submitting(j) \/ Running(j) \/ Convert(j) \/ DeadlinePasses(j)
  PROVE  Untouched(k)
<1>. USE DEF TypeOK, Untouched
<1>1. CASE Submit(j) \/ Submitting(j)
  BY <1>1 DEF Submit, Submitting, EvictOne, EvictEnd, StartRun, job, threads
<1>2. CASE Acquire(j) \/ CheckCancel(j) \/ MarkRunning(j) \/ Spawn(j)
  BY <1>2 DEF Acquire, CheckCancel, MarkRunning, Spawn, Look, Write, Goto, job
<1>3. CASE Wait(j) \/ Tick(j) \/ Deadline(j) \/ Drained(j)
  BY <1>3 DEF Wait, Tick, Deadline, Drained, Look, Write, Goto
<1>4. CASE Fail(j) \/ WriteCode(j) \/ WriteMessage(j) \/ WriteMissing(j) \/ Store(j) \/ Succeed(j)
  BY <1>4 DEF Fail, WriteCode, WriteMessage, WriteMissing, Store, Succeed, Write, Goto
<1>5. CASE Release(j) \/ Unlink(j)
  BY <1>5 DEF Release, Unlink, Goto, job
<1>6. CASE Convert(j) \/ DeadlinePasses(j)
  BY <1>6 DEF Convert, DeadlinePasses, job
<1>. QED
  BY <1>1, <1>2, <1>3, <1>4, <1>5, <1>6 DEF Running

\* An HTTP thread raises a job's flag and then writes its status, and that is
\* all it ever does to a job.
Asked(k) ==
  /\ UNCHANGED <<error[k], result[k], submitPc[k], runPc[k], conv[k], outcome[k], files>>
  /\ cancel[k] => cancel'[k]
  /\ status'[k] # status[k] => cancel[k] /\ status'[k] = "cancelled"

LEMMA CallersOnlyCancel ==
  ASSUME TypeOK, QueuedUntilMarked, NEW c \in Callers, NEW k \in Jobs,
         Handling(c) \/ \E j \in Jobs : Lookup(c, j)
  PROVE  Asked(k)
<1>. USE DEF TypeOK, Asked
<1>1. CASE CancelSet(c)
  BY <1>1 DEF CancelSet, Serve, threads
<1>2. CASE CancelWrite(c)
  BY <1>2 DEF CancelWrite, Serve, threads, QueuedUntilMarked
<1>3. CASE \/ CancelCheck(c) \/ ReadStatus(c) \/ ReadMessage(c) \/ ReadError(c)
           \/ ReadMissing(c) \/ ReadResult(c)
  BY <1>3 DEF CancelCheck, ReadStatus, ReadMessage, ReadError, ReadMissing, ReadResult, Read,
     Serve, threads
<1>4. CASE Reply(c) \/ \E j \in Jobs : Lookup(c, j)
  BY <1>4 DEF Reply, Lookup, Serve, threads
<1>. QED
  BY <1>1, <1>2, <1>3, <1>4 DEF Handling

-----------------------------------------------------------------------------
(* The life of one job, seen from its two threads.                         *)

\* Until the conversion is over there is no outcome, and the watchdog leaves the
\* waiting loop with an outcome, a flag or a timeout.  The staged input outlives
\* everything but the watchdog, so the conversion always finds it.
Watched(k) ==
  /\ runPc[k] \in {"idle", "acquire", "check", "mark", "spawn"} => conv[k] = "off"
  /\ runPc[k] \in {"drained", "fail", "failed", "store", "succeed"} => conv[k] = "done"
  /\ outcome[k] \in {None, "doc", "parse_failed"}
  /\ conv[k] = "done" /\ ~Returned(k) => outcome[k] # None
  /\ runPc[k] \in {"fail", "failed"} => outcome[k] = "parse_failed"
  /\ runPc[k] = "store" => outcome[k] = "doc"
  /\ k \in Staged /\ submitPc[k] # "idle" /\ runPc[k] # "ended" => k \in files

Settles(k) ==
  /\ error[k] \in {None, "timeout", "parse_failed"}
  /\ runPc[k] = "succeed" => result[k] = "doc"
  /\ status[k] = "succeeded" => /\ runPc[k] \in {"release", "unlink", "ended"}
                                /\ result[k] = "doc"
  /\ runPc[k] \in {"message", "missing", "release", "unlink", "ended"} /\ conv[k] = "busy" =>
       cancel[k] \/ error[k] = "timeout"

Life == \A k \in Jobs : Watched(k) /\ Settles(k)

LEMMA LifeStep ==
  ASSUME TypeOK, StartedLast, OneAnswer, NEW k \in Jobs, Watched(k), Settles(k),
         Submit(k) \/ Submitting(k) \/ Running(k) \/ Convert(k) \/ DeadlinePasses(k)
  PROVE  Watched(k)' /\ Settles(k)'
<1>. USE JobStoreAssumption DEF TypeOK, Watched, Settles, Returned
<1>1. CASE Submit(k)
  BY <1>1 DEF Submit, StartedLast
<1>2. CASE EvictOne(k) \/ EvictEnd(k)
  <2>1. UNCHANGED <<status, cancel, error, result, runPc, conv, outcome, files>>
    BY <1>2 DEF EvictOne, EvictEnd, job, threads
  <2>2. submitPc[k] # "idle"
    BY <1>2 DEF EvictOne, EvictEnd, StartedLast
  <2>. QED
    BY <2>1, <2>2
<1>3. CASE StartRun(k)
  BY <1>3 DEF StartRun, StartedLast, job
<1>4. CASE Acquire(k)
  BY <1>4 DEF Acquire, Goto, job
<1>5. CASE CheckCancel(k) \/ MarkRunning(k)
  BY <1>5 DEF CheckCancel, MarkRunning, Look, Write, Goto
<1>6. CASE Spawn(k)
  BY <1>6 DEF Spawn, Goto, job
<1>7. CASE Wait(k) \/ Tick(k) \/ Deadline(k)
  BY <1>7 DEF Wait, Tick, Deadline, Look, Write, Goto
<1>8. CASE Drained(k)
  BY <1>8 DEF Drained, Look, Write, Goto
<1>9. CASE Fail(k)
  BY <1>9 DEF Fail, Write, Goto
<1>10. CASE WriteCode(k)
  BY <1>10 DEF WriteCode, Write, Goto
<1>17. CASE WriteMessage(k) \/ WriteMissing(k)
  BY <1>17 DEF WriteMessage, WriteMissing, Write, Goto
<1>11. CASE Store(k)
  BY <1>11 DEF Store, Write, Goto
<1>12. CASE Succeed(k)
  BY <1>12 DEF Succeed, Write, Goto
<1>13. CASE Release(k)
  BY <1>13 DEF Release, Goto, job
<1>14. CASE Unlink(k)
  BY <1>14 DEF Unlink, Goto, job
<1>15. CASE Convert(k)
  <2>1. ~Gone(k) \/ Returned(k)
    BY <1>15 DEF Gone, Convert, StartedLast
  <2>. QED
    BY <1>15, <2>1 DEF Convert, job
<1>16. CASE DeadlinePasses(k)
  BY <1>16 DEF DeadlinePasses, job
<1>. HIDE DEF TypeOK, Watched, Settles, Returned
<1>. QED
  BY <1>1, <1>2, <1>3, <1>4, <1>5, <1>6, <1>7, <1>8, <1>9, <1>10, <1>11, <1>12,
     <1>13, <1>14, <1>15, <1>16, <1>17 DEF Submitting, Running

LEMMA LifeInvariant == Spec => []Life
<1>1. Init => Life
  BY JobStoreAssumption DEF Init, Life, Watched, Settles, Returned
<1>2. TypeOK /\ StartedLast /\ OneAnswer /\ ListedInv /\ Life /\ [Next]_vars => Life'
  <2>. SUFFICES ASSUME TypeOK, StartedLast, OneAnswer, ListedInv, Life, [Next]_vars,
                       NEW k \in Jobs
                PROVE  Watched(k)' /\ Settles(k)'
    BY DEF Life
  <2>1. Watched(k) /\ Settles(k) /\ QueuedUntilMarked
    BY DEF Life, ListedInv
  <2>2. ASSUME Untouched(k) PROVE Watched(k)' /\ Settles(k)'
    BY <2>1, <2>2 DEF Untouched, Watched, Settles, Returned
  <2>3. ASSUME Asked(k) PROVE Watched(k)' /\ Settles(k)'
    BY <2>1, <2>3 DEF Asked, Watched, Settles, Returned
  <2>4. ASSUME NEW j \in Jobs,
               Submit(j) \/ Submitting(j) \/ Running(j) \/ Convert(j) \/ DeadlinePasses(j)
        PROVE  Watched(k)' /\ Settles(k)'
    <3>1. CASE j = k
      BY <2>1, <2>4, <3>1, LifeStep
    <3>2. CASE j # k
      BY <2>2, <2>4, <3>2, OneJobAtATime
    <3>. QED
      BY <3>1, <3>2
  <2>5. ASSUME NEW c \in Callers, Handling(c) \/ \E j \in Jobs : Lookup(c, j)
        PROVE  Watched(k)' /\ Settles(k)'
    BY <2>1, <2>3, <2>5, CallersOnlyCancel
  <2>6. ASSUME UNCHANGED vars PROVE Watched(k)' /\ Settles(k)'
    BY <2>2, <2>6 DEF Untouched, vars, job, threads
  <2>. QED
    BY <2>4, <2>5, <2>6 DEF Next
<1>. QED
  BY <1>1, <1>2, TypeCorrect, StartedLastInvariant, OneAnswerInvariant,
     ListedInvariant, PTL DEF Spec

\* Deleting staged inputs never shows: no job fails because its own cleanup
\* removed the file its conversion was reading.
THEOREM CleanupNeverShows == Spec => []NoSelfInflictedFailure
<1>1. JobStoreAssumption /\ Life => NoSelfInflictedFailure
  BY DEF JobStoreAssumption, Life, Settles, NoSelfInflictedFailure
<1>. QED
  BY <1>1, JobStoreAssumption, LifeInvariant, PTL

\* A conversion outlives its watchdog only if the job was cancelled or timed out.
THEOREM NothingAbandonedInVain == Spec => []AbandonedOnlyWhenGivenUp
<1>1. TypeOK /\ Life => AbandonedOnlyWhenGivenUp
  <2>. SUFFICES ASSUME TypeOK, Life, NEW j \in Jobs, conv[j] = "busy", ~HoldsSlot(j)
                PROVE  cancel[j] \/ error[j] = "timeout"
    BY DEF AbandonedOnlyWhenGivenUp
  <2>. QED
    BY DEF Life, Watched, Settles, HoldsSlot
<1>. QED
  BY <1>1, TypeCorrect, LifeInvariant, PTL

-----------------------------------------------------------------------------
(* A cancel that lands while the job is still in the queue.                *)

\* From the queue a cancelled job goes straight to the end of _run().
Skipped(k) ==
  /\ cancel[k] /\ conv[k] = "off"
  /\ runPc[k] \in {"acquire", "check", "release", "unlink", "ended"}

LEMMA SkippedStep ==
  ASSUME TypeOK, StartedLast, NEW k \in Jobs, Skipped(k),
         Submit(k) \/ Submitting(k) \/ Running(k) \/ Convert(k) \/ DeadlinePasses(k)
  PROVE  Skipped(k)'
<1>. USE DEF TypeOK, Skipped
<1>1. CASE Submit(k) \/ Submitting(k)
  BY <1>1 DEF Submit, Submitting, EvictOne, EvictEnd, StartRun, StartedLast, job, threads
<1>2. CASE Acquire(k) \/ CheckCancel(k) \/ Release(k) \/ Unlink(k)
  BY <1>2 DEF Acquire, CheckCancel, Release, Unlink, Look, Write, Goto, job
<1>3. CASE MarkRunning(k) \/ Spawn(k) \/ Wait(k) \/ Tick(k) \/ Deadline(k) \/ Drained(k)
  BY <1>3 DEF MarkRunning, Spawn, Wait, Tick, Deadline, Drained, Look, Write, Goto
<1>4. CASE Fail(k) \/ WriteCode(k) \/ WriteMessage(k) \/ WriteMissing(k) \/ Store(k) \/ Succeed(k)
  BY <1>4 DEF Fail, WriteCode, WriteMessage, WriteMissing, Store, Succeed, Write, Goto
<1>5. CASE Convert(k) \/ DeadlinePasses(k)
  BY <1>5 DEF Convert, DeadlinePasses
<1>. QED
  BY <1>1, <1>2, <1>3, <1>4, <1>5 DEF Running

LEMMA SkippedStays ==
  ASSUME NEW k \in Jobs
  PROVE  TypeOK /\ StartedLast /\ ListedInv /\ Skipped(k) /\ [Next]_vars => Skipped(k)'
<1>. SUFFICES ASSUME TypeOK, StartedLast, ListedInv, Skipped(k), [Next]_vars
              PROVE  Skipped(k)'
  OBVIOUS
<1>1. QueuedUntilMarked
  BY DEF ListedInv
<1>2. ASSUME Untouched(k) PROVE Skipped(k)'
  BY <1>2 DEF Untouched, Skipped
<1>3. ASSUME Asked(k) PROVE Skipped(k)'
  BY <1>3 DEF Asked, Skipped
<1>4. ASSUME NEW j \in Jobs,
             Submit(j) \/ Submitting(j) \/ Running(j) \/ Convert(j) \/ DeadlinePasses(j)
      PROVE  Skipped(k)'
  <2>1. CASE j = k
    BY <1>4, <2>1, SkippedStep
  <2>2. CASE j # k
    BY <1>2, <1>4, <2>2, OneJobAtATime
  <2>. QED
    BY <2>1, <2>2
<1>5. ASSUME NEW c \in Callers, Handling(c) \/ \E j \in Jobs : Lookup(c, j)
      PROVE  Skipped(k)'
  BY <1>1, <1>3, <1>5, CallersOnlyCancel
<1>6. ASSUME UNCHANGED vars PROVE Skipped(k)'
  BY <1>2, <1>6 DEF Untouched, vars, job, threads
<1>. QED
  BY <1>4, <1>5, <1>6 DEF Next

\* A cancel that lands before the watchdog looks keeps the job from ever being
\* parsed, however the threads are scheduled afterwards.
THEOREM CancelBeatsTheQueue == Spec => CancelledInQueueNeverParsed
<1>1. ASSUME NEW j \in Jobs
      PROVE  Spec => [](cancel[j] /\ runPc[j] \in {"acquire", "check"} => [](conv[j] = "off"))
  <2>1. Life /\ cancel[j] /\ runPc[j] \in {"acquire", "check"} => Skipped(j)
    BY DEF Life, Watched, Skipped
  <2>2. TypeOK /\ StartedLast /\ ListedInv /\ Skipped(j) /\ [Next]_vars => Skipped(j)'
    BY SkippedStays
  <2>3. Skipped(j) => conv[j] = "off"
    BY DEF Skipped
  <2>. QED
    BY <2>1, <2>2, <2>3, TypeCorrect, StartedLastInvariant, ListedInvariant,
       LifeInvariant, PTL DEF Spec
<1>. QED
  BY <1>1 DEF CancelledInQueueNeverParsed

-----------------------------------------------------------------------------
(* A poll reads the fields of a job one by one.                            *)

\* A poll that has seen success finds the document there, and it stays there.
DocumentWaits ==
  \A c \in Callers :
    reqPc[c] \in {"message", "error", "missing", "result"} /\ seen[c].status = "succeeded" =>
      result[req[c].job] = "doc"

PollInv == DocumentWaits /\ SuccessShowsDocument

\* A poll that reads the fields one by one while _run() writes them never shows
\* success without the document.
THEOREM SuccessIsWhole == Spec => []SuccessShowsDocument
<1>1. Init => PollInv
  BY DEF Init, PollInv, DocumentWaits, SuccessShowsDocument
<1>2. TypeOK /\ OneAnswer /\ Life /\ PollInv /\ [Next]_vars => PollInv'
  <2>. SUFFICES ASSUME TypeOK, OneAnswer, Life, PollInv, [Next]_vars PROVE PollInv'
    OBVIOUS
  <2>. USE DEF PollInv, DocumentWaits, SuccessShowsDocument
  <2>1. ASSUME UNCHANGED http, \A k \in Jobs : result[k] = "doc" => result'[k] = "doc"
        PROVE  PollInv'
    BY <2>1 DEF TypeOK
  <2>2. ASSUME NEW j \in Jobs, Store(j) PROVE PollInv'
    <3>1. \A k \in Jobs : result[k] = "doc" => result'[k] = "doc"
      BY <2>2, JobStoreAssumption DEF Store, Write, Goto, OneAnswer, TypeOK
    <3>. QED
      BY <2>1, <2>2, <3>1 DEF Store, Write
  <2>3. ASSUME NEW j \in Jobs, Submit(j) \/ Submitting(j) PROVE PollInv'
    BY <2>1, <2>3 DEF Submit, Submitting, EvictOne, EvictEnd, StartRun, job
  <2>4. ASSUME NEW j \in Jobs, Running(j) PROVE PollInv'
    <3>1. ASSUME ~Store(j) PROVE UNCHANGED <<http, result>>
      BY <2>4, <3>1 DEF Running, Acquire, CheckCancel, MarkRunning, Spawn, Wait, Tick,
         Deadline, Drained, Fail, WriteCode, WriteMessage, WriteMissing, Succeed, Release,
         Unlink, Look, Write, job
    <3>. QED
      BY <2>1, <2>2, <3>1
  <2>5. ASSUME NEW j \in Jobs, Convert(j) \/ DeadlinePasses(j) PROVE PollInv'
    BY <2>1, <2>5 DEF Convert, DeadlinePasses, job
  <2>6. ASSUME NEW c \in Callers, NEW j \in Jobs, Lookup(c, j) PROVE PollInv'
    <3>1. /\ reqPc'[c] \in {"check", "status"} /\ result' = result /\ seen' = seen
          /\ \A d \in Callers \ {c} : reqPc'[d] = reqPc[d] /\ req'[d] = req[d]
      BY <2>6 DEF Lookup, Serve, TypeOK
    <3>. QED
      BY <3>1
  <2>7. ASSUME NEW c \in Callers, Handling(c) PROVE PollInv'
    <3>. USE DEF TypeOK, Requests, Snapshots
    <3>1. CASE CancelCheck(c)
      BY <3>1 DEF CancelCheck, Read, Serve
    <3>7. CASE CancelSet(c)
      BY <3>7 DEF CancelSet, Serve
    <3>9. CASE CancelWrite(c)
      BY <3>9 DEF CancelWrite, Serve
    <3>8. CASE Reply(c)
      BY <3>8 DEF Reply, Serve
    <3>2. CASE ReadStatus(c)
      <4>1. status[req[c].job] = "succeeded" => result[req[c].job] = "doc"
        BY <3>2 DEF ReadStatus, Read, Serve, Life, Settles
      <4>. QED
        BY <3>2, <4>1 DEF ReadStatus, Read, Serve
    <3>3. CASE ReadError(c)
      BY <3>3 DEF ReadError, Read, Serve
    <3>4. CASE ReadResult(c)
      BY <3>4 DEF ReadResult, Read, Serve
    <3>5. CASE ReadMessage(c)
      BY <3>5 DEF ReadMessage, Read, Serve
    <3>6. CASE ReadMissing(c)
      BY <3>6 DEF ReadMissing, Read, Serve
    <3>. QED
      BY <2>7, <3>1, <3>2, <3>3, <3>4, <3>5, <3>6, <3>7, <3>8, <3>9
      DEF Handling
  <2>8. ASSUME UNCHANGED vars PROVE PollInv'
    BY <2>1, <2>8 DEF vars, job
  <2>. HIDE DEF PollInv
  <2>. QED
    BY <2>3, <2>4, <2>5, <2>6, <2>7, <2>8 DEF Next
<1>3. PollInv => SuccessShowsDocument
  BY DEF PollInv
<1>. QED
  BY <1>1, <1>2, <1>3, TypeCorrect, OneAnswerInvariant, LifeInvariant, PTL DEF Spec

\* A message is only there once the code is, and a poll that has read a message
\* finds the code still to come.
CodeFirst ==
  /\ \A k \in Jobs : detail[k] # {} \/ runPc[k] \in {"message", "missing"} => error[k] # None
  /\ \A c \in Callers : "message" \in seen[c].detail =>
       /\ reqPc[c] = "error" => error[req[c].job] # None
       /\ reqPc[c] \in {"missing", "result", "reply"} => seen[c].error # None
       /\ reqPc[c] \in {"error", "missing", "result", "reply"}

\* A snapshot with a message has the code, in every interleaving of the reads with
\* _fail(), for any number of jobs and callers.
THEOREM MessageHasCode == Spec => []MessageShowsCode
<1>1. Init => CodeFirst
  BY DEF Init, CodeFirst, Unseen
<1>2. TypeOK /\ StartedLast /\ OneAnswer /\ Life /\ CodeFirst /\ [Next]_vars => CodeFirst'
  <2>. SUFFICES ASSUME TypeOK, StartedLast, OneAnswer, Life, CodeFirst, [Next]_vars
                PROVE  CodeFirst'
    OBVIOUS
  <2>. USE DEF CodeFirst
  <2>1. ASSUME UNCHANGED http, UNCHANGED detail,
               \A k \in Jobs : /\ error[k] # None => error'[k] # None
                               /\ runPc'[k] \in {"message", "missing"} => error'[k] # None
        PROVE  CodeFirst'
    <3>1. \A c \in Callers : reqPc[c] = "error" => req[c].job \in Jobs
      BY DEF TypeOK
    <3>2. /\ \A k \in Jobs : detail[k] # {} => error[k] # None
          /\ \A c \in Callers : "message" \in seen[c].detail =>
               /\ reqPc[c] = "error" => error[req[c].job] # None
               /\ reqPc[c] \in {"missing", "result", "reply"} => seen[c].error # None
               /\ reqPc[c] \in {"error", "missing", "result", "reply"}
      OBVIOUS
    <3>3. detail' = detail /\ reqPc' = reqPc /\ req' = req /\ seen' = seen
      BY <2>1 DEF http
    <3>4. \A k \in Jobs : error[k] # None => error'[k] # None
      BY <2>1
    <3>5. \A c \in Callers : "message" \in seen[c].detail /\ reqPc[c] = "error" =>
            error'[req[c].job] # None
      BY <3>1, <3>2, <3>4
    <3>6. \A k \in Jobs : detail[k] # {} => error'[k] # None
      BY <3>2, <3>4
    <3>. QED
      BY <2>1, <3>2, <3>3, <3>5, <3>6
  <2>2. ASSUME NEW j \in Jobs, Submit(j) \/ Submitting(j) PROVE CodeFirst'
    <3>1. UNCHANGED <<reqPc, req, seen, detail, error>>
      BY <2>2 DEF Submit, Submitting, EvictOne, EvictEnd, StartRun, job
    <3>2. \A k \in Jobs : runPc'[k] # runPc[k] => runPc'[k] = "acquire"
      BY <2>2 DEF Submit, Submitting, EvictOne, EvictEnd, StartRun, threads, TypeOK
    <3>. QED
      BY <2>1, <3>1, <3>2
  <2>3. ASSUME NEW j \in Jobs, Running(j) PROVE CodeFirst'
    <3>. USE DEF TypeOK
    <3>1. CASE Acquire(j) \/ Spawn(j) \/ Release(j) \/ Unlink(j)
      BY <2>1, <3>1 DEF Acquire, Spawn, Release, Unlink, Goto, job
    <3>2. CASE CheckCancel(j) \/ Wait(j) \/ Tick(j) \/ Deadline(j) \/ Drained(j)
      BY <2>1, <3>2 DEF CheckCancel, Wait, Tick, Deadline, Drained, Look, Write, Goto
    <3>3. CASE MarkRunning(j) \/ Fail(j) \/ Store(j) \/ Succeed(j)
      BY <2>1, <3>3 DEF MarkRunning, Fail, Store, Succeed, Write, Goto
    <3>4. CASE WriteCode(j)
      <4>1. runPc[j] = "failed" => outcome[j] = "parse_failed"
        BY DEF Life, Watched
      <4>2. error'[j] # None /\ \A k \in Jobs \ {j} : error'[k] = error[k]
        BY <3>4, <4>1, JobStoreAssumption DEF WriteCode, Write, Goto
      <4>3. UNCHANGED <<http, detail>> /\ \A k \in Jobs \ {j} : runPc'[k] = runPc[k]
        BY <3>4 DEF WriteCode, Write, Goto
      <4>. QED
        BY <2>1, <4>2, <4>3
    <3>5. CASE WriteMessage(j) \/ WriteMissing(j)
      <4>1. error[j] # None
        BY <3>5 DEF WriteMessage, WriteMissing, Write, Goto
      <4>2. UNCHANGED <<reqPc, req, seen, error>>
        BY <3>5 DEF WriteMessage, WriteMissing, Write
      <4>3. \A k \in Jobs \ {j} : detail'[k] = detail[k] /\ runPc'[k] = runPc[k]
        BY <3>5 DEF WriteMessage, WriteMissing, Write, Goto
      <4>. QED
        BY <4>1, <4>2, <4>3
    <3>. QED
      BY <2>3, <3>1, <3>2, <3>3, <3>4, <3>5 DEF Running
  <2>4. ASSUME NEW j \in Jobs, Convert(j) \/ DeadlinePasses(j) PROVE CodeFirst'
    BY <2>1, <2>4 DEF Convert, DeadlinePasses, job
  <2>5. ASSUME NEW c \in Callers, NEW j \in Jobs, Lookup(c, j) PROVE CodeFirst'
    <3>1. /\ reqPc[c] = "idle" /\ UNCHANGED <<detail, error, runPc, seen>>
          /\ \A d \in Callers \ {c} : reqPc'[d] = reqPc[d] /\ req'[d] = req[d]
      BY <2>5 DEF Lookup, Serve, TypeOK, threads
    <3>2. "message" \notin seen[c].detail
      BY <3>1
    <3>. QED
      BY <3>1, <3>2
  <2>6. ASSUME NEW c \in Callers, Handling(c) PROVE CodeFirst'
    <3>. USE DEF TypeOK, Requests, Snapshots
    <3>1. UNCHANGED <<detail, error, runPc>>
      BY <2>6 DEF Handling, CancelCheck, CancelSet, CancelWrite, ReadStatus, ReadMessage,
         ReadError, ReadMissing, ReadResult, Reply, Read, Serve, threads
    <3>2. CASE CancelCheck(c) \/ CancelSet(c) \/ CancelWrite(c)
      <4>1. /\ reqPc[c] \in {"check", "set", "write"} /\ UNCHANGED <<req, seen>>
            /\ \A d \in Callers \ {c} : reqPc'[d] = reqPc[d]
        BY <3>2 DEF CancelCheck, CancelSet, CancelWrite, Read, Serve
      <4>2. "message" \notin seen[c].detail
        BY <4>1
      <4>. QED
        BY <3>1, <4>1, <4>2
    <3>3. CASE ReadStatus(c)
      BY <3>1, <3>3 DEF ReadStatus, Read, Serve
    <3>4. CASE ReadMessage(c)
      BY <3>1, <3>4 DEF ReadMessage, Read, Serve
    <3>5. CASE ReadError(c)
      BY <3>1, <3>5 DEF ReadError, Read, Serve
    <3>6. CASE ReadMissing(c)
      BY <3>1, <3>6 DEF ReadMissing, Read, Serve
    <3>7. CASE ReadResult(c)
      BY <3>1, <3>7 DEF ReadResult, Read, Serve
    <3>8. CASE Reply(c)
      BY <3>1, <3>8 DEF Reply, Read, Serve, Unseen
    <3>. QED
      BY <2>6, <3>2, <3>3, <3>4, <3>5, <3>6, <3>7, <3>8 DEF Handling
  <2>7. ASSUME UNCHANGED vars PROVE CodeFirst'
    BY <2>1, <2>7 DEF vars, job, threads
  <2>. HIDE DEF CodeFirst
  <2>. QED
    BY <2>2, <2>3, <2>4, <2>5, <2>6, <2>7 DEF Next
<1>3. CodeFirst => MessageShowsCode
  BY DEF CodeFirst, MessageShowsCode
<1>. QED
  BY <1>1, <1>2, <1>3, TypeCorrect, StartedLastInvariant, OneAnswerInvariant,
     LifeInvariant, PTL DEF Spec

-----------------------------------------------------------------------------
(* Every step is a step of ParseContract.                                  *)

\* What the status and the answer of a job nobody cancels say about its watchdog.
Told(k) ==
  /\ runPc[k] \in {"spawn", "wait", "tick", "deadline", "expire", "drained", "fail",
                   "store", "succeed"} => status[k] = "running"
  /\ runPc[k] \in {"expired", "failed"} => status[k] = "failed"
  /\ runPc[k] \in {"message", "missing"} => status[k] = "failed" /\ error[k] \in Codes
  /\ runPc[k] \in {"release", "unlink", "ended"} =>
       \/ status[k] = "succeeded"
       \/ status[k] = "failed" /\ error[k] \in Codes

ToldInv ==
  /\ \A k \in Jobs : ~cancel[k] => Told(k)
  /\ \A c \in Callers : reqPc[c] # "idle" => submitPc[req[c].job] # "idle"
  /\ \A k \in jobs : submitPc[k] # "idle"

LEMMA ToldStep ==
  ASSUME ~ThreadStartMayFail, TypeOK, StartedLast, Life,
         NEW k \in Jobs, ~cancel[k], Told(k),
         Submit(k) \/ Submitting(k) \/ Running(k) \/ Convert(k) \/ DeadlinePasses(k)
  PROVE  ~cancel'[k] /\ Told(k)'
<1>. USE JobStoreAssumption DEF TypeOK, Told
<1>1. CASE Submit(k)
  BY <1>1 DEF Submit, StartedLast
<1>2. CASE EvictOne(k) \/ EvictEnd(k)
  BY <1>2 DEF EvictOne, EvictEnd, job, threads
<1>3. CASE StartRun(k)
  BY <1>3 DEF StartRun, job
<1>4. CASE Acquire(k)
  BY <1>4 DEF Acquire, Goto, job
<1>5. CASE CheckCancel(k) \/ MarkRunning(k)
  BY <1>5 DEF CheckCancel, MarkRunning, Look, Write, Goto
<1>6. CASE Spawn(k)
  BY <1>6 DEF Spawn, Goto, job
<1>7. CASE Wait(k) \/ Tick(k) \/ Deadline(k) \/ Drained(k)
  BY <1>7 DEF Wait, Tick, Deadline, Drained, Look, Write, Goto
<1>8. CASE Fail(k)
  BY <1>8 DEF Fail, Write, Goto
<1>9. CASE WriteCode(k)
  <2>1. runPc[k] = "failed" => outcome[k] = "parse_failed"
    BY DEF Life, Watched
  <2>. QED
    BY <1>9, <2>1 DEF WriteCode, Write, Goto
<1>10. CASE Store(k) \/ Succeed(k)
  BY <1>10 DEF Store, Succeed, Write, Goto
<1>11. CASE Release(k) \/ Unlink(k)
  BY <1>11 DEF Release, Unlink, Goto, job
<1>12. CASE Convert(k) \/ DeadlinePasses(k)
  BY <1>12 DEF Convert, DeadlinePasses, job
<1>13. CASE WriteMessage(k) \/ WriteMissing(k)
  BY <1>13 DEF WriteMessage, WriteMissing, Write, Goto
<1>. HIDE DEF TypeOK, Told
<1>. QED
  BY <1>1, <1>2, <1>3, <1>4, <1>5, <1>6, <1>7, <1>8, <1>9, <1>10, <1>11, <1>12, <1>13
  DEF Submitting, Running

LEMMA ToldInvariant ==
  ASSUME ~ThreadStartMayFail
  PROVE  Spec => []ToldInv
<1>1. Init => ToldInv
  BY DEF Init, ToldInv, Told
<1>2. TypeOK /\ StartedLast /\ ListedInv /\ Life /\ ToldInv /\ [Next]_vars => ToldInv'
  <2>. SUFFICES ASSUME TypeOK, StartedLast, ListedInv, Life, ToldInv, [Next]_vars
                PROVE  ToldInv'
    OBVIOUS
  <2>. USE DEF TypeOK
  <2>. DEFINE AllTold == \A k \in Jobs : ~cancel[k] => Told(k)
              Once == \A k \in Jobs : submitPc'[k] = "idle" => submitPc[k] = "idle"
  <2>1. ASSUME NEW k \in Jobs, Untouched(k) \/ Asked(k) PROVE ~cancel'[k] => Told(k)'
    BY <2>1 DEF Untouched, Asked, Told, ToldInv
  <2>2. ASSUME NEW j \in Jobs,
               Submit(j) \/ Submitting(j) \/ Running(j) \/ Convert(j) \/ DeadlinePasses(j)
        PROVE  AllTold'
    <3>1. ASSUME NEW k \in Jobs, ~cancel'[k] PROVE Told(k)'
      <4>1. CASE j # k
        BY <2>1, <2>2, <3>1, <4>1, OneJobAtATime
      <4>2. CASE j = k
        <5>1. cancel' = cancel
          BY <2>2 DEF Submit, Submitting, EvictOne, EvictEnd, StartRun, Convert,
             DeadlinePasses, Running, Acquire, CheckCancel, MarkRunning, Spawn, Wait, Tick,
             Deadline, Drained, Fail, WriteCode, WriteMessage, WriteMissing, Store, Succeed,
             Release, Unlink, Look,
             Write, job
        <5>. QED
          BY <2>2, <3>1, <4>2, <5>1, ToldStep DEF ToldInv
      <4>. QED
        BY <4>1, <4>2
    <3>. QED
      BY <3>1
  <2>3. ASSUME NEW j \in Jobs, Submit(j) PROVE ToldInv'
    <3>1. /\ jobs' = jobs \cup {j} /\ UNCHANGED http
          /\ submitPc' = [submitPc EXCEPT ![j] = "evict"]
      BY <2>3 DEF Submit
    <3>. QED
      BY <2>2, <2>3, <3>1 DEF ToldInv
  <2>4. ASSUME NEW j \in Jobs,
               Submitting(j) \/ Running(j) \/ Convert(j) \/ DeadlinePasses(j)
        PROVE  ToldInv'
    <3>1. jobs' \subseteq jobs /\ UNCHANGED http
      BY <2>4 DEF Submitting, EvictOne, EvictEnd, StartRun, Convert, DeadlinePasses,
         Running, Acquire, CheckCancel, MarkRunning, Spawn, Wait, Tick, Deadline, Drained,
         Fail, WriteCode, WriteMessage, WriteMissing, Store, Succeed, Release, Unlink, Look,
         Write, table
    <3>2. Once
      BY <2>4 DEF Submitting, EvictOne, EvictEnd, StartRun, Convert, DeadlinePasses,
         Running, Acquire, CheckCancel, MarkRunning, Spawn, Wait, Tick, Deadline, Drained,
         Fail, WriteCode, WriteMessage, WriteMissing, Store, Succeed, Release, Unlink, Look,
         Write, threads
    <3>3. AllTold'
      BY <2>2, <2>4
    <3>. QED
      BY <3>1, <3>2, <3>3 DEF ToldInv
  <2>5. ASSUME NEW c \in Callers, Handling(c) \/ \E j \in Jobs : Lookup(c, j)
        PROVE  ToldInv'
    <3>1. AllTold'
      BY <2>1, <2>5, CallersOnlyCancel DEF ListedInv
    <3>2. UNCHANGED <<jobs, submitPc>>
      BY <2>5 DEF Handling, CancelCheck, CancelSet, CancelWrite, ReadStatus, ReadMessage,
         ReadError, ReadMissing,
         ReadResult, Reply, Lookup, Read, Serve, table, threads
    <3>3. CASE Handling(c)
      <4>1. \A d \in Callers : reqPc'[d] # "idle" => reqPc[d] # "idle" /\ req'[d] = req[d]
        BY <3>3 DEF Handling, CancelCheck, CancelSet, CancelWrite, ReadStatus, ReadMessage,
           ReadError, ReadMissing,
           ReadResult, Reply, Read, Serve
      <4>. QED
        BY <3>1, <3>2, <4>1 DEF ToldInv
    <3>4. ASSUME NEW j \in Jobs, Lookup(c, j) PROVE ToldInv'
      <4>1. /\ j \in jobs /\ req'[c].job = j
            /\ \A d \in Callers \ {c} : reqPc'[d] = reqPc[d] /\ req'[d] = req[d]
        BY <3>4 DEF Lookup, Serve
      <4>. QED
        BY <3>1, <3>2, <4>1 DEF ToldInv
    <3>. QED
      BY <2>5, <3>3, <3>4
  <2>6. ASSUME UNCHANGED vars PROVE ToldInv'
    BY <2>6 DEF vars, table, job, threads, ToldInv, Told
  <2>. HIDE DEF TypeOK
  <2>. QED
    BY <2>3, <2>4, <2>5, <2>6 DEF Next
<1>. QED
  BY <1>1, <1>2, TypeCorrect, StartedLastInvariant, ListedInvariant, LifeInvariant,
     PTL DEF Spec

-----------------------------------------------------------------------------
(* From what happens to one job to a step of the contract.                 *)

Stays(k) == Phase(k)' = Phase(k) /\ Answer(k)' = Answer(k)

LEMMA PhaseFrame ==
  ASSUME NEW k \in Jobs, cancel[k] \in BOOLEAN
  PROVE  /\ UNCHANGED <<status[k], cancel[k], error[k], result[k]>> => Stays(k)
         /\ cancel[k] /\ cancel'[k] => Stays(k)
BY DEF Stays, Phase, Answer

LEMMA AllStay ==
  ASSUME \A k \in Jobs : Stays(k)
  PROVE  UNCHANGED Contract!cvars
BY DEF Contract!cvars, Stays

LEMMA OneMoves ==
  ASSUME NEW j \in Jobs, \A k \in Jobs \ {j} : Stays(k),
         NEW from, NEW to, NEW reply,
         Phase(j) \in from, Phase(j)' = to, Answer(j)' = reply
  PROVE  Contract!Move(j, from, to, reply)
BY DEF Contract!Move, Stays

\* A job that is neither withdrawn nor settled and counts as running holds a slot.
LEMMA RunningHolds ==
  ASSUME TypeOK, QueuedUntilMarked, OneAnswer, ToldInv, NEW k \in Jobs, Phase(k) = "running"
  PROVE  HoldsSlot(k)
BY JobStoreAssumption DEF TypeOK, QueuedUntilMarked, OneAnswer, ToldInv, Told, Phase, HoldsSlot

\* There is room for one more: the job about to be marked running holds a slot
\* and does not count as running yet.
LEMMA RoomForOne ==
  ASSUME TypeOK, QueuedUntilMarked, OneAnswer, ToldInv, SlotsAccounted,
         NEW j \in Jobs, HoldsSlot(j), Phase(j) # "running"
  PROVE  Cardinality({k \in Jobs : Phase(k) = "running"}) < MAX_WORKERS
<1>. DEFINE H == {k \in Jobs : HoldsSlot(k)}
            R == {k \in Jobs : Phase(k) = "running"}
<1>1. IsFiniteSet(H) /\ Cardinality(H) \in Nat
  BY JobStoreAssumption, FS_Subset, FS_CardinalityType
<1>2. R \subseteq H \ {j}
  BY RunningHolds
<1>3. j \in H
  OBVIOUS
<1>4. slots + Cardinality(H) = MAX_WORKERS /\ slots \in Nat
  BY DEF SlotsAccounted, TypeOK
<1>. HIDE DEF H, R
<1>5. IsFiniteSet(H \ {j}) /\ Cardinality(H \ {j}) = Cardinality(H) - 1
  BY <1>1, <1>3, FS_RemoveElement
<1>6. Cardinality(R) <= Cardinality(H \ {j}) /\ Cardinality(R) \in Nat
  BY <1>2, <1>5, FS_Subset, FS_CardinalityType
<1>7. Cardinality(R) < MAX_WORKERS
  BY <1>1, <1>4, <1>5, <1>6, JobStoreAssumption
<1>. QED
  BY <1>7 DEF R

\* The contract's own Cardinality is that of FiniteSets.
LEMMA SameCardinality ==
  ASSUME NEW S
  PROVE  Contract!Cardinality(S) = Cardinality(S)
BY Zenon DEF Contract!Cardinality, Cardinality

LEMMA StartMaps ==
  ASSUME NEW j \in Jobs, Contract!Move(j, {"queued"}, "running", None),
         Cardinality({k \in Jobs : Phase(k) = "running"}) < MAX_WORKERS
  PROVE  Contract!Start(j)
<1>1. {k \in Jobs : [i \in Jobs |-> Phase(i)][k] = "running"}
        = {k \in Jobs : Phase(k) = "running"}
  OBVIOUS
<1>2. Contract!Cardinality({k \in Jobs : [i \in Jobs |-> Phase(i)][k] = "running"}) < MAX_WORKERS
  BY <1>1, SameCardinality
<1>. QED
  BY <1>2 DEF Contract!Start

-----------------------------------------------------------------------------
(* The refinement.                                                         *)

RefInv == /\ TypeOK /\ StartedLast /\ OneAnswer /\ ListedInv
          /\ Life /\ ToldInv /\ SlotsAccounted

LEMMA WatchdogMaps ==
  ASSUME RefInv, NEW j \in Jobs, Running(j), \A k \in Jobs \ {j} : Stays(k)
  PROVE  Contract!CNext \/ UNCHANGED Contract!cvars
<1>. USE JobStoreAssumption DEF RefInv, TypeOK
<1>1. ASSUME Stays(j) PROVE UNCHANGED Contract!cvars
  BY <1>1, AllStay
<1>2. ASSUME UNCHANGED job PROVE UNCHANGED Contract!cvars
  BY <1>1, <1>2, PhaseFrame DEF job
<1>3. ASSUME cancel[j], cancel'[j] PROVE UNCHANGED Contract!cvars
  BY <1>1, <1>3, PhaseFrame
<1>4. CASE MarkRunning(j)
  <2>1. CASE cancel[j]
    BY <1>3, <1>4, <2>1 DEF MarkRunning, Write
  <2>2. CASE ~cancel[j]
    <3>1. status[j] = "queued" /\ HoldsSlot(j)
      BY <1>4, <2>2 DEF MarkRunning, Write, Goto, ListedInv, QueuedUntilMarked, StartedLast,
         HoldsSlot
    <3>2. Phase(j) = "queued" /\ Phase(j)' = "running" /\ Answer(j)' = None
      BY <1>4, <2>2, <3>1 DEF MarkRunning, Write, Phase, Answer
    <3>3. Contract!Move(j, {"queued"}, "running", None)
      BY <3>2, OneMoves
    <3>4. Cardinality({k \in Jobs : Phase(k) = "running"}) < MAX_WORKERS
      BY <3>1, <3>2, RoomForOne DEF ListedInv
    <3>5. Contract!Start(j)
      BY <3>3, <3>4, StartMaps
    <3>. QED
      BY <3>5 DEF Contract!CNext
  <2>. QED
    BY <2>1, <2>2
<1>5. CASE Fail(j)
  <2>1. CASE cancel[j]
    BY <1>3, <1>5, <2>1 DEF Fail, Write
  <2>2. CASE ~cancel[j]
    <3>1. status[j] = "running" /\ error[j] = None
      BY <1>5, <2>2 DEF Fail, Write, Goto, ToldInv, Told, OneAnswer
    <3>2. Stays(j)
      BY <1>5, <2>2, <3>1 DEF Fail, Write, Stays, Phase, Answer
    <3>. QED
      BY <1>1, <3>2
  <2>. QED
    BY <2>1, <2>2
<1>6. CASE WriteCode(j)
  <2>1. CASE cancel[j]
    BY <1>3, <1>6, <2>1 DEF WriteCode, Write
  <2>2. CASE ~cancel[j]
    <3>1. status[j] = "failed" /\ error[j] = None
      BY <1>6, <2>2 DEF WriteCode, Write, Goto, ToldInv, Told, OneAnswer
    <3>2. PICK e \in Codes : error'[j] = e
      BY <1>6 DEF WriteCode, Write, Goto, Life, Watched
    <3>3. Phase(j) = "running" /\ Phase(j)' = "failed" /\ Answer(j)' = e
      BY <1>6, <2>2, <3>1, <3>2 DEF WriteCode, Write, Phase, Answer
    <3>4. Contract!Move(j, {"running"}, "failed", e)
      BY <3>3, OneMoves
    <3>5. Contract!Finish(j)
      BY <3>4 DEF Contract!Finish
    <3>. QED
      BY <3>5 DEF Contract!CNext
  <2>. QED
    BY <2>1, <2>2
<1>7. CASE Store(j)
  <2>1. CASE cancel[j]
    BY <1>3, <1>7, <2>1 DEF Store, Write
  <2>2. CASE ~cancel[j]
    <3>1. status[j] = "running"
      BY <1>7, <2>2 DEF Store, Write, Goto, ToldInv, Told
    <3>2. Stays(j)
      BY <1>7, <2>2, <3>1 DEF Store, Write, Stays, Phase, Answer
    <3>. QED
      BY <1>1, <3>2
  <2>. QED
    BY <2>1, <2>2
<1>8. CASE Succeed(j)
  <2>1. CASE cancel[j]
    BY <1>3, <1>8, <2>1 DEF Succeed, Write
  <2>2. CASE ~cancel[j]
    <3>1. status[j] = "running" /\ result[j] = "doc"
      BY <1>8, <2>2 DEF Succeed, Write, Goto, ToldInv, Told, Life, Settles
    <3>2. Phase(j) = "running" /\ Phase(j)' = "succeeded" /\ Answer(j)' = "doc"
      BY <1>8, <2>2, <3>1 DEF Succeed, Write, Phase, Answer
    <3>3. Contract!Move(j, {"running"}, "succeeded", "doc")
      BY <3>2, OneMoves
    <3>4. Contract!Finish(j)
      BY <3>3 DEF Contract!Finish
    <3>. QED
      BY <3>4 DEF Contract!CNext
  <2>. QED
    BY <2>1, <2>2
<1>9. CASE Acquire(j) \/ Spawn(j) \/ Release(j) \/ Unlink(j)
  BY <1>2, <1>9 DEF Acquire, Spawn, Release, Unlink
<1>10. CASE CheckCancel(j) \/ Wait(j) \/ Tick(j) \/ Deadline(j) \/ Drained(j)
  BY <1>2, <1>10 DEF CheckCancel, Wait, Tick, Deadline, Drained, Look, Write, job
<1>11. CASE WriteMessage(j) \/ WriteMissing(j)
  <2>1. UNCHANGED <<status, cancel, error, result>>
    BY <1>11 DEF WriteMessage, WriteMissing, Write
  <2>. QED
    BY <1>1, <2>1, PhaseFrame
<1>. QED
  BY <1>4, <1>5, <1>6, <1>7, <1>8, <1>9, <1>10, <1>11 DEF Running

LEMMA RequestMaps ==
  ASSUME RefInv, NEW c \in Callers, Handling(c) \/ \E j \in Jobs : Lookup(c, j)
  PROVE  Contract!CNext \/ UNCHANGED Contract!cvars
<1>. USE JobStoreAssumption DEF RefInv, TypeOK
<1>1. CASE CancelSet(c)
  <2>1. PICK j \in Jobs :
        /\ submitPc[j] # "idle"
        /\ cancel' = [cancel EXCEPT ![j] = TRUE]
        /\ UNCHANGED <<status, error, result>>
    BY <1>1 DEF CancelSet, Serve, ToldInv
  <2>2. \A k \in Jobs \ {j} : Stays(k)
    BY <2>1, PhaseFrame
  <2>3. CASE cancel[j]
    BY <2>1, <2>2, <2>3, PhaseFrame, AllStay
  <2>4. CASE ~cancel[j]
    <3>1. status[j] \in {"queued", "running", "succeeded", "failed"}
      BY <2>1, <2>4 DEF ListedInv, QueuedUntilMarked, ToldInv, Told
    <3>2. Phase(j) \in Contract!Phases \ {"absent", "withdrawn"}
      BY <2>4, <3>1 DEF Phase, Contract!Phases, Contract!Settled
    <3>3. Phase(j)' = "withdrawn" /\ Answer(j)' = None
      BY <2>1 DEF Phase, Answer
    <3>4. Contract!Withdraw(j)
      BY <2>1, <2>2, <3>2, <3>3, OneMoves DEF Contract!Withdraw
    <3>. QED
      BY <2>1, <3>4 DEF Contract!CNext
  <2>. QED
    BY <2>3, <2>4
<1>2. CASE ~CancelSet(c)
  <2>1. ASSUME NEW k \in Jobs PROVE Stays(k)
    <3>1. /\ error'[k] = error[k] /\ result'[k] = result[k] /\ cancel' = cancel
          /\ status'[k] = status[k] \/ cancel[k]
      BY <1>2 DEF ListedInv, QueuedUntilMarked, Handling, CancelCheck, CancelWrite,
         ReadStatus, ReadMessage, ReadError, ReadMissing, ReadResult, Reply, Lookup, Read,
         Serve
    <3>. QED
      BY <3>1, PhaseFrame
  <2>. QED
    BY <2>1, AllStay
<1>. QED
  BY <1>1, <1>2

\* Whoever polls or cancels sees a step of the contract or nothing: a parse waits
\* its turn, runs beside at most MAX_WORKERS - 1 others, and settles once.
THEOREM StepsRefine ==
  ASSUME ~ThreadStartMayFail
  PROVE  Spec => StepsImplementContract
<1>1. Init => Contract!CInit
  BY DEF Init, Contract!CInit, Phase, Answer
<1>2. RefInv /\ [Next]_vars => [Contract!CNext]_(Contract!cvars)
  <2>. SUFFICES ASSUME RefInv, [Next]_vars
                PROVE  Contract!CNext \/ UNCHANGED Contract!cvars
    OBVIOUS
  <2>0. \A k \in Jobs : cancel[k] \in BOOLEAN
    BY DEF RefInv, TypeOK
  <2>1. ASSUME UNCHANGED job PROVE UNCHANGED Contract!cvars
    BY <2>0, <2>1, PhaseFrame, AllStay DEF job
  <2>2. ASSUME NEW j \in Jobs,
               Submit(j) \/ Submitting(j) \/ Running(j) \/ Convert(j) \/ DeadlinePasses(j)
        PROVE  \A k \in Jobs \ {j} : Stays(k)
    <3>1. \A k \in Jobs \ {j} : Untouched(k)
      BY <2>2, OneJobAtATime DEF RefInv
    <3>. QED
      BY <2>0, <3>1, PhaseFrame DEF Untouched
  <2>3. ASSUME NEW j \in Jobs, Submit(j) PROVE Contract!CNext \/ UNCHANGED Contract!cvars
    <3>1. \A k \in Jobs \ {j} : Stays(k)
      BY <2>2, <2>3
    <3>2. CASE cancel[j]
      BY <2>0, <2>3, <3>1, <3>2, PhaseFrame, AllStay DEF Submit
    <3>3. CASE ~cancel[j]
      <4>1. status[j] = "new"
        BY <2>3, <3>3 DEF Submit, RefInv, ListedInv, QueuedUntilMarked, StartedLast
      <4>2. Phase(j) = "absent" /\ Phase(j)' = "queued" /\ Answer(j)' = None
        BY <2>3, <3>3, <4>1 DEF Submit, Phase, Answer, RefInv, TypeOK
      <4>3. Contract!Accept(j)
        BY <3>1, <4>2, OneMoves DEF Contract!Accept
      <4>. QED
        BY <4>3 DEF Contract!CNext
    <3>. QED
      BY <3>2, <3>3
  <2>4. ASSUME NEW j \in Jobs, Submitting(j) PROVE UNCHANGED Contract!cvars
    BY <2>1, <2>4 DEF Submitting, EvictOne, EvictEnd, StartRun
  <2>5. ASSUME NEW j \in Jobs, Running(j) PROVE Contract!CNext \/ UNCHANGED Contract!cvars
    BY <2>2, <2>5, WatchdogMaps
  <2>6. ASSUME NEW j \in Jobs, Convert(j) \/ DeadlinePasses(j)
        PROVE  UNCHANGED Contract!cvars
    BY <2>1, <2>6 DEF Convert, DeadlinePasses
  <2>7. ASSUME NEW c \in Callers, Handling(c) \/ \E j \in Jobs : Lookup(c, j)
        PROVE  Contract!CNext \/ UNCHANGED Contract!cvars
    BY <2>7, RequestMaps
  <2>8. ASSUME UNCHANGED vars PROVE UNCHANGED Contract!cvars
    BY <2>1, <2>8 DEF vars
  <2>. QED
    BY <2>3, <2>4, <2>5, <2>6, <2>7, <2>8 DEF Next
<1>3. Spec => []RefInv
  BY TypeCorrect, StartedLastInvariant, OneAnswerInvariant, ListedInvariant,
     LifeInvariant, ToldInvariant, SlotsConserved, PTL DEF RefInv
<1>. QED
  BY <1>1, <1>2, <1>3, PTL DEF Spec, StepsImplementContract

=============================================================================
