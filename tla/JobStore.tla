------------------------------ MODULE JobStore ------------------------------
(***************************************************************************)
(* The in-process parse-job table of sidecar/ryu_docling/jobs.py: the      *)
(* bounded table and its eviction, one watchdog thread per job, the        *)
(* conversion thread each watchdog starts, the worker semaphore, and the   *)
(* HTTP threads that cancel and poll.  The table is guarded by a lock, the *)
(* fields of a Job are not: every read or write of a field that another    *)
(* thread can see is a step of its own.                                    *)
(***************************************************************************)
EXTENDS Naturals, FiniteSets, SequencesExt

CONSTANTS
  Jobs,                \* the parses that are ever submitted
  Staged,              \* those whose input is a file the sidecar must delete
  Undeletable,         \* those of them whose deletion the OS may refuse
  Pollers,             \* HTTP threads serving GET /jobs/{job_id}
  Cancellers,          \* HTTP threads serving DELETE /jobs/{job_id}
  MAX_JOBS,            \* table budget
  MAX_WORKERS,         \* worker slots
  ThreadStartMayFail,  \* whether the OS may refuse a new thread
  None                 \* Python's None

ASSUME JobStoreAssumption ==
  /\ IsFiniteSet(Jobs)
  /\ Undeletable \subseteq Staged /\ Staged \subseteq Jobs
  /\ MAX_JOBS \in Nat \ {0}
  /\ MAX_WORKERS \in Nat \ {0}
  /\ ThreadStartMayFail \in BOOLEAN
  /\ None \notin Jobs
  /\ None \notin {"doc", "timeout", "parse_failed", "file_gone"}

VARIABLES
  jobs, order,      \* _jobs (its keys) and _order
  lock, scan,       \* who holds _lock across steps, and the eviction's index
  slots,            \* value of the _slots semaphore
  status, cancel,   \* Job.status, Job._cancel.is_set()
  error, detail,    \* Job.error_code; which of Job.error and missing_dependencies are set
  result,           \* Job.result
  submitPc, runPc,  \* the thread in submit(), the thread in _run()
  conv, outcome,    \* the thread in work(), and the outcome it leaves
  late,             \* time.time() has reached the job's deadline
  files,            \* staged inputs on disk
  reqPc, req,       \* per HTTP thread: where it is and what it was asked
  seen              \* the snapshot it has put together so far

table == <<jobs, order, lock, scan>>
job == <<status, cancel, error, detail, result>>
threads == <<submitPc, runPc, conv, outcome, late>>
http == <<reqPc, req, seen>>
vars == <<table, job, threads, slots, files, http>>

-----------------------------------------------------------------------------
Callers == Pollers \cup Cancellers

TERMINAL == {"succeeded", "failed", "cancelled"}

Status == {"new", "queued", "running"} \cup TERMINAL

Codes == {"timeout", "parse_failed", "file_gone"}

\* Job.error, a text for people, and Job.missing_dependencies.
Details == {"message", "missing"}

Answers == Codes \cup {"doc", None}

SubmitPcs == {"idle", "evict", "start", "accepted", "refused"}

RunPcs == {"idle", "acquire", "check", "mark", "spawn", "wait", "tick",
           "deadline", "expire", "expired", "drained", "fail", "failed",
           "message", "missing", "store", "succeed", "release", "unlink", "ended"}

ConvPcs == {"off", "busy", "done"}

ReqPcs == {"idle", "check", "set", "write", "status", "message", "error",
           "missing", "result", "reply"}

NoRequest == [op |-> None, job |-> None]

Unseen == [status |-> None, error |-> None, detail |-> {}, result |-> None]

\* A watchdog holds a worker slot from the acquire to the release.
HoldsSlot(j) == runPc[j] \notin {"idle", "acquire", "unlink", "ended"}

\* The frame of _run() is gone, and the deadline and outcome in it.
Returned(j) == runPc[j] \in {"unlink", "ended"}

\* The staged input of j has been deleted.
Gone(j) == j \in Staged /\ j \notin files

-----------------------------------------------------------------------------
Init ==
  /\ jobs = {} /\ order = <<>> /\ lock = None /\ scan = 1
  /\ slots = MAX_WORKERS
  /\ status = [j \in Jobs |-> "new"]
  /\ cancel = [j \in Jobs |-> FALSE]
  /\ error = [j \in Jobs |-> None]
  /\ detail = [j \in Jobs |-> {}]
  /\ result = [j \in Jobs |-> None]
  /\ submitPc = [j \in Jobs |-> "idle"]
  /\ runPc = [j \in Jobs |-> "idle"]
  /\ conv = [j \in Jobs |-> "off"]
  /\ outcome = [j \in Jobs |-> None]
  /\ late = [j \in Jobs |-> FALSE]
  /\ files = {}
  /\ reqPc = [c \in Callers |-> "idle"]
  /\ req = [c \in Callers |-> NoRequest]
  /\ seen = [c \in Callers |-> Unseen]

-----------------------------------------------------------------------------
(* submit(): insert under the lock, evict while over budget, start _run.   *)

\* The handler has staged the input before it calls submit().
Submit(j) ==
  /\ submitPc[j] = "idle"
  /\ lock = None
  /\ lock' = j
  /\ scan' = 1
  /\ jobs' = jobs \cup {j}
  /\ order' = Append(order, j)
  /\ status' = [status EXCEPT ![j] = "queued"]
  /\ files' = files \cup ({j} \cap Staged)
  /\ submitPc' = [submitPc EXCEPT ![j] = "evict"]
  /\ UNCHANGED <<slots, cancel, error, detail, result, runPc, conv, outcome, late, http>>

\* Mutants: the entry stays in _jobs; the oldest job goes, live or not.
EvictKeepsEntry(j) ==
  /\ lock = j /\ Len(order) > MAX_JOBS /\ scan <= Len(order)
  /\ \/ /\ status[order[scan]] \in TERMINAL
        /\ order' = RemoveAt(order, scan) /\ scan' = 1
     \/ /\ status[order[scan]] \notin TERMINAL
        /\ scan' = scan + 1 /\ UNCHANGED order
  /\ UNCHANGED <<jobs, lock, slots, job, threads, files, http>>

EvictAnyOldest(j) ==
  /\ lock = j /\ Len(order) > MAX_JOBS /\ scan <= Len(order)
  /\ jobs' = jobs \ {order[1]} /\ order' = Tail(order) /\ scan' = 1
  /\ UNCHANGED <<lock, slots, job, threads, files, http>>

\* The scan restarts from the oldest job after every removal.
EvictOne(j) ==
  /\ lock = j
  /\ Len(order) > MAX_JOBS
  /\ scan <= Len(order)
  /\ \/ /\ status[order[scan]] \in TERMINAL
        /\ jobs' = jobs \ {order[scan]}
        /\ order' = RemoveAt(order, scan)
        /\ scan' = 1
     \/ /\ status[order[scan]] \notin TERMINAL
        /\ scan' = scan + 1
        /\ UNCHANGED <<jobs, order>>
  /\ UNCHANGED <<lock, slots, job, threads, files, http>>

EvictEnd(j) ==
  /\ lock = j
  /\ Len(order) <= MAX_JOBS \/ scan > Len(order)
  /\ lock' = None
  /\ scan' = 1
  /\ submitPc' = [submitPc EXCEPT ![j] = "start"]
  /\ UNCHANGED <<jobs, order, slots, job, runPc, conv, outcome, late, files, http>>

\* 202, or an exception out of Thread.start() with the job already tracked.
StartRun(j) ==
  /\ submitPc[j] = "start"
  /\ \/ /\ runPc' = [runPc EXCEPT ![j] = "acquire"]
        /\ submitPc' = [submitPc EXCEPT ![j] = "accepted"]
     \/ /\ ThreadStartMayFail
        /\ submitPc' = [submitPc EXCEPT ![j] = "refused"]
        /\ UNCHANGED runPc
  /\ UNCHANGED <<table, slots, job, conv, outcome, late, files, http>>

-----------------------------------------------------------------------------
(* _run(): the watchdog thread of one job.  Writes leave everything but    *)
(* the job's own fields alone, looks leave those alone too.                *)

Goto(j, from, to) ==
  /\ runPc[j] = from
  /\ runPc' = [runPc EXCEPT ![j] = to]

Write(j, from, to) ==
  /\ Goto(j, from, to)
  /\ UNCHANGED <<table, slots, cancel, submitPc, conv, outcome, late, files, http>>

Look(j, from, to) == Write(j, from, to) /\ UNCHANGED <<status, error, detail, result>>

\* Mutant: the semaphore does not bound anything.
AcquireUnbounded(j) ==
  /\ Goto(j, "acquire", "check")
  /\ slots' = slots - 1
  /\ UNCHANGED <<table, job, submitPc, conv, outcome, late, files, http>>

Acquire(j) ==
  /\ Goto(j, "acquire", "check")
  /\ slots > 0
  /\ slots' = slots - 1
  /\ UNCHANGED <<table, job, submitPc, conv, outcome, late, files, http>>

\* Mutant: a cancelled job is not skipped when its turn comes.
CheckNothing(j) == Look(j, "check", "mark")

CheckCancel(j) == Look(j, "check", IF cancel[j] THEN "release" ELSE "mark")

MarkRunning(j) ==
  /\ Write(j, "mark", "spawn")
  /\ status' = [status EXCEPT ![j] = "running"]
  /\ UNCHANGED <<error, detail, result>>

\* Mutants: the slot is not given back when the thread cannot start; the input
\* is deleted as soon as the conversion has started.
SpawnLeaksSlot(j) ==
  /\ \/ Goto(j, "spawn", "wait") /\ conv' = [conv EXCEPT ![j] = "busy"]
     \/ ThreadStartMayFail /\ Goto(j, "spawn", "unlink") /\ UNCHANGED conv
  /\ UNCHANGED <<table, slots, job, submitPc, outcome, late, files, http>>

SpawnUnlinks(j) ==
  /\ Goto(j, "spawn", "wait") /\ conv' = [conv EXCEPT ![j] = "busy"]
  /\ files' = files \ {j}
  /\ UNCHANGED <<table, slots, job, submitPc, outcome, late, http>>

\* worker.start(); a refused thread leaves through the finally clause.
Spawn(j) ==
  /\ \/ Goto(j, "spawn", "wait") /\ conv' = [conv EXCEPT ![j] = "busy"]
     \/ ThreadStartMayFail /\ Goto(j, "spawn", "release") /\ UNCHANGED conv
  /\ UNCHANGED <<table, slots, job, submitPc, outcome, late, files, http>>

\* Mutant: what wait() returns is ignored.
WaitOnce(j) == Look(j, "wait", "drained")

\* done.wait(0.25): TRUE when the event is set, else it times out.
Wait(j) == Look(j, "wait", IF conv[j] = "done" THEN "drained" ELSE "tick")

Tick(j) == Look(j, "tick", IF cancel[j] THEN "release" ELSE "deadline")

\* Mutant: the watchdog never looks at the clock.
DeadlineIgnored(j) == Look(j, "deadline", "wait")

Deadline(j) == Look(j, "deadline", IF late[j] THEN "expire" ELSE "wait")

\* Mutant: an error left by the conversion is taken for a result.
DrainedUnchecked(j) == Look(j, "drained", IF cancel[j] THEN "release" ELSE "store")

Drained(j) ==
  Look(j, "drained", IF cancel[j] THEN "release"
                     ELSE IF outcome[j] \in Codes THEN "fail" ELSE "store")

\* Mutant: the message is written before the code.
FailMessageFirst(j) ==
  /\ Write(j, "expire", "expired") \/ Write(j, "fail", "failed")
  /\ status' = [status EXCEPT ![j] = "failed"]
  /\ detail' = [detail EXCEPT ![j] = {"message"}]
  /\ UNCHANGED <<error, result>>

\* _fail() writes the status first, then the code, the message, and what is missing.
Fail(j) ==
  /\ Write(j, "expire", "expired") \/ Write(j, "fail", "failed")
  /\ status' = [status EXCEPT ![j] = "failed"]
  /\ UNCHANGED <<error, detail, result>>

\* Mutant: the timeout branch does not return after _fail().
WriteCodeAndGoOn(j) ==
  /\ \/ Write(j, "expired", "wait") /\ error' = [error EXCEPT ![j] = "timeout"]
     \/ Write(j, "failed", "message") /\ error' = [error EXCEPT ![j] = outcome[j]]
  /\ UNCHANGED <<status, detail, result>>

WriteCode(j) ==
  /\ \/ Write(j, "expired", "message") /\ error' = [error EXCEPT ![j] = "timeout"]
     \/ Write(j, "failed", "message") /\ error' = [error EXCEPT ![j] = outcome[j]]
  /\ UNCHANGED <<status, detail, result>>

WriteMessage(j) ==
  /\ Write(j, "message", "missing")
  /\ detail' = [detail EXCEPT ![j] = @ \cup {"message"}]
  /\ UNCHANGED <<status, error, result>>

\* Only a parse's own error comes with a list of what is missing.
WriteMissing(j) ==
  /\ Write(j, "missing", "release")
  /\ detail' = [detail EXCEPT ![j] = IF error[j] = "timeout" THEN @
                                     ELSE @ \cup {"missing"}]
  /\ UNCHANGED <<status, error, result>>

Store(j) ==
  /\ Write(j, "store", "succeed")
  /\ result' = [result EXCEPT ![j] = outcome[j]]
  /\ UNCHANGED <<status, error, detail>>

Succeed(j) ==
  /\ Write(j, "succeed", "release")
  /\ status' = [status EXCEPT ![j] = "succeeded"]
  /\ UNCHANGED <<error, detail, result>>

Release(j) ==
  /\ Goto(j, "release", "unlink")
  /\ slots' = slots + 1
  /\ outcome' = [outcome EXCEPT ![j] = None]
  /\ late' = [late EXCEPT ![j] = FALSE]
  /\ UNCHANGED <<table, job, submitPc, conv, files, http>>

\* An OSError ends the thread, with the file left behind.
Unlink(j) ==
  /\ Goto(j, "unlink", "ended")
  /\ \/ files' = files \ {j}
     \/ j \in Undeletable /\ UNCHANGED files
  /\ UNCHANGED <<table, slots, job, submitPc, conv, outcome, late, http>>

-----------------------------------------------------------------------------
(* work(): the conversion, which nothing can stop, and the clock.          *)

\* parse_file() returns or raises.  It reads its input as it goes, so a file
\* deleted under it may or may not be missed.  Nobody sees the outcome it
\* leaves after the watchdog has returned.
Convert(j) ==
  /\ conv[j] = "busy"
  /\ \/ /\ ~Returned(j)
        /\ \E o \in {"doc", "parse_failed"} \cup (IF Gone(j) THEN {"file_gone"} ELSE {}) :
             outcome' = [outcome EXCEPT ![j] = o]
     \/ /\ Returned(j)
        /\ UNCHANGED outcome
  /\ conv' = [conv EXCEPT ![j] = "done"]
  /\ UNCHANGED <<table, slots, job, submitPc, runPc, late, files, http>>

DeadlinePasses(j) ==
  /\ runPc[j] \in {"spawn", "wait", "tick", "deadline"}
  /\ ~late[j]
  /\ late' = [late EXCEPT ![j] = TRUE]
  /\ UNCHANGED <<table, slots, job, submitPc, runPc, conv, outcome, files, http>>

-----------------------------------------------------------------------------
(* The HTTP threads.  get() is atomic under the lock; the fields are then  *)
(* read one by one without it.  An unknown id answers 404 at once.         *)

Serve(c, from, to) ==
  /\ reqPc[c] = from
  /\ reqPc' = [reqPc EXCEPT ![c] = to]
  /\ UNCHANGED <<table, slots, error, detail, result, threads, files>>

Read(c, from, to) == Serve(c, from, to) /\ UNCHANGED <<status, cancel, req>>

Lookup(c, j) ==
  /\ lock = None /\ j \in jobs
  /\ \/ /\ c \in Cancellers
        /\ Serve(c, "idle", "check")
        /\ req' = [req EXCEPT ![c] = [op |-> "delete", job |-> j]]
     \/ /\ c \in Pollers
        /\ Serve(c, "idle", "status")
        /\ req' = [req EXCEPT ![c] = [op |-> "get", job |-> j]]
  /\ UNCHANGED <<status, cancel, seen>>

\* cancel(): a job already terminal is returned as it is.
CancelCheck(c) ==
  /\ Read(c, "check", IF status[req[c].job] \in TERMINAL THEN "status" ELSE "set")
  /\ UNCHANGED seen

CancelSet(c) ==
  /\ Serve(c, "set", "write")
  /\ cancel' = [cancel EXCEPT ![req[c].job] = TRUE]
  /\ UNCHANGED <<status, req, seen>>

CancelWrite(c) ==
  /\ Serve(c, "write", "status")
  /\ status' = [status EXCEPT ![req[c].job] = "cancelled"]
  /\ UNCHANGED <<cancel, req, seen>>

\* snapshot(): status, message, code, what is missing, and the result if asked for.
ReadStatus(c) ==
  /\ Read(c, "status", "message")
  /\ seen' = [seen EXCEPT ![c].status = status[req[c].job]]

ReadMessage(c) ==
  /\ Read(c, "message", "error")
  /\ seen' = [seen EXCEPT ![c].detail = detail[req[c].job] \cap {"message"}]

ReadError(c) ==
  /\ Read(c, "error", "missing")
  /\ seen' = [seen EXCEPT ![c].error = error[req[c].job]]

ReadMissing(c) ==
  /\ Read(c, "missing", IF req[c].op = "get" THEN "result" ELSE "reply")
  /\ seen' = [seen EXCEPT ![c].detail = @ \cup (detail[req[c].job] \cap {"missing"})]

ReadResult(c) ==
  /\ Read(c, "result", "reply")
  /\ seen' = [seen EXCEPT ![c].result = result[req[c].job]]

Reply(c) ==
  /\ Serve(c, "reply", "idle")
  /\ req' = [req EXCEPT ![c] = NoRequest]
  /\ seen' = [seen EXCEPT ![c] = Unseen]
  /\ UNCHANGED <<status, cancel>>

-----------------------------------------------------------------------------
Submitting(j) == EvictOne(j) \/ EvictEnd(j) \/ StartRun(j)

Running(j) ==
  \/ Acquire(j) \/ CheckCancel(j) \/ MarkRunning(j) \/ Spawn(j)
  \/ Wait(j) \/ Tick(j) \/ Deadline(j) \/ Drained(j)
  \/ Fail(j) \/ WriteCode(j) \/ WriteMessage(j) \/ WriteMissing(j)
  \/ Store(j) \/ Succeed(j)
  \/ Release(j) \/ Unlink(j)

Handling(c) ==
  \/ CancelCheck(c) \/ CancelSet(c) \/ CancelWrite(c)
  \/ ReadStatus(c) \/ ReadMessage(c) \/ ReadError(c) \/ ReadMissing(c) \/ ReadResult(c)
  \/ Reply(c)

Next ==
  \/ \E j \in Jobs : \/ Submit(j) \/ Submitting(j) \/ Running(j)
                     \/ Convert(j) \/ DeadlinePasses(j)
  \/ \E c \in Callers : \/ \E j \in Jobs : Lookup(c, j)
                        \/ Handling(c)

Spec == Init /\ [][Next]_vars

\* Started threads are scheduled (submit() is over before _run() begins, so one
\* condition serves both) and the clock advances.  Nobody is obliged to send a
\* request, and no conversion is obliged to return.
Fairness ==
  /\ \A j \in Jobs : /\ WF_vars(Submitting(j) \/ Running(j))
                     /\ WF_vars(DeadlinePasses(j))
  /\ \A c \in Callers : WF_vars(Handling(c))

FairSpec == Spec /\ Fairness

-----------------------------------------------------------------------------
(* Properties.                                                             *)

Requests == [op : {None, "get", "delete"}, job : Jobs \cup {None}]

Snapshots == [status : Status \cup {None}, error : Answers, detail : SUBSET Details,
              result : Answers]

\* The values every variable may take.
TypeOK ==
  /\ jobs \subseteq Jobs
  /\ order \in Seq(Jobs)
  /\ lock \in Jobs \cup {None}
  /\ scan \in Nat \ {0}
  /\ slots \in Nat
  /\ status \in [Jobs -> Status]
  /\ cancel \in [Jobs -> BOOLEAN]
  /\ error \in [Jobs -> Answers]
  /\ detail \in [Jobs -> SUBSET Details]
  /\ result \in [Jobs -> Answers]
  /\ submitPc \in [Jobs -> SubmitPcs]
  /\ runPc \in [Jobs -> RunPcs]
  /\ conv \in [Jobs -> ConvPcs]
  /\ outcome \in [Jobs -> Answers]
  /\ late \in [Jobs -> BOOLEAN]
  /\ files \subseteq Staged
  /\ reqPc \in [Callers -> ReqPcs]
  /\ req \in [Callers -> Requests]
  /\ seen \in [Callers -> Snapshots]
  /\ \A c \in Callers : reqPc[c] # "idle" => req[c].job \in Jobs

\* No path through _run() loses or duplicates a worker slot: the free slots and
\* the watchdogs between acquire() and release() always add up to MAX_WORKERS.
SlotsAccounted ==
  slots + Cardinality({j \in Jobs : HoldsSlot(j)}) = MAX_WORKERS

\* _jobs and _order stay two views of one table, whatever evictions interleave.
TableConsistent ==
  /\ jobs = ToSet(order)
  /\ Cardinality(jobs) = Len(order)

\* A poll cannot lose a parse it still waits for: a submitted job that is
\* neither finished nor cancelled is in the table, over budget or not.
WantedJobsListed ==
  \A j \in Jobs : status[j] \in {"queued", "running"} /\ ~cancel[j] => j \in jobs

\* Deleting staged inputs never shows: no job fails because its own cleanup
\* removed the file its conversion was reading.
NoSelfInflictedFailure == \A j \in Jobs : error[j] # "file_gone"

\* Once a job is failed on the clock the conversion that runs on in the
\* background cannot give it a result.
LateResultDiscarded == \A j \in Jobs : error[j] = "timeout" => result[j] = None

\* A poll that reads the fields one by one while _run() writes them never shows
\* success without the document.
SuccessShowsDocument ==
  \A c \in Callers :
    reqPc[c] = "reply" /\ req[c].op = "get" /\ seen[c].status = "succeeded" =>
      seen[c].result = "doc"

\* A snapshot that shows what went wrong in words also shows the code a client acts
\* on, although _fail() writes the fields one by one while they are being read.
MessageShowsCode ==
  \A c \in Callers :
    reqPc[c] = "reply" /\ "message" \in seen[c].detail => seen[c].error # None

\* A conversion outlives its watchdog only if the job was cancelled or timed out.
AbandonedOnlyWhenGivenUp ==
  \A j \in Jobs :
    conv[j] = "busy" /\ ~HoldsSlot(j) => cancel[j] \/ error[j] = "timeout"

\* A cancel that lands before the watchdog looks keeps the job from ever being
\* parsed.
CancelledInQueueNeverParsed ==
  \A j \in Jobs :
    [](cancel[j] /\ runPc[j] \in {"acquire", "check"} => [](conv[j] = "off"))

\* However the conversion and the callers behave, an accepted job's watchdog
\* gives its slot back and deletes its staged input, unless the OS refuses that.
SlotAndInputComeBack ==
  \A j \in Jobs :
    submitPc[j] = "accepted" ~> (runPc[j] = "ended" /\ (j \in files => j \in Undeletable))

-----------------------------------------------------------------------------
(* The store implements ParseContract.  A failed job counts as still       *)
(* running until its error is there to be read.                            *)

Phase(j) ==
  CASE cancel[j] -> "withdrawn"
    [] ~cancel[j] /\ status[j] = "new" -> "absent"
    [] ~cancel[j] /\ status[j] = "failed" /\ error[j] = None -> "running"
    [] OTHER -> status[j]

Answer(j) ==
  CASE Phase(j) = "succeeded" -> result[j]
    [] Phase(j) = "failed" -> error[j]
    [] OTHER -> None

Contract == INSTANCE ParseContract WITH
  phase <- [j \in Jobs |-> Phase(j)],
  answer <- [j \in Jobs |-> Answer(j)],
  Documents <- {"doc"},
  Errors <- Codes

\* Callers see exactly the contract: one atomic, final answer per parse that
\* was not withdrawn, at most MAX_WORKERS at once, and nobody waits for ever.
ImplementsContract == Contract!CSpec

\* The same without the promise that waiting ends.
StepsImplementContract == Contract!CInit /\ [][Contract!CNext]_(Contract!cvars)

-----------------------------------------------------------------------------
(* What the code's documentation says and the code does not do.            *)

\* jobs.py: "the job never hangs".
JobNeverHangs ==
  \A j \in Jobs : status[j] \in {"queued", "running"} ~> status[j] \in TERMINAL

\* jobs.py: "the ceiling on wasted work is MAX_WORKERS stuck parses".
WastedWorkBounded == Cardinality({j \in Jobs : conv[j] = "busy"}) <= MAX_WORKERS
=============================================================================
