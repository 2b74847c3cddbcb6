--------------------------- MODULE JobStoreProofs ---------------------------
(***************************************************************************)
(* Theorems about JobStore, for every set of jobs and callers and every    *)
(* table and worker budget.                                                *)
(***************************************************************************)
EXTENDS JobStore, FiniteSetTheorems, TLAPS

LEMMA RemoveAtType ==
  ASSUME NEW S, NEW s \in Seq(S), NEW i \in 1 .. Len(s)
  PROVE  RemoveAt(s, i) \in Seq(S)
BY DEF RemoveAt

LEMMA InitRequestTypes == NoRequest \in Requests /\ Unseen \in Snapshots
BY DEF NoRequest, Requests, Unseen, Snapshots, Answers

LEMMA SnapshotTypes ==
  ASSUME NEW s \in Snapshots, NEW a \in Answers
  PROVE  /\ [s EXCEPT !.error = a] \in Snapshots
         /\ [s EXCEPT !.result = a] \in Snapshots
         /\ \A t \in Status : [s EXCEPT !.status = t] \in Snapshots
         /\ \A d \in SUBSET Details : [s EXCEPT !.detail = d] \in Snapshots
BY DEF Snapshots

USE DEF Callers, TERMINAL, Status, Codes, Answers, SubmitPcs, RunPcs, ConvPcs, ReqPcs, http

\* Every variable keeps its type.
THEOREM TypeCorrect == Spec => []TypeOK
<1>1. Init => TypeOK
  <2>. SUFFICES ASSUME Init PROVE TypeOK
    OBVIOUS
  <2>1. req \in [Callers -> Requests] /\ seen \in [Callers -> Snapshots]
    BY InitRequestTypes DEF Init
  <2>. QED
    BY <2>1, JobStoreAssumption DEF Init, TypeOK
<1>2. TypeOK /\ [Next]_vars => TypeOK'
  <2>. SUFFICES ASSUME TypeOK, [Next]_vars PROVE TypeOK'
    OBVIOUS
  <2>. USE JobStoreAssumption
  <2>1. ASSUME NEW j \in Jobs, Submit(j) PROVE TypeOK'
    BY <2>1 DEF TypeOK, Submit
  <2>2. ASSUME NEW j \in Jobs, EvictOne(j) PROVE TypeOK'
    <3>1. RemoveAt(order, scan) \in Seq(Jobs)
      BY <2>2, RemoveAtType DEF TypeOK, EvictOne
    <3>. QED
      BY <2>2, <3>1 DEF TypeOK, EvictOne, job, threads
  <2>3. ASSUME NEW j \in Jobs, EvictEnd(j) PROVE TypeOK'
    BY <2>3 DEF TypeOK, EvictEnd, job
  <2>4. ASSUME NEW j \in Jobs, StartRun(j) PROVE TypeOK'
    <3>1. runPc' \in [Jobs -> RunPcs]
      BY <2>4 DEF TypeOK, StartRun
    <3>3. submitPc' \in [Jobs -> SubmitPcs]
      BY <2>4 DEF TypeOK, StartRun
    <3>2. UNCHANGED <<table, slots, job, conv, outcome, late, files, http>>
      BY <2>4 DEF StartRun
    <3>. QED
      BY <3>1, <3>2, <3>3 DEF TypeOK, table, job
  <2>5. ASSUME NEW j \in Jobs, Running(j) PROVE TypeOK'
    <3>1. CASE Acquire(j)
      BY <3>1 DEF TypeOK, Acquire, Goto, table, job
    <3>2. CASE CheckCancel(j)
      BY <3>2 DEF TypeOK, CheckCancel, Look, Write, Goto, table
    <3>3. CASE MarkRunning(j)
      BY <3>3 DEF TypeOK, MarkRunning, Write, Goto, table
    <3>4. CASE Spawn(j)
      <4>1. runPc' \in [Jobs -> RunPcs]
        BY <3>4 DEF TypeOK, Spawn, Goto
      <4>2. conv' \in [Jobs -> ConvPcs]
        BY <3>4 DEF TypeOK, Spawn
      <4>. QED
        BY <3>4, <4>1, <4>2 DEF TypeOK, Spawn, table, job
    <3>5. CASE Wait(j)
      BY <3>5 DEF TypeOK, Wait, Look, Write, Goto, table
    <3>6. CASE Tick(j)
      BY <3>6 DEF TypeOK, Tick, Look, Write, Goto, table
    <3>7. CASE Deadline(j)
      BY <3>7 DEF TypeOK, Deadline, Look, Write, Goto, table
    <3>8. CASE Drained(j)
      BY <3>8 DEF TypeOK, Drained, Look, Write, Goto, table
    <3>9. CASE Fail(j)
      <4>1. runPc' \in [Jobs -> RunPcs] /\ status' \in [Jobs -> Status]
        BY <3>9 DEF TypeOK, Fail, Write, Goto
      <4>. QED
        BY <3>9, <4>1 DEF TypeOK, Fail, Write, table
    <3>10. CASE WriteCode(j)
      <4>1. /\ runPc' \in [Jobs -> RunPcs]
            /\ error' \in [Jobs -> Answers]
        BY <3>10 DEF TypeOK, WriteCode, Write, Goto
      <4>2. UNCHANGED <<table, slots, cancel, submitPc, conv, outcome, late, files, http,
                        status, detail, result>>
        BY <3>10 DEF WriteCode, Write
      <4>. QED
        BY <4>1, <4>2 DEF TypeOK, table
    <3>11. CASE Store(j)
      BY <3>11 DEF TypeOK, Store, Write, Goto, table
    <3>12. CASE Succeed(j)
      BY <3>12 DEF TypeOK, Succeed, Write, Goto, table
    <3>13. CASE Release(j)
      BY <3>13 DEF TypeOK, Release, Goto, table, job
    <3>14. CASE Unlink(j)
      BY <3>14 DEF TypeOK, Unlink, Goto, table, job
    <3>15. CASE WriteMessage(j)
      <4>1. detail[j] \cup {"message"} \in SUBSET Details
        BY DEF TypeOK, Details
      <4>2. detail' \in [Jobs -> SUBSET Details]
        BY <3>15, <4>1 DEF TypeOK, WriteMessage
      <4>. QED
        BY <3>15, <4>2 DEF TypeOK, WriteMessage, Write, Goto, table
    <3>16. CASE WriteMissing(j)
      <4>. DEFINE d == IF error[j] = "timeout" THEN detail[j] ELSE detail[j] \cup {"missing"}
      <4>1. d \in SUBSET Details
        BY DEF TypeOK, Details
      <4>2. detail' = [detail EXCEPT ![j] = d]
        BY <3>16 DEF WriteMissing
      <4>. HIDE DEF d
      <4>3. detail' \in [Jobs -> SUBSET Details]
        BY <4>1, <4>2 DEF TypeOK
      <4>. QED
        BY <3>16, <4>3 DEF TypeOK, WriteMissing, Write, Goto, table
    <3>. QED
      BY <2>5, <3>1, <3>2, <3>3, <3>4, <3>5, <3>6, <3>7, <3>8, <3>9, <3>10,
         <3>11, <3>12, <3>13, <3>14, <3>15, <3>16 DEF Running
  <2>6. ASSUME NEW j \in Jobs, Convert(j) PROVE TypeOK'
    BY <2>6 DEF TypeOK, Convert, table, job
  <2>7. ASSUME NEW j \in Jobs, DeadlinePasses(j) PROVE TypeOK'
    BY <2>7 DEF TypeOK, DeadlinePasses, table, job
  <2>8. ASSUME NEW c \in Callers, NEW j \in Jobs, Lookup(c, j) PROVE TypeOK'
    <3>1. /\ [op |-> "delete", job |-> j] \in Requests
          /\ [op |-> "get", job |-> j] \in Requests
      BY DEF Requests
    <3>2. req' \in [Callers -> Requests]
      BY <2>8, <3>1 DEF TypeOK, Lookup
    <3>3. reqPc' \in [Callers -> ReqPcs]
      BY <2>8 DEF TypeOK, Lookup, Serve
    <3>4. /\ req'[c].job \in Jobs
          /\ \A d \in Callers \ {c} : reqPc'[d] = reqPc[d] /\ req'[d] = req[d]
      BY <2>8 DEF TypeOK, Lookup, Serve
    <3>5. \A d \in Callers : reqPc'[d] # "idle" => req'[d].job \in Jobs
      BY <3>4 DEF TypeOK
    <3>6. UNCHANGED <<table, slots, job, threads, files, seen>>
      BY <2>8 DEF Lookup, Serve, job
    <3>. QED
      BY <3>2, <3>3, <3>5, <3>6 DEF TypeOK, table, job, threads
  <2>9. ASSUME NEW c \in Callers, Handling(c) PROVE TypeOK'
    <3>. USE DEF TypeOK, table, threads
    <3>1. CASE CancelCheck(c)
      BY <3>1 DEF CancelCheck, Read, Serve
    <3>2. CASE CancelSet(c)
      BY <3>2 DEF CancelSet, Serve
    <3>3. CASE CancelWrite(c)
      BY <3>3 DEF CancelWrite, Serve
    <3>4. CASE ReadStatus(c)
      <4>1. status[req[c].job] \in Status
        BY <3>4 DEF ReadStatus, Read, Serve
      <4>2. [seen[c] EXCEPT !.status = status[req[c].job]] \in Snapshots
        BY <4>1, SnapshotTypes
      <4>3. seen' = [seen EXCEPT ![c] = [seen[c] EXCEPT !.status = status[req[c].job]]]
        BY <3>4 DEF ReadStatus
      <4>4. seen' \in [Callers -> Snapshots]
        BY <4>2, <4>3
      <4>. QED
        BY <3>4, <4>4 DEF ReadStatus, Read, Serve
    <3>5. CASE ReadError(c)
      <4>1. error[req[c].job] \in Answers
        BY <3>5 DEF ReadError, Read, Serve
      <4>2. [seen[c] EXCEPT !.error = error[req[c].job]] \in Snapshots
        BY <4>1, SnapshotTypes
      <4>3. seen' = [seen EXCEPT ![c] = [seen[c] EXCEPT !.error = error[req[c].job]]]
        BY <3>5 DEF ReadError
      <4>4. seen' \in [Callers -> Snapshots]
        BY <4>2, <4>3
      <4>5. reqPc' \in [Callers -> ReqPcs]
        BY <3>5 DEF ReadError, Read, Serve
      <4>6. \A d \in Callers : reqPc'[d] # "idle" => req'[d].job \in Jobs
        BY <3>5 DEF ReadError, Read, Serve
      <4>7. UNCHANGED <<jobs, order, lock, scan, slots, status, cancel, error, detail, result,
                        submitPc, runPc, conv, outcome, late, files, req>>
        BY <3>5 DEF ReadError, Read, Serve
      <4>. QED
        BY <4>4, <4>5, <4>6, <4>7
    <3>6. CASE ReadResult(c)
      <4>1. result[req[c].job] \in Answers
        BY <3>6 DEF ReadResult, Read, Serve
      <4>2. [seen[c] EXCEPT !.result = result[req[c].job]] \in Snapshots
        BY <4>1, SnapshotTypes
      <4>3. seen' = [seen EXCEPT ![c] = [seen[c] EXCEPT !.result = result[req[c].job]]]
        BY <3>6 DEF ReadResult
      <4>4. seen' \in [Callers -> Snapshots]
        BY <4>2, <4>3
      <4>. QED
        BY <3>6, <4>4 DEF ReadResult, Read, Serve
    <3>7. CASE Reply(c)
      BY <3>7, InitRequestTypes DEF Reply, Serve
    <3>8. CASE ReadMessage(c)
      <4>. DEFINE d == detail[req[c].job] \cap {"message"}
      <4>1. d \in SUBSET Details
        BY <3>8 DEF ReadMessage, Read, Serve, Details
      <4>2. [seen[c] EXCEPT !.detail = d] \in Snapshots
        BY <4>1, SnapshotTypes
      <4>3. seen' = [seen EXCEPT ![c] = [seen[c] EXCEPT !.detail = d]]
        BY <3>8 DEF ReadMessage
      <4>. HIDE DEF d
      <4>4. seen' \in [Callers -> Snapshots]
        BY <4>2, <4>3
      <4>5. /\ reqPc' \in [Callers -> ReqPcs]
            /\ \A e \in Callers : reqPc'[e] # "idle" => req'[e].job \in Jobs
        BY <3>8 DEF ReadMessage, Read, Serve
      <4>6. UNCHANGED <<jobs, order, lock, scan, slots, status, cancel, error, detail, result,
                        submitPc, runPc, conv, outcome, late, files, req>>
        BY <3>8 DEF ReadMessage, Read, Serve
      <4>. QED
        BY <4>4, <4>5, <4>6
    <3>9. CASE ReadMissing(c)
      <4>. DEFINE d == seen[c].detail \cup (detail[req[c].job] \cap {"missing"})
      <4>1. d \in SUBSET Details
        <5>1. req[c].job \in Jobs /\ seen[c] \in Snapshots
          BY <3>9 DEF ReadMissing, Read, Serve
        <5>. QED
          BY <5>1 DEF Details, Snapshots
      <4>2. [seen[c] EXCEPT !.detail = d] \in Snapshots
        BY <4>1, SnapshotTypes
      <4>3. seen' = [seen EXCEPT ![c] = [seen[c] EXCEPT !.detail = d]]
        BY <3>9 DEF ReadMissing
      <4>. HIDE DEF d
      <4>4. seen' \in [Callers -> Snapshots]
        BY <4>2, <4>3
      <4>5. /\ reqPc' \in [Callers -> ReqPcs]
            /\ \A e \in Callers : reqPc'[e] # "idle" => req'[e].job \in Jobs
        BY <3>9 DEF ReadMissing, Read, Serve
      <4>6. UNCHANGED <<jobs, order, lock, scan, slots, status, cancel, error, detail, result,
                        submitPc, runPc, conv, outcome, late, files, req>>
        BY <3>9 DEF ReadMissing, Read, Serve
      <4>. QED
        BY <4>4, <4>5, <4>6
    <3>. QED
      BY <2>9, <3>1, <3>2, <3>3, <3>4, <3>5, <3>6, <3>7, <3>8, <3>9 DEF Handling
  <2>10. CASE UNCHANGED vars
    BY <2>10 DEF TypeOK, vars, table, job, threads, http
  <2>. QED
    BY <2>1, <2>2, <2>3, <2>4, <2>5, <2>6, <2>7, <2>8, <2>9, <2>10
    DEF Next, Submitting
<1>. QED
  BY <1>1, <1>2, PTL DEF Spec

-----------------------------------------------------------------------------
(* The table lock is only held across steps by the eviction of a submit(), *)
(* and no job has a watchdog before its submit() starts one.               *)

StartedLast ==
  \A j \in Jobs : /\ lock = j => submitPc[j] = "evict"
                  /\ submitPc[j] # "accepted" => runPc[j] = "idle"

LEMMA StartedLastInvariant == Spec => []StartedLast
<1>1. Init => StartedLast
  BY JobStoreAssumption DEF Init, StartedLast
<1>2. TypeOK /\ StartedLast /\ [Next]_vars => StartedLast'
  <2>. SUFFICES ASSUME TypeOK, StartedLast, [Next]_vars PROVE StartedLast'
    OBVIOUS
  <2>. USE DEF StartedLast, TypeOK
  <2>1. ASSUME UNCHANGED <<lock, submitPc, runPc>> PROVE StartedLast'
    BY <2>1
  <2>2. ASSUME NEW j \in Jobs, Submit(j) \/ Submitting(j) PROVE StartedLast'
    <3>1. CASE Submit(j)
      BY <3>1 DEF Submit
    <3>2. CASE EvictOne(j)
      BY <2>1, <3>2 DEF EvictOne, threads
    <3>3. CASE EvictEnd(j)
      BY <3>3, JobStoreAssumption DEF EvictEnd
    <3>4. CASE StartRun(j)
      BY <3>4 DEF StartRun, table
    <3>. QED
      BY <2>2, <3>1, <3>2, <3>3, <3>4 DEF Submitting
  <2>3. ASSUME NEW j \in Jobs, Running(j) PROVE StartedLast'
    <3>1. UNCHANGED <<lock, submitPc>> /\ \E to \in RunPcs : Goto(j, runPc[j], to)
      BY <2>3 DEF Running, Acquire, CheckCancel, MarkRunning, Spawn, Wait, Tick,
         Deadline, Drained, Fail, WriteCode, WriteMessage, WriteMissing, Store, Succeed,
         Release, Unlink, Look,
         Write, Goto, table
    <3>2. runPc[j] # "idle"
      BY <2>3 DEF Running, Acquire, CheckCancel, MarkRunning, Spawn, Wait, Tick,
         Deadline, Drained, Fail, WriteCode, WriteMessage, WriteMissing, Store, Succeed,
         Release, Unlink, Look,
         Write, Goto
    <3>. QED
      BY <3>1, <3>2 DEF Goto
  <2>4. ASSUME NEW j \in Jobs, Convert(j) \/ DeadlinePasses(j) PROVE StartedLast'
    BY <2>1, <2>4 DEF Convert, DeadlinePasses, table
  <2>5. ASSUME NEW c \in Callers, Handling(c) \/ \E j \in Jobs : Lookup(c, j)
        PROVE  StartedLast'
    BY <2>1, <2>5 DEF Handling, CancelCheck, CancelSet, CancelWrite, ReadStatus,
       ReadMessage, ReadError, ReadMissing, ReadResult, Reply, Lookup, Read, Serve, table,
       threads
  <2>. QED
    BY <2>1, <2>2, <2>3, <2>4, <2>5 DEF Next, vars, table, threads
<1>. QED
  BY <1>1, <1>2, TypeCorrect, PTL DEF Spec

-----------------------------------------------------------------------------
(* Worker slots.                                                           *)

\* Only acquire() and release() change who holds a slot, or how many are free.
LEMMA SlotFrame ==
  ASSUME TypeOK, StartedLast, [Next]_vars
  PROVE  \/ \E j \in Jobs : Acquire(j) \/ Release(j)
         \/ slots' = slots /\ \A k \in Jobs : HoldsSlot(k)' <=> HoldsSlot(k)
<1>. DEFINE Frame == slots' = slots /\ \A k \in Jobs : HoldsSlot(k)' <=> HoldsSlot(k)
<1>. USE DEF TypeOK, HoldsSlot
<1>1. ASSUME UNCHANGED <<slots, runPc>> PROVE Frame
  BY <1>1
<1>2. ASSUME NEW j \in Jobs, Submit(j) \/ EvictOne(j) \/ EvictEnd(j) PROVE Frame
  BY <1>1, <1>2 DEF Submit, EvictOne, EvictEnd, threads
<1>3. ASSUME NEW j \in Jobs, StartRun(j) PROVE Frame
  <2>1. runPc[j] = "idle"
    BY <1>3 DEF StartRun, StartedLast
  <2>. QED
    BY <1>3, <2>1 DEF StartRun
<1>4. ASSUME NEW j \in Jobs, CheckCancel(j) \/ MarkRunning(j) \/ Spawn(j) PROVE Frame
  BY <1>4 DEF CheckCancel, MarkRunning, Spawn, Look, Write, Goto
<1>5. ASSUME NEW j \in Jobs, Wait(j) \/ Tick(j) \/ Deadline(j) \/ Drained(j)
      PROVE  Frame
  BY <1>5 DEF Wait, Tick, Deadline, Drained, Look, Write, Goto
<1>6. ASSUME NEW j \in Jobs,
             \/ Fail(j) \/ WriteCode(j) \/ WriteMessage(j) \/ WriteMissing(j)
             \/ Store(j) \/ Succeed(j)
      PROVE  Frame
  BY <1>6 DEF Fail, WriteCode, WriteMessage, WriteMissing, Store, Succeed, Write, Goto
<1>7. ASSUME NEW j \in Jobs, Unlink(j) PROVE Frame
  BY <1>7 DEF Unlink, Goto
<1>8. ASSUME NEW j \in Jobs, Convert(j) \/ DeadlinePasses(j) PROVE Frame
  BY <1>1, <1>8 DEF Convert, DeadlinePasses
<1>9. ASSUME NEW c \in Callers, Handling(c) \/ \E j \in Jobs : Lookup(c, j)
      PROVE  Frame
  BY <1>1, <1>9 DEF Handling, CancelCheck, CancelSet, CancelWrite, ReadStatus,
     ReadMessage, ReadError, ReadMissing, ReadResult, Reply, Lookup, Read, Serve, threads
<1>10. ASSUME UNCHANGED vars PROVE Frame
  BY <1>1, <1>10 DEF vars, threads
<1>. HIDE DEF Frame, TypeOK, HoldsSlot
<1>11. ASSUME NEW j \in Jobs, Submitting(j) PROVE Frame
  BY <1>2, <1>3, <1>11 DEF Submitting
<1>12. ASSUME NEW j \in Jobs, Running(j), ~Acquire(j), ~Release(j) PROVE Frame
  BY <1>4, <1>5, <1>6, <1>7, <1>12 DEF Running
<1>13. Frame \/ \E j \in Jobs : Acquire(j) \/ Release(j)
  BY <1>2, <1>8, <1>9, <1>10, <1>11, <1>12 DEF Next
<1>. QED
  BY <1>13 DEF Frame

LEMMA OneOver ==
  ASSUME NEW a \in Nat, NEW b \in Nat, NEW c, a + b = c
  PROVE  (a + 1) + (b - 1) = c
OBVIOUS

\* The free slots and the watchdogs that hold one always add up to MAX_WORKERS:
\* no path out of _run() loses a slot, none gives one back twice.
THEOREM SlotsConserved == Spec => []SlotsAccounted
<1>. DEFINE Holders == {j \in Jobs : HoldsSlot(j)}
<1>. USE JobStoreAssumption
<1>1. Init => SlotsAccounted
  <2>. SUFFICES ASSUME Init PROVE SlotsAccounted
    OBVIOUS
  <2>1. Holders = {}
    BY DEF Init, HoldsSlot
  <2>2. slots = MAX_WORKERS
    BY DEF Init
  <2>. QED
    BY <2>1, <2>2, FS_EmptySet DEF SlotsAccounted
<1>2. TypeOK /\ StartedLast /\ SlotsAccounted /\ [Next]_vars => SlotsAccounted'
  <2>. SUFFICES ASSUME TypeOK, StartedLast, SlotsAccounted, [Next]_vars
                PROVE  slots' + Cardinality(Holders') = MAX_WORKERS
    BY DEF SlotsAccounted
  <2>1. /\ slots \in Nat /\ slots + Cardinality(Holders) = MAX_WORKERS
        /\ IsFiniteSet(Holders) /\ Cardinality(Holders) \in Nat
    BY FS_Subset, FS_CardinalityType DEF TypeOK, SlotsAccounted
  <2>2. ASSUME NEW j \in Jobs, Acquire(j)
        PROVE  slots' + Cardinality(Holders') = MAX_WORKERS
    <3>1. j \notin Holders /\ Holders' = Holders \cup {j} /\ slots' = slots - 1
      BY <2>2 DEF Acquire, Goto, HoldsSlot, TypeOK
    <3>2. Cardinality(Holders') = Cardinality(Holders) + 1
      BY <2>1, <3>1, FS_AddElement
    <3>. HIDE DEF Holders
    <3>. QED
      BY <2>1, <3>1, <3>2
  <2>3. ASSUME NEW j \in Jobs, Release(j)
        PROVE  slots' + Cardinality(Holders') = MAX_WORKERS
    <3>1. j \in Holders /\ Holders' = Holders \ {j} /\ slots' = slots + 1
      BY <2>3 DEF Release, Goto, HoldsSlot, TypeOK
    <3>. HIDE DEF Holders
    <3>2. Cardinality(Holders') = Cardinality(Holders) - 1
      BY <2>1, <3>1, FS_RemoveElement
    <3>3. (slots + 1) + (Cardinality(Holders) - 1) = MAX_WORKERS
      BY <2>1, OneOver
    <3>. QED
      BY <3>1, <3>2, <3>3
  <2>4. ASSUME slots' = slots, \A k \in Jobs : HoldsSlot(k)' <=> HoldsSlot(k)
        PROVE  slots' + Cardinality(Holders') = MAX_WORKERS
    <3>1. Holders' = Holders
      BY <2>4
    <3>. HIDE DEF Holders
    <3>. QED
      BY <2>1, <2>4, <3>1
  <2>. QED
    BY <2>2, <2>3, <2>4, SlotFrame
<1>. QED
  BY <1>1, <1>2, TypeCorrect, StartedLastInvariant, PTL DEF Spec

-----------------------------------------------------------------------------
(* The two views of the table.                                             *)

NoRepeats(s) == \A a, b \in 1 .. Len(s) : s[a] = s[b] => a = b

LEMMA RemoveAtView ==
  ASSUME NEW S, NEW s \in Seq(S), NoRepeats(s), NEW i \in 1 .. Len(s)
  PROVE  /\ NoRepeats(RemoveAt(s, i))
         /\ Len(RemoveAt(s, i)) = Len(s) - 1
         /\ ToSet(RemoveAt(s, i)) = ToSet(s) \ {s[i]}
<1>. DEFINE r == RemoveAt(s, i)
<1>1. /\ r \in Seq(S) /\ Len(r) = Len(s) - 1
      /\ \A a \in 1 .. Len(r) : r[a] = IF a < i THEN s[a] ELSE s[a + 1]
  <2>. DEFINE u == SubSeq(s, 1, i - 1)
              v == SubSeq(s, i + 1, Len(s))
  <2>1. /\ u \in Seq(S) /\ Len(u) = i - 1 /\ \A a \in 1 .. i - 1 : u[a] = s[a]
        /\ v \in Seq(S) /\ Len(v) = Len(s) - i
        /\ \A a \in 1 .. Len(s) - i : v[a] = s[a + i]
    OBVIOUS
  <2>2. r = u \o v
    BY DEF RemoveAt
  <2>. HIDE DEF r, u, v
  <2>3. /\ r \in Seq(S) /\ Len(r) = Len(u) + Len(v)
        /\ \A a \in 1 .. i - 1 : r[a] = u[a]
        /\ \A a \in 1 .. Len(s) - i : r[(i - 1) + a] = v[a]
    <3>0. u \in Seq(S) /\ v \in Seq(S)
      BY <2>1
    <3>1. Len(u) = i - 1 /\ Len(v) = Len(s) - i
      BY <2>1
    <3>2. /\ r \in Seq(S) /\ Len(r) = Len(u) + Len(v)
          /\ \A a \in 1 .. Len(u) : r[a] = u[a]
          /\ \A a \in 1 .. Len(v) : r[Len(u) + a] = v[a]
      BY <2>2, <3>0
    <3>. QED
      BY <3>1, <3>2, Zenon
  <2>4. Len(s) \in Nat /\ i \in Nat /\ 1 <= i /\ i <= Len(s) /\ Len(r) = Len(s) - 1
    BY <2>1, <2>3
  <2>5. ASSUME NEW a \in 1 .. Len(r) PROVE r[a] = IF a < i THEN s[a] ELSE s[a + 1]
    <3>1. CASE a < i
      <4>1. a \in 1 .. i - 1
        BY <2>4, <3>1
      <4>. QED
        BY <2>1, <2>3, <3>1, <4>1
    <3>2. CASE a >= i
      <4>. DEFINE b == a - (i - 1)
      <4>1. b \in 1 .. Len(s) - i /\ (i - 1) + b = a /\ b + i = a + 1 /\ ~(a < i)
        BY <2>4, <3>2
      <4>. HIDE DEF b
      <4>. QED
        BY <2>1, <2>3, <4>1, Zenon
    <3>. QED
      BY <2>4, <3>1, <3>2
  <2>. QED
    BY <2>3, <2>4, <2>5
<1>. HIDE DEF r
<1>2. NoRepeats(r)
  BY <1>1 DEF NoRepeats
<1>3. ASSUME NEW x \in ToSet(r) PROVE x \in ToSet(s) \ {s[i]}
  <2>1. PICK a \in 1 .. Len(r) : x = r[a]
    BY <1>3 DEF ToSet
  <2>2. \E b \in 1 .. Len(s) : b # i /\ x = s[b]
    BY <1>1, <2>1
  <2>. QED
    BY <2>2 DEF ToSet, NoRepeats
<1>4. ASSUME NEW x \in ToSet(s) \ {s[i]} PROVE x \in ToSet(r)
  <2>1. PICK b \in 1 .. Len(s) : x = s[b] /\ b # i
    BY <1>4 DEF ToSet
  <2>2. CASE b < i
    BY <1>1, <2>1, <2>2 DEF ToSet
  <2>3. CASE b > i
    <3>1. b - 1 \in 1 .. Len(r) /\ r[b - 1] = s[b]
      BY <1>1, <2>1, <2>3
    <3>2. b - 1 \in DOMAIN r /\ x = r[b - 1]
      BY <1>1, <2>1, <3>1
    <3>. QED
      BY <3>2 DEF ToSet
  <2>. QED
    BY <2>1, <2>2, <2>3
<1>. QED
  BY <1>1, <1>2, <1>3, <1>4 DEF r

LEMMA AppendView ==
  ASSUME NEW S, NEW s \in Seq(S), NoRepeats(s), NEW e \in S, e \notin ToSet(s)
  PROVE  /\ NoRepeats(Append(s, e))
         /\ Len(Append(s, e)) = Len(s) + 1
         /\ ToSet(Append(s, e)) = ToSet(s) \cup {e}
BY DEF NoRepeats, ToSet

\* A job is listed once, and not before its submit().
TableInv ==
  /\ TableConsistent
  /\ NoRepeats(order)
  /\ \A j \in Jobs : submitPc[j] = "idle" => j \notin jobs

\* _jobs and _order stay two views of one table, whatever evictions interleave.
THEOREM TableIsOne == Spec => []TableConsistent
<1>1. Init => TableInv
  BY FS_EmptySet DEF Init, TableInv, TableConsistent, NoRepeats, ToSet
<1>2. TypeOK /\ StartedLast /\ TableInv /\ [Next]_vars => TableInv'
  <2>. SUFFICES ASSUME TypeOK, StartedLast, TableInv, [Next]_vars PROVE TableInv'
    OBVIOUS
  <2>0. /\ order \in Seq(Jobs) /\ jobs \subseteq Jobs /\ submitPc \in [Jobs -> SubmitPcs]
        /\ jobs = ToSet(order) /\ Cardinality(jobs) = Len(order) /\ NoRepeats(order)
        /\ IsFiniteSet(jobs) /\ Len(order) \in Nat
    BY JobStoreAssumption, FS_Subset DEF TypeOK, TableInv, TableConsistent
  <2>1. ASSUME UNCHANGED <<jobs, order>>, \A j \in Jobs : submitPc'[j] = "idle" => submitPc[j] = "idle"
        PROVE  TableInv'
    BY <2>1 DEF TableInv, TableConsistent
  <2>2. ASSUME NEW j \in Jobs, Submit(j) PROVE TableInv'
    <3>1. /\ j \notin jobs /\ jobs' = jobs \cup {j} /\ order' = Append(order, j)
          /\ submitPc' = [submitPc EXCEPT ![j] = "evict"]
      BY <2>2 DEF Submit, TableInv
    <3>2. Cardinality(jobs') = Cardinality(jobs) + 1
      BY <2>0, <3>1, FS_AddElement
    <3>3. jobs' = ToSet(order') /\ NoRepeats(order') /\ Len(order') = Len(order) + 1
      BY <2>0, <3>1, AppendView
    <3>4. \A k \in Jobs : submitPc'[k] = "idle" => k \notin jobs'
      BY <2>0, <3>1 DEF TableInv
    <3>. QED
      BY <2>0, <3>2, <3>3, <3>4 DEF TableInv, TableConsistent
  <2>3. ASSUME NEW j \in Jobs, EvictOne(j) PROVE TableInv'
    <3>1. UNCHANGED submitPc
      BY <2>3 DEF EvictOne, threads
    <3>2. CASE UNCHANGED <<jobs, order>>
      BY <2>1, <3>1, <3>2
    <3>3. CASE /\ jobs' = jobs \ {order[scan]} /\ order' = RemoveAt(order, scan)
      <4>1. scan \in 1 .. Len(order)
        BY <2>0, <2>3 DEF EvictOne, TypeOK
      <4>2. order[scan] \in jobs
        BY <2>0, <4>1 DEF ToSet
      <4>3. Cardinality(jobs') = Cardinality(jobs) - 1
        BY <2>0, <3>3, <4>2, FS_RemoveElement
      <4>4. jobs' = ToSet(order') /\ NoRepeats(order') /\ Len(order') = Len(order) - 1
        BY <2>0, <3>3, <4>1, RemoveAtView
      <4>5. \A k \in Jobs : submitPc'[k] = "idle" => k \notin jobs'
        BY <3>1, <3>3 DEF TableInv
      <4>. QED
        BY <2>0, <4>3, <4>4, <4>5 DEF TableInv, TableConsistent
    <3>. QED
      BY <2>3, <3>2, <3>3 DEF EvictOne
  <2>4. ASSUME NEW j \in Jobs, EvictEnd(j) \/ StartRun(j) PROVE TableInv'
    BY <2>0, <2>1, <2>4 DEF EvictEnd, StartRun, table
  <2>5. ASSUME NEW j \in Jobs, Running(j) PROVE TableInv'
    <3>1. UNCHANGED <<jobs, order, submitPc>>
      BY <2>5 DEF Running, Acquire, CheckCancel, MarkRunning, Spawn, Wait, Tick,
         Deadline, Drained, Fail, WriteCode, WriteMessage, WriteMissing, Store, Succeed,
         Release, Unlink, Look,
         Write, table
    <3>. QED
      BY <2>1, <3>1
  <2>6. ASSUME NEW j \in Jobs, Convert(j) \/ DeadlinePasses(j) PROVE TableInv'
    BY <2>1, <2>6 DEF Convert, DeadlinePasses, table
  <2>7. ASSUME NEW c \in Callers, Handling(c) \/ \E j \in Jobs : Lookup(c, j)
        PROVE  TableInv'
    BY <2>1, <2>7 DEF Handling, CancelCheck, CancelSet, CancelWrite, ReadStatus,
       ReadMessage, ReadError, ReadMissing, ReadResult, Reply, Lookup, Read, Serve, table,
       threads
  <2>8. ASSUME UNCHANGED vars PROVE TableInv'
    BY <2>1, <2>8 DEF vars, table, threads
  <2>. QED
    BY <2>2, <2>3, <2>4, <2>5, <2>6, <2>7, <2>8 DEF Next, Submitting
<1>3. TableInv => TableConsistent
  BY DEF TableInv
<1>. QED
  BY <1>1, <1>2, <1>3, TypeCorrect, StartedLastInvariant, PTL DEF Spec

-----------------------------------------------------------------------------
(* What a job is answered with.                                            *)

\* A job gets an error or a result, never both, and only from the end of its
\* own watchdog.
OneAnswer ==
  \A j \in Jobs :
    /\ error[j] # None => /\ runPc[j] \in {"message", "missing", "release", "unlink", "ended"}
                          /\ result[j] = None
    /\ result[j] # None => runPc[j] \in {"succeed", "release", "unlink", "ended"}

LEMMA OneAnswerInvariant == Spec => []OneAnswer
<1>1. Init => OneAnswer
  BY DEF Init, OneAnswer
<1>2. TypeOK /\ StartedLast /\ OneAnswer /\ [Next]_vars => OneAnswer'
  <2>. SUFFICES ASSUME TypeOK, StartedLast, OneAnswer, [Next]_vars PROVE OneAnswer'
    OBVIOUS
  <2>. USE DEF OneAnswer, TypeOK
  <2>1. ASSUME UNCHANGED <<error, result, runPc>> PROVE OneAnswer'
    BY <2>1
  <2>2. ASSUME NEW j \in Jobs, Submit(j) \/ Submitting(j) PROVE OneAnswer'
    <3>1. CASE Submit(j) \/ EvictOne(j) \/ EvictEnd(j)
      BY <2>1, <3>1 DEF Submit, EvictOne, EvictEnd, job, threads
    <3>2. CASE StartRun(j)
      BY <3>2 DEF StartRun, StartedLast, job
    <3>. QED
      BY <2>2, <3>1, <3>2 DEF Submitting
  <2>3. ASSUME NEW j \in Jobs, Running(j) PROVE OneAnswer'
    <3>1. CASE Acquire(j) \/ Spawn(j) \/ Release(j) \/ Unlink(j)
      BY <3>1 DEF Acquire, Spawn, Release, Unlink, Goto, job
    <3>2. CASE CheckCancel(j) \/ Wait(j) \/ Tick(j) \/ Deadline(j) \/ Drained(j)
      BY <3>2 DEF CheckCancel, Wait, Tick, Deadline, Drained, Look, Write, Goto
    <3>3. CASE MarkRunning(j) \/ Fail(j) \/ Succeed(j)
      BY <3>3 DEF MarkRunning, Fail, Succeed, Write, Goto
    <3>4. CASE WriteCode(j)
      <4>1. /\ runPc[j] \in {"expired", "failed"}
            /\ runPc' = [runPc EXCEPT ![j] = "message"]
        BY <3>4 DEF WriteCode, Write, Goto
      <4>2. result' = result /\ \A k \in Jobs \ {j} : error'[k] = error[k]
        BY <3>4 DEF WriteCode
      <4>. QED
        BY <4>1, <4>2
    <3>5. CASE Store(j)
      BY <3>5 DEF Store, Write, Goto
    <3>6. CASE WriteMessage(j) \/ WriteMissing(j)
      BY <3>6 DEF WriteMessage, WriteMissing, Write, Goto
    <3>. QED
      BY <2>3, <3>1, <3>2, <3>3, <3>4, <3>5, <3>6 DEF Running
  <2>4. ASSUME NEW j \in Jobs, Convert(j) \/ DeadlinePasses(j) PROVE OneAnswer'
    BY <2>1, <2>4 DEF Convert, DeadlinePasses, job
  <2>5. ASSUME NEW c \in Callers, Handling(c) \/ \E j \in Jobs : Lookup(c, j)
        PROVE  OneAnswer'
    BY <2>1, <2>5 DEF Handling, CancelCheck, CancelSet, CancelWrite, ReadStatus,
       ReadMessage, ReadError, ReadMissing, ReadResult, Reply, Lookup, Read, Serve, threads
  <2>6. ASSUME UNCHANGED vars PROVE OneAnswer'
    BY <2>1, <2>6 DEF vars, job, threads
  <2>. HIDE DEF OneAnswer, TypeOK
  <2>. QED
    BY <2>2, <2>3, <2>4, <2>5, <2>6 DEF Next
<1>. QED
  BY <1>1, <1>2, TypeCorrect, StartedLastInvariant, PTL DEF Spec

\* A job failed on the clock never gets a result, although its conversion runs
\* on and may succeed.
THEOREM TimedOutStaysEmpty == Spec => []LateResultDiscarded
<1>1. JobStoreAssumption /\ OneAnswer => LateResultDiscarded
  BY DEF JobStoreAssumption, OneAnswer, LateResultDiscarded
<1>. QED
  BY <1>1, JobStoreAssumption, OneAnswerInvariant, PTL

-----------------------------------------------------------------------------
(* Which jobs stay in the table.                                           *)

\* A job nobody cancels is queued until its watchdog marks it running: the only
\* terminal status an unfinished job can have comes from a DELETE, whose flag is
\* up before the status is written.
QueuedUntilMarked ==
  /\ \A j \in Jobs :
       ~cancel[j] /\ runPc[j] \in {"idle", "acquire", "check", "mark"} =>
         status[j] = IF submitPc[j] = "idle" THEN "new" ELSE "queued"
  /\ \A c \in Callers : reqPc[c] = "write" => cancel[req[c].job]

ListedInv == QueuedUntilMarked /\ WantedJobsListed

LEMMA ListedInvariant == Spec => []ListedInv
<1>1. Init => ListedInv
  BY DEF Init, ListedInv, QueuedUntilMarked, WantedJobsListed
<1>2. TypeOK /\ StartedLast /\ ListedInv /\ [Next]_vars => ListedInv'
  <2>. SUFFICES ASSUME TypeOK, StartedLast, ListedInv, [Next]_vars PROVE ListedInv'
    OBVIOUS
  <2>. USE DEF ListedInv, QueuedUntilMarked, WantedJobsListed, TypeOK
  <2>1. ASSUME UNCHANGED <<jobs, status, cancel, submitPc, runPc, reqPc, req>> PROVE ListedInv'
    BY <2>1
  <2>2. ASSUME NEW j \in Jobs, Submit(j) \/ Submitting(j) PROVE ListedInv'
    <3>1. CASE Submit(j)
      BY <3>1 DEF Submit
    <3>2. CASE EvictOne(j)
      <4>1. \A k \in jobs \ jobs' : status[k] \in TERMINAL
        BY <3>2 DEF EvictOne
      <4>2. UNCHANGED <<status, cancel, submitPc, runPc, reqPc, req>>
        BY <3>2 DEF EvictOne, job, threads, http
      <4>. QED
        BY <4>1, <4>2
    <3>3. CASE EvictEnd(j)
      BY <3>3 DEF EvictEnd, StartedLast, job
    <3>4. CASE StartRun(j)
      BY <3>4 DEF StartRun, StartedLast, table, job
    <3>. QED
      BY <2>2, <3>1, <3>2, <3>3, <3>4 DEF Submitting
  <2>3. ASSUME NEW j \in Jobs, Running(j) PROVE ListedInv'
    <3>1. CASE Acquire(j)
      BY <3>1 DEF Acquire, Goto, table, job
    <3>2. CASE Spawn(j) \/ Release(j) \/ Unlink(j)
      BY <3>2 DEF Spawn, Release, Unlink, Goto, table, job
    <3>3. CASE CheckCancel(j)
      BY <3>3 DEF CheckCancel, Look, Write, Goto, table
    <3>4. CASE Wait(j) \/ Tick(j) \/ Deadline(j) \/ Drained(j)
      BY <3>4 DEF Wait, Tick, Deadline, Drained, Look, Write, Goto, table
    <3>5. CASE MarkRunning(j)
      BY <3>5 DEF MarkRunning, Write, Goto, StartedLast, table
    <3>6. CASE Fail(j)
      BY <3>6 DEF Fail, Write, Goto, table
    <3>7. CASE WriteCode(j) \/ WriteMessage(j) \/ WriteMissing(j)
      BY <3>7 DEF WriteCode, WriteMessage, WriteMissing, Write, Goto, table
    <3>8. CASE Store(j) \/ Succeed(j)
      BY <3>8 DEF Store, Succeed, Write, Goto, table
    <3>. QED
      BY <2>3, <3>1, <3>2, <3>3, <3>4, <3>5, <3>6, <3>7, <3>8 DEF Running
  <2>4. ASSUME NEW j \in Jobs, Convert(j) \/ DeadlinePasses(j) PROVE ListedInv'
    BY <2>1, <2>4 DEF Convert, DeadlinePasses, table, job, http
  <2>5. ASSUME NEW c \in Callers, NEW j \in Jobs, Lookup(c, j) PROVE ListedInv'
    BY <2>5, SMTT(20) DEF Lookup, Serve, table, threads
  <2>6. ASSUME NEW c \in Callers, Handling(c) PROVE ListedInv'
    <3>1. CASE CancelSet(c)
      BY <3>1 DEF CancelSet, Serve, table, threads
    <3>2. CASE CancelWrite(c)
      BY <3>2 DEF CancelWrite, Serve, table, threads
    <3>3. CASE \/ CancelCheck(c) \/ ReadStatus(c) \/ ReadMessage(c) \/ ReadError(c)
               \/ ReadMissing(c) \/ ReadResult(c)
      <4>1. UNCHANGED <<jobs, status, cancel, submitPc, runPc, req>>
        BY <3>3 DEF CancelCheck, ReadStatus, ReadMessage, ReadError, ReadMissing, ReadResult,
           Read, Serve, table,
           threads
      <4>2. \E to \in ReqPcs \ {"write"} : reqPc' = [reqPc EXCEPT ![c] = to]
        BY <3>3 DEF CancelCheck, ReadStatus, ReadMessage, ReadError, ReadMissing, ReadResult,
           Read, Serve
      <4>. QED
        BY <4>1, <4>2
    <3>4. CASE Reply(c)
      BY <3>4 DEF Reply, Serve, table, threads
    <3>. QED
      BY <2>6, <3>1, <3>2, <3>3, <3>4 DEF Handling
  <2>7. ASSUME UNCHANGED vars PROVE ListedInv'
    BY <2>1, <2>7 DEF vars, table, job, threads, http
  <2>. HIDE DEF ListedInv, TypeOK
  <2>. QED
    BY <2>2, <2>3, <2>4, <2>5, <2>6, <2>7 DEF Next
<1>. QED
  BY <1>1, <1>2, TypeCorrect, StartedLastInvariant, PTL DEF Spec

\* A submitted job that is neither finished nor cancelled is never evicted,
\* whatever the table budget.
THEOREM WantedJobsKept == Spec => []WantedJobsListed
<1>1. ListedInv => WantedJobsListed
  BY DEF ListedInv
<1>. QED
  BY <1>1, ListedInvariant, PTL

=============================================================================
