--------------------------- MODULE ParseContract ---------------------------
(***************************************************************************)
(* What POST /parse, GET and DELETE /jobs/{job_id} promise a caller, with  *)
(* none of the machinery: an accepted parse waits, runs beside at most     *)
(* MAX_WORKERS - 1 others, and settles on one answer that appears at once  *)
(* and stays.  A withdrawn parse is owed nothing and never comes back.     *)
(***************************************************************************)
EXTENDS Naturals, FiniteSets

CONSTANTS
  Jobs,         \* the parses that are ever accepted
  Documents,    \* the answers of a parse that succeeds
  Errors,       \* the answers of a parse that fails
  MAX_WORKERS,  \* parses that may run at once
  None          \* no answer: neither a document nor an error

VARIABLES
  phase,        \* how far each parse has come
  answer        \* what a poll returns for it

cvars == <<phase, answer>>

Settled == {"succeeded", "failed", "withdrawn"}

Phases == {"absent", "queued", "running"} \cup Settled

CInit ==
  /\ phase = [j \in Jobs |-> "absent"]
  /\ answer = [j \in Jobs |-> None]

Move(j, from, to, reply) ==
  /\ phase[j] \in from
  /\ phase' = [phase EXCEPT ![j] = to]
  /\ answer' = [answer EXCEPT ![j] = reply]

Accept(j) == Move(j, {"absent"}, "queued", None)

Start(j) ==
  /\ Cardinality({k \in Jobs : phase[k] = "running"}) < MAX_WORKERS
  /\ Move(j, {"queued"}, "running", None)

Finish(j) ==
  \/ \E d \in Documents : Move(j, {"running"}, "succeeded", d)
  \/ \E e \in Errors : Move(j, {"running"}, "failed", e)

\* Also after the answer: a DELETE may lose a race with the end of the parse.
Withdraw(j) == Move(j, Phases \ {"absent", "withdrawn"}, "withdrawn", None)

CNext == \E j \in Jobs : Accept(j) \/ Start(j) \/ Finish(j) \/ Withdraw(j)

\* Whoever waits is answered.
Answered == \A j \in Jobs : phase[j] = "queued" ~> phase[j] \in Settled

CSpec == CInit /\ [][CNext]_cvars /\ Answered

=============================================================================
