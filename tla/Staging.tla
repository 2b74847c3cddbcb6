------------------------------ MODULE Staging ------------------------------
(***************************************************************************)
(* How POST /parse gets its input onto disk and who deletes it: the        *)
(* handlers of sidecar/ryu_docling/server.py up to STORE.submit(), the     *)
(* dispatch aliases of paths.py, and of each job (see JobStore) what       *)
(* touches the file: the conversion that opens it and the watchdog that    *)
(* deletes it, however early the watchdog gives up.  Handlers run in a     *)
(* thread pool; every file system call is a step of its own.               *)
(***************************************************************************)
EXTENDS Naturals

CONSTANTS
  Requests,    \* calls of POST /parse
  Blobs,       \* Core's files, named by content and without an extension
  Names,       \* names in the staging directory
  NamesRecur,  \* whether mkstemp() may draw a name it has drawn before
  Undeletable, \* requests whose file the system may refuse to delete, say while it is open
  None         \* Python's None

ASSUME StagingAssumption ==
  /\ NamesRecur \in BOOLEAN
  /\ Undeletable \subseteq Requests
  /\ Requests \cap Blobs = {}
  /\ Names \cap (Requests \cup Blobs) = {}
  /\ {None, "nothing", "placeholder", "partial"} \cap (Requests \cup Blobs \cup Names) = {}

VARIABLES
  disk,    \* what each path holds
  drawn,   \* the names mkstemp() has returned so far
  pc,      \* where the handler of each request stands
  form,    \* what the request names: inline bytes, or a blob with or without alias
  source,  \* the blob of a request that names one
  name,    \* the staged name of a request, None before mkstemp()
  phase,   \* the job of each request, as its watchdog sees it
  saw      \* what its conversion found when it opened its path

request == <<pc, form, source, name>>
vars == <<disk, drawn, request, phase, saw>>

-----------------------------------------------------------------------------
Paths == Names \cup Blobs

\* Contents: the bytes of a request or a blob, an empty or half-written file.
Data == Requests \cup Blobs \cup {"placeholder", "partial"}

Nothing == [kind |-> "absent", of |-> "nothing"]
File(d) == [kind |-> "file", of |-> d]
Link(b) == [kind |-> "link", of |-> b]  \* symbolic or hard: opening it opens b

Entries == {Nothing} \cup {File(d) : d \in Data} \cup {Link(b) : b \in Blobs}

Exists(p) == disk[p] # Nothing

\* The path that open(p) reaches, and what it holds.
Target(p) == IF disk[p].kind = "link" THEN disk[p].of ELSE p
Content(p) == disk[Target(p)].of

\* target and cleanup of parse(), as submit() gets them.
Input(r) == IF form[r] = "direct" THEN source[r] ELSE name[r]

\* Mutants: whatever the job parses is deleted after it; only an alias is.
CleanupInput(r) == Input(r)
CleanupAlias(r) == IF form[r] = "alias" THEN name[r] ELSE None

Cleanup(r) == IF form[r] = "direct" THEN None ELSE name[r]

\* The bytes the caller meant.
Meant(r) == IF form[r] = "inline" THEN r ELSE source[r]

-----------------------------------------------------------------------------
Init ==
  /\ disk = [p \in Paths |-> IF p \in Blobs THEN File(p) ELSE Nothing]
  /\ drawn = {}
  /\ pc = [r \in Requests |-> "idle"]
  /\ form = [r \in Requests |-> None]
  /\ source = [r \in Requests |-> None]
  /\ name = [r \in Requests |-> None]
  /\ phase = [r \in Requests |-> "none"]
  /\ saw = [r \in Requests |-> None]

Goto(r, from, to) ==
  /\ pc[r] = from
  /\ pc' = [pc EXCEPT ![r] = to]

Job == <<phase, saw>>

\* Everything before the first file is made: the request names both or neither
\* input, its base64 or its path is refused, or what it names is parsed inline,
\* through an alias, or as it is when the suffix is right or none is given.
Receive(r) ==
  /\ \/ /\ Goto(r, "idle", "refused")
        /\ UNCHANGED <<form, source>>
     \/ /\ Goto(r, "idle", "mktemp")
        /\ form' = [form EXCEPT ![r] = "inline"]
        /\ UNCHANGED source
     \/ \E b \in Blobs :
          /\ source' = [source EXCEPT ![r] = b]
          /\ \/ form' = [form EXCEPT ![r] = "alias"] /\ Goto(r, "idle", "mktemp")
             \/ form' = [form EXCEPT ![r] = "direct"] /\ Goto(r, "idle", "submit")
  /\ UNCHANGED <<disk, drawn, name, Job>>

\* mkstemp() creates an empty file under a name that is not taken, or fails.
MakeTemp(r) ==
  /\ \/ /\ Goto(r, "mktemp", IF form[r] = "inline" THEN "write" ELSE "unlink")
        /\ \E n \in Names :
             /\ ~Exists(n)
             /\ NamesRecur \/ n \notin drawn
             /\ disk' = [disk EXCEPT ![n] = File("placeholder")]
             /\ drawn' = drawn \cup {n}
             /\ name' = [name EXCEPT ![r] = n]
     \/ /\ Goto(r, "mktemp", "refused")
        /\ UNCHANGED <<disk, drawn, name>>
  /\ UNCHANGED <<form, source, Job>>

\* _materialise_inline(): a write that fails leaves what it has written.  The file
\* is open already; if its name is gone by now, nobody finds it.
WriteInline(r) ==
  /\ \E to \in {"submit", "failed"} :
       /\ Goto(r, "write", to)
       /\ disk' = IF Exists(name[r])
                  THEN [disk EXCEPT ![name[r]] = File(IF to = "submit" THEN r ELSE "partial")]
                  ELSE disk
  /\ UNCHANGED <<drawn, form, source, name, Job>>

\* The alias name is given back before it is used again.  An OSError, of a name
\* that is gone or of a file that cannot be deleted, is a 400 that cleans nothing up.
UnlinkTemp(r) ==
  /\ \/ /\ Goto(r, "unlink", IF Exists(name[r]) THEN "symlink" ELSE "refused")
        /\ disk' = [disk EXCEPT ![name[r]] = Nothing]
     \/ /\ Goto(r, "unlink", "failed")
        /\ r \in Undeletable
        /\ UNCHANGED disk
  /\ UNCHANGED <<drawn, form, source, name, Job>>

\* Mutant: the arguments of symlink() are swapped.
LinkSwapped(r, from, next) ==
  /\ \/ /\ Goto(r, from, next)
        /\ UNCHANGED disk
     \/ /\ Goto(r, from, "submit")
        /\ disk' = [disk EXCEPT ![source[r]] = Link(name[r])]
  /\ UNCHANGED <<drawn, form, source, name, Job>>

\* os.symlink() and os.link(): the name is taken, the platform cannot, or done.
LinkAlias(r, from, next) ==
  /\ \/ /\ Goto(r, from, next)
        /\ UNCHANGED disk
     \/ /\ Goto(r, from, "submit")
        /\ ~Exists(name[r])
        /\ disk' = [disk EXCEPT ![name[r]] = Link(source[r])]
  /\ UNCHANGED <<drawn, form, source, name, Job>>

Symlink(r) == LinkAlias(r, "symlink", "link")
Hardlink(r) == LinkAlias(r, "link", "copy")

\* Mutant: a copy that fails is not noticed.
CopyUnchecked(r) ==
  /\ Goto(r, "copy", "submit")
  /\ \E d \in {Content(source[r]), "partial"} :
       disk' = [disk EXCEPT ![Target(name[r])] = File(d)]
  /\ UNCHANGED <<drawn, form, source, name, Job>>

\* copy2() opens the alias, through whatever is there, and may run out of disk.
\* It refuses to copy a file onto itself.
Copy(r) ==
  /\ \/ /\ Goto(r, "copy", "refused")
        /\ Target(name[r]) = source[r]
        /\ UNCHANGED disk
     \/ /\ Goto(r, "copy", "submit")
        /\ Target(name[r]) # source[r]
        /\ disk' = [disk EXCEPT ![Target(name[r])] = File(Content(source[r]))]
     \/ /\ Goto(r, "copy", "failed")
        /\ Target(name[r]) # source[r]
        /\ disk' = [disk EXCEPT ![Target(name[r])] = File("partial")]
  /\ UNCHANGED <<drawn, form, source, name, Job>>

\* STORE.submit(): the job queues, or its thread cannot be started.
Submit(r) ==
  /\ \/ Goto(r, "submit", "accepted") /\ phase' = [phase EXCEPT ![r] = "queued"]
     \/ Goto(r, "submit", "failed") /\ UNCHANGED phase
  /\ UNCHANGED <<disk, drawn, form, source, name, saw>>

-----------------------------------------------------------------------------
(* The job.                                                                *)

Proceed(r, from, to) ==
  /\ phase[r] = from
  /\ phase' = [phase EXCEPT ![r] = to]

\* The watchdog has a slot and starts the conversion.
Start(r) ==
  /\ Proceed(r, "queued", "running")
  /\ UNCHANGED <<disk, drawn, request, saw>>

\* The conversion opens its input.  Once the watchdog has left, whatever the
\* conversion finds is discarded (JobStore!LateResultDiscarded).
Open(r) ==
  /\ phase[r] = "running"
  /\ saw[r] = None
  /\ saw' = [saw EXCEPT ![r] = IF Exists(Input(r)) THEN Content(Input(r)) ELSE "nothing"]
  /\ UNCHANGED <<disk, drawn, request, phase>>

Deleted(p) == IF p = None THEN disk ELSE [disk EXCEPT ![p] = Nothing]

\* Mutant: a job cancelled in the queue skips the finally clause.
EndRunning(r) ==
  /\ \/ Proceed(r, "queued", "ended") /\ UNCHANGED disk
     \/ Proceed(r, "running", "ended") /\ disk' = Deleted(Cleanup(r))
  /\ UNCHANGED <<drawn, request, saw>>

\* The watchdog leaves: the job was cancelled in the queue, has its outcome, was
\* cancelled or timed out.  The finally clause deletes the staged input, once, and
\* an unlink() that raises takes the watchdog's thread with it.
End(r) ==
  /\ Proceed(r, "queued", "ended") \/ Proceed(r, "running", "ended")
  /\ \/ disk' = Deleted(Cleanup(r))
     \/ r \in Undeletable /\ UNCHANGED disk
  /\ UNCHANGED <<drawn, request, saw>>

Handling(r) ==
  \/ MakeTemp(r) \/ WriteInline(r) \/ UnlinkTemp(r) \/ Symlink(r)
  \/ Hardlink(r) \/ Copy(r) \/ Submit(r)

Next == \E r \in Requests : Receive(r) \/ Handling(r) \/ Start(r) \/ Open(r) \/ End(r)

Spec == Init /\ [][Next]_vars

\* A handler in progress goes on, and a watchdog comes to its end, which JobStore
\* shows whatever the conversion does (SlotAndInputComeBack).
FairSpec == Spec /\ \A r \in Requests : WF_vars(Handling(r)) /\ WF_vars(End(r))

-----------------------------------------------------------------------------
(* Properties.                                                             *)

Pcs == {"idle", "mktemp", "write", "unlink", "symlink", "link", "copy",
        "submit", "accepted", "refused", "failed"}

\* The values every variable may take, and what each stage relies on.
TypeOK ==
  /\ disk \in [Paths -> Entries]
  /\ drawn \subseteq Names
  /\ pc \in [Requests -> Pcs]
  /\ form \in [Requests -> {"inline", "alias", "direct", None}]
  /\ source \in [Requests -> Blobs \cup {None}]
  /\ name \in [Requests -> Names \cup {None}]
  /\ phase \in [Requests -> {"none", "queued", "running", "ended"}]
  /\ saw \in [Requests -> Data \cup {"nothing", None}]
  /\ \A r \in Requests :
       /\ name[r] = None => pc[r] \in {"idle", "mktemp", "refused"} \/ form[r] = "direct"
       /\ phase[r] # "none" => pc[r] = "accepted"

\* server.py: "The alias is ours to delete; Core's blob is not."  No request, job
\* or failure on the way removes, replaces or writes to one of Core's files.
CoreBlobsIntact == \A b \in Blobs : disk[b] = File(b)

\* A conversion that is still waited for reads the bytes its caller meant: its
\* staged file is complete, is its own, and has not been deleted by anybody.
ReadsWhatWasMeant == \A r \in Requests : saw[r] \in {None, Meant(r)}

\* A refusal leaves nothing behind, and neither does a job whose file can be deleted:
\* what is in the staging directory belongs to a request on its way, to a job that has
\* not ended, to a handler that failed after it had made the file, or was not deletable.
StagedFilesHaveAnOwner ==
  \A n \in Names : Exists(n) =>
    \E r \in Requests :
      /\ name[r] = n
      /\ pc[r] # "refused"
      /\ phase[r] = "ended" => r \in Undeletable

\* Once a job is accepted its staged file, if it can be deleted, eventually is, for
\* good, also when it is cancelled in the queue or its conversion never opens the file.
AcceptedInputsDeleted ==
  \A r \in Requests \ Undeletable :
    pc[r] = "accepted" ~> [](name[r] # None => ~Exists(name[r]))
=============================================================================
