# Verification of ryu-docling

TLA+ models of the ryu-docling document parser sidecar, the TLC configurations
that check them and TLAPS proofs about them. Paths below are relative to the
repository.

## The system

ryu-docling is a FastAPI process that turns documents into Markdown with the
Docling library. Its host (Ryu Core) sends a path or an inline upload to
`POST /parse`, gets a job id at once, polls `GET /jobs/{id}` and may
`DELETE /jobs/{id}`. The repository also holds the scripts and workflows that
version and publish it.

| Component | State | Operations | What makes it correct |
|---|---|---|---|
| Job table, `sidecar/ryu_docling/jobs.py` | `_jobs`, `_order` under `_lock`; the `_slots` semaphore; per job `status`, `_cancel`, `error_code`, `error`, `missing_dependencies`, `result`, written by several threads without a lock; per watchdog its `deadline`, `done`, `outcome` | `submit` (insert, evict, start a thread), `_run`, `work`, `_fail`, `cancel`, `get`, `list`, `snapshot` | no slot lost, no wanted job evicted, one final answer per job, no waiting for ever, inputs deleted, but not under a conversion whose job is still wanted |
| Parser, `parser.py` | `_CONVERTERS` under `_CONVERTER_LOCK`; the frame of each conversion | `parse_file`, `_parse_archive`, `_convert_one`, `_converter_for`, `_new_converter`, the output budget | one converter per option set, every archive member accounted for, a member that has been read not lost to a later one, failures and dropped options reported |
| HTTP server, `server.py` | the staging directory | `POST /parse`, `GET`/`DELETE /jobs/{id}`, `GET /jobs`, `/health`, `/capability`, bearer token | exactly one owner deletes each staged file |
| Inputs and archives, `paths.py` | files on disk | `resolve_input`, `stage_dispatch_alias`, `safe_extract` | the host's blobs are never touched, a conversion reads the bytes of its own request, limits hold, the list of members is what is on disk |
| Dependency probes, formats, limits, entry point | none | look-ups and constants | - |
| Version train, `scripts/next-version.mjs` | published tags | `comparePrecedence`, `resolveBase`, `publishedTags`, `nextVersion` | each build is newer than the channel's last |
| Rolling and stable releases, `.github/workflows/{canary,nightly,release}.yml` | releases, tags, assets | gate, create, prune, build, upload; cancelled and repeated runs | a release offers what its tag points at, the newest builds are kept, a run never loses its own release |
| Release notes, `scripts/{notes-batches,rolling-notes}.mjs` | none | text from commits and a language model | - |

How they interact: a handler of the server stages the input and calls
`JobStore.submit`, which starts one watchdog thread per job (`_run`). The
watchdog takes a worker slot, starts a conversion thread (`work`), and waits in
steps of 0.25 s for its event, the cancel flag or the deadline. The conversion
calls `parse_file`, which shares the converter cache with every other
conversion. Handlers read and write job fields while the watchdog does.

A rolling workflow asks the version train for a version, which lists the published
releases; it creates the release, prunes old ones, builds and uploads. A newer run
of the workflow cancels it at any point, and a finished run can be run again under
its old number.

What is hard in it: fields shared by three kinds of threads without a lock; a
conversion that cannot be killed and outlives its job; a terminal status written
by two parties; a cache filled outside its lock; a staged file that handler and
watchdog both know; a name given back before it is used; failures at any of several
points of a loop over archive members; a list of releases that is old when it is
worked off. Each such place is listed in `PROJECT.json` under `hazards`, with the
properties that watch it.

## Modules

| Module | What it is |
|---|---|
| `JobStore.tla` | the job table, one action per step that another thread can observe |
| `ParseContract.tla` | what the three endpoints promise, in four actions; `JobStore` refines it |
| `MCJobStore.tla` | `JobStore` with the symmetry set for TLC |
| `JobStoreProofs.tla` | theorems about `JobStore`: types, slots, table, eviction, late results |
| `JobAnswerProofs.tla` | theorems about the answers: staged inputs, abandoned conversions, cancelled jobs, torn snapshots; every step of `JobStore` is a step of `ParseContract` |
| `Parser.tla` | concurrent conversions: archive loop, preflight, converter cache, failures |
| `MCParser.tla` | `Parser` with the symmetry set for TLC |
| `ParserProofs.tla` | theorems about `Parser` |
| `OutputBudget.tla` | what a result keeps: element caps and the shared byte budget |
| `MCOutputBudget.tla`, `OutputBudgetProofs.tla` | `OutputBudget` for TLC; theorems about it |
| `Staging.tla` | `POST /parse` up to `submit`, and what a job does with its file |
| `MCStaging.tla`, `StagingProofs.tla` | `Staging` for TLC; theorems about it |
| `ArchiveExtract.tla` | `safe_extract` over zip and tar |
| `MCArchiveExtract.tla`, `ArchiveExtractProofs.tla` | the paths and members of an instance; theorems |
| `RollingRelease.tla` | a rolling channel with its versions, beside the other channel and stable releases |
| `MCRollingRelease.tla` | `RollingRelease` for TLC |
| `RollingReleaseProofs.tla` | what a release offers, types, pruning, a run's own release, the order of versions |
| `FoldLemmas.tla` | sums over finite sets and sequences, and flattening, unfolded step by step |

Proof modules extend the module they are about, and `JobAnswerProofs` extends
`JobStoreProofs`, so that an invariant proved once is used by all that build on it.
`OutputBudgetProofs` and `ArchiveExtractProofs` also extend `FoldLemmas`.

### JobStore and the code

`jobs` and `order` are `_jobs` and `_order`; `slots` is the semaphore; `status`,
`cancel`, `error` and `result` are the fields of a `Job`, `error` being its
`error_code`; `detail` says whether the message (the field `error` of the code) and
`missing_dependencies` have been written. `submitPc[j]` and `runPc[j]` say where the
submitting handler and the watchdog of job `j` stand, `conv[j]` whether its
conversion thread exists and is done, `outcome[j]` is the `outcome` dictionary
of `_run`, `late[j]` says that the clock has passed `deadline`. `reqPc`, `req`
and `seen` belong to the HTTP threads that poll and cancel; `seen` is the
snapshot under construction.

Atomicity follows the interpreter: one read or one write of a shared field is
one step. `submit` inserts under the lock, the eviction looks at one status per
step with the lock held (nothing stops the other threads from changing that
status), and `get` waits for the lock. `_run` is cut at each shared access:
`Acquire`, `CheckCancel`, `MarkRunning`, `Spawn`, then the loop `Wait`, `Tick`,
`Deadline`, then `Drained` and either `Fail`/`WriteCode` or `Store`/`Succeed`, then
the `finally` clause `Release` and `Unlink`. `_fail` writes the status, the code, the
message and what is missing one after the other: `Fail`, `WriteCode`, `WriteMessage`,
`WriteMissing`. `cancel` is `CancelCheck`, `CancelSet`, `CancelWrite`; `snapshot` is
`ReadStatus`, `ReadMessage`, `ReadError`, `ReadMissing`, `ReadResult`, in the order in
which it reads. `Undeletable` are the jobs whose staged input the system may refuse to
delete: `unlink` then raises, the watchdog's thread ends and the file stays.

Abstracted: time stamps; file names; the text of results, a document being
`"doc"`, and of messages.
Every failed parse has the code `parse_failed`; `file_gone` marks the one that
failed because its own input had been deleted, so that a property can tell it
apart. `GET /jobs` reads the same fields as `GET /jobs/{id}` and a request for an
unknown id changes nothing; neither is an action. A conversion ends in a result
or in an `Exception`; a `BaseException` such as `SystemExit` out of a library is
not modelled.

### Parser and the code

`converters` is `_CONVERTERS`; `parse[p]` is the frame of one conversion thread.
`Begin` is the entry of `parse_file`; `Extract` is `safe_extract` with its three
outcomes; `Preflight`, `Lookup`, `Build`, `Publish`, `Convert` are the steps of
`_convert_one` and `_converter_for`, cut where `_CONVERTER_LOCK` is not held;
`Advance`, `Failed`, `Blank` and `Converted` are what the member loop of
`_parse_archive` does with each outcome, and what the caller gets for a single
file. `encodable` says whether what has been joined so far can be encoded in UTF-8:
a member's text or its name, which goes into a heading, may hold a lone surrogate (a
tar member whose name is not UTF-8). `Finish` is where `parse_file` encodes it
(`parser.py:393`, `50`), outside the handler of the member loop, and answers a document
or fails the whole job. A converter is known by the thread that built it and by whether it is
`plain`, the form without options. A member's warnings are reduced to the one
that says that the options were dropped (`hint`), which joins the job's warnings
only where the code extends that list; `dropped` remembers that this thread has
constructed a converter without its options, whoever's was kept.

### OutputBudget and the code

The second half of `parse_file`, which `Parser` takes as one step. `Gather` is the
element cap of `_elements` followed by that of the archive loop; `Joined` hands over
what the files gave; `ClipMarkdown` and `ClipText` are the two calls of `_truncate`,
with `left` as `remaining`; `FitNext` and `FitEnd` are the loop of `_fit_elements`.
`whole` is the conjunction that `truncated` negates: it is about the byte budget, and
what the element caps drop before is not flagged. Encoding is modelled: `Encode`
gives each character as many bytes as it has, `Clip` cuts between bytes, `Decode`
drops an incomplete last character. A character is known by the number of its bytes
in UTF-8, a record by its serialised size. `found` and `doc` remember what the parse
gave, for the properties. The steps of this module are sequential: nothing is shared
between two parses.

### Staging and the code

`disk` maps every path, of the staging directory and of Core's blob store, to a file,
a link or nothing. `Receive` is `parse()` of `server.py` up to the first file:
everything that may be refused before, and the choice between inline bytes, an alias
and the blob itself. `MakeTemp` is `mkstemp`; `WriteInline` the write of
`_materialise_inline`; `UnlinkTemp`, `Symlink`, `Hardlink` and `Copy` the steps of
`stage_dispatch_alias`, which gives the name `mkstemp` made back before it links to it
and tries the three ways one after the other. Every file system call is a step, and
each may fail: a write or a copy halfway, and a deletion, of the placeholder or of the
staged input of a job, for the requests in `Undeletable`. `Copy` opens its target as `copy2` does,
through whatever link is there. `Submit` hands `Input` and `Cleanup` to the job.

Of the job `Staging` keeps what touches the file, and refers to `JobStore` for the
rest: `Start`, `Open` (the conversion opens its path) and `End` (the watchdog leaves,
at any moment after `submit`, and deletes). A conversion that opens its path after the
watchdog has left is not a step: `JobStore` shows that its result is discarded.

`NamesRecur` says whether `mkstemp` may draw a name that it has drawn before. The
run and the theorems have it `FALSE`: a name has eight random characters. With it
`TRUE`, TLC finds a violation of `ReadsWhatWasMeant`: between `unlink` and `symlink`
(`paths.py:156-158`) another request is given the same name, and one conversion reads
what the other staged. The chance of that is negligible, which is why it is stated as
an assumption and not as a finding.

### ArchiveExtract and the code

`members` is `infolist()` or what iterating the tar yields; a member is a path, whether
its name passes `_check_member_name`, its kind, its declared size, and whether its bytes
can be read. `Open` is the choice of format and zip's check of the member count; each of
`Refuse`, `Break`, `MakeDir` and `WriteFile` is one round of the loop; `Raise` is an
exception leaving the scratch directory; `Return` and `Leave` hand the list to
`_parse_archive` and remove the directory. `content` says which member's bytes a path
holds, so that a later member can overwrite an earlier one. Zip and tar differ in when
members are counted, in which exceptions become an `InputError` (`BreakCodes`) and in
what they write as a regular file (`Stored`): zip refuses symbolic links and writes
fifos, devices and sockets, tar refuses whatever is not a regular file.
Paths are sequences of names: one may lie below another.

### RollingRelease and the code

`canary.yml` and `nightly.yml` differ in their trigger and their names; `channel` is one
of them, `other` the other. `current` is the run of the workflow that is or was last in
progress: its step, its run (number, tree, event, attempt), the tag it computed,
whether it saw the list of releases, and the list it is pruning. `past` are the runs
before it, which somebody may run again.

`Trigger`, `RerunAll` and `RerunFailed` start an attempt; the first two cancel the run in
progress at whatever step it stands, as the concurrency group says. `Gate` is the
comparison with the newest release of the channel, `Version` is `next-version.mjs`
(with the list of releases or, when `gh` fails, without), `Create` reuses or makes the
release, `List` and `Prune` are the two halves of the pruning, `Build` builds and
uploads. Every step may fail. `DayPasses`, `Ship` (a stable release) and `OtherRelease`
happen beside them, at any moment.

A tree stands for what `git diff` compares: two commits that differ in the star chart
alone have one tree. Releases are ordered by `createdAt`, which is taken as the order of
creation. A version is its base patch, day and run number, since a channel's versions
differ in nothing else. Every list of `gh` stops at the newest 200 releases
(`next-version.mjs:343-344`, `canary.yml:40` and `121`); the model takes them to be all
there are, so its statements about versions and pruning hold as long as there are fewer:
each rolling channel keeps a bounded number, and only stable releases add up.

"Re-run failed jobs" of a run that was cancelled is not modelled, only of one that
failed.

## Runs

| Run | Instance | What it shows |
|---|---|---|
| `jobs` | 2 jobs, table of 1, 1 slot, 1 handler that polls and cancels, threads may fail to start, inputs may not be deletable | types, slots, table, eviction, staged inputs, answers and torn snapshots: 1,612,111 states up to symmetry |
| `jobs_race` | 1 job, 2 handlers that both poll and cancel | cancel against watchdog and against another cancel; slot and input come back; `ParseContract` is implemented, liveness included: 303,302 states |
| `jobs_burst` | 3 jobs, table of 1, 1 slot | eviction among live jobs, queueing behind conversions that may never return; `ParseContract` is implemented, liveness included: 238,639 states up to symmetry |
| `jobs_hang`, `jobs_wasted` | 1 or 2 jobs | statements of the documentation that the code does not keep, see below |
| `parser` | 3 threads, 2 option sets, archives of up to 2 members | cache and book-keeping, what becomes of a member that has been read, warnings: 2,628,420 states up to symmetry |
| `parser_hints` | 2 threads | a statement of the documentation that the code does not keep |
| `budget` | characters of 1 and 4 bytes, texts of up to 3, records of 4 and 6 bytes, 2 files of up to 3 items, 10 bytes, 2 elements | how the budget is divided, what is clipped and what is reported |
| `staging` | 2 requests, one of them with a file that may not be deletable, 2 blobs, 2 names | who owns each file, what each conversion reads, that staged files go: 9,526 states |
| `extract` | 4 members of 16 kinds over 3 paths, one below another; 3 members and 3 bytes allowed | what is accepted, what is on disk, what is listed: 737,186 states |
| `rolling` | 2 runs, 2 attempts each, 2 trees, 2 days, 1 stable release, 1 release of the other channel, 1 release kept | assets, own release, versions, pruning: 5,602,871 states |
| `rolling_rerun` | 1 run, 2 attempts | a statement of the workflow that it does not keep |

Why the bounds are enough. Slots: with one slot and two or three jobs a job
queues behind a conversion, and takes the slot of one that is still running.
Table: with room for one, two jobs put it over budget while both live, and three
let a scan pass a live job and restart after a removal. Handlers: the races of
`cancel` involve one job, the watchdog, and at most another handler, so two
handlers and one job contain them all. Cache: two threads race for a key and a
third arrives after, or uses another key. Members: two are enough for one to fail
before or after another is read; the empty archive is included. Budget: three
four-byte characters overrun ten bytes inside a character and leave two bytes for
the text; two records of four bytes fit exactly with their separators; three items
overrun the cap in one file, and two files overrun it together. Staging: a file has
at most two parties beside its own request (another request and Core's blob), and two
requests can name one blob or two. Extraction: four members overrun the count by one;
three bytes are reached exactly and overrun; a path comes twice, as two kinds, and
below another. Releases: with one release kept two runs and their second attempts make
a stale one, prune it and find it pruned; the second day, the stable release and the
other channel each come between any two steps. The theorems below hold for all values.

`ThreadStartMayFail` lets `Thread.start()` raise at both places it is called. It
is on in `jobs`. It is off where `ParseContract` is checked: the code has no
answer to a thread that the system refuses, the job stays queued or running for
ever, so nothing is promised in that case.

`CHECK_DEADLOCK FALSE` appears where the modelled world ends: a finite number of
parses are submitted and done, and nobody polls.

### Fairness

`FairSpec` assumes that a started thread is scheduled (weak fairness of the
submitting handler and the watchdog, of each HTTP handler once it has a request)
and that the clock advances past a deadline it is waited for. It assumes nothing
of the callers, who need not send anything, and nothing of `Convert`: a
conversion may hang for ever, which is the case the watchdog is there for.
Weak fairness of `Acquire` is enough for the semaphore in the finite runs: every
watchdog ends, so a slot stays free once the others are done.

`Staging` assumes weak fairness of a handler in progress and of `End`. That a
watchdog ends, whatever its conversion does, is what `SlotAndInputComeBack` shows of
`JobStore`; nothing is assumed of `Open`. `RollingRelease` states no liveness: nothing
makes a run succeed, and `rolling_rerun` shows that a changed tree need not end in a
release with assets.

### Refinement

`ParseContract` says what a caller can rely on: an accepted parse is queued, runs
beside fewer than `MAX_WORKERS` others, then gets one answer, at once and for
good; a withdrawn parse is owed nothing; whoever waits is answered. `Phase` and
`Answer` map the store to it. A job counts as withdrawn once its cancel flag is
up, whatever its status field shows, and as running until its error code can be
read: the two windows that are mapped away are described below, as finding 1 and as
the torn answer of `_fail`.

## Disagreements between documentation and code

Shown by a run:

1. `jobs_hang`: `cancel` between the watchdog's check (`jobs.py:129`) and its
   write (`jobs.py:131`) leaves a cancelled job `running` for ever, against "the job
   never hangs" (`jobs.py:11`).
2. `jobs_wasted`: the slot of a conversion that was given up returns while the
   conversion runs on, so the next submission does not queue behind it and more than
   `MAX_WORKERS` run, against `jobs.py:11-12`.
3. `parser_hints`: the warning about dropped options reaches the request that built
   the converter and no later one, against `README.md:203-206`.
4. `rolling_rerun`: a run that was cancelled or failed between `gh release create` and
   the upload is skipped by the gate when it is run again, since the newest release is
   its own; the release keeps no assets, against `canary.yml:109-112`.

Seen while modelling, with no run of their own:

* `_fail` writes the status before the code (`jobs.py:180-181`), so a poll can show a
  failed job without one, against `parser.py:3-5`.
* Finished jobs beyond `MAX_JOBS` are only evicted by a later `submit`
  (`jobs.py:105`), against `jobs.py:3-5`.
* Markdown and text are charged by their UTF-8 length but sent as JSON, where newlines,
  quotes and backslashes take two bytes, and warnings and metadata are not charged: a
  snapshot can exceed `max_output_bytes`, against `parser.py:390-392`.
* One member whose name or text cannot be encoded (a lone surrogate) loses the whole
  archive: the joined text is encoded outside the per-member handler (`parser.py:393`,
  `50`, `451`) and the job fails as `parse_failed`, against `parser.py:418`.
  `ReadMembersSurvive` states it as the one exception. The name of a member that
  failed stands in a warning, which is not encoded there and reaches the JSON encoder
  of the response.
* An archive loses the warning about dropped options together with the member that
  built the converter, when that member fails or has no text (`parser.py:443-447`),
  against `README.md:203-206`. `BuilderWarns` states the exception.
* Elements beyond `MAX_ELEMENTS` are dropped without `truncated` (`parser.py:456-458`);
  `parser.py:378-379` speaks of the byte budget alone.
* An archive whose members all failed is answered with an empty document and warnings
  (`parser.py:443`), against `parser.py:3-5`.
* Of two members with one path the later overwrites the earlier and is then parsed
  twice, so that the earlier one is neither read nor warned about, against
  `parser.py:418`. No property states which one is read.
* A handler that fails after it has made a staged file (a full disk, a refused thread)
  leaves it behind (`server.py:170-171`, `server.py:192`, `paths.py:163`). So does an
  `unlink` that fails, of the placeholder (`paths.py:156`) or of a job's staged input
  (`jobs.py:177`): nothing tries again.
* `resolveBase` stops at a gap: with the in-tree patch 1 and a stable release 3 the base
  is 1, against "at or above" (`next-version.mjs:194-195`).
* Zip refuses symbolic links only (`paths.py:226-228`), other special files are written
  as regular ones, while tar refuses them (`255-256`), against `paths.py:192-194`.
  `AcceptedExactly` states the difference.

## Proofs

`JobStoreProofs` assumes `JobStoreAssumption` (a finite set of jobs, positive
budgets, `None` different from the answers) and nothing else: any number of jobs and
callers, any `MAX_JOBS` and `MAX_WORKERS`.

* `TypeCorrect`: `TypeOK` is inductive; one step per action.
* `SlotsConserved`: `SlotsAccounted`. `SlotFrame` shows that only `Acquire` and
  `Release` change who holds a slot; for those two the cardinality of the holders
  moves by one. It needs `StartedLast` (a watchdog does not exist before `submit`
  starts it), otherwise a step of `submit` could reset one that holds a slot.
* `TimedOutStaysEmpty`: `LateResultDiscarded`, from `OneAnswer`: an error and a
  result are written only on the two exclusive ways to the end of `_run`.
* `WantedJobsKept`: `WantedJobsListed` is not inductive, since a queued job could be
  shown terminal before its watchdog marks it running and be evicted before that.
  `QueuedUntilMarked` rules it out: until then only a `DELETE` writes the status, and
  it raises the cancel flag first.
* `TableIsOne`: `TableConsistent`, with the positions of an evicted entry removed from
  the sequence; `NoRepeats` is the form of "each once" that an induction can use.

`JobAnswerProofs` adds the life of one job (`Life`): what its two threads know at each
step, and that the staged input is there until the watchdog's last one.
`CleanupNeverShows`, `NothingAbandonedInVain` and `SuccessIsWhole` follow from it. The
last needs `DocumentWaits`: a reader that has seen `succeeded` finds the document,
because the result is written before the status and never taken back. `MessageHasCode`
is about the same snapshot and the failing side: the code is written before the message
and read after it, so a reader that has the message finds the code (`CodeFirst`).

`CancelBeatsTheQueue` is not about a single state: from the moment at which the flag of
a queued job is up its conversion stays off. `Skipped` is the state that such a job
never leaves again: the flag is up, nothing converts, and the watchdog is in the queue
or on its way out. `SkippedStays` shows that no step of any thread leaves it, and `Life`
that a queued job with its flag up is in it.

The last part proves `StepsRefine`: under `~ThreadStartMayFail` every step of
`JobStore` is a step of `ParseContract` or a stutter. `RoomForOne` carries the guard of
`Start`: jobs that count as running hold a slot, and so does the one about to start,
without counting yet. The assumption is necessary: a conversion thread that the system
refuses leaves its job shown as running outside any slot.

`ParserProofs` assumes `ParserAssumption`: any number of threads and option sets,
archives of any size. All properties of the run `parser` are proved.

* `TypeCorrect` and `EveryMemberAccounted` come from one invariant, `Counted`: done
  and left always add up to found. Without it the number of members left could
  leave the naturals.
* `FirstConverterStays` is an action property; it follows from the types.
* `CachedConverterUsed` needs in addition that a thread about to publish holds a
  converter.
* `ReadMemberSaves`: once a member has been read its converter is in the cache
  (`Afloat`), so no later member constructs one, and nothing else ends the loop. What
  is left is the encoding in `Finish`, which the theorem names.
* `BuilderHeard`: a thread that has dropped options holds the hint, has warned, or has
  lost the member it built for (`Told`), and the hint does not outlive its member
  (`Heard`). Nothing in it depends on the cache, so it also covers a thread whose
  converter was not the one kept.

`StagingProofs` assumes that names do not recur. `CoreBlobsIntact` and
`ReadsWhatWasMeant` are not inductive: a copy writes through whatever link stands under
its name. `OwnName` (no two requests have one name, and what is on disk under a name is
its owner's) together with what the staged file holds at each stage (`Handled`) is;
`TypeCorrect`, `BlobsIntact`, `OwnBytes` and `EveryFileOwned` follow, the last with the
files that cannot be deleted as its exception.

`FoldLemmas` is what the next two modules know of the library's sums and of
`FlattenSeq`, which are defined by recursive functions. The prover has no induction
rule for them; each lemma is proved by contradiction from a least counterexample, a
least number (`LeastNumber`) or a minimal subset of a finite set (`LeastSet`), both
from the library's theorems on well-founded orders. `SumAdd` and `SumPart` say what one
more member adds and that a part sums up to no more than the whole; `SumPicked` that a
choice of members, none of them twice, does too; `FlattenAppend` what one more file adds.

`OutputBudgetProofs` proves all properties of the run `budget` from
`OutputBudgetAssumption` alone: texts of any length over characters of 1 to 4 bytes, any records and any limits.

* `TruncateFacts` says what `_truncate` returns: the text itself when it fits, otherwise
  the longest beginning of it that does, never part of a character. It follows from the
  positions of the bytes of an encoded text: the bytes of the first n characters are the
  first `SumUpto(n)` bytes, so that a cut lies inside one character, and what `Decode`
  drops is that one.
* `Spent` (what is left and what has been kept add up to the budget) is the invariant
  behind `TypeCorrect`, where it says that the budget handed on is never negative, and
  behind `BudgetCorrect`. `Stages` says what each stage has clipped so far, and
  `ClippingTight` follows from it when the last is over.
* `TruncationReported`, `ElementCapGlobal` and `DetailComesLast` hold together with
  these: `whole` is only right because a clipped text differs from the original, and a
  clipped text leaves at most three bytes, while a record takes at least four.
  `TruncationReported` compares the result with what the element caps let through.

`ArchiveExtractProofs` proves all properties of the run `extract`, for any archive and
limits.

* `TypeCorrect` and `ListCorrect` come from one invariant; `FromMember` says
  that the bytes under a path are those of a file member that has this path and was
  reached, `LastWritten` that no earlier one's are found there.
* `AcceptanceExact` needs to know what the loop has learnt so far (`Progress`): `total`
  is the sum over the files gone through (`Counted`), a directory is there exactly
  because a member is it or lies below it (`DirsFromMembers`), and each member gone
  through was fit (`GoneThrough`, which also covers that zip and tar count members in
  different places). `RefusesRightly` and `BreaksRightly` find, for every exception, the
  member or the pair of members that is to blame, in whichever order they come;
  `EndIsAcceptable` shows the converse at the end of the loop. What each format takes for
  a regular file is part of `Acceptable`.
* `ScratchNeverOverfull`: the files on disk are an injection into the files gone through
  (`HeldByMembers`), so they hold no more than what has been counted.

`RollingReleaseProofs` proves all properties of the run `rolling`, for every number of
runs, days and releases to keep. For `AssetsMatchTag` (`AssetsCorrect`) the argument is that a run number belongs
to one run (`Numbered`), also across re-runs and cancellations, and the tag of a release
carries it: whoever uploads to a release has the tree the release was made for.

* `Types`: a tag names one release. For the channel this is the lookup in `Create`; for
  the other channel that its releases are numbered without a gap.
* `OnlyStaleGo`: a release on the list of what to prune stays stale while the list is
  worked off (`Pruning`), because the list is in order: what makes a release stale is
  newer than it and either not on the list or behind it already.
* `OwnReleaseIsThere`: a run in its first attempt is the newest (`Fresh`), so the release
  it makes is the newest of the channel (`Own`) and never stale.
* `VersionsOnlyGrow`: `BaseExists` shows that one round per stable release is enough for
  the loop of `resolveBase`, `BaseGrows` that the base never falls while stable releases
  are added. With the day and the run number no existing version is ahead of what a run
  would take now (`Ordering`).

Model-checked only: liveness, that is `SlotAndInputComeBack`, `AcceptedInputsDeleted` and
the promise of `ImplementsContract` that whoever waits is answered (its other half, that
every step is a step of the contract, is `StepsRefine`). They need fairness and
`ENABLED`, which the prover does not handle. Every other property of a passing run is
a theorem. The four runs that end in a violation show one behaviour each, for which a
counterexample is all there is to show.

## Plan

What is left, in order of use:

1. The composition of `Staging` with `JobStore` as one module, with `Start`, `Open` and
   `End` replaced by the watchdog's own steps.
2. The composition of both rolling channels, each with all its steps.

## Not modelled

* The release notes scripts. They write the text of a release from commit messages and
  a language model's answers; no version, tag or asset depends on them.
* The dependency probes, the format tables and the environment parsing (constants and
  look-ups, which the models take as outcomes or `CONSTANTS`), `/health`, `/capability`
  and the bearer token (no state), the text of exports and messages.
* The beta and stable channels and the command line of `next-version.mjs`, which no
  workflow of the repository uses.
* `_copy_bounded`'s ceiling: both libraries hand out at most the declared size, so that
  the ceiling is never reached, and the running total of declared sizes is the limit
  that acts.
* A restart of the sidecar, which forgets every job by design; Core keeps the durable
  record. CI and star-chart workflows.
