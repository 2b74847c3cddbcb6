--------------------------- MODULE RollingRelease ---------------------------
(***************************************************************************)
(* A rolling channel: canary.yml or nightly.yml, which differ in what      *)
(* starts them, with the version each run takes from next-version.mjs, the *)
(* stable releases of release.yml and the releases of the other channel    *)
(* beside them.  The channel is a concurrency group: a run that starts     *)
(* cancels the one in progress, wherever it stands.  A tree is what        *)
(* `git diff` of the gate compares, so that commits which differ in the    *)
(* star chart alone have one tree.                                         *)
(***************************************************************************)
EXTENDS Naturals, FiniteSetsExt

CONSTANTS
  channel,      \* the channel of this workflow
  other,        \* the other rolling channel
  InTree,       \* the patch of the in-tree version
  RETAIN,       \* releases kept
  MaxTrees, MaxDays, MaxRuns, MaxAttempts, MaxPatch, MaxOthers,  \* bounds for TLC
  None

Bounds == {MaxTrees, MaxDays, MaxRuns, MaxAttempts, MaxPatch, MaxOthers}

Run == [number : Nat, tree : Nat, event : {"automatic", "workflow_dispatch"}, attempt : Nat]

Tag == [channel : {channel, other}, base : Nat, day : Nat, run : Nat]

ASSUME RollingAssumption ==
  /\ Bounds \cup {InTree} \subseteq Nat
  /\ {RETAIN, MaxTrees, MaxDays} \subseteq Nat \ {0}
  /\ channel # other
  /\ None \notin Nat /\ None \notin Run /\ None \notin Tag

VARIABLES
  head,      \* the tree of main
  day,       \* the UTC date
  stables,   \* patches of the stable releases
  releases,  \* the releases of both rolling channels
  stamp,     \* createdAt of the next release
  count,     \* github.run_number of the newest run
  current,   \* the run that is or was last in progress
  past       \* the runs before it, which may be run again

world == <<head, day, stables, count, past>>
vars == <<world, releases, stamp, current>>

-----------------------------------------------------------------------------
Release == [tag : Tag, tree : Nat, createdAt : Nat, assets : Nat \cup {None}]

Failed == {"gate failed", "prepare failed", "build failed"}
Ended == {"idle", "skipped", "built"} \cup Failed
InProgress == current.pc \notin Ended

\* comparePrecedence() on two versions of one channel: the bases, then the numeric
\* identifiers one after the other.
Precedes(s, t) ==
  \/ s.base < t.base
  \/ s.base = t.base /\ s.day < t.day
  \/ s.base = t.base /\ s.day = t.day /\ s.run < t.run

\* What gh lists: stable and rolling releases alike.  All of them: the newest 200, which
\* is where every list of the workflows stops, are taken to be all there are.
Published ==
  {[patch |-> p, prerelease |-> FALSE] : p \in stables}
    \cup {[patch |-> x.tag.base, prerelease |-> TRUE] : x \in releases}

\* Mutant: prereleases are not filtered out.
resolveBaseUnfiltered(published) ==
  LET taken == {v.patch : v \in published}
  IN Min({p \in InTree .. InTree + Cardinality(taken) : p \notin taken})

\* The loop goes one patch up per round, for at most one round per stable release.
resolveBase(published) ==
  LET taken == {v.patch : v \in {w \in published : ~w.prerelease}}
  IN Min({p \in InTree .. InTree + Cardinality(taken) : p \notin taken})

\* Mutant: the run number is left out.
nextVersionUnnumbered(published) ==
  [channel |-> channel, base |-> resolveBase(published), day |-> day, run |-> 0]

nextVersion(published) ==
  [channel |-> channel, base |-> resolveBase(published), day |-> day, run |-> current.run.number]

Tagged(t) == {x \in releases : x.tag = t}

Mine == {x \in releases : x.tag.channel = channel}

Newer(x) == {y \in Mine : y.createdAt > x.createdAt}

\* Mutants: the tag is not matched with the channel; the list is not reversed.
StaleOfBoth ==
  {x \in releases : Cardinality({y \in releases : y.createdAt > x.createdAt}) >= RETAIN}
StaleUnreversed ==
  {x \in Mine : Cardinality({y \in Mine : y.createdAt < x.createdAt}) >= RETAIN}

Stale == {x \in Mine : Cardinality(Newer(x)) >= RETAIN}

-----------------------------------------------------------------------------
Starting(r) == [pc |-> "gate", run |-> r, tag |-> None, seen |-> TRUE, stale |-> {}]

Init ==
  /\ head = 1 /\ day = 1 /\ stables = {}
  /\ releases = {} /\ stamp = 1
  /\ count = 0
  /\ current = [Starting(None) EXCEPT !.pc = "idle"]
  /\ past = {}

\* The run in progress is cancelled.  Like any other it may be run again, which
\* leaves its earlier attempt behind.
Replace(r) ==
  /\ current' = Starting(r)
  /\ past' = {q \in past \cup {current.run} : q # None /\ q.number # r.number}

\* A push (canary), the hour (nightly) or somebody starts a run on main, which has
\* the tree of the last run or a newer one.
Trigger ==
  /\ count < MaxRuns
  /\ count' = count + 1
  /\ head' \in head .. MaxTrees
  /\ \E event \in {"automatic", "workflow_dispatch"} :
       Replace([number |-> count', tree |-> head', event |-> event, attempt |-> 1])
  /\ UNCHANGED <<day, stables, releases, stamp>>

\* "Re-run all jobs" on a completed run keeps its number, its commit and its event.
RerunAll ==
  /\ \E r \in past \cup (IF InProgress THEN {} ELSE {current.run}) :
       /\ r # None
       /\ r.attempt < MaxAttempts
       /\ Replace([r EXCEPT !.attempt = @ + 1])
  /\ UNCHANGED <<head, day, stables, releases, stamp, count>>

\* "Re-run failed jobs" keeps what the jobs before have put out.
RerunFailed ==
  /\ current.pc \in Failed
  /\ current.run.attempt < MaxAttempts
  /\ current' = [current EXCEPT
       !.pc = CASE @ = "gate failed" -> "gate"
                [] @ = "prepare failed" -> "prepare"
                [] @ = "build failed" -> "build",
       !.run.attempt = @ + 1]
  /\ UNCHANGED <<world, releases, stamp>>

DayPasses ==
  /\ day < MaxDays
  /\ day' = day + 1
  /\ UNCHANGED <<head, stables, count, past, releases, stamp, current>>

\* release.yml publishes whatever version is tagged.
Ship ==
  /\ \E p \in InTree .. MaxPatch : stables' = stables \cup {p}
  /\ UNCHANGED <<head, day, count, past, releases, stamp, current>>

\* The workflow of the other channel has made a release, in one step here.
OtherRelease ==
  /\ LET n == Cardinality(releases \ Mine) + 1
     IN /\ n <= MaxOthers
        /\ releases' = releases \cup
             {[tag |-> [channel |-> other, base |-> resolveBase(Published), day |-> day, run |-> n],
               tree |-> head, createdAt |-> stamp, assets |-> head]}
  /\ stamp' = stamp + 1
  /\ UNCHANGED <<world, current>>

Goto(from, to) ==
  /\ current.pc = from
  /\ current' = [current EXCEPT !.pc = to]

\* gate: no release to compare with, or another tree than that of the newest.
Changed == \A x \in Mine : Newer(x) = {} => x.tree # current.run.tree

\* An unchanged tree is skipped, unless its tag cannot be fetched.
Gate ==
  /\ \/ Goto("gate", "prepare")
     \/ Goto("gate", "skipped") /\ current.run.event # "workflow_dispatch" /\ ~Changed
     \/ Goto("gate", "gate failed")
  /\ UNCHANGED <<world, releases, stamp>>

\* The version.  When gh fails, publishedTags() asks a checkout that has no tags.
Version ==
  /\ current.pc = "prepare"
  /\ \E seen \in BOOLEAN :
       current' = [current EXCEPT
         !.pc = "create", !.seen = seen, !.tag = nextVersion(IF seen THEN Published ELSE {})]
  /\ UNCHANGED <<world, releases, stamp>>

NewRelease ==
  [tag |-> current.tag, tree |-> current.run.tree, createdAt |-> stamp, assets |-> None]

\* Mutant: a release under this tag is not looked for.
CreateAnyway ==
  /\ \/ Goto("create", "list") /\ releases' = releases \cup {NewRelease} /\ stamp' = stamp + 1
     \/ Goto("create", "prepare failed") /\ UNCHANGED <<releases, stamp>>
  /\ UNCHANGED world

\* The release under this tag is reused if there is one; gh may fail.
Create ==
  /\ \/ /\ Goto("create", "list")
        /\ IF Tagged(current.tag) # {} THEN UNCHANGED <<releases, stamp>>
           ELSE releases' = releases \cup {NewRelease} /\ stamp' = stamp + 1
     \/ Goto("create", "prepare failed") /\ UNCHANGED <<releases, stamp>>
  /\ UNCHANGED world

\* What is to be pruned, or nothing when gh fails.
List ==
  /\ current.pc = "list"
  /\ \E stale \in {{}, Stale} :
       current' = [current EXCEPT !.pc = "build", !.stale = stale]
  /\ UNCHANGED <<world, releases, stamp>>

\* One after the other, newest first; a deletion that fails is passed over.
Prune ==
  /\ current.pc = "build"
  /\ \E x \in current.stale :
       /\ \A y \in current.stale : y.createdAt <= x.createdAt
       /\ current' = [current EXCEPT !.stale = @ \ {x}]
       /\ releases' \in {releases, releases \ {x}}
  /\ UNCHANGED <<world, stamp>>

\* With nothing left to prune the wheel is built, and uploaded to the release of the
\* tag if it is there.
Build ==
  /\ current.stale = {}
  /\ \/ /\ Goto("build", "built")
        /\ \E x \in Tagged(current.tag) :
             releases' = (releases \ {x}) \cup {[x EXCEPT !.assets = current.run.tree]}
     \/ Goto("build", "build failed") /\ UNCHANGED releases
  /\ UNCHANGED <<world, stamp>>

Next ==
  \/ Trigger \/ RerunAll \/ RerunFailed \/ DayPasses \/ Ship \/ OtherRelease
  \/ Gate \/ Version \/ Create \/ List \/ Prune \/ Build

Spec == Init /\ [][Next]_vars

-----------------------------------------------------------------------------
(* Properties.                                                             *)

\* The values every variable may take.  A tag names one release, and a run that
\* builds has a tag to upload to.
TypeOK ==
  /\ head \in 1 .. MaxTrees /\ day \in 1 .. MaxDays /\ count \in 0 .. MaxRuns
  /\ stables \subseteq InTree .. MaxPatch
  /\ releases \subseteq Release
  /\ \A x, y \in releases : x.tag = y.tag \/ x.createdAt = y.createdAt => x = y
  /\ \A x \in releases : x.createdAt < stamp
  /\ past \subseteq Run
  /\ current.pc \in Ended \cup {"gate", "prepare", "create", "list", "build"}
  /\ current.run \in Run \cup {None}
  /\ current.tag \in Tag \cup {None}
  /\ current.pc \in {"create", "list", "build", "built"} => current.tag # None

\* Whatever was re-run, reused and cancelled in between: what a release offers for
\* download was built from the tree its tag points at.
AssetsMatchTag == \A x \in releases : x.assets \in {None, x.tree}

\* canary.yml: "Keep the newest $RETAIN builds".  A run in its first attempt does not
\* prune the release it has just made and is about to upload to.
OwnReleaseStays ==
  current.pc \in {"list", "build"} /\ current.run.attempt = 1 => Tagged(current.tag) # {}

\* next-version.mjs: versions of a channel are ordered, so that an updater can move
\* from one to the next.  The release a run makes in its first attempt is newer than
\* all there are of its channel, whatever stable releases appear and whatever is
\* pruned.  (Without the list of releases, or in a re-run, it may be older.)
VersionsGrow ==
  [][current.seen /\ current.run # None /\ current.run.attempt = 1 =>
       \A x \in releases' \ releases :
         x.tag.channel = channel /\ Tagged(x.tag) = {} =>
           \A y \in Mine : Precedes(y.tag, x.tag)]_vars

\* A rolling release is deleted only if it belongs to the channel and RETAIN newer ones
\* of the channel are there, however old the list is by then.
PrunedOnlyStale ==
  [][\A x \in releases :
       (\A y \in releases' : y.tag # x.tag) =>
         x.tag.channel = channel /\ Cardinality(Newer(x)) >= RETAIN]_vars

-----------------------------------------------------------------------------
(* What the comments say and the workflow does not do.                     *)

\* canary.yml: a re-run reuses the release of its first attempt "instead of failing
\* here and never reaching the build again".  A re-run is not skipped while the
\* release of its first attempt has nothing to download.
RerunReachesBuild ==
  current.pc = "skipped" /\ current.run.attempt > 1 =>
    \A x \in Mine : x.tag.run = current.run.number => x.assets # None
=============================================================================
