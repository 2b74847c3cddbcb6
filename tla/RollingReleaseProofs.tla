------------------------ MODULE RollingReleaseProofs ------------------------
(***************************************************************************)
(* Theorems about RollingRelease: what each release holds, its types, the  *)
(* order of its versions and what it prunes, for every number of runs,     *)
(* re-runs, days and releases to keep.                                     *)
(***************************************************************************)
EXTENDS RollingRelease, FiniteSetTheorems, WellFoundedInduction, TLAPS

\* The fields are there; what the tag's base is does not matter here.
Shape ==
  /\ count \in Nat /\ head \in Nat
  /\ DOMAIN current = {"pc", "run", "tag", "seen", "stale"}
  /\ \A x \in releases : DOMAIN x = {"tag", "tree", "createdAt", "assets"}

Runs == past \cup ({current.run} \ {None})

\* A number belongs to one run, and a release under it has the tree of that run: a
\* re-run that finds its release again uploads what belongs there.
Numbered ==
  /\ \A r \in Runs : r \in Run /\ r # None /\ r.number <= count
  /\ \A r, q \in Runs : r.number = q.number => r = q
  /\ current.run \notin past
  /\ \A x \in Mine : x.tag.run <= count /\ x.tag.run \in Nat
  /\ \A x \in Mine, r \in Runs : x.tag.run = r.number => x.tree = r.tree

Tagging ==
  /\ current.pc # "idle" => current.run # None
  /\ current.pc \in {"create", "list", "build", "build failed"} =>
       /\ current.tag.channel = channel
       /\ current.tag.run = current.run.number

Inv == Shape /\ Numbered /\ Tagging /\ AssetsMatchTag

USE DEF Shape, Runs, Mine

LEMMA InitInv == Init => Inv
BY RollingAssumption DEF Init, Starting, Inv, Numbered, Tagging, AssetsMatchTag

LEMMA ReplaceInv ==
  ASSUME Inv, NEW r \in Run, r # None, Replace(r), UNCHANGED releases,
         count' \in Nat, head' \in Nat, count <= count', r.number <= count',
         \A q \in Runs : q.number = r.number => q.tree = r.tree,
         \A x \in Mine : x.tag.run = r.number => x.tree = r.tree
  PROVE  Inv'
<1>1. /\ current'.pc = "gate" /\ current'.run = r
      /\ DOMAIN current' = {"pc", "run", "tag", "seen", "stale"}
      /\ past' = {q \in past \cup {current.run} : q # None /\ q.number # r.number}
  BY DEF Replace, Starting
<1>2. past' \subseteq Runs /\ Runs' = past' \cup {r} /\ Mine' = Mine
  BY <1>1
<1>3. \A q \in Runs : q \in Run /\ q # None /\ q.number <= count'
  BY DEF Inv, Numbered, Run
<1>4. Numbered'
  <2>1. \A q \in Runs' : q \in Run /\ q # None /\ q.number <= count'
    BY <1>2, <1>3
  <2>2. \A q, s \in Runs' : q.number = s.number => q = s
    BY <1>1, <1>2 DEF Inv, Numbered
  <2>3. current'.run \notin past'
    BY <1>1
  <2>4. \A x \in Mine' : x.tag.run <= count' /\ x.tag.run \in Nat
    BY <1>2 DEF Inv, Numbered
  <2>5. \A x \in Mine', q \in Runs' : x.tag.run = q.number => x.tree = q.tree
    BY <1>2 DEF Inv, Numbered
  <2>. QED
    BY <2>1, <2>2, <2>3, <2>4, <2>5 DEF Numbered
<1>5. Tagging'
  BY <1>1 DEF Tagging
<1>. QED
  BY <1>1, <1>4, <1>5 DEF Inv, AssetsMatchTag

\* A step of the run in progress keeps the run.
LEMMA SameRunInv ==
  ASSUME Inv, current'.run = current.run, DOMAIN current' = DOMAIN current,
         UNCHANGED <<past, count, head>>, Tagging',
         \A x \in releases' : DOMAIN x = {"tag", "tree", "createdAt", "assets"},
         \A x \in releases' : x.assets \in {None, x.tree},
         \A x \in Mine' : x.tag.run <= count /\ x.tag.run \in Nat,
         \A x \in Mine', r \in Runs : x.tag.run = r.number => x.tree = r.tree
  PROVE  Inv'
<1>1. Runs' = Runs
  OBVIOUS
<1>2. Numbered'
  BY <1>1 DEF Inv, Numbered
<1>. QED
  BY <1>2 DEF Inv, AssetsMatchTag

LEMMA SameReleasesInv ==
  ASSUME Inv, current'.run = current.run, DOMAIN current' = DOMAIN current,
         UNCHANGED <<past, count, head>>, Tagging', releases' \subseteq releases
  PROVE  Inv'
<1>1. Mine' \subseteq Mine
  OBVIOUS
<1>. QED
  BY <1>1, SameRunInv DEF Inv, Numbered, AssetsMatchTag

-----------------------------------------------------------------------------
(* One lemma per action.                                                   *)

LEMMA TriggerInv == ASSUME Inv, Trigger PROVE Inv'
<1>1. PICK event \in {"automatic", "workflow_dispatch"} :
        Replace([number |-> count', tree |-> head', event |-> event, attempt |-> 1])
  BY DEF Trigger
<1>. DEFINE r == [number |-> count', tree |-> head', event |-> event, attempt |-> 1]
<1>2. count \in Nat /\ count' = count + 1 /\ count' \in Nat /\ UNCHANGED releases
  BY DEF Trigger, Inv
<1>3. head' \in Nat
  BY RollingAssumption DEF Trigger, Inv, Bounds
<1>4. r \in Run /\ r # None /\ r.number = count'
  <2>1. r \in Run
    BY <1>2, <1>3 DEF Run
  <2>. QED
    BY <2>1, RollingAssumption
<1>5. \A q \in Runs : q.number <= count /\ q.number \in Nat
  BY DEF Inv, Numbered, Run
<1>6. \A x \in Mine : x.tag.run <= count /\ x.tag.run \in Nat
  BY DEF Inv, Numbered
<1>. HIDE DEF r
<1>. QED
  BY <1>1, <1>2, <1>3, <1>4, <1>5, <1>6, ReplaceInv DEF r

LEMMA RerunAllInv == ASSUME Inv, RerunAll PROVE Inv'
<1>1. PICK q \in Runs : Replace([q EXCEPT !.attempt = @ + 1])
  BY DEF RerunAll
<1>. DEFINE r == [q EXCEPT !.attempt = @ + 1]
<1>2. UNCHANGED <<head, releases, count>> /\ count \in Nat /\ head \in Nat
  BY DEF RerunAll, Inv
<1>3. q \in Run /\ q.number <= count
  BY DEF Inv, Numbered
<1>4. r \in Run /\ r.number = q.number /\ r.tree = q.tree /\ r # None
  <2>1. r \in Run /\ r.number = q.number /\ r.tree = q.tree
    BY <1>3 DEF Run
  <2>. QED
    BY <2>1, RollingAssumption
<1>5. \A i \in Runs : i.number = q.number => i.tree = q.tree
  BY DEF Inv, Numbered
<1>6. \A x \in Mine : x.tag.run = q.number => x.tree = q.tree
  BY DEF Inv, Numbered
<1>7. Replace(r)
  BY <1>1
<1>. HIDE DEF r
<1>8. /\ UNCHANGED releases /\ count' \in Nat /\ head' \in Nat /\ count <= count'
      /\ r.number <= count'
      /\ \A i \in Runs : i.number = r.number => i.tree = r.tree
      /\ \A x \in Mine : x.tag.run = r.number => x.tree = r.tree
  BY <1>2, <1>3, <1>4, <1>5, <1>6
<1>. QED
  BY <1>4, <1>7, <1>8, ReplaceInv

LEMMA RerunFailedInv == ASSUME Inv, RerunFailed PROVE Inv'
<1>. DEFINE r == [current.run EXCEPT !.attempt = @ + 1]
<1>1. /\ current.pc \in Failed /\ current.run \in Runs
      /\ current.run \in Run
  BY DEF RerunFailed, Failed, Inv, Numbered, Tagging
<1>2. /\ UNCHANGED <<head, count, past, releases>>
      /\ current'.run = r /\ current'.tag = current.tag
      /\ DOMAIN current' = DOMAIN current
      /\ current'.pc \in {"gate", "prepare", "build"}
      /\ current'.pc = "build" => current.pc = "build failed"
  BY <1>1 DEF RerunFailed, world, Failed, Inv
<1>3. r \in Run /\ r.number = current.run.number /\ r.tree = current.run.tree
  BY <1>1 DEF Run
<1>4. r # None
  BY <1>3, RollingAssumption
<1>. HIDE DEF r
<1>5. Tagging'
  BY <1>2, <1>3, <1>4 DEF Inv, Tagging
<1>6. Numbered'
  <2>1. Runs' = past \cup {r} /\ Mine' = Mine
    BY <1>2, <1>4
  <2>2. \A q \in past : q \in Runs /\ q # current.run
    BY DEF Inv, Numbered
  <2>3. \A q \in past : q.number # r.number
    BY <1>1, <1>3, <2>2 DEF Inv, Numbered
  <2>4. \A q \in Runs' : q \in Run /\ q # None /\ q.number <= count
    BY <1>1, <1>3, <1>4, <2>1, <2>2 DEF Inv, Numbered
  <2>5. \A x \in Mine, q \in Runs' : x.tag.run = q.number => x.tree = q.tree
    BY <1>1, <1>3, <2>1, <2>2 DEF Inv, Numbered
  <2>6. \A q, i \in Runs' : q.number = i.number => q = i
    BY <2>1, <2>2, <2>3 DEF Inv, Numbered
  <2>7. current'.run \notin past'
    BY <1>2, <2>3
  <2>8. \A x \in Mine : x.tag.run <= count /\ x.tag.run \in Nat
    BY DEF Inv, Numbered
  <2>. QED
    BY <1>2, <2>1, <2>4, <2>5, <2>6, <2>7, <2>8 DEF Numbered
<1>. QED
  BY <1>2, <1>5, <1>6 DEF Inv, AssetsMatchTag

LEMMA OtherReleaseInv == ASSUME Inv, OtherRelease PROVE Inv'
<1>. DEFINE x ==
       [tag |-> [channel |-> other, base |-> resolveBase(Published), day |-> day,
                 run |-> Cardinality(releases \ Mine) + 1],
        tree |-> head, createdAt |-> stamp, assets |-> head]
<1>0. releases' = releases \cup {x}
  BY DEF OtherRelease
<1>1. /\ DOMAIN x = {"tag", "tree", "createdAt", "assets"}
      /\ x.tag.channel = other /\ x.assets = x.tree
  OBVIOUS
<1>. HIDE DEF x
<1>2. Mine' = Mine
  BY <1>0, <1>1, RollingAssumption
<1>3. UNCHANGED <<head, count, past, current>>
  BY DEF OtherRelease, world
<1>4. Tagging'
  BY <1>3 DEF Inv, Tagging
<1>. QED
  BY <1>0, <1>1, <1>2, <1>3, <1>4, SameRunInv DEF Inv, Numbered, AssetsMatchTag

LEMMA CreateInv == ASSUME Inv, Create PROVE Inv'
<1>1. /\ UNCHANGED <<head, count, past>> /\ current.pc = "create"
      /\ current'.run = current.run /\ current'.tag = current.tag
      /\ DOMAIN current' = DOMAIN current
      /\ current'.pc \in {"list", "prepare failed"}
  BY DEF Create, Goto, world, Inv
<1>2. Tagging'
  BY <1>1 DEF Inv, Tagging
<1>3. CASE releases' = releases
  BY <1>1, <1>2, <1>3, SameReleasesInv
<1>4. CASE releases' = releases \cup {NewRelease}
  <2>. DEFINE x == NewRelease
  <2>1. /\ DOMAIN x = {"tag", "tree", "createdAt", "assets"} /\ x.assets = None
        /\ x.tag = current.tag /\ x.tree = current.run.tree
    BY DEF NewRelease
  <2>2. current.run \in Runs /\ x.tag.run = current.run.number /\ current.run \in Run
    BY <1>1, <2>1 DEF Inv, Tagging, Numbered
  <2>3. x.tag.run <= count /\ x.tag.run \in Nat
    BY <2>2 DEF Inv, Numbered, Run
  <2>4. \A r \in Runs : x.tag.run = r.number => x.tree = r.tree
    BY <2>1, <2>2 DEF Inv, Numbered
  <2>5. releases' = releases \cup {x}
    BY <1>4
  <2>. HIDE DEF x
  <2>6. Mine' \subseteq Mine \cup {x}
    BY <2>5
  <2>7. \A z \in releases' : DOMAIN z = {"tag", "tree", "createdAt", "assets"}
    BY <2>1, <2>5 DEF Inv
  <2>8. \A z \in releases' : z.assets \in {None, z.tree}
    BY <2>1, <2>5 DEF Inv, AssetsMatchTag
  <2>9. \A z \in Mine' : z.tag.run <= count /\ z.tag.run \in Nat
    BY <2>3, <2>6 DEF Inv, Numbered
  <2>10. \A z \in Mine', r \in Runs : z.tag.run = r.number => z.tree = r.tree
    BY <2>4, <2>6 DEF Inv, Numbered
  <2>. HIDE DEF Mine, Runs
  <2>. QED
    BY <1>1, <1>2, <2>7, <2>8, <2>9, <2>10, SameRunInv
<1>. QED
  BY <1>3, <1>4 DEF Create

LEMMA BuildInv == ASSUME Inv, Build PROVE Inv'
<1>1. /\ UNCHANGED <<head, count, past>> /\ current.pc = "build"
      /\ current'.run = current.run /\ current'.tag = current.tag
      /\ DOMAIN current' = DOMAIN current
      /\ current'.pc \in {"built", "build failed"}
  BY DEF Build, Goto, world, Inv
<1>2. Tagging'
  BY <1>1 DEF Inv, Tagging
<1>3. CASE releases' = releases
  BY <1>1, <1>2, <1>3, SameReleasesInv
<1>4. ASSUME NEW x \in Tagged(current.tag),
             releases' = (releases \ {x}) \cup {[x EXCEPT !.assets = current.run.tree]}
      PROVE  Inv'
  <2>. DEFINE y == [x EXCEPT !.assets = current.run.tree]
  <2>1. x \in Mine /\ x.tag = current.tag /\ x.tag.run = current.run.number
    BY <1>1 DEF Tagged, Inv, Tagging
  <2>2. x.tree = current.run.tree
    BY <1>1, <2>1 DEF Inv, Numbered, Tagging
  <2>3. /\ DOMAIN y = {"tag", "tree", "createdAt", "assets"} /\ y.assets = y.tree
        /\ y.tag = x.tag /\ y.tree = x.tree
    BY <2>1, <2>2 DEF Inv
  <2>5. releases' = (releases \ {x}) \cup {y}
    BY <1>4
  <2>. HIDE DEF y
  <2>6. Mine' \subseteq Mine \cup {y}
    BY <2>5
  <2>7. \A z \in releases' : DOMAIN z = {"tag", "tree", "createdAt", "assets"}
    BY <2>3, <2>5 DEF Inv
  <2>8. \A z \in releases' : z.assets \in {None, z.tree}
    BY <2>3, <2>5 DEF Inv, AssetsMatchTag
  <2>9. \A z \in Mine' : z.tag.run <= count /\ z.tag.run \in Nat
    BY <2>1, <2>3, <2>6 DEF Inv, Numbered
  <2>10. \A z \in Mine', r \in Runs : z.tag.run = r.number => z.tree = r.tree
    BY <2>1, <2>3, <2>6 DEF Inv, Numbered
  <2>. HIDE DEF Mine, Runs
  <2>. QED
    BY <1>1, <1>2, <2>7, <2>8, <2>9, <2>10, SameRunInv
<1>. QED
  BY <1>3, <1>4 DEF Build

LEMMA RestInv ==
  ASSUME Inv, DayPasses \/ Ship \/ Gate \/ Version \/ List \/ Prune
  PROVE  Inv'
<1>1. /\ UNCHANGED <<head, count, past>> /\ releases' \subseteq releases
      /\ current'.run = current.run /\ DOMAIN current' = DOMAIN current
  BY DEF DayPasses, Ship, Gate, Version, List, Prune, Goto, world, Inv
<1>2. Tagging'
  <2>1. CASE DayPasses \/ Ship
    BY <2>1 DEF DayPasses, Ship, Inv, Tagging
  <2>2. CASE Gate
    BY <2>2 DEF Gate, Goto, Inv, Tagging
  <2>3. CASE Version
    <3>1. PICK seen \in BOOLEAN :
            current' = [current EXCEPT
              !.pc = "create", !.seen = seen,
              !.tag = nextVersion(IF seen THEN Published ELSE {})]
      BY <2>3 DEF Version
    <3>2. /\ current'.pc = "create" /\ current'.run = current.run
          /\ current'.tag.channel = channel /\ current'.tag.run = current.run.number
      BY <3>1 DEF nextVersion, Inv
    <3>. QED
      BY <2>3, <3>2 DEF Version, Inv, Tagging
  <2>4. CASE List \/ Prune
    BY <2>4 DEF List, Prune, Inv, Tagging
  <2>. QED
    BY <2>1, <2>2, <2>3, <2>4
<1>. QED
  BY <1>1, <1>2, SameReleasesInv

LEMMA NextInv == ASSUME Inv, [Next]_vars PROVE Inv'
<1>1. CASE UNCHANGED vars
  BY <1>1 DEF vars, world, Inv, Numbered, Tagging, AssetsMatchTag
<1>. QED
  BY <1>1, TriggerInv, RerunAllInv, RerunFailedInv, OtherReleaseInv, CreateInv, BuildInv,
    RestInv DEF Next

\* A release never offers a build of another tree than the one its tag points at,
\* however runs are cancelled, re-run and pruned.
THEOREM AssetsCorrect == Spec => []AssetsMatchTag
<1>1. Spec => []Inv
  BY InitInv, NextInv, PTL DEF Spec
<1>. QED
  BY <1>1, PTL DEF Inv

-----------------------------------------------------------------------------
(* The base of a version.                                                  *)

LEMMA MinExists ==
  ASSUME NEW S \in SUBSET Nat, S # {}
  PROVE  Min(S) \in S /\ \A y \in S : Min(S) <= y
<1>1. PICK x \in S : \A y \in S : ~(<<y, x>> \in OpToRel(<, Nat))
  BY NatLessThanWellFounded, WFMin
<1>2. ASSUME NEW y \in S PROVE x <= y
  <2>1. <<y, x>> \in Nat \X Nat /\ <<y, x>>[1] = y /\ <<y, x>>[2] = x
    OBVIOUS
  <2>2. ~(y < x)
    BY <1>1, <2>1, Zenon DEF OpToRel
  <2>. QED
    BY <2>2
<1>. QED
  BY <1>2 DEF Min

\* The least patch from the in-tree one on that no stable release has.
Free(T) == {p \in InTree .. InTree + Cardinality(T) : p \notin T}

Base(T) == Min(Free(T))

\* One round of the loop per stable release is enough to find it.
LEMMA BaseExists ==
  ASSUME NEW T, IsFiniteSet(T)
  PROVE  /\ Base(T) \in Nat /\ InTree <= Base(T) /\ Base(T) \notin T
         /\ \A p \in InTree .. Base(T) : p \notin T => p = Base(T)
<1>. DEFINE n == Cardinality(T)
            I == InTree .. InTree + n
<1>1. n \in Nat /\ InTree \in Nat
  BY FS_CardinalityType, RollingAssumption DEF Bounds
<1>2. IsFiniteSet(I) /\ Cardinality(I) = n + 1
  BY <1>1, FS_Interval
<1>3. Free(T) # {}
  <2>1. ~(I \subseteq T)
    <3>1. ASSUME I \subseteq T PROVE Cardinality(I) <= n
      BY <3>1, FS_Subset
    <3>. HIDE DEF n, I
    <3>. QED
      BY <1>1, <1>2, <3>1
  <2>. QED
    BY <2>1 DEF Free
<1>4. Free(T) \subseteq Nat
  BY <1>1 DEF Free
<1>5. Base(T) \in Free(T) /\ \A y \in Free(T) : Base(T) <= y
  BY <1>3, <1>4, MinExists DEF Base
<1>. HIDE DEF n
<1>6. Base(T) \in I /\ Base(T) \notin T
  BY <1>5 DEF Free, n
<1>7. ASSUME NEW p \in InTree .. Base(T), p \notin T PROVE p = Base(T)
  <2>1. p \in I
    BY <1>1, <1>6, <1>7
  <2>2. p \in Free(T)
    BY <1>7, <2>1 DEF Free, n
  <2>. QED
    BY <1>1, <1>5, <1>6, <1>7, <2>2
<1>. QED
  BY <1>1, <1>6, <1>7

\* More stable releases, a higher base.
LEMMA BaseGrows ==
  ASSUME NEW T, NEW U, IsFiniteSet(U), T \subseteq U
  PROVE  Base(T) <= Base(U)
<1>1. IsFiniteSet(T)
  BY FS_Subset
<1>2. /\ Base(U) \in Nat /\ InTree <= Base(U) /\ Base(U) \notin T
      /\ Base(T) \in Nat /\ \A p \in InTree .. Base(T) : p \notin T => p = Base(T)
  BY <1>1, BaseExists
<1>3. InTree \in Nat
  BY RollingAssumption DEF Bounds
<1>. QED
  BY <1>2, <1>3

LEMMA BaseOfPublished == resolveBase(Published) = Base(stables) /\ resolveBase({}) = Base({})
<1>1. {v.patch : v \in {w \in Published : ~w.prerelease}} = stables
  <2>1. ASSUME NEW v \in Published, ~v.prerelease PROVE v.patch \in stables
    BY <2>1 DEF Published
  <2>2. ASSUME NEW p \in stables
        PROVE  \E v \in {w \in Published : ~w.prerelease} : v.patch = p
    <3>1. [patch |-> p, prerelease |-> FALSE] \in Published
      BY DEF Published
    <3>. QED
      BY <3>1
  <2>. QED
    BY <2>1, <2>2
<1>2. {v.patch : v \in {w \in {} : ~w.prerelease}} = {}
  OBVIOUS
<1>. QED
  BY <1>1, <1>2, Zenon DEF resolveBase, Base, Free

-----------------------------------------------------------------------------
(* Types.                                                                  *)

Others == releases \ Mine

World ==
  /\ head \in 1 .. MaxTrees /\ day \in 1 .. MaxDays /\ count \in 0 .. MaxRuns
  /\ stables \subseteq InTree .. MaxPatch
  /\ stamp \in Nat

\* Nothing prunes the other channel, so its tags are numbered without a gap.
Listed ==
  /\ releases \subseteq Release /\ IsFiniteSet(releases)
  /\ \A x, y \in releases : x.tag = y.tag \/ x.createdAt = y.createdAt => x = y
  /\ \A x \in releases : x.createdAt < stamp
  /\ \A x \in Others : x.tag.run <= Cardinality(Others)

Steps == Ended \cup {"gate", "prepare", "create", "list", "build"}

AtWork ==
  /\ current.pc \in Steps
  /\ current.tag \in Tag \cup {None}
  /\ current.pc \in {"create", "list", "build", "built", "build failed"} => current.tag # None
  /\ current.stale \subseteq Mine
  /\ current.pc # "build" => current.stale = {}
  /\ current.seen \in BOOLEAN

LEMMA AddListed ==
  ASSUME Listed, stamp \in Nat, NEW x \in Release, x.createdAt = stamp,
         \A y \in releases : y.tag # x.tag,
         x.tag.channel # channel => x.tag.run = Cardinality(Others) + 1,
         releases' = releases \cup {x}, stamp' = stamp + 1
  PROVE  Listed'
<1>1. /\ releases \subseteq Release /\ IsFiniteSet(releases) /\ x \notin releases
      /\ \A y \in releases : y.createdAt \in Nat /\ y.createdAt < stamp
  BY DEF Listed, Release
<1>2. IsFiniteSet(Others) /\ Cardinality(Others) \in Nat
  BY <1>1, FS_Subset, FS_CardinalityType DEF Others
<1>3. releases' \subseteq Release /\ IsFiniteSet(releases')
  BY <1>1, FS_AddElement
<1>4. \A y, z \in releases' : y.tag = z.tag \/ y.createdAt = z.createdAt => y = z
  BY <1>1 DEF Listed
<1>5. \A y \in releases' : y.createdAt < stamp'
  BY <1>1
<1>6. \A y \in Others' : y.tag.run <= Cardinality(Others')
  <2>1. CASE x.tag.channel = channel
    <3>1. Others' = Others
      BY <2>1 DEF Others, Mine
    <3>. QED
      BY <3>1 DEF Listed
  <2>2. CASE x.tag.channel # channel
    <3>1. Others' = Others \cup {x} /\ x \notin Others
      BY <1>1, <2>2 DEF Others, Mine
    <3>2. Cardinality(Others') = Cardinality(Others) + 1
      BY <1>2, <3>1, FS_AddElement
    <3>3. \A y \in Others : y.tag.run \in Nat
      BY <1>1 DEF Others, Release, Tag
    <3>. QED
      BY <1>2, <2>2, <3>1, <3>2, <3>3 DEF Listed
  <2>. QED
    BY <2>1, <2>2
<1>. QED
  BY <1>3, <1>4, <1>5, <1>6 DEF Listed

LEMMA FewerListed ==
  ASSUME Listed, releases' \subseteq releases, Others' = Others, UNCHANGED stamp
  PROVE  Listed'
<1>1. IsFiniteSet(releases')
  BY FS_Subset DEF Listed
<1>. QED
  BY <1>1 DEF Listed

LEMMA UploadListed ==
  ASSUME Listed, NEW x \in Mine, NEW tree \in Nat, UNCHANGED stamp,
         releases' = (releases \ {x}) \cup {[x EXCEPT !.assets = tree]}
  PROVE  Listed'
<1>. DEFINE y == [x EXCEPT !.assets = tree]
<1>1. x \in releases /\ x \in Release
  BY DEF Listed, Mine
<1>2. y \in Release /\ y.tag = x.tag /\ y.createdAt = x.createdAt
  BY <1>1 DEF Release
<1>3. IsFiniteSet(releases')
  BY FS_RemoveElement, FS_AddElement DEF Listed
<1>4. releases' = (releases \ {x}) \cup {y}
  OBVIOUS
<1>. HIDE DEF y
<1>5. Others' = Others
  BY <1>1, <1>2, <1>4 DEF Others, Mine
<1>6. \A z, w \in releases' : z.tag = w.tag \/ z.createdAt = w.createdAt => z = w
  BY <1>1, <1>2, <1>4 DEF Listed
<1>7. releases' \subseteq Release /\ \A z \in releases' : z.createdAt < stamp
  BY <1>1, <1>2, <1>4 DEF Listed
<1>. QED
  BY <1>3, <1>5, <1>6, <1>7 DEF Listed

LEMMA StablesFinite == ASSUME World PROVE IsFiniteSet(stables)
<1>1. IsFiniteSet(InTree .. MaxPatch)
  BY FS_Interval, RollingAssumption DEF Bounds
<1>. QED
  BY <1>1, FS_Subset DEF World

LEMMA VersionTag ==
  ASSUME Inv, World, NEW seen \in BOOLEAN, current.run # None
  PROVE  /\ nextVersion(IF seen THEN Published ELSE {}) \in Tag
         /\ nextVersion(IF seen THEN Published ELSE {}).channel = channel
         /\ nextVersion(IF seen THEN Published ELSE {}).day = day
         /\ nextVersion(IF seen THEN Published ELSE {}).run = current.run.number
         /\ nextVersion(IF seen THEN Published ELSE {}).base =
              IF seen THEN Base(stables) ELSE Base({})
<1>. DEFINE p == IF seen THEN Published ELSE {}
<1>1. IsFiniteSet(stables) /\ IsFiniteSet({})
  BY StablesFinite, FS_EmptySet
<1>2. resolveBase(p) = (IF seen THEN Base(stables) ELSE Base({}))
  BY BaseOfPublished
<1>3. resolveBase(p) \in Nat
  BY <1>1, <1>2, BaseExists
<1>. HIDE DEF p
<1>4. /\ nextVersion(p) = [channel |-> channel, base |-> resolveBase(p), day |-> day,
                           run |-> current.run.number]
      /\ day \in Nat /\ current.run.number \in Nat
  BY RollingAssumption DEF nextVersion, World, Inv, Numbered, Runs, Run, Bounds
<1>5. nextVersion(p) \in Tag
  BY <1>3, <1>4 DEF Tag
<1>. QED
  BY <1>2, <1>4, <1>5 DEF p

LEMMA WorldStep ==
  ASSUME Inv, Inv', World, [Next]_vars
  PROVE  World'
<1>1. stamp' \in Nat
  <2>1. stamp' \in {stamp, stamp + 1}
    <3>1. CASE Trigger \/ RerunAll \/ RerunFailed \/ DayPasses \/ Ship \/ OtherRelease
      BY <3>1 DEF Trigger, RerunAll, RerunFailed, DayPasses, Ship, OtherRelease
    <3>2. CASE Gate \/ Version \/ Create \/ List \/ Prune \/ Build
      BY <3>2 DEF Gate, Version, Create, List, Prune, Build
    <3>. QED
      BY <3>1, <3>2 DEF Next, vars
  <2>. QED
    BY <2>1 DEF World
<1>2. CASE Trigger
  <2>1. head' \in 1 .. MaxTrees
    BY <1>2, RollingAssumption DEF World, Trigger, Bounds
  <2>2. count' \in 0 .. MaxRuns /\ UNCHANGED <<day, stables>>
    BY <1>2, RollingAssumption DEF World, Trigger, Bounds
  <2>. QED
    BY <1>1, <2>1, <2>2 DEF World
<1>3. CASE DayPasses
  BY <1>1, <1>3, RollingAssumption DEF World, DayPasses, Bounds
<1>4. CASE Ship
  BY <1>1, <1>4 DEF World, Ship
<1>5. ASSUME UNCHANGED <<head, day, stables, count>> PROVE World'
  BY <1>1, <1>5 DEF World
<1>6. CASE RerunAll \/ RerunFailed \/ OtherRelease \/ Gate \/ Version
  BY <1>5, <1>6 DEF RerunAll, RerunFailed, OtherRelease, Gate, Version, world
<1>7. CASE Create \/ List \/ Prune \/ Build \/ UNCHANGED vars
  BY <1>5, <1>7 DEF Create, List, Prune, Build, world, vars
<1>. QED
  BY <1>2, <1>3, <1>4, <1>6, <1>7 DEF Next

LEMMA ListedStep ==
  ASSUME Inv, World, Listed, AtWork, [Next]_vars
  PROVE  Listed'
<1>0. stamp \in Nat
  BY DEF World
<1>1. ASSUME UNCHANGED <<releases, stamp>> PROVE Listed'
  BY <1>1 DEF Listed, Others, Mine
<1>2. CASE Trigger \/ RerunAll \/ RerunFailed \/ DayPasses \/ Ship \/ Gate \/ Version
  BY <1>1, <1>2 DEF Trigger, RerunAll, RerunFailed, DayPasses, Ship, Gate, Version
<1>3. CASE OtherRelease
  <2>. DEFINE n == Cardinality(releases \ Mine) + 1
              t == [channel |-> other, base |-> resolveBase(Published), day |-> day, run |-> n]
              x == [tag |-> t, tree |-> head, createdAt |-> stamp, assets |-> head]
  <2>1. IsFiniteSet(Others) /\ Cardinality(Others) \in Nat
    BY FS_Subset, FS_CardinalityType DEF Others, Listed
  <2>2. resolveBase(Published) \in Nat /\ head \in Nat /\ day \in Nat
    <3>1. resolveBase(Published) \in Nat
      BY StablesFinite, BaseOfPublished, BaseExists
    <3>. QED
      BY <3>1, RollingAssumption DEF World, Bounds
  <2>3. n \in Nat /\ n = Cardinality(Others) + 1
    BY <2>1 DEF Others
  <2>. HIDE DEF n
  <2>4. t \in Tag
    BY <2>2, <2>3 DEF Tag
  <2>5. x \in Release /\ x.createdAt = stamp /\ x.tag = t
    BY <1>0, <2>2, <2>4 DEF Release
  <2>6. t.channel = other /\ t.run = Cardinality(Others) + 1
    BY <2>3
  <2>7. \A y \in releases : y.tag # t
    <3>1. ASSUME NEW y \in releases, y.tag = t PROVE FALSE
      <4>1. y \in Others
        BY <2>6, <3>1, RollingAssumption DEF Others, Mine
      <4>2. y.tag.run <= Cardinality(Others)
        BY <4>1 DEF Listed
      <4>. QED
        BY <2>1, <2>6, <3>1, <4>2
    <3>. QED
      BY <3>1
  <2>8. releases' = releases \cup {x} /\ stamp' = stamp + 1
    BY <1>3 DEF OtherRelease, n
  <2>. HIDE DEF t, x
  <2>. QED
    BY <1>0, <2>5, <2>6, <2>7, <2>8, AddListed
<1>4. CASE Create
  <2>1. CASE UNCHANGED <<releases, stamp>>
    BY <1>1, <2>1
  <2>2. CASE /\ Tagged(current.tag) = {}
             /\ releases' = releases \cup {NewRelease} /\ stamp' = stamp + 1
    <3>1. /\ current.tag \in Tag /\ current.run \in Run /\ current.tag.channel = channel
      BY <1>4 DEF AtWork, Create, Goto, Inv, Tagging, Numbered, Runs
    <3>2. /\ NewRelease \in Release /\ NewRelease.createdAt = stamp
          /\ NewRelease.tag = current.tag
      BY <1>0, <3>1 DEF NewRelease, Release, Run
    <3>3. \A y \in releases : y.tag # current.tag
      BY <2>2 DEF Tagged
    <3>. QED
      BY <1>0, <2>2, <3>1, <3>2, <3>3, AddListed
  <2>. QED
    BY <1>4, <2>1, <2>2 DEF Create
<1>5. CASE List \/ UNCHANGED vars
  BY <1>1, <1>5 DEF List, vars
<1>6. CASE Prune
  <2>1. /\ UNCHANGED stamp /\ releases' \subseteq releases
        /\ \A x \in Others : x \in releases'
    BY <1>6 DEF Prune, AtWork, Others
  <2>2. Others' = Others
    BY <2>1 DEF Others, Mine
  <2>. QED
    BY <2>1, <2>2, FewerListed
<1>7. CASE Build
  <2>1. CASE releases' = releases
    BY <1>1, <1>7, <2>1 DEF Build
  <2>2. ASSUME NEW x \in Tagged(current.tag),
               releases' = (releases \ {x}) \cup {[x EXCEPT !.assets = current.run.tree]}
        PROVE  Listed'
    <3>1. /\ current.run \in Run /\ current.tag.channel = channel /\ UNCHANGED stamp
      BY <1>7 DEF Build, Goto, Inv, Tagging, Numbered, Runs
    <3>2. x \in Mine /\ current.run.tree \in Nat
      BY <2>2, <3>1 DEF Tagged, Mine, Run
    <3>. QED
      BY <2>2, <3>1, <3>2, UploadListed
  <2>. QED
    BY <1>7, <2>1, <2>2 DEF Build
<1>. QED
  BY <1>2, <1>3, <1>4, <1>5, <1>6, <1>7 DEF Next

\* Apart from the run in progress nothing lists or uploads.
LEMMA Elsewhere ==
  ASSUME Inv, Trigger \/ RerunAll \/ DayPasses \/ Ship \/ OtherRelease
  PROVE  /\ Mine' = Mine
         /\ \/ UNCHANGED current
            \/ /\ current'.pc = "gate" /\ current'.tag = None
               /\ current'.stale = {} /\ current'.seen = TRUE
<1>1. CASE Trigger \/ RerunAll
  BY <1>1 DEF Trigger, RerunAll, Replace, Starting, Mine
<1>2. CASE DayPasses \/ Ship
  BY <1>2 DEF DayPasses, Ship, Mine
<1>3. CASE OtherRelease
  <2>. DEFINE t == [channel |-> other, base |-> resolveBase(Published), day |-> day,
                    run |-> Cardinality(releases \ Mine) + 1]
  <2>1. /\ releases' = releases \cup
             {[tag |-> t, tree |-> head, createdAt |-> stamp, assets |-> head]}
        /\ t.channel = other
    BY <1>3 DEF OtherRelease
  <2>. HIDE DEF t
  <2>. QED
    BY <1>3, <2>1, RollingAssumption DEF OtherRelease, Mine
<1>. QED
  BY <1>1, <1>2, <1>3

LEMMA AtWorkStep ==
  ASSUME Inv, Inv', World, Listed, AtWork, [Next]_vars
  PROVE  AtWork'
<1>0. DOMAIN current = {"pc", "run", "tag", "seen", "stale"} /\ RETAIN \in Nat
  BY RollingAssumption DEF Inv, Shape
<1>1. CASE Trigger \/ RerunAll \/ DayPasses \/ Ship \/ OtherRelease
  BY <1>1, Elsewhere DEF AtWork, Steps
<1>2. CASE RerunFailed
  <2>1. /\ current.pc \in Failed /\ current.pc # "build"
        /\ current'.tag = current.tag /\ current'.stale = current.stale
        /\ current'.seen = current.seen /\ current'.pc \in Steps /\ Mine' = Mine
        /\ current'.pc \notin {"create", "list", "built", "build failed"}
        /\ current'.pc = "build" => current.pc = "build failed"
    BY <1>0, <1>2 DEF RerunFailed, Failed, Steps, Mine
  <2>. QED
    BY <2>1 DEF AtWork
<1>3. CASE Gate
  BY <1>0, <1>3 DEF Gate, Goto, AtWork, Steps, Ended, Failed, Mine
<1>4. CASE Version
  <2>1. PICK seen \in BOOLEAN :
          current' = [current EXCEPT !.pc = "create", !.seen = seen,
                        !.tag = nextVersion(IF seen THEN Published ELSE {})]
    BY <1>4 DEF Version
  <2>2. current.run # None
    BY <1>4 DEF Version, Inv, Tagging
  <2>3. /\ current'.pc = "create" /\ current'.seen \in BOOLEAN /\ current'.stale = {}
        /\ current'.tag \in Tag
    BY <1>0, <1>4, <2>1, <2>2, VersionTag DEF AtWork, Version
  <2>. QED
    BY <2>3, RollingAssumption DEF AtWork, Steps
<1>5. CASE Create
  BY <1>0, <1>5 DEF Create, Goto, AtWork, Steps, Ended, Failed
<1>6. CASE List
  BY <1>0, <1>6 DEF List, Stale, AtWork, Steps, Mine
<1>7. CASE Prune
  <2>1. PICK x \in current.stale : /\ current' = [current EXCEPT !.stale = @ \ {x}]
                                   /\ releases' \in {releases, releases \ {x}}
    BY <1>7 DEF Prune
  <2>2. /\ current'.pc = "build" /\ current'.stale = current.stale \ {x}
        /\ current'.tag = current.tag /\ current'.seen = current.seen
    BY <1>0, <1>7, <2>1 DEF Prune
  <2>. QED
    BY <2>1, <2>2 DEF AtWork, Steps, Mine
<1>8. CASE Build
  BY <1>0, <1>8 DEF Build, Goto, AtWork, Steps, Ended, Failed
<1>9. CASE UNCHANGED vars
  BY <1>9 DEF vars, AtWork, Mine
<1>. QED
  BY <1>1, <1>2, <1>3, <1>4, <1>5, <1>6, <1>7, <1>8, <1>9 DEF Next

Typed == Inv /\ World /\ Listed /\ AtWork

LEMMA TypedInvariant == Spec => []Typed
<1>1. Init => Typed
  <2>1. Init => World
    BY RollingAssumption DEF Init, World, Bounds
  <2>2. Init => Listed
    BY FS_EmptySet DEF Init, Listed, Others
  <2>3. Init => AtWork
    BY DEF Init, Starting, AtWork, Steps, Ended
  <2>. QED
    BY <2>1, <2>2, <2>3, InitInv DEF Typed
<1>2. Typed /\ [Next]_vars => Typed'
  BY NextInv, WorldStep, ListedStep, AtWorkStep DEF Typed
<1>. QED
  BY <1>1, <1>2, PTL DEF Spec

\* Every variable keeps its type, a tag names one release whoever makes it, and a run
\* that builds has a tag to upload to.
THEOREM Types == Spec => []TypeOK
<1>1. Typed => TypeOK
  <2>1. ASSUME Typed PROVE past \subseteq Run /\ current.run \in Run \cup {None}
    BY <2>1 DEF Typed, Inv, Numbered, Runs
  <2>. QED
    BY <2>1 DEF Typed, TypeOK, World, Listed, AtWork, Steps
<1>. QED
  BY <1>1, TypedInvariant, PTL

-----------------------------------------------------------------------------
(* Pruning.                                                                *)

\* The list of what to prune may be old, but a release on it stays stale: those before
\* it on the list are newer, and those that keep it stale are not on the list.
Pruning == \A x \in current.stale : Cardinality(Newer(x)) >= RETAIN

LEMMA NewerFinite == ASSUME Listed, NEW x PROVE IsFiniteSet(Newer(x))
BY FS_Subset DEF Listed, Newer, Mine

LEMMA PruningStep ==
  ASSUME Typed, Pruning, [Next]_vars
  PROVE  Pruning'
<1>0. DOMAIN current = {"pc", "run", "tag", "seen", "stale"} /\ RETAIN \in Nat
  BY RollingAssumption DEF Typed, Inv, Shape
<1>1. ASSUME Mine' = Mine, current'.stale \subseteq current.stale PROVE Pruning'
  <2>1. \A x : Newer(x)' = Newer(x)
    BY <1>1 DEF Newer
  <2>. QED
    BY <1>1, <2>1 DEF Pruning
<1>2. ASSUME current'.stale = {} PROVE Pruning'
  BY <1>2 DEF Pruning
<1>3. CASE Trigger \/ RerunAll \/ DayPasses \/ Ship \/ OtherRelease
  BY <1>1, <1>2, <1>3, Elsewhere DEF Typed
<1>4. CASE RerunFailed \/ Gate \/ Version
  BY <1>0, <1>1, <1>4 DEF RerunFailed, Gate, Goto, Version, Mine
<1>5. CASE Create \/ Build
  BY <1>0, <1>2, <1>5 DEF Create, Build, Goto, Typed, AtWork
<1>6. CASE List
  BY <1>0, <1>6 DEF List, Stale, Pruning, Newer, Mine
<1>7. CASE Prune
  <2>1. PICK x \in current.stale : /\ \A y \in current.stale : y.createdAt <= x.createdAt
                                   /\ current' = [current EXCEPT !.stale = @ \ {x}]
                                   /\ releases' \in {releases, releases \ {x}}
    BY <1>7 DEF Prune
  <2>2. current'.stale = current.stale \ {x}
    BY <1>0, <2>1
  <2>3. ASSUME NEW y \in current.stale, y # x PROVE Cardinality(Newer(y)') >= RETAIN
    <3>1. /\ x \in releases /\ y \in releases
          /\ x.createdAt \in Nat /\ y.createdAt \in Nat
          /\ \A z \in Mine : z.createdAt \in Nat
      BY DEF Typed, AtWork, Listed, Mine, Release
    <3>2. y.createdAt < x.createdAt
      BY <2>1, <2>3, <3>1 DEF Typed, Listed
    <3>3. Newer(x) \subseteq Newer(y)'
      BY <2>1, <3>1, <3>2 DEF Newer, Mine
    <3>4. IsFiniteSet(Newer(y)')
      <4>1. Newer(y)' \subseteq Newer(y)
        BY <2>1 DEF Newer, Mine
      <4>. QED
        BY <4>1, NewerFinite, FS_Subset DEF Typed
    <3>5. /\ Cardinality(Newer(x)) <= Cardinality(Newer(y)')
          /\ Cardinality(Newer(x)) \in Nat /\ Cardinality(Newer(y)') \in Nat
      BY <3>3, <3>4, FS_Subset, FS_CardinalityType
    <3>. QED
      BY <1>0, <3>5 DEF Pruning
  <2>. QED
    BY <2>2, <2>3 DEF Pruning
<1>8. CASE UNCHANGED vars
  BY <1>1, <1>8 DEF vars, Mine
<1>. QED
  BY <1>3, <1>4, <1>5, <1>6, <1>7, <1>8 DEF Next

LEMMA TypedPruning == Spec => [](Typed /\ Pruning)
<1>1. Init => Pruning
  BY DEF Init, Starting, Pruning
<1>. QED
  BY <1>1, TypedInvariant, PruningStep, PTL DEF Spec

\* A release goes only when RETAIN newer ones of its channel are there at that moment,
\* however old the list of what to prune is, and never one of the other channel.
THEOREM OnlyStaleGo == Spec => PrunedOnlyStale
<1>. DEFINE Kept == \A x \in releases :
                      (\A y \in releases' : y.tag # x.tag) =>
                        x.tag.channel = channel /\ Cardinality(Newer(x)) >= RETAIN
<1>1. ASSUME Typed, Pruning, [Next]_vars PROVE Kept
  <2>1. ASSUME \A x \in releases : \E y \in releases' : y.tag = x.tag PROVE Kept
    BY <2>1
  <2>2. CASE releases \subseteq releases'
    BY <2>1, <2>2
  <2>3. CASE Prune
    <3>1. PICK x \in current.stale : releases' \in {releases, releases \ {x}}
      BY <2>3 DEF Prune
    <3>2. x \in Mine /\ Cardinality(Newer(x)) >= RETAIN
      BY <1>1 DEF Typed, AtWork, Pruning
    <3>. QED
      BY <3>1, <3>2 DEF Mine
  <2>4. CASE Build
    <3>1. ASSUME NEW x \in releases,
                 releases' = (releases \ {x}) \cup {[x EXCEPT !.assets = current.run.tree]}
          PROVE  Kept
      <4>1. x \in Release
        BY <1>1 DEF Typed, Listed
      <4>2. [x EXCEPT !.assets = current.run.tree].tag = x.tag
        BY <4>1 DEF Release
      <4>. QED
        BY <2>1, <3>1, <4>2
    <3>. QED
      BY <2>2, <2>4, <3>1 DEF Build, Tagged
  <2>5. CASE Trigger \/ RerunAll \/ RerunFailed \/ DayPasses \/ Ship \/ OtherRelease
    BY <2>2, <2>5 DEF Trigger, RerunAll, RerunFailed, DayPasses, Ship, OtherRelease
  <2>6. CASE Gate \/ Version \/ Create \/ List \/ UNCHANGED vars
    BY <2>2, <2>6 DEF Gate, Version, Create, List, vars
  <2>. QED
    BY <1>1, <2>3, <2>4, <2>5, <2>6 DEF Next
<1>2. Typed /\ Pruning /\ [Next]_vars => [Kept]_vars
  BY <1>1
<1>. QED
  BY <1>2, TypedPruning, PTL DEF Spec, PrunedOnlyStale

-----------------------------------------------------------------------------
(* First attempts.                                                         *)

First == current.run # None /\ current.run.attempt = 1

\* Only the newest run can be in its first attempt, and until it has created its
\* release every release of the channel has a lower run number.
Fresh ==
  /\ \A r \in Runs : r.attempt >= 1
  /\ First => current.run.number = count
  /\ First /\ current.pc \in {"gate", "prepare", "create"} =>
       \A x \in Mine : x.tag.run < count

\* Its own release is then the newest of the channel.
Own ==
  First /\ current.pc \in {"list", "build"} =>
    \E x \in Mine : x.tag = current.tag /\ Newer(x) = {} /\ x \notin current.stale

LEMMA ReplaceFresh ==
  ASSUME Inv, Fresh, NEW r \in Run, r # None, Replace(r), r.attempt >= 1
  PROVE  /\ \A q \in Runs' : q.attempt >= 1
         /\ current'.run = r /\ current'.pc = "gate"
<1>1. current'.run = r /\ current'.pc = "gate" /\ Runs' \subseteq Runs \cup {r}
  BY DEF Replace, Starting, Runs
<1>. QED
  BY <1>1 DEF Fresh

LEMMA FreshStep ==
  ASSUME Typed, Fresh, [Next]_vars
  PROVE  Fresh'
<1>0. /\ DOMAIN current = {"pc", "run", "tag", "seen", "stale"} /\ count \in Nat
      /\ Runs \subseteq Run /\ \A x \in Mine : x.tag.run <= count /\ x.tag.run \in Nat
  BY DEF Typed, Inv, Shape, Numbered
<1>1. CASE Trigger
  <2>1. PICK event \in {"automatic", "workflow_dispatch"} :
          Replace([number |-> count', tree |-> head', event |-> event, attempt |-> 1])
    BY <1>1 DEF Trigger
  <2>. DEFINE r == [number |-> count', tree |-> head', event |-> event, attempt |-> 1]
  <2>2. count' = count + 1 /\ count' \in Nat /\ Mine' = Mine
    BY <1>0, <1>1 DEF Trigger, Mine
  <2>3. r \in Run /\ r.attempt = 1 /\ r.number = count'
    BY <1>1, <2>2, RollingAssumption DEF Trigger, Typed, World, Run, Bounds
  <2>4. r # None /\ Replace(r)
    BY <2>1, <2>3, RollingAssumption
  <2>. HIDE DEF r
  <2>5. /\ \A q \in Runs' : q.attempt >= 1
        /\ current'.run = r
    BY <2>3, <2>4, ReplaceFresh DEF Typed
  <2>. QED
    BY <1>0, <2>2, <2>3, <2>5 DEF Fresh, First
<1>2. CASE RerunAll
  <2>1. PICK q \in Runs : Replace([q EXCEPT !.attempt = @ + 1])
    BY <1>2 DEF RerunAll, Runs
  <2>. DEFINE r == [q EXCEPT !.attempt = @ + 1]
  <2>2. q \in Run /\ q.attempt >= 1
    BY <1>0 DEF Fresh
  <2>3. r \in Run /\ r.attempt >= 2
    BY <2>2 DEF Run
  <2>4. r # None /\ Replace(r)
    BY <2>1, <2>3, RollingAssumption
  <2>. HIDE DEF r
  <2>5. /\ \A i \in Runs' : i.attempt >= 1
        /\ current'.run = r
    BY <2>3, <2>4, ReplaceFresh DEF Typed, Run
  <2>. QED
    BY <2>3, <2>5 DEF Fresh, First
<1>3. CASE RerunFailed
  <2>. DEFINE r == [current.run EXCEPT !.attempt = @ + 1]
  <2>1. current.run \in Runs /\ current.run \in Run /\ current.run.attempt >= 1
    BY <1>0, <1>3 DEF RerunFailed, Failed, Typed, Inv, Tagging, Runs, Fresh
  <2>2. r \in Run /\ r.attempt >= 2
    BY <2>1 DEF Run
  <2>3. current'.run = r /\ past' = past
    BY <1>0, <1>3 DEF RerunFailed, world
  <2>. HIDE DEF r
  <2>4. Runs' \subseteq Runs \cup {r}
    BY <2>3 DEF Runs
  <2>. QED
    BY <2>2, <2>3, <2>4 DEF Fresh, First, Run
<1>4. ASSUME current'.run = current.run, UNCHANGED <<past, count>>,
             current'.pc \in {"gate", "prepare", "create"} =>
               current.pc \in {"gate", "prepare", "create"} /\ Mine' \subseteq Mine
      PROVE  Fresh'
  BY <1>4 DEF Fresh, First, Runs
<1>5. CASE DayPasses \/ Ship \/ OtherRelease
  BY <1>4, <1>5, Elsewhere DEF DayPasses, Ship, OtherRelease, world, Typed
<1>6. CASE Gate \/ Version
  BY <1>0, <1>4, <1>6 DEF Gate, Version, Goto, world, Mine
<1>7. CASE Create \/ Build \/ List
  BY <1>0, <1>4, <1>7 DEF Create, Build, List, Goto, world
<1>8. CASE Prune
  BY <1>0, <1>4, <1>8 DEF Prune, world
<1>9. CASE UNCHANGED vars
  BY <1>4, <1>9 DEF vars, world, Mine
<1>. QED
  BY <1>1, <1>2, <1>3, <1>5, <1>6, <1>7, <1>8, <1>9 DEF Next

LEMMA OwnStep ==
  ASSUME Typed, Fresh, Own, Fresh', [Next]_vars
  PROVE  Own'
<1>0. /\ DOMAIN current = {"pc", "run", "tag", "seen", "stale"} /\ RETAIN \in Nat \ {0}
      /\ count \in Nat
  BY RollingAssumption DEF Typed, Inv, Shape
<1>1. ASSUME ~(current'.pc \in {"list", "build"}) \/ ~First' PROVE Own'
  BY <1>1 DEF Own
<1>2. CASE Trigger \/ RerunAll \/ DayPasses \/ Ship \/ OtherRelease
  BY <1>1, <1>2, Elsewhere DEF Typed, Own, First, Newer
<1>3. CASE RerunFailed
  <2>1. current.run \in Run /\ current.run.attempt >= 1
    BY <1>3 DEF RerunFailed, Failed, Typed, Inv, Tagging, Numbered, Runs, Fresh
  <2>2. current'.run = [current.run EXCEPT !.attempt = @ + 1]
    BY <1>0, <1>3 DEF RerunFailed
  <2>3. current'.run.attempt # 1
    BY <2>1, <2>2 DEF Run
  <2>. QED
    BY <1>1, <2>3 DEF First
<1>4. CASE Gate \/ Version \/ Build
  BY <1>0, <1>1, <1>4 DEF Gate, Version, Build, Goto
<1>5. CASE Create
  <2>. SUFFICES ASSUME First', current'.pc \in {"list", "build"}
                PROVE  Own'
    BY <1>1
  <2>1. /\ First /\ current.pc = "create" /\ current'.tag = current.tag
        /\ current'.stale = {} /\ current.tag.channel = channel
        /\ current.tag.run = count
    BY <1>0, <1>5 DEF Create, Goto, First, Typed, AtWork, Inv, Tagging, Fresh
  <2>2. Tagged(current.tag) = {}
    <3>1. ASSUME NEW x \in Tagged(current.tag) PROVE FALSE
      <4>1. x \in Mine /\ x.tag.run = count
        BY <2>1, <3>1 DEF Tagged, Mine
      <4>. QED
        BY <1>0, <2>1, <4>1 DEF Fresh
    <3>. QED
      BY <3>1
  <2>3. releases' = releases \cup {NewRelease}
    BY <1>0, <1>5, <2>2 DEF Create, Goto
  <2>4. NewRelease.tag = current.tag /\ NewRelease.createdAt = stamp
    BY DEF NewRelease
  <2>. DEFINE n == NewRelease
  <2>5. n.tag = current.tag /\ n.createdAt = stamp /\ releases' = releases \cup {n}
    BY <2>3, <2>4
  <2>. HIDE DEF n
  <2>6. n \in Mine' /\ n \notin current'.stale
    BY <2>1, <2>5 DEF Mine
  <2>7. \A y \in Mine' : ~(y.createdAt > n.createdAt)
    <3>1. \A y \in Mine : y.createdAt < stamp /\ y.createdAt \in Nat
      BY DEF Typed, Listed, Mine, Release
    <3>2. stamp \in Nat
      BY DEF Typed, World
    <3>. QED
      BY <2>5, <3>1, <3>2 DEF Mine
  <2>8. \E x \in Mine' : /\ x.tag = current'.tag /\ x \notin current'.stale
                         /\ \A y \in Mine' : ~(y.createdAt > x.createdAt)
    BY <2>1, <2>5, <2>6, <2>7
  <2>. QED
    BY <2>8 DEF Own, Newer
<1>6. CASE List
  <2>1. /\ current.pc = "list" /\ current'.run = current.run /\ current'.tag = current.tag
        /\ current'.stale \in {{}, Stale} /\ releases' = releases
    BY <1>0, <1>6 DEF List
  <2>2. \A x \in Mine : Newer(x) = {} => x \notin Stale
    BY <1>0, FS_EmptySet DEF Stale
  <2>. QED
    BY <2>1, <2>2 DEF Own, First, Newer, Mine
<1>7. CASE Prune
  <2>1. PICK z \in current.stale : /\ current' = [current EXCEPT !.stale = @ \ {z}]
                                   /\ releases' \in {releases, releases \ {z}}
    BY <1>7 DEF Prune
  <2>2. /\ current'.pc = current.pc /\ current'.tag = current.tag
        /\ current'.run = current.run /\ current'.stale \subseteq current.stale
    BY <1>0, <2>1
  <2>. QED
    BY <2>1, <2>2 DEF Own, First, Newer, Mine
<1>8. CASE UNCHANGED vars
  BY <1>8 DEF vars, Own, First, Newer, Mine
<1>. QED
  BY <1>2, <1>3, <1>4, <1>5, <1>6, <1>7, <1>8 DEF Next

LEMMA OwnInvariant == Spec => [](Typed /\ Fresh /\ Own)
<1>1. Init => Fresh /\ Own
  BY DEF Init, Starting, Fresh, Own, First, Runs
<1>. QED
  BY <1>1, TypedInvariant, FreshStep, OwnStep, PTL DEF Spec

\* Whatever is published, listed late or deleted meanwhile, a run in its first attempt
\* finds its own release when the wheel is built.
THEOREM OwnReleaseIsThere == Spec => []OwnReleaseStays
<1>1. Typed /\ Fresh /\ Own => OwnReleaseStays
  BY DEF Typed, Inv, Tagging, Own, First, OwnReleaseStays, Tagged, Mine
<1>. QED
  BY <1>1, OwnInvariant, PTL

-----------------------------------------------------------------------------
(* The order of versions.                                                  *)

AtMostNow(t) == t.base <= Base(stables) /\ t.day <= day

\* No version is ahead of what a run would take now, because stable releases are only
\* added; one taken from the list of releases is ahead of every release.
Ordering ==
  /\ \A y \in Mine : AtMostNow(y.tag)
  /\ current.pc = "create" => AtMostNow(current.tag)
  /\ current.pc = "create" /\ current.seen /\ First =>
       \A y \in Mine : Precedes(y.tag, current.tag)

LEMMA BaseOnlyGrows ==
  ASSUME World, World', stables \subseteq stables'
  PROVE  Base(stables) <= Base(stables')
<1>1. IsFiniteSet(stables')
  <2>1. IsFiniteSet(InTree .. MaxPatch)
    BY FS_Interval, RollingAssumption DEF Bounds
  <2>. QED
    BY <2>1, FS_Subset DEF World
<1>. QED
  BY <1>1, BaseGrows

LEMMA OrderingStep ==
  ASSUME Typed, Typed', Fresh, Ordering, [Next]_vars
  PROVE  Ordering'
<1>0. /\ DOMAIN current = {"pc", "run", "tag", "seen", "stale"} /\ count \in Nat
      /\ day \in Nat /\ Base(stables) \in Nat
      /\ \A y \in Mine : y.tag \in Tag
  <2>1. Base(stables) \in Nat
    BY StablesFinite, BaseExists DEF Typed
  <2>. QED
    BY <2>1, RollingAssumption
      DEF Typed, Inv, Shape, World, Bounds, Listed, Mine, Release
<1>1. ASSUME Mine' \subseteq Mine, UNCHANGED <<stables, day>>,
             \/ current'.pc # "create"
             \/ current' = current
      PROVE  Ordering'
  BY <1>1 DEF Ordering, AtMostNow, First
<1>2. CASE Trigger \/ RerunAll \/ OtherRelease
  BY <1>1, <1>2, Elsewhere DEF Trigger, RerunAll, OtherRelease, world, Typed
<1>3. CASE DayPasses \/ Ship
  <2>1. /\ stables \subseteq stables' /\ day' \in Nat /\ day <= day'
        /\ current' = current /\ Mine' = Mine
    BY <1>0, <1>3 DEF DayPasses, Ship, Mine
  <2>2. Base(stables) <= Base(stables)' /\ Base(stables)' \in Nat
    <3>1. Base(stables') \in Nat
      <4>1. IsFiniteSet(InTree .. MaxPatch)
        BY FS_Interval, RollingAssumption DEF Bounds
      <4>2. IsFiniteSet(stables')
        BY <4>1, FS_Subset DEF Typed, World
      <4>. QED
        BY <4>2, BaseExists
    <3>. QED
      BY <2>1, <3>1, BaseOnlyGrows DEF Typed
  <2>3. ASSUME NEW t \in Tag, AtMostNow(t) PROVE AtMostNow(t)'
    BY <1>0, <2>1, <2>2, <2>3 DEF AtMostNow, Tag
  <2>4. current.pc = "create" => current.tag \in Tag
    BY DEF Typed, AtWork
  <2>. QED
    BY <1>0, <2>1, <2>3, <2>4 DEF Ordering, First
<1>4. CASE RerunFailed \/ Gate \/ List \/ Prune
  BY <1>0, <1>1, <1>4 DEF RerunFailed, Gate, List, Prune, Goto, Failed, world, Mine
<1>5. CASE Version
  <2>1. PICK seen \in BOOLEAN :
          current' = [current EXCEPT !.pc = "create", !.seen = seen,
                        !.tag = nextVersion(IF seen THEN Published ELSE {})]
    BY <1>5 DEF Version
  <2>. DEFINE v == nextVersion(IF seen THEN Published ELSE {})
  <2>2. current.run # None
    BY <1>5 DEF Version, Typed, Inv, Tagging
  <2>3. /\ v \in Tag /\ v.day = day /\ v.run = current.run.number
        /\ v.base = IF seen THEN Base(stables) ELSE Base({})
    BY <2>2, VersionTag DEF Typed
  <2>4. /\ current'.tag = v /\ current'.seen = seen /\ current'.run = current.run
        /\ Mine' = Mine /\ UNCHANGED <<stables, day>>
    BY <1>0, <1>5, <2>1 DEF Version, Mine, world
  <2>. HIDE DEF v
  <2>5. Base({}) <= Base(stables)
    BY StablesFinite, BaseGrows DEF Typed
  <2>6. AtMostNow(v)
    BY <1>0, <2>3, <2>5 DEF AtMostNow, Tag
  <2>7. ASSUME seen, First, NEW y \in Mine PROVE Precedes(y.tag, v)
    <3>1. y.tag.run < v.run
      BY <1>5, <2>3, <2>7 DEF Version, Fresh
    <3>2. y.tag.base <= v.base /\ y.tag.day <= v.day /\ y.tag \in Tag
      BY <1>0, <2>3, <2>7 DEF Ordering, AtMostNow
    <3>. QED
      BY <2>3, <3>1, <3>2 DEF Precedes, Tag
  <2>. QED
    BY <2>4, <2>6, <2>7 DEF Ordering, AtMostNow, First
<1>6. CASE Create
  <2>1. /\ current'.pc # "create" /\ UNCHANGED <<stables, day>>
        /\ releases' \in {releases, releases \cup {NewRelease}}
        /\ AtMostNow(NewRelease.tag)
    BY <1>0, <1>6 DEF Create, Goto, world, NewRelease, Ordering
  <2>. HIDE DEF AtMostNow
  <2>2. \A y \in Mine' : AtMostNow(y.tag)
    BY <2>1 DEF Ordering, Mine
  <2>. QED
    BY <2>1, <2>2 DEF Ordering, AtMostNow
<1>7. CASE Build
  <2>1. /\ current'.pc # "create" /\ UNCHANGED <<stables, day>>
    BY <1>0, <1>7 DEF Build, Goto, world
  <2>2. CASE releases' = releases
    BY <1>1, <2>1, <2>2 DEF Mine
  <2>3. ASSUME NEW x \in Tagged(current.tag),
               releases' = (releases \ {x}) \cup {[x EXCEPT !.assets = current.run.tree]}
        PROVE  Ordering'
    <3>1. x \in releases /\ x \in Release
      BY DEF Tagged, Typed, Listed
    <3>2. [x EXCEPT !.assets = current.run.tree].tag = x.tag
      BY <3>1 DEF Release
    <3>3. \A y \in Mine' : AtMostNow(y.tag)
      BY <2>3, <3>1, <3>2 DEF Ordering, Mine
    <3>. QED
      BY <2>1, <3>3 DEF Ordering, AtMostNow
  <2>. QED
    BY <1>7, <2>2, <2>3 DEF Build
<1>8. CASE UNCHANGED vars
  BY <1>1, <1>8 DEF vars, world, Mine
<1>. QED
  BY <1>2, <1>3, <1>4, <1>5, <1>6, <1>7, <1>8 DEF Next

LEMMA OrderingInvariant == Spec => [](Typed /\ Fresh /\ Ordering)
<1>1. Init => Fresh /\ Ordering
  BY DEF Init, Starting, Fresh, Ordering, First, Runs, Mine
<1>. QED
  BY <1>1, TypedInvariant, FreshStep, OrderingStep, PTL DEF Spec

\* A first attempt that saw the list of releases takes a version above all of its
\* channel, whatever stable releases appear and whatever is pruned.
THEOREM VersionsOnlyGrow == Spec => VersionsGrow
<1>. DEFINE Grown == current.seen /\ current.run # None /\ current.run.attempt = 1 =>
                       \A x \in releases' \ releases :
                         x.tag.channel = channel /\ Tagged(x.tag) = {} =>
                           \A y \in Mine : Precedes(y.tag, x.tag)
<1>1. ASSUME Typed, Ordering, [Next]_vars PROVE Grown
  <2>1. CASE releases' \subseteq releases
    BY <2>1
  <2>2. CASE OtherRelease
    BY <2>2, RollingAssumption DEF OtherRelease
  <2>3. CASE Create
    <3>1. current.pc = "create" /\ releases' \subseteq releases \cup {NewRelease}
      BY <2>3 DEF Create, Goto
    <3>2. \A x \in releases' \ releases : x.tag = current.tag
      BY <3>1 DEF NewRelease
    <3>. QED
      BY <1>1, <3>1, <3>2 DEF Ordering, First
  <2>4. CASE Build
    <3>1. ASSUME NEW x \in Tagged(current.tag),
                 releases' = (releases \ {x}) \cup {[x EXCEPT !.assets = current.run.tree]}
          PROVE  Grown
      <4>1. x \in releases /\ x \in Release
        BY <1>1 DEF Tagged, Typed, Listed
      <4>2. [x EXCEPT !.assets = current.run.tree].tag = x.tag
        BY <4>1 DEF Release
      <4>. QED
        BY <3>1, <4>1, <4>2 DEF Tagged
    <3>. QED
      BY <2>1, <2>4, <3>1 DEF Build
  <2>5. CASE Trigger \/ RerunAll \/ RerunFailed \/ DayPasses \/ Ship
    BY <2>1, <2>5 DEF Trigger, RerunAll, RerunFailed, DayPasses, Ship
  <2>6. CASE Gate \/ Version \/ List \/ Prune \/ UNCHANGED vars
    BY <2>1, <2>6 DEF Gate, Version, List, Prune, vars
  <2>. QED
    BY <1>1, <2>2, <2>3, <2>4, <2>5, <2>6 DEF Next
<1>2. Typed /\ Ordering /\ [Next]_vars => [Grown]_vars
  BY <1>1
<1>. QED
  BY <1>2, OrderingInvariant, PTL DEF Spec, VersionsGrow
=============================================================================
