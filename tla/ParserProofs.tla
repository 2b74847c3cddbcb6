---------------------------- MODULE ParserProofs ----------------------------
(***************************************************************************)
(* Theorems about Parser, for every set of threads and of option sets and  *)
(* every size of an archive.                                               *)
(***************************************************************************)
EXTENDS Parser, TLAPS

Working == {"preflight", "lookup", "build", "publish", "convert"}

\* The book-keeping of one thread's loop over the members: what is done and what
\* is left always add up to what was found, and nothing is answered before the
\* loop ends.  TypeOK is not inductive without it: todo would leave Nat.
Counted(r) ==
  /\ r.pc \in {"idle", "extract"} => r.sources = 0 /\ r.failed = 0 /\ r.blank = 0
  /\ r.pc \in Working \cup {"idle"} => r.todo > 0
  /\ r.pc = "finish" => r.todo = 0
  /\ r.archive /\ r.pc \in Working \cup {"finish"} =>
       r.sources + r.failed + r.blank + r.todo = r.members
  /\ r.archive /\ r.answer = "document" =>
       r.sources + r.failed + r.blank = r.members
  /\ r.pc # "done" => r.answer = None

Sound(r) == r \in Frames /\ Counted(r)

CountedInv == \A p \in Parses : Counted(parse[p])

Inv == TypeOK /\ CountedInv

USE DEF Working, Codes, Pcs

LEMMA EndedSound ==
  ASSUME NEW r, Sound(r), NEW code \in Codes
  PROVE  Sound(Ended(r, code))
BY ParserAssumption DEF Ended, Sound, Counted, Frames

LEMMA AdvanceSound ==
  ASSUME NEW r \in Frames, r.todo > 0, r.answer = None,
         r.archive => r.sources + r.failed + r.blank + r.todo = r.members + 1
  PROVE  Sound(Advance(r))
<1>. DEFINE a == Advance(r)
<1>1. r.todo - 1 \in Nat /\ (r.todo > 1 => r.todo - 1 > 0) /\ (~(r.todo > 1) => r.todo - 1 = 0)
  BY DEF Frames
<1>2. a \in Frames
  <2>. DEFINE pc == IF r.todo > 1 THEN "preflight" ELSE "finish"
              s1 == [r EXCEPT !.pc = pc]
              s2 == [s1 EXCEPT !.todo = r.todo - 1]
  <2>1. pc \in Pcs
    OBVIOUS
  <2>. HIDE DEF pc
  <2>2. s1 \in Frames
    BY <2>1 DEF Frames
  <2>. HIDE DEF s1
  <2>3. s2 \in Frames
    BY <1>1, <2>2 DEF Frames
  <2>. HIDE DEF s2
  <2>. DEFINE s3 == [s2 EXCEPT !.converter = None]
  <2>4. s3 \in Frames
    BY <2>3 DEF Frames
  <2>. HIDE DEF s3
  <2>5. [s3 EXCEPT !.hint = FALSE] \in Frames
    BY <2>4 DEF Frames
  <2>. QED
    BY <2>5 DEF Advance, s3, s2, s1, pc
<1>3. /\ a.pc = IF r.todo > 1 THEN "preflight" ELSE "finish"
      /\ a.todo = r.todo - 1 /\ a.archive = r.archive /\ a.members = r.members
      /\ a.sources = r.sources /\ a.failed = r.failed /\ a.blank = r.blank
      /\ a.answer = None
  BY DEF Advance, Frames
<1>4. r.archive => r.sources + r.failed + r.blank + (r.todo - 1) = r.members
  BY DEF Frames
<1>5. None # "document"
  BY ParserAssumption
<1>. HIDE DEF a
<1>. QED
  BY <1>1, <1>2, <1>3, <1>4, <1>5 DEF Sound, Counted, a

LEMMA FailedSound ==
  ASSUME NEW r, Sound(r), r.pc \in Working, NEW code \in Codes
  PROVE  Sound(Failed(r, code))
<1>1. CASE r.archive
  <2>. DEFINE s == [r EXCEPT !.failed = @ + 1]
  <2>1. s \in Frames /\ s.todo > 0 /\ s.answer = None
    BY DEF Sound, Counted, Frames
  <2>2. s.sources + s.failed + s.blank + s.todo = s.members + 1
    BY <1>1 DEF Sound, Counted, Frames
  <2>. HIDE DEF s
  <2>3. Sound(Advance(s))
    BY <2>1, <2>2, AdvanceSound
  <2>. QED
    BY <1>1, <2>3 DEF Failed, s
<1>2. CASE ~r.archive
  BY <1>2, EndedSound DEF Failed
<1>. QED
  BY <1>1, <1>2

LEMMA ConvertedSound ==
  ASSUME NEW r, Sound(r), r.pc \in Working, NEW e \in BOOLEAN
  PROVE  Sound(Converted(r, e))
<1>. DEFINE w == r.warned \/ r.hint
            v == r.encodable /\ e
            s1 == [r EXCEPT !.sources = @ + 1]
            s2 == [s1 EXCEPT !.warned = w]
            s == [s2 EXCEPT !.encodable = v]
<1>1. /\ w \in BOOLEAN /\ v \in BOOLEAN
      /\ r \in Frames /\ r.todo > 0 /\ r.answer = None
      /\ r.archive => r.sources + r.failed + r.blank + r.todo = r.members
  BY DEF Sound, Counted
<1>2. Converted(r, e) = Advance(s)
  BY <1>1 DEF Converted, Frames
<1>. HIDE DEF w, v
<1>3. s1 \in Frames /\ s1.sources = r.sources + 1
  BY <1>1 DEF Frames
<1>4. /\ s1.todo = r.todo /\ s1.answer = r.answer /\ s1.archive = r.archive
      /\ s1.failed = r.failed /\ s1.blank = r.blank /\ s1.members = r.members
  BY <1>1 DEF Frames
<1>. HIDE DEF s1
<1>5. s2 \in Frames
  BY <1>1, <1>3 DEF Frames
<1>6. /\ s2.todo = s1.todo /\ s2.answer = s1.answer /\ s2.archive = s1.archive
      /\ s2.failed = s1.failed /\ s2.blank = s1.blank /\ s2.members = s1.members
      /\ s2.sources = s1.sources
  BY <1>3 DEF Frames
<1>. HIDE DEF s2
<1>7. s \in Frames
  BY <1>1, <1>5 DEF Frames
<1>8. /\ s.todo = s2.todo /\ s.answer = s2.answer /\ s.archive = s2.archive
      /\ s.failed = s2.failed /\ s.blank = s2.blank /\ s.members = s2.members
      /\ s.sources = s2.sources
  BY <1>5 DEF Frames
<1>. HIDE DEF s
<1>9. s.archive => s.sources + s.failed + s.blank + s.todo = s.members + 1
  <2>1. r.sources \in Nat /\ r.failed \in Nat /\ r.blank \in Nat /\ r.todo \in Nat
    BY <1>1 DEF Frames
  <2>. QED
    BY <2>1, <1>1, <1>3, <1>4, <1>6, <1>8
<1>10. Sound(Advance(s))
  BY <1>1, <1>4, <1>6, <1>7, <1>8, <1>9, AdvanceSound
<1>. QED
  BY <1>2, <1>10

LEMMA BlankSound ==
  ASSUME NEW r, Sound(r), r.pc \in Working, r.archive
  PROVE  Sound(Blank(r))
<1>. DEFINE s == [r EXCEPT !.blank = @ + 1]
<1>1. s \in Frames /\ s.todo > 0 /\ s.answer = None
  BY DEF Sound, Counted, Frames
<1>2. s.sources + s.failed + s.blank + s.todo = s.members + 1
  BY DEF Sound, Counted, Frames
<1>. HIDE DEF s
<1>3. Sound(Advance(s))
  BY <1>1, <1>2, AdvanceSound
<1>. QED
  BY <1>3 DEF Blank, s

-----------------------------------------------------------------------------
(* The frame each action leaves behind is sound.                           *)

LEMMA BeginSound ==
  ASSUME NEW r, Sound(r), r.pc = "idle", NEW k \in Keys, NEW a \in BOOLEAN,
         NEW pc \in {"extract", "preflight"}, pc = "preflight" => ~a
  PROVE  Sound([r EXCEPT !.opts = k, !.archive = a, !.pc = pc])
BY ParserAssumption DEF Sound, Counted, Frames

LEMMA ExtractSound ==
  ASSUME NEW r, Sound(r), r.pc = "extract", NEW n \in Nat,
         NEW pc \in {"finish", "preflight"}, pc = "finish" <=> n = 0
  PROVE  Sound([r EXCEPT !.members = n, !.todo = n, !.pc = pc])
<1>. DEFINE e == [r EXCEPT !.members = n, !.todo = n, !.pc = pc]
<1>1. /\ e \in Frames /\ e.members = n /\ e.todo = n /\ e.pc = pc
      /\ e.sources = r.sources /\ e.failed = r.failed /\ e.blank = r.blank
      /\ e.answer = r.answer
  BY DEF Sound, Frames
<1>2. r.sources = 0 /\ r.failed = 0 /\ r.blank = 0 /\ r.answer = None
  BY DEF Sound, Counted
<1>. HIDE DEF e
<1>3. Counted(e)
  BY <1>1, <1>2, ParserAssumption DEF Counted
<1>. QED
  BY <1>1, <1>3 DEF Sound, e

\* Inside the loop a frame may move, and change its converter and what it knows of
\* dropped options.
LEMMA MoveSound ==
  ASSUME NEW r, Sound(r), r.pc \in Working, NEW pc \in Working,
         NEW c \in Converters \cup {None}, NEW h \in BOOLEAN
  PROVE  /\ Sound([r EXCEPT !.pc = pc])
         /\ Sound([r EXCEPT !.pc = pc, !.converter = c])
         /\ Sound([r EXCEPT !.pc = pc, !.converter = c, !.hint = h, !.dropped = @ \/ h])
<1>1. Sound([r EXCEPT !.pc = pc])
  BY ParserAssumption DEF Sound, Counted, Frames
<1>2. ASSUME NEW s, Sound(s) PROVE Sound([s EXCEPT !.converter = c])
  BY <1>2 DEF Sound, Counted, Frames
<1>3. ASSUME NEW s, Sound(s) PROVE Sound([s EXCEPT !.hint = h])
  BY <1>3 DEF Sound, Counted, Frames
<1>4. Sound([[r EXCEPT !.pc = pc] EXCEPT !.converter = c])
  BY <1>1, <1>2
<1>5. Sound([[[r EXCEPT !.pc = pc] EXCEPT !.converter = c] EXCEPT !.hint = h])
  BY <1>3, <1>4
<1>6. ASSUME NEW s, Sound(s), NEW d \in BOOLEAN PROVE Sound([s EXCEPT !.dropped = d])
  BY <1>6 DEF Sound, Counted, Frames
<1>. DEFINE d == r.dropped \/ h
            m == [[[r EXCEPT !.pc = pc] EXCEPT !.converter = c] EXCEPT !.hint = h]
<1>7. [r EXCEPT !.pc = pc, !.converter = c, !.hint = h, !.dropped = @ \/ h]
        = [m EXCEPT !.dropped = d]
  BY DEF Sound, Frames
<1>8. d \in BOOLEAN
  OBVIOUS
<1>. HIDE DEF d, m
<1>9. Sound([m EXCEPT !.dropped = d])
  BY <1>5, <1>6, <1>8 DEF m
<1>. QED
  BY <1>1, <1>4, <1>7, <1>9

LEMMA FinishSound ==
  ASSUME NEW r, Sound(r), r.pc = "finish"
  PROVE  Sound(Ended(r, "document"))
<1>. DEFINE d == Ended(r, "document")
<1>1. /\ d \in Frames /\ d.pc = "done" /\ d.archive = r.archive
      /\ d.sources = r.sources /\ d.failed = r.failed /\ d.blank = r.blank
      /\ d.members = r.members
  BY DEF Ended, Sound, Frames
<1>2. r.archive => r.sources + r.failed + r.blank = r.members
  BY DEF Sound, Counted, Frames
<1>. HIDE DEF d
<1>. QED
  BY <1>1, <1>2 DEF Sound, Counted, d

-----------------------------------------------------------------------------
\* A step that leaves every frame sound and the cache well typed keeps Inv.
LEMMA StepSound ==
  ASSUME Inv, NEW p \in Parses, NEW from, NEW r, Step(p, from, r), Sound(r),
         converters' \in [Keys -> Converters \cup {None}]
  PROVE  Inv'
BY DEF Inv, TypeOK, CountedInv, Step, Sound

\* The book-keeping is an invariant, and with it the types.
LEMMA InvHolds == Spec => []Inv
<1>1. Init => Inv
  BY ParserAssumption DEF Init, Inv, TypeOK, CountedInv, Counted, Fresh, Frames
<1>2. Inv /\ [Next]_vars => Inv'
  <2>. SUFFICES ASSUME Inv, [Next]_vars PROVE Inv'
    OBVIOUS
  <2>0. /\ \A p \in Parses : Sound(parse[p])
        /\ converters \in [Keys -> Converters \cup {None}]
    BY DEF Inv, TypeOK, CountedInv, Sound
  <2>1. ASSUME NEW p \in Parses, Begin(p) PROVE Inv'
    <3>1. PICK k \in Keys, a \in BOOLEAN :
            Step(p, "idle", [parse[p] EXCEPT !.opts = k, !.archive = a,
                               !.pc = IF a THEN "extract" ELSE "preflight"])
      BY <2>1 DEF Begin
    <3>2. Sound([parse[p] EXCEPT !.opts = k, !.archive = a,
                   !.pc = IF a THEN "extract" ELSE "preflight"])
      BY <2>0, <3>1, BeginSound DEF Step
    <3>. QED
      BY <2>0, <2>1, <3>1, <3>2, StepSound DEF Begin
  <2>2. ASSUME NEW p \in Parses, Extract(p) PROVE Inv'
    <3>1. CASE \E code \in {"input_rejected", "parse_failed"} :
                 Step(p, "extract", Ended(parse[p], code))
      BY <2>0, <2>2, <3>1, EndedSound, StepSound DEF Extract
    <3>2. ASSUME NEW n \in 0 .. MaxMembers,
                 Step(p, "extract", [parse[p] EXCEPT !.members = n, !.todo = n,
                                        !.pc = IF n = 0 THEN "finish" ELSE "preflight"])
          PROVE  Inv'
      <4>1. n \in Nat
        OBVIOUS
      <4>2. Sound([parse[p] EXCEPT !.members = n, !.todo = n,
                      !.pc = IF n = 0 THEN "finish" ELSE "preflight"])
        BY <2>0, <3>2, <4>1, ExtractSound DEF Step
      <4>. QED
        BY <2>0, <2>2, <3>2, <4>2, StepSound DEF Extract
    <3>. QED
      BY <2>2, <3>1, <3>2 DEF Extract
  <2>3. ASSUME NEW p \in Parses, Preflight(p) PROVE Inv'
    <3>1. parse[p].pc \in Working /\ converters' = converters
      BY <2>3 DEF Preflight, Step
    <3>2. Sound([parse[p] EXCEPT !.pc = "lookup"])
      BY <2>0, <3>1, MoveSound
    <3>3. Sound(Failed(parse[p], "missing_dependency"))
      BY <2>0, <3>1, FailedSound
    <3>. QED
      BY <2>0, <2>3, <3>1, <3>2, <3>3, StepSound DEF Preflight
  <2>4. ASSUME NEW p \in Parses, Lookup(p) PROVE Inv'
    <3>. DEFINE cached == converters[parse[p].opts]
                to == IF cached = None THEN "build" ELSE "convert"
    <3>1. /\ Step(p, "lookup", [parse[p] EXCEPT !.pc = to, !.converter = cached])
          /\ converters' = converters
      BY <2>4 DEF Lookup
    <3>2. parse[p].pc \in Working /\ to \in Working /\ cached \in Converters \cup {None}
      BY <2>0, <3>1 DEF Step, Sound, Frames
    <3>3. Sound([parse[p] EXCEPT !.pc = to, !.converter = cached])
      BY <2>0, <3>2, MoveSound
    <3>. QED
      BY <2>0, <3>1, <3>3, StepSound
  <2>5. ASSUME NEW p \in Parses, Build(p) PROVE Inv'
    <3>1. parse[p].pc \in Working /\ converters' = converters
      BY <2>5 DEF Build, Step
    <3>2. Sound(Failed(parse[p], "library_missing")) /\ Sound(Ended(parse[p], "parse_failed"))
      BY <2>0, <3>1, FailedSound, EndedSound
    <3>3. ASSUME NEW plain \in BOOLEAN
          PROVE  Sound([parse[p] EXCEPT !.pc = "publish",
                                        !.converter = [by |-> p, plain |-> plain],
                                        !.hint = plain /\ parse[p].opts # NoOptions,
                                        !.dropped = @ \/ (plain /\ parse[p].opts # NoOptions)])
      <4>1. [by |-> p, plain |-> plain] \in Converters
        BY DEF Converters
      <4>. DEFINE h == plain /\ parse[p].opts # NoOptions
      <4>2. h \in BOOLEAN
        OBVIOUS
      <4>. HIDE DEF h
      <4>3. Sound([parse[p] EXCEPT !.pc = "publish", !.converter = [by |-> p, plain |-> plain],
                                   !.hint = h, !.dropped = @ \/ h])
        BY <2>0, <3>1, <4>1, <4>2, MoveSound
      <4>. QED
        BY <4>3 DEF h
    <3>. QED
      BY <2>0, <2>5, <3>1, <3>2, <3>3, StepSound DEF Build
  <2>6. ASSUME NEW p \in Parses, Publish(p) PROVE Inv'
    <3>. DEFINE k == parse[p].opts
                kept == IF converters[k] = None THEN parse[p].converter ELSE converters[k]
    <3>1. /\ Step(p, "publish", [parse[p] EXCEPT !.pc = "convert", !.converter = kept])
          /\ converters' = [converters EXCEPT ![k] = kept]
      BY <2>6 DEF Publish
    <3>2. parse[p].pc \in Working /\ kept \in Converters \cup {None}
      BY <2>0, <3>1 DEF Step, Sound, Frames
    <3>3. Sound([parse[p] EXCEPT !.pc = "convert", !.converter = kept])
      BY <2>0, <3>2, MoveSound
    <3>4. converters' \in [Keys -> Converters \cup {None}]
      BY <2>0, <3>1, <3>2
    <3>. QED
      BY <3>1, <3>3, <3>4, StepSound
  <2>7. ASSUME NEW p \in Parses, Convert(p) PROVE Inv'
    <3>1. parse[p].pc \in Working /\ converters' = converters
      BY <2>7 DEF Convert, Step
    <3>2. /\ Sound(Failed(parse[p], "unsupported_format"))
          /\ Sound(Failed(parse[p], "parse_failed"))
          /\ parse[p].archive => Sound(Blank(parse[p]))
          /\ \A encodable \in BOOLEAN : Sound(Converted(parse[p], encodable))
      BY <2>0, <3>1, FailedSound, BlankSound, ConvertedSound
    <3>. QED
      BY <2>0, <2>7, <3>1, <3>2, StepSound DEF Convert
  <2>8. ASSUME NEW p \in Parses, Finish(p) PROVE Inv'
    <3>1. Sound(Ended(parse[p], "document")) /\ Sound(Ended(parse[p], "parse_failed"))
      BY <2>0, <2>8, FinishSound, EndedSound DEF Finish, Step
    <3>. QED
      BY <2>0, <2>8, <3>1, StepSound DEF Finish
  <2>9. CASE UNCHANGED vars
    BY <2>9 DEF vars, Inv, TypeOK, CountedInv
  <2>. QED
    BY <2>1, <2>2, <2>3, <2>4, <2>5, <2>6, <2>7, <2>8, <2>9 DEF Next
<1>. QED
  BY <1>1, <1>2, PTL DEF Spec

\* Every variable keeps its type.
THEOREM TypeCorrect == Spec => []TypeOK
<1>1. Inv => TypeOK
  BY DEF Inv
<1>. QED
  BY <1>1, InvHolds, PTL

\* An archive is only answered once every member is accounted for.
THEOREM EveryMemberAccounted == Spec => []MembersAccounted
<1>1. Inv => MembersAccounted
  BY DEF Inv, CountedInv, Counted, MembersAccounted
<1>. QED
  BY <1>1, InvHolds, PTL
-----------------------------------------------------------------------------
(* The converter cache.                                                    *)

\* A cached converter is never replaced: setdefault() keeps the first.
THEOREM FirstConverterStays == Spec => CacheNeverReplaced
<1>. DEFINE Kept == \A k \in Keys : converters[k] # None => converters'[k] = converters[k]
<1>1. TypeOK /\ [Next]_vars => Kept
  <2>. SUFFICES ASSUME TypeOK, [Next]_vars PROVE Kept
    OBVIOUS
  <2>1. ASSUME NEW p \in Parses, Publish(p) PROVE Kept
    BY <2>1 DEF Publish, TypeOK
  <2>2. ASSUME UNCHANGED converters PROVE Kept
    BY <2>2
  <2>. HIDE DEF Kept
  <2>. QED
    BY <2>1, <2>2 DEF Next, Begin, Extract, Preflight, Lookup, Build, Convert, Finish, vars
<1>2. TypeOK /\ [Next]_vars => [Kept]_converters
  BY <1>1
<1>. QED
  BY <1>2, TypeCorrect, PTL DEF Spec, CacheNeverReplaced

\* A thread that leaves a converter's construction by publishing it holds one.
CacheInv ==
  /\ UsesTheCached
  /\ \A p \in Parses : parse[p].pc = "publish" => parse[p].converter # None

LEMMA Elsewhere ==
  ASSUME NEW r \in Frames, NEW code
  PROVE  /\ Ended(r, code).pc \notin {"publish", "convert"}
         /\ Failed(r, code).pc \notin {"publish", "convert"}
         /\ Blank(r).pc \notin {"publish", "convert"}
         /\ \A e : Converted(r, e).pc \notin {"publish", "convert"}
BY DEF Ended, Failed, Blank, Converted, Advance, Frames

\* The frames elsewhere in the loop do not matter to the cache.
LEMMA OthersKeepCache ==
  ASSUME CacheInv, TypeOK, NEW p \in Parses, NEW from, NEW r, Step(p, from, r),
         r.pc \notin {"publish", "convert"}, converters' = converters
  PROVE  CacheInv'
BY DEF CacheInv, UsesTheCached, TypeOK, Step

LEMMA CacheInvariant == Spec => []CacheInv
<1>1. Init => CacheInv
  BY DEF Init, CacheInv, UsesTheCached, Fresh
<1>2. TypeOK /\ CacheInv /\ [Next]_vars => CacheInv'
  <2>. SUFFICES ASSUME TypeOK, CacheInv, [Next]_vars PROVE CacheInv'
    OBVIOUS
  <2>0. \A p \in Parses : parse[p] \in Frames
    BY DEF TypeOK
  <2>1. ASSUME NEW p \in Parses, Begin(p) \/ Extract(p) \/ Preflight(p) PROVE CacheInv'
    <3>1. CASE Begin(p)
      <4>1. PICK k \in Keys, a \in BOOLEAN :
              Step(p, "idle", [parse[p] EXCEPT !.opts = k, !.archive = a,
                                 !.pc = IF a THEN "extract" ELSE "preflight"])
        BY <3>1 DEF Begin
      <4>2. [parse[p] EXCEPT !.opts = k, !.archive = a,
               !.pc = IF a THEN "extract" ELSE "preflight"].pc \notin {"publish", "convert"}
        BY <2>0 DEF Frames
      <4>. QED
        BY <3>1, <4>1, <4>2, OthersKeepCache DEF Begin
    <3>2. CASE Extract(p)
      <4>1. \A n : [parse[p] EXCEPT !.members = n, !.todo = n,
                       !.pc = IF n = 0 THEN "finish" ELSE "preflight"].pc
                    \notin {"publish", "convert"}
        BY <2>0 DEF Frames
      <4>. QED
        BY <2>0, <3>2, <4>1, Elsewhere, OthersKeepCache DEF Extract
    <3>3. CASE Preflight(p)
      <4>1. [parse[p] EXCEPT !.pc = "lookup"].pc \notin {"publish", "convert"}
        BY <2>0 DEF Frames
      <4>. QED
        BY <2>0, <3>3, <4>1, Elsewhere, OthersKeepCache DEF Preflight
    <3>. QED
      BY <2>1, <3>1, <3>2, <3>3
  <2>2. ASSUME NEW p \in Parses, Lookup(p) PROVE CacheInv'
    BY <2>0, <2>2 DEF Lookup, Step, CacheInv, UsesTheCached, TypeOK, Frames
  <2>3. ASSUME NEW p \in Parses, Build(p) PROVE CacheInv'
    <3>1. ASSUME NEW plain \in BOOLEAN,
                 Step(p, "build", [parse[p] EXCEPT !.pc = "publish",
                                     !.converter = [by |-> p, plain |-> plain],
                                     !.hint = plain /\ parse[p].opts # NoOptions,
                                     !.dropped = @ \/ (plain /\ parse[p].opts # NoOptions)])
          PROVE  CacheInv'
      <4>1. [by |-> p, plain |-> plain] # None
        BY ParserAssumption
      <4>2. converters' = converters
        BY <2>3 DEF Build
      <4>3. parse'[p].pc = "publish" /\ parse'[p].converter = [by |-> p, plain |-> plain]
        BY <2>0, <3>1 DEF Step, TypeOK, Frames
      <4>4. \A q \in Parses \ {p} : parse'[q] = parse[q]
        BY <3>1 DEF Step, TypeOK
      <4>. QED
        BY <4>1, <4>2, <4>3, <4>4 DEF CacheInv, UsesTheCached
    <3>2. CASE \/ Step(p, "build", Failed(parse[p], "library_missing"))
               \/ Step(p, "build", Ended(parse[p], "parse_failed"))
      BY <2>0, <2>3, <3>2, Elsewhere, OthersKeepCache DEF Build
    <3>. QED
      BY <2>3, <3>1, <3>2 DEF Build
  <2>4. ASSUME NEW p \in Parses, Publish(p) PROVE CacheInv'
    <3>. DEFINE k == parse[p].opts
                kept == IF converters[k] = None THEN parse[p].converter ELSE converters[k]
    <3>1. /\ parse[p].pc = "publish"
          /\ parse' = [parse EXCEPT ![p] = [parse[p] EXCEPT !.pc = "convert", !.converter = kept]]
          /\ converters' = [converters EXCEPT ![k] = kept]
      BY <2>4 DEF Publish, Step
    <3>2. kept # None /\ k \in Keys
      BY <2>0, <3>1 DEF CacheInv, Frames
    <3>3. /\ parse'[p].opts = k /\ parse'[p].converter = kept
          /\ parse'[p].pc = "convert" /\ converters'[k] = kept
      BY <2>0, <3>1, <3>2 DEF TypeOK, Frames
    <3>4. ASSUME NEW q \in Parses \ {p}
          PROVE  /\ parse'[q] = parse[q]
                 /\ converters[parse[q].opts] # None =>
                      converters'[parse[q].opts] = converters[parse[q].opts]
      BY <2>0, <3>1 DEF TypeOK, Frames
    <3>. HIDE DEF k, kept
    <3>. QED
      BY <3>2, <3>3, <3>4 DEF CacheInv, UsesTheCached
  <2>5. ASSUME NEW p \in Parses, Convert(p) \/ Finish(p) PROVE CacheInv'
    BY <2>0, <2>5, Elsewhere, OthersKeepCache DEF Convert, Finish
  <2>6. CASE UNCHANGED vars
    BY <2>6 DEF vars, CacheInv, UsesTheCached
  <2>. QED
    BY <2>1, <2>2, <2>3, <2>4, <2>5, <2>6 DEF Next
<1>. QED
  BY <1>1, <1>2, TypeCorrect, PTL DEF Spec

\* Every thread that converts uses the converter in the cache, however the
\* builds outside the lock were interleaved.
THEOREM CachedConverterUsed == Spec => []UsesTheCached
<1>1. CacheInv => UsesTheCached
  BY DEF CacheInv
<1>. QED
  BY <1>1, CacheInvariant, PTL

-----------------------------------------------------------------------------
(* What becomes of an archive, and of a warning.                           *)

\* What the ways out of a member leave of its frame.
LEMMA AdvanceFields ==
  ASSUME NEW r \in Frames
  PROVE  /\ Advance(r).opts = r.opts /\ Advance(r).archive = r.archive
         /\ Advance(r).sources = r.sources /\ Advance(r).answer = r.answer
         /\ Advance(r).failed = r.failed /\ Advance(r).blank = r.blank
         /\ Advance(r).warned = r.warned /\ Advance(r).dropped = r.dropped
         /\ Advance(r).encodable = r.encodable /\ Advance(r).hint = FALSE
         /\ Advance(r).pc = IF r.todo > 1 THEN "preflight" ELSE "finish"
BY DEF Advance, Frames

LEMMA EndedFields ==
  ASSUME NEW r \in Frames, NEW a
  PROVE  /\ Ended(r, a).opts = r.opts /\ Ended(r, a).archive = r.archive
         /\ Ended(r, a).sources = r.sources /\ Ended(r, a).encodable = r.encodable
         /\ Ended(r, a).failed = r.failed /\ Ended(r, a).blank = r.blank
         /\ Ended(r, a).warned = r.warned /\ Ended(r, a).dropped = r.dropped
         /\ Ended(r, a).hint = r.hint
         /\ Ended(r, a).pc = "done" /\ Ended(r, a).answer = a
BY DEF Ended, Frames

LEMMA FailedFields ==
  ASSUME NEW r \in Frames, NEW code
  PROVE  /\ Failed(r, code).opts = r.opts /\ Failed(r, code).archive = r.archive
         /\ Failed(r, code).sources = r.sources
         /\ r.archive => /\ Failed(r, code).pc \in {"preflight", "finish"}
                         /\ Failed(r, code).failed + Failed(r, code).blank > 0
                         /\ Failed(r, code).answer = r.answer
                         /\ Failed(r, code).hint = FALSE
         /\ ~r.archive => Failed(r, code).pc = "done" /\ Failed(r, code).answer = code
<1>. DEFINE s == [r EXCEPT !.failed = @ + 1]
<1>1. /\ s \in Frames /\ s.opts = r.opts /\ s.archive = r.archive
      /\ s.sources = r.sources /\ s.answer = r.answer
      /\ s.failed = r.failed + 1 /\ s.blank = r.blank
  BY DEF Frames
<1>2. s.failed + s.blank > 0
  BY <1>1 DEF Frames
<1>. HIDE DEF s
<1>3. r.archive => Failed(r, code) = Advance(s)
  BY DEF Failed, s
<1>4. ~r.archive => Failed(r, code) = Ended(r, code)
  BY DEF Failed
<1>5. Advance(s).failed + Advance(s).blank > 0
  BY <1>1, <1>2, AdvanceFields
<1>6. CASE r.archive
  BY <1>1, <1>3, <1>5, <1>6, AdvanceFields
<1>7. CASE ~r.archive
  BY <1>4, <1>7, EndedFields
<1>. QED
  BY <1>6, <1>7

LEMMA ConvertedFields ==
  ASSUME NEW r \in Frames, NEW e \in BOOLEAN
  PROVE  /\ Converted(r, e).opts = r.opts /\ Converted(r, e).archive = r.archive
         /\ Converted(r, e).answer = r.answer /\ Converted(r, e).dropped = r.dropped
         /\ Converted(r, e).failed = r.failed /\ Converted(r, e).blank = r.blank
         /\ r.hint \/ r.warned => Converted(r, e).warned
         /\ Converted(r, e).hint = FALSE
         /\ Converted(r, e).pc = IF r.todo > 1 THEN "preflight" ELSE "finish"
<1>. DEFINE w == r.warned \/ r.hint
            v == r.encodable /\ e
            s1 == [r EXCEPT !.sources = @ + 1]
            s2 == [s1 EXCEPT !.warned = w]
            s == [s2 EXCEPT !.encodable = v]
<1>1. w \in BOOLEAN /\ v \in BOOLEAN /\ (r.hint \/ r.warned => w)
  BY DEF Frames
<1>2. Converted(r, e) = Advance(s)
  BY DEF Converted, Frames
<1>. HIDE DEF w, v
<1>3. /\ s1 \in Frames
      /\ s1.opts = r.opts /\ s1.archive = r.archive /\ s1.answer = r.answer
      /\ s1.dropped = r.dropped /\ s1.failed = r.failed /\ s1.blank = r.blank
      /\ s1.todo = r.todo
  BY DEF Frames
<1>. HIDE DEF s1
<1>4. /\ s2 \in Frames
      /\ s2.opts = s1.opts /\ s2.archive = s1.archive /\ s2.answer = s1.answer
      /\ s2.dropped = s1.dropped /\ s2.failed = s1.failed /\ s2.blank = s1.blank
      /\ s2.todo = s1.todo /\ s2.warned = w
  BY <1>1, <1>3 DEF Frames
<1>. HIDE DEF s2
<1>5. /\ s \in Frames
      /\ s.opts = s2.opts /\ s.archive = s2.archive /\ s.answer = s2.answer
      /\ s.dropped = s2.dropped /\ s.failed = s2.failed /\ s.blank = s2.blank
      /\ s.todo = s2.todo /\ s.warned = s2.warned
  BY <1>1, <1>4 DEF Frames
<1>. HIDE DEF s
<1>6. /\ s.opts = r.opts /\ s.archive = r.archive /\ s.answer = r.answer
      /\ s.dropped = r.dropped /\ s.failed = r.failed /\ s.blank = r.blank
      /\ s.todo = r.todo /\ s.warned = w
  BY <1>3, <1>4, <1>5
<1>7. Converted(r, e) = Advance(s)
  BY <1>2
<1>. QED
  BY <1>1, <1>5, <1>6, <1>7, AdvanceFields

LEMMA BlankFields ==
  ASSUME NEW r \in Frames
  PROVE  /\ Blank(r).opts = r.opts /\ Blank(r).archive = r.archive
         /\ Blank(r).answer = r.answer /\ Blank(r).hint = FALSE
         /\ Blank(r).failed + Blank(r).blank > 0
         /\ Blank(r).pc = IF r.todo > 1 THEN "preflight" ELSE "finish"
<1>. DEFINE s == [r EXCEPT !.blank = @ + 1]
<1>1. /\ s \in Frames /\ s.opts = r.opts /\ s.archive = r.archive
      /\ s.todo = r.todo /\ s.answer = r.answer
      /\ s.failed = r.failed /\ s.blank = r.blank + 1
  BY DEF Frames
<1>2. s.failed + s.blank > 0
  BY <1>1 DEF Frames
<1>. HIDE DEF s
<1>3. Blank(r) = Advance(s)
  BY DEF Blank, s
<1>. QED
  BY <1>1, <1>2, <1>3, AdvanceFields

\* An archive with one member read has its converter in the cache, so no later
\* member constructs one, and nothing else below parse_file() ends the loop.
Afloat(r) ==
  r.archive /\ r.sources > 0 =>
    /\ r.pc \notin {"idle", "extract", "build", "publish"}
    /\ converters[r.opts] # None
    /\ r.pc = "done" => r.answer = IF r.encodable THEN "document" ELSE "parse_failed"

AfloatInv == \A p \in Parses : Afloat(parse[p])

\* The step of one thread matters to the others only through the cache.
LEMMA AfloatStep ==
  ASSUME TypeOK, TypeOK', AfloatInv, NEW p \in Parses, NEW from, NEW r,
         Step(p, from, r), Afloat(r),
         \A k \in Keys : converters[k] # None => converters'[k] # None
  PROVE  AfloatInv'
<1>1. parse'[p] = r /\ \A q \in Parses \ {p} : parse'[q] = parse[q]
  BY DEF TypeOK, Step
<1>2. \A q \in Parses : parse'[q].opts \in Keys
  BY DEF TypeOK, Frames
<1>3. ASSUME NEW q \in Parses PROVE Afloat(parse[q])'
  <2>1. Afloat(parse'[q])
    BY <1>1 DEF AfloatInv
  <2>. QED
    BY <1>2, <2>1 DEF Afloat
<1>. QED
  BY <1>3 DEF AfloatInv

LEMMA FailedAfloat ==
  ASSUME NEW r \in Frames, Afloat(r), NEW code
  PROVE  Afloat(Failed(r, code))
BY FailedFields DEF Afloat

LEMMA EndedAfloat ==
  ASSUME NEW r \in Frames, NEW code, Afloat(r),
         r.archive /\ r.sources > 0 =>
           code = IF r.encodable THEN "document" ELSE "parse_failed"
  PROVE  Afloat(Ended(r, code))
BY EndedFields DEF Afloat

LEMMA ReadAfloat ==
  ASSUME NEW r \in Frames, converters[r.opts] # None, NEW e \in BOOLEAN
  PROVE  Afloat(Converted(r, e)) /\ Afloat(Blank(r))
<1>1. Afloat(Converted(r, e))
  BY ConvertedFields DEF Afloat
<1>2. Afloat(Blank(r))
  BY BlankFields DEF Afloat
<1>. QED
  BY <1>1, <1>2

LEMMA MoveAfloat ==
  ASSUME NEW r \in Frames, Afloat(r), NEW pc \in Working, NEW c, NEW h, NEW d,
         r.archive /\ r.sources > 0 => pc \notin {"build", "publish"}
  PROVE  /\ Afloat([r EXCEPT !.pc = pc])
         /\ Afloat([r EXCEPT !.pc = pc, !.converter = c])
         /\ Afloat([r EXCEPT !.pc = pc, !.converter = c, !.hint = h, !.dropped = d])
BY DEF Afloat, Frames

LEMMA FirstAfloat ==
  ASSUME NEW r \in Frames, ~(r.sources > 0), NEW pc
  PROVE  /\ \A k, a : Afloat([r EXCEPT !.opts = k, !.archive = a, !.pc = pc])
         /\ \A n : Afloat([r EXCEPT !.members = n, !.todo = n, !.pc = pc])
BY DEF Afloat, Frames

\* Once one member of an archive has been read, the archive is answered with a
\* document, whatever fails in the other members, unless what was read cannot be
\* encoded.
THEOREM ReadMemberSaves == Spec => []ReadMembersSurvive
<1>1. Init => AfloatInv
  BY DEF Init, AfloatInv, Afloat, Fresh
<1>2. Inv /\ Inv' /\ CacheInv /\ AfloatInv /\ [Next]_vars => AfloatInv'
  <2>. SUFFICES ASSUME Inv, Inv', CacheInv, AfloatInv, [Next]_vars PROVE AfloatInv'
    OBVIOUS
  <2>0. \A p \in Parses : parse[p] \in Frames /\ Afloat(parse[p])
    BY DEF Inv, TypeOK, AfloatInv
  <2>1. ASSUME NEW p \in Parses, NEW from, NEW r, Step(p, from, r), Afloat(r),
               converters' = converters
        PROVE  AfloatInv'
    BY <2>1, AfloatStep DEF Inv
  <2>2. ASSUME NEW p \in Parses, parse[p].pc \in {"idle", "extract"}
        PROVE  ~(parse[p].sources > 0)
    BY <2>2 DEF Inv, CountedInv, Counted
  <2>3. ASSUME NEW p \in Parses, parse[p].pc \in {"build", "publish"}, parse[p].archive
        PROVE  ~(parse[p].sources > 0)
    BY <2>0, <2>3 DEF Afloat
  <2>4. ASSUME NEW p \in Parses, Begin(p) PROVE AfloatInv'
    <3>1. PICK k \in Keys, a \in BOOLEAN :
            Step(p, "idle", [parse[p] EXCEPT !.opts = k, !.archive = a,
                               !.pc = IF a THEN "extract" ELSE "preflight"])
      BY <2>4 DEF Begin
    <3>2. Afloat([parse[p] EXCEPT !.opts = k, !.archive = a,
                    !.pc = IF a THEN "extract" ELSE "preflight"])
      BY <2>0, <2>2, <3>1, FirstAfloat DEF Step
    <3>. QED
      BY <2>1, <2>4, <3>1, <3>2 DEF Begin
  <2>5. ASSUME NEW p \in Parses, Extract(p) PROVE AfloatInv'
    <3>1. ~(parse[p].sources > 0)
      BY <2>2, <2>5 DEF Extract, Step
    <3>2. \A code : Afloat(Ended(parse[p], code))
      BY <2>0, <3>1, EndedAfloat
    <3>3. ASSUME NEW n
          PROVE  Afloat([parse[p] EXCEPT !.members = n, !.todo = n,
                           !.pc = IF n = 0 THEN "finish" ELSE "preflight"])
      BY <2>0, <3>1, FirstAfloat
    <3>. QED
      BY <2>1, <2>5, <3>2, <3>3 DEF Extract
  <2>6. ASSUME NEW p \in Parses, Preflight(p) PROVE AfloatInv'
    <3>1. Afloat(Failed(parse[p], "missing_dependency"))
      BY <2>0, FailedAfloat
    <3>2. Afloat([parse[p] EXCEPT !.pc = "lookup"])
      BY <2>0, MoveAfloat
    <3>. QED
      BY <2>1, <2>6, <3>1, <3>2 DEF Preflight
  <2>7. ASSUME NEW p \in Parses, Lookup(p) PROVE AfloatInv'
    <3>. DEFINE cached == converters[parse[p].opts]
                to == IF cached = None THEN "build" ELSE "convert"
    <3>1. /\ Step(p, "lookup", [parse[p] EXCEPT !.pc = to, !.converter = cached])
          /\ converters' = converters
      BY <2>7 DEF Lookup
    <3>2. to \in Working /\ (parse[p].archive /\ parse[p].sources > 0 => to = "convert")
      BY <2>0 DEF Afloat
    <3>. HIDE DEF to
    <3>3. Afloat([parse[p] EXCEPT !.pc = to, !.converter = cached])
      BY <2>0, <3>2, MoveAfloat
    <3>. QED
      BY <2>1, <3>1, <3>3
  <2>8. ASSUME NEW p \in Parses, Build(p) PROVE AfloatInv'
    <3>1. parse[p].archive => ~(parse[p].sources > 0)
      BY <2>3, <2>8 DEF Build, Step
    <3>2. Afloat(Failed(parse[p], "library_missing")) /\ Afloat(Ended(parse[p], "parse_failed"))
      BY <2>0, <3>1, FailedAfloat, EndedAfloat
    <3>3. ASSUME NEW c, NEW h, NEW d
          PROVE  Afloat([parse[p] EXCEPT !.pc = "publish", !.converter = c, !.hint = h,
                                         !.dropped = d])
      BY <2>0, <3>1, MoveAfloat
    <3>. QED
      BY <2>1, <2>8, <3>2, <3>3 DEF Build
  <2>9. ASSUME NEW p \in Parses, Publish(p) PROVE AfloatInv'
    <3>. DEFINE k == parse[p].opts
                kept == IF converters[k] = None THEN parse[p].converter ELSE converters[k]
    <3>1. /\ Step(p, "publish", [parse[p] EXCEPT !.pc = "convert", !.converter = kept])
          /\ converters' = [converters EXCEPT ![k] = kept]
      BY <2>9 DEF Publish
    <3>2. kept # None
      BY <3>1 DEF Step, CacheInv
    <3>. HIDE DEF kept
    <3>3. Afloat([parse[p] EXCEPT !.pc = "convert", !.converter = kept])
      BY <2>0, MoveAfloat
    <3>4. \A i \in Keys : converters[i] # None => converters'[i] # None
      BY <3>1, <3>2 DEF Inv, TypeOK
    <3>. QED
      BY <3>1, <3>3, <3>4, AfloatStep DEF Inv
  <2>10. ASSUME NEW p \in Parses, Convert(p) PROVE AfloatInv'
    <3>1. converters[parse[p].opts] # None
      BY <2>10 DEF Convert, Step, CacheInv, UsesTheCached
    <3>2. \A code : Afloat(Failed(parse[p], code))
      BY <2>0, FailedAfloat
    <3>3. Afloat(Blank(parse[p])) /\ \A e \in BOOLEAN : Afloat(Converted(parse[p], e))
      BY <2>0, <3>1, ReadAfloat
    <3>. QED
      BY <2>1, <2>10, <3>2, <3>3 DEF Convert
  <2>11. ASSUME NEW p \in Parses, Finish(p) PROVE AfloatInv'
    <3>1. Afloat(Ended(parse[p], IF parse[p].encodable THEN "document" ELSE "parse_failed"))
      BY <2>0, EndedAfloat
    <3>. QED
      BY <2>1, <2>11, <3>1 DEF Finish
  <2>12. CASE UNCHANGED vars
    BY <2>12 DEF vars, AfloatInv, Afloat
  <2>. QED
    BY <2>4, <2>5, <2>6, <2>7, <2>8, <2>9, <2>10, <2>11, <2>12 DEF Next
<1>3. AfloatInv => ReadMembersSurvive
  BY DEF AfloatInv, Afloat, ReadMembersSurvive
<1>. QED
  BY <1>1, <1>2, <1>3, InvHolds, CacheInvariant, PTL DEF Spec

-----------------------------------------------------------------------------
(* The warning about dropped options.                                      *)

\* A thread that has dropped options still holds the hint, has warned, or has lost
\* the member it built for.  The hint ends with its member.
Told(r) == r.hint \/ r.warned \/ (r.archive /\ r.failed + r.blank > 0)

Heard(r) ==
  /\ r.hint => r.pc \in {"publish", "convert", "done"}
  /\ r.dropped => r.pc # "idle"
  /\ r.dropped /\ r.pc # "done" => Told(r)
  /\ r.dropped /\ r.answer = "document" => r.warned \/ (r.archive /\ r.failed + r.blank > 0)

HeardInv == \A p \in Parses : Heard(parse[p])

LEMMA HeardStep ==
  ASSUME TypeOK, HeardInv, NEW p \in Parses, NEW from, NEW r, Step(p, from, r), Heard(r)
  PROVE  HeardInv'
<1>1. ASSUME NEW q \in Parses PROVE Heard(parse'[q])
  BY DEF TypeOK, Step, HeardInv
<1>. QED
  BY <1>1 DEF HeardInv, Heard, Told

LEMMA FailedHeard ==
  ASSUME NEW r \in Frames, Heard(r), r.answer = None, NEW code \in Codes
  PROVE  Heard(Failed(r, code)) /\ Heard(Ended(r, code))
<1>1. Heard(Ended(r, code))
  BY EndedFields DEF Heard
<1>2. CASE r.archive
  BY <1>1, <1>2, FailedFields DEF Heard, Told
<1>3. CASE ~r.archive
  BY <1>1, <1>3 DEF Failed
<1>. QED
  BY <1>1, <1>2, <1>3

LEMMA FinishHeard ==
  ASSUME NEW r \in Frames, Heard(r), r.pc = "finish"
  PROVE  Heard(Ended(r, "document"))
BY EndedFields DEF Heard, Told

LEMMA ReadHeard ==
  ASSUME NEW r \in Frames, Heard(r), r.pc = "convert", NEW e \in BOOLEAN
  PROVE  /\ Heard(Converted(r, e))
         /\ r.archive => Heard(Blank(r))
<1>. DEFINE s == Converted(r, e)
            b == Blank(r)
<1>1. r.dropped => Told(r)
  BY DEF Heard
<1>2. /\ s.answer = r.answer /\ s.dropped = r.dropped /\ s.archive = r.archive
      /\ s.failed = r.failed /\ s.blank = r.blank
      /\ r.hint \/ r.warned => s.warned
      /\ s.hint = FALSE /\ s.pc \in {"preflight", "finish"}
  BY ConvertedFields
<1>3. /\ b.hint = FALSE /\ b.archive = r.archive /\ b.failed + b.blank > 0
      /\ b.pc \in {"preflight", "finish"}
  BY BlankFields
<1>. HIDE DEF s, b
<1>4. Heard(s)
  <2>1. s.dropped => s.warned \/ (s.archive /\ s.failed + s.blank > 0)
    BY <1>1, <1>2 DEF Told
  <2>. QED
    BY <1>2, <2>1 DEF Heard, Told
<1>5. r.archive => Heard(b)
  BY <1>3 DEF Heard, Told
<1>. QED
  BY <1>4, <1>5 DEF s, b

\* Outside Build a frame moves on with its hint, and has none before the build.
LEMMA MoveHeard ==
  ASSUME NEW r \in Frames, Heard(r), r.answer = None, r.pc # "done", NEW pc,
         r.dropped => pc # "idle", r.hint => pc = "convert"
  PROVE  /\ Heard([r EXCEPT !.pc = pc])
         /\ \A c : Heard([r EXCEPT !.pc = pc, !.converter = c])
         /\ \A n : Heard([r EXCEPT !.members = n, !.todo = n, !.pc = pc])
<1>. DEFINE Like(s) ==
       /\ s.hint = r.hint /\ s.warned = r.warned /\ s.archive = r.archive
       /\ s.failed = r.failed /\ s.blank = r.blank /\ s.dropped = r.dropped
       /\ s.answer = r.answer /\ s.pc = pc
<1>1. ASSUME NEW s, Like(s) PROVE Heard(s)
  BY <1>1, ParserAssumption DEF Heard, Told
<1>2. Like([r EXCEPT !.pc = pc])
  BY DEF Frames
<1>3. \A c : Like([r EXCEPT !.pc = pc, !.converter = c])
  BY DEF Frames
<1>4. \A n : Like([r EXCEPT !.members = n, !.todo = n, !.pc = pc])
  BY DEF Frames
<1>. HIDE DEF Like
<1>. QED
  BY <1>1, <1>2, <1>3, <1>4

LEMMA BeginHeard ==
  ASSUME NEW r \in Frames, Heard(r), r.pc = "idle", NEW k, NEW a, NEW pc
  PROVE  Heard([r EXCEPT !.opts = k, !.archive = a, !.pc = pc])
<1>. DEFINE s == [r EXCEPT !.opts = k, !.archive = a, !.pc = pc]
<1>1. s.hint = r.hint /\ s.dropped = r.dropped /\ ~r.hint /\ ~r.dropped
  BY DEF Heard, Frames
<1>. HIDE DEF s
<1>2. Heard(s)
  BY <1>1 DEF Heard
<1>. QED
  BY <1>2 DEF s

LEMMA BuildHeard ==
  ASSUME NEW r \in Frames, Heard(r), r.pc = "build", r.answer = None, NEW c, NEW h \in BOOLEAN
  PROVE  Heard([r EXCEPT !.pc = "publish", !.converter = c, !.hint = h, !.dropped = @ \/ h])
<1>. DEFINE d == r.dropped \/ h
            s == [r EXCEPT !.pc = "publish", !.converter = c, !.hint = h, !.dropped = d]
<1>1. d => r.dropped \/ h
  OBVIOUS
<1>. HIDE DEF d
<1>2. /\ s.pc = "publish" /\ s.hint = h /\ s.dropped = d /\ s.warned = r.warned
      /\ s.archive = r.archive /\ s.failed = r.failed /\ s.blank = r.blank
      /\ s.answer = None
  BY DEF Frames
<1>. HIDE DEF s
<1>3. Heard(s)
  BY <1>1, <1>2, ParserAssumption DEF Heard, Told
<1>. QED
  BY <1>3 DEF s, d

\* A thread that had to drop the options answers with the warning that says so,
\* whatever other threads put into the cache meanwhile, and an archive does unless
\* one of its members failed or had no text.
THEOREM BuilderHeard == Spec => []BuilderWarns
<1>1. Init => HeardInv
  <2>. SUFFICES ASSUME Init, NEW p \in Parses PROVE Heard(parse[p])
    BY DEF HeardInv
  <2>1. parse[p] = Fresh
    BY DEF Init
  <2>2. /\ parse[p].hint = FALSE /\ parse[p].dropped = FALSE /\ parse[p].warned = FALSE
        /\ parse[p].pc = "idle" /\ parse[p].answer = None /\ parse[p].archive = FALSE
        /\ parse[p].failed = 0 /\ parse[p].blank = 0 /\ parse[p].sources = 0
        /\ parse[p].todo = 1
    BY <2>1 DEF Fresh
  <2>. QED
    BY <2>2, ParserAssumption DEF Heard
<1>2. Inv /\ HeardInv /\ [Next]_vars => HeardInv'
  <2>. SUFFICES ASSUME Inv, HeardInv, [Next]_vars PROVE HeardInv'
    OBVIOUS
  <2>0. /\ TypeOK
        /\ \A p \in Parses : /\ parse[p] \in Frames /\ Heard(parse[p])
                             /\ parse[p].pc # "done" => parse[p].answer = None
    BY DEF Inv, TypeOK, HeardInv, CountedInv, Counted
  <2>1. ASSUME NEW p \in Parses, NEW from, NEW r, Step(p, from, r), Heard(r)
        PROVE  HeardInv'
    BY <2>0, <2>1, HeardStep
  <2>2. ASSUME NEW p \in Parses, NEW code \in Codes, parse[p].pc # "done"
        PROVE  Heard(Failed(parse[p], code)) /\ Heard(Ended(parse[p], code))
    BY <2>0, <2>2, FailedHeard
  <2>3. ASSUME NEW p \in Parses, Begin(p) PROVE HeardInv'
    <3>1. PICK k \in Keys, a \in BOOLEAN :
            Step(p, "idle", [parse[p] EXCEPT !.opts = k, !.archive = a,
                               !.pc = IF a THEN "extract" ELSE "preflight"])
      BY <2>3 DEF Begin
    <3>2. Heard([parse[p] EXCEPT !.opts = k, !.archive = a,
                   !.pc = IF a THEN "extract" ELSE "preflight"])
      BY <2>0, <3>1, BeginHeard DEF Step
    <3>. QED
      BY <2>1, <3>1, <3>2
  <2>4. ASSUME NEW p \in Parses, Extract(p) PROVE HeardInv'
    <3>1. parse[p].pc = "extract"
      BY <2>4 DEF Extract, Step
    <3>2. ASSUME NEW n
          PROVE  Heard([parse[p] EXCEPT !.members = n, !.todo = n,
                          !.pc = IF n = 0 THEN "finish" ELSE "preflight"])
      <4>1. ~parse[p].hint
        BY <2>0, <3>1 DEF Heard
      <4>. QED
        BY <2>0, <3>1, <4>1, MoveHeard
    <3>. QED
      BY <2>1, <2>2, <2>4, <3>1, <3>2 DEF Extract
  <2>5. ASSUME NEW p \in Parses, Preflight(p) PROVE HeardInv'
    <3>1. parse[p].pc = "preflight"
      BY <2>5 DEF Preflight, Step
    <3>2. Heard([parse[p] EXCEPT !.pc = "lookup"])
      <4>1. ~parse[p].hint
        BY <2>0, <3>1 DEF Heard
      <4>. QED
        BY <2>0, <3>1, <4>1, MoveHeard
    <3>. QED
      BY <2>1, <2>2, <2>5, <3>1, <3>2 DEF Preflight
  <2>6. ASSUME NEW p \in Parses, Lookup(p) PROVE HeardInv'
    <3>. DEFINE to == IF converters[parse[p].opts] = None THEN "build" ELSE "convert"
                r == [parse[p] EXCEPT !.pc = to, !.converter = converters[parse[p].opts]]
    <3>1. Step(p, "lookup", r)
      BY <2>6 DEF Lookup
    <3>2. parse[p].pc = "lookup" /\ to # "idle"
      BY <3>1 DEF Step
    <3>3. ~parse[p].hint
      BY <2>0, <3>2 DEF Heard
    <3>. HIDE DEF to
    <3>4. Heard(r)
      BY <2>0, <3>2, <3>3, MoveHeard
    <3>. QED
      BY <2>1, <3>1, <3>4
  <2>7. ASSUME NEW p \in Parses, Build(p) PROVE HeardInv'
    <3>1. parse[p].pc = "build"
      BY <2>7 DEF Build, Step
    <3>2. ASSUME NEW plain \in BOOLEAN
          PROVE  Heard([parse[p] EXCEPT !.pc = "publish",
                                        !.converter = [by |-> p, plain |-> plain],
                                        !.hint = plain /\ parse[p].opts # NoOptions,
                                        !.dropped = @ \/ (plain /\ parse[p].opts # NoOptions)])
      <4>. DEFINE h == plain /\ parse[p].opts # NoOptions
                  c == [by |-> p, plain |-> plain]
      <4>1. h \in BOOLEAN
        OBVIOUS
      <4>. HIDE DEF h, c
      <4>2. Heard([parse[p] EXCEPT !.pc = "publish", !.converter = c,
                                   !.hint = h, !.dropped = @ \/ h])
        BY <2>0, <3>1, <4>1, BuildHeard
      <4>. QED
        BY <4>2 DEF h, c
    <3>. QED
      BY <2>1, <2>2, <2>7, <3>1, <3>2 DEF Build
  <2>8. ASSUME NEW p \in Parses, Publish(p) PROVE HeardInv'
    <3>. DEFINE k == parse[p].opts
                kept == IF converters[k] = None THEN parse[p].converter ELSE converters[k]
    <3>1. Step(p, "publish", [parse[p] EXCEPT !.pc = "convert", !.converter = kept])
      BY <2>8 DEF Publish
    <3>2. parse[p].pc = "publish"
      BY <3>1 DEF Step
    <3>. HIDE DEF kept
    <3>3. Heard([parse[p] EXCEPT !.pc = "convert", !.converter = kept])
      BY <2>0, <3>2, MoveHeard
    <3>. QED
      BY <2>1, <3>1, <3>3
  <2>9. ASSUME NEW p \in Parses, Convert(p) PROVE HeardInv'
    <3>1. parse[p].pc = "convert"
      BY <2>9 DEF Convert, Step
    <3>2. /\ \A e \in BOOLEAN : Heard(Converted(parse[p], e))
          /\ parse[p].archive => Heard(Blank(parse[p]))
      BY <2>0, <3>1, ReadHeard
    <3>. QED
      BY <2>1, <2>2, <2>9, <3>1, <3>2 DEF Convert
  <2>10. ASSUME NEW p \in Parses, Finish(p) PROVE HeardInv'
    <3>1. parse[p].pc = "finish"
      BY <2>10 DEF Finish, Step
    <3>2. Heard(Ended(parse[p], "document")) /\ Heard(Ended(parse[p], "parse_failed"))
      BY <2>0, <2>2, <3>1, FinishHeard
    <3>. QED
      BY <2>1, <2>10, <3>2 DEF Finish
  <2>11. CASE UNCHANGED vars
    BY <2>11 DEF vars, HeardInv, Heard, Told
  <2>. QED
    BY <2>3, <2>4, <2>5, <2>6, <2>7, <2>8, <2>9, <2>10, <2>11 DEF Next
<1>3. HeardInv => BuilderWarns
  BY DEF HeardInv, Heard, BuilderWarns
<1>. QED
  BY <1>1, <1>2, <1>3, InvHolds, PTL DEF Spec
=============================================================================
