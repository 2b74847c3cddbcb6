------------------------------- MODULE Parser -------------------------------
(***************************************************************************)
(* parse_file() of sidecar/ryu_docling/parser.py as run by concurrent      *)
(* conversion threads: the members of an archive one after the other, the  *)
(* preflight, the converter cache they share, and what becomes of a        *)
(* failure at each point.  _CONVERTER_LOCK only spans single steps here.   *)
(***************************************************************************)
EXTENDS Naturals

CONSTANTS
  Parses,      \* conversion threads, one parse each
  Keys,        \* canonical option sets
  NoOptions,   \* the empty one
  EngineKeys,  \* those that name an OCR engine with a native binary
  MaxMembers,  \* files in an archive (a bound for TLC)
  None         \* Python's None

ASSUME ParserAssumption ==
  /\ NoOptions \in Keys
  /\ EngineKeys \subseteq Keys \ {NoOptions}
  /\ MaxMembers \in Nat
  /\ None \notin [by : Parses, plain : BOOLEAN]
  /\ None # "document"

VARIABLES
  converters,  \* _CONVERTERS
  parse        \* the frame of each conversion thread

vars == <<converters, parse>>

-----------------------------------------------------------------------------
\* A converter, by the thread that built it; plain if it carries no options.
Converters == [by : Parses, plain : BOOLEAN]

Codes == {"library_missing", "missing_dependency", "unsupported_format",
          "parse_failed", "input_rejected"}

Pcs == {"idle", "extract", "preflight", "lookup", "build", "publish",
        "convert", "finish", "done"}

Frames ==
  [pc : Pcs, opts : Keys, archive : BOOLEAN,
   members : Nat, todo : Nat,               \* files found, files left
   converter : Converters \cup {None},      \* local to _convert_one
   hint : BOOLEAN,                          \* its warnings say options were dropped
   dropped : BOOLEAN,                       \* this thread once had to drop them
   sources : Nat, failed : Nat, blank : Nat,\* members by outcome
   warned : BOOLEAN,                        \* hint reached the job's warnings
   encodable : BOOLEAN,                     \* what was joined so far has a UTF-8 form
   answer : Codes \cup {"document", None}]

Fresh == [pc |-> "idle", opts |-> NoOptions, archive |-> FALSE,
          members |-> 1, todo |-> 1, converter |-> None, hint |-> FALSE,
          dropped |-> FALSE, sources |-> 0, failed |-> 0, blank |-> 0,
          warned |-> FALSE, encodable |-> TRUE, answer |-> None]

Ended(r, answer) == [r EXCEPT !.pc = "done", !.answer = answer]

\* _convert_one() is over, its locals with it: on to the next member.  A single
\* file is its own only member.
Advance(r) ==
  [r EXCEPT !.pc = IF r.todo > 1 THEN "preflight" ELSE "finish",
            !.todo = r.todo - 1, !.converter = None, !.hint = FALSE]

\* Mutant: break instead of continue.
FailedStops(r, code) ==
  IF r.archive THEN [r EXCEPT !.pc = "finish", !.failed = @ + 1] ELSE Ended(r, code)

\* A ParseError out of _convert_one, and with it the warnings collected so far:
\* the archive goes on, the single file is answered with the code.
Failed(r, code) ==
  IF r.archive THEN Advance([r EXCEPT !.failed = @ + 1]) ELSE Ended(r, code)

\* Only now do the member's warnings join the job's, and its text and the name
\* in its heading the job's text.  A name or a text that holds a lone surrogate
\* (a tar member whose name is not UTF-8) cannot be encoded.
Converted(r, encodable) ==
  Advance([r EXCEPT !.sources = @ + 1, !.warned = @ \/ r.hint,
                    !.encodable = @ /\ encodable])

\* A member without text is dropped from its archive, warnings and all.
Blank(r) == Advance([r EXCEPT !.blank = @ + 1])

-----------------------------------------------------------------------------
Init ==
  /\ converters = [k \in Keys |-> None]
  /\ parse = [p \in Parses |-> Fresh]

Step(p, from, r) ==
  /\ parse[p].pc = from
  /\ parse' = [parse EXCEPT ![p] = r]

Begin(p) ==
  /\ \E k \in Keys, a \in BOOLEAN :
       Step(p, "idle", [parse[p] EXCEPT !.opts = k, !.archive = a,
                                        !.pc = IF a THEN "extract" ELSE "preflight"])
  /\ UNCHANGED converters

\* Mutant: nothing special about an archive with no files.
ExtractEmpty(p) ==
  /\ \E n \in 0 .. MaxMembers :
       Step(p, "extract", [parse[p] EXCEPT !.members = n, !.todo = n, !.pc = "preflight"])
  /\ UNCHANGED converters

\* safe_extract() refuses the archive, fails in a way nobody expected, or finds
\* n files in it.
Extract(p) ==
  /\ \/ \E code \in {"input_rejected", "parse_failed"} :
          Step(p, "extract", Ended(parse[p], code))
     \/ \E n \in 0 .. MaxMembers :
          Step(p, "extract", [parse[p] EXCEPT !.members = n, !.todo = n,
                                 !.pc = IF n = 0 THEN "finish" ELSE "preflight"])
  /\ UNCHANGED converters

Preflight(p) ==
  /\ \/ Step(p, "preflight", [parse[p] EXCEPT !.pc = "lookup"])
     \/ /\ parse[p].opts \in EngineKeys
        /\ Step(p, "preflight", Failed(parse[p], "missing_dependency"))
  /\ UNCHANGED converters

Lookup(p) ==
  /\ LET cached == converters[parse[p].opts] IN
       Step(p, "lookup",
            [parse[p] EXCEPT !.pc = IF cached = None THEN "build" ELSE "convert",
                             !.converter = cached])
  /\ UNCHANGED converters

\* _new_converter(), outside the lock: options that cannot be attached leave a
\* plain converter and a warning.  An exception that is not a ParseError is not
\* caught below parse_file() and ends the whole job.
Build(p) ==
  /\ \/ Step(p, "build", Failed(parse[p], "library_missing"))
     \/ Step(p, "build", Ended(parse[p], "parse_failed"))
     \/ \E plain \in (IF parse[p].opts = NoOptions THEN {TRUE} ELSE BOOLEAN) :
          Step(p, "build",
               [parse[p] EXCEPT !.pc = "publish",
                                !.converter = [by |-> p, plain |-> plain],
                                !.hint = plain /\ parse[p].opts # NoOptions,
                                !.dropped = @ \/ (plain /\ parse[p].opts # NoOptions)])
  /\ UNCHANGED converters

\* Mutants: the later of two concurrent builds wins; every thread keeps its own;
\* the warnings of a build go with the converter that was not kept.
PublishOverwrites(p) ==
  /\ Step(p, "publish", [parse[p] EXCEPT !.pc = "convert"])
  /\ converters' = [converters EXCEPT ![parse[p].opts] = parse[p].converter]

PublishPrivately(p) ==
  /\ Step(p, "publish", [parse[p] EXCEPT !.pc = "convert"])
  /\ UNCHANGED converters

PublishMuted(p) ==
  LET k == parse[p].opts
      kept == IF converters[k] = None THEN parse[p].converter ELSE converters[k]
  IN /\ Step(p, "publish", [parse[p] EXCEPT !.pc = "convert", !.converter = kept,
                                            !.hint = @ /\ kept = parse[p].converter])
     /\ converters' = [converters EXCEPT ![k] = kept]

\* _CONVERTERS.setdefault(key, built)
Publish(p) ==
  LET k == parse[p].opts
      kept == IF converters[k] = None THEN parse[p].converter ELSE converters[k]
  IN /\ Step(p, "publish", [parse[p] EXCEPT !.pc = "convert", !.converter = kept])
     /\ converters' = [converters EXCEPT ![k] = kept]

\* convert(), _document_of() and the exports.
Convert(p) ==
  /\ \/ \E code \in {"unsupported_format", "parse_failed"} :
          Step(p, "convert", Failed(parse[p], code))
     \/ parse[p].archive /\ Step(p, "convert", Blank(parse[p]))
     \/ \E encodable \in BOOLEAN :
          Step(p, "convert", Converted(parse[p], encodable))
  /\ UNCHANGED converters

\* parse_file() encodes what was joined to measure it, outside the handler of the
\* member loop: a UnicodeEncodeError ends the whole job.
Finish(p) ==
  /\ Step(p, "finish", Ended(parse[p], IF parse[p].encodable THEN "document"
                                       ELSE "parse_failed"))
  /\ UNCHANGED converters

Next == \E p \in Parses :
          \/ Begin(p) \/ Extract(p) \/ Preflight(p) \/ Lookup(p) \/ Build(p)
          \/ Publish(p) \/ Convert(p) \/ Finish(p)

Spec == Init /\ [][Next]_vars

-----------------------------------------------------------------------------
(* Properties.                                                             *)

\* The values every variable may take.
TypeOK ==
  /\ converters \in [Keys -> Converters \cup {None}]
  /\ parse \in [Parses -> Frames]

\* However builds race outside the lock, all the threads that convert with one
\* option set use one converter, the one in the cache: no thread goes on with a
\* second set of loaded models.
UsesTheCached ==
  \A p \in Parses :
    parse[p].pc = "convert" => /\ parse[p].converter # None
                               /\ parse[p].converter = converters[parse[p].opts]

\* A cached converter is there for good: no later build replaces it under the
\* threads that use it.
CacheNeverReplaced ==
  [][\A k \in Keys : converters[k] # None => converters'[k] = converters[k]]_converters

\* An archive is only answered once every member has been tried: each is among
\* the sources, was warned about, or had no text.
MembersAccounted ==
  \A p \in Parses :
    LET r == parse[p] IN
    r.archive /\ r.answer = "document" => r.sources + r.failed + r.blank = r.members

\* A thread that had to drop the options says so in the document it answers, also
\* when another thread's converter was kept: the warning is in its own frame and
\* outlives the publish.  In an archive it is lost with the member it was made
\* for, so this holds of archives whose members were all read.
BuilderWarns ==
  \A p \in Parses :
    LET r == parse[p] IN
    r.dropped /\ r.answer = "document" =>
      r.warned \/ (r.archive /\ r.failed + r.blank > 0)

\* parser.py: "One unreadable member must not sink the whole archive".  Once one
\* member has been read no failure of a later one does, its converter's
\* construction included: the only thing that can still lose the archive is
\* text, or a member's name, that cannot be encoded when it is measured.
ReadMembersSurvive ==
  \A p \in Parses :
    LET r == parse[p] IN
    r.archive /\ r.sources > 0 /\ r.pc = "done" =>
      r.answer = IF r.encodable THEN "document" ELSE "parse_failed"

-----------------------------------------------------------------------------
(* What the documentation says and the code does not do.                   *)

\* README: a request whose options cannot be attached "reports a warnings entry".
HintLossReported ==
  \A p \in Parses :
    LET r == parse[p] IN
    /\ ~r.archive /\ r.answer = "document" /\ r.opts # NoOptions
    /\ converters[r.opts].plain
    => r.warned

=============================================================================
