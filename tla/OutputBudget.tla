---------------------------- MODULE OutputBudget ----------------------------
(***************************************************************************)
(* How sidecar/ryu_docling/parser.py shrinks what one parse found to what  *)
(* the response may carry: the element count caps of _elements() and       *)
(* _parse_archive(), then the one byte budget that parse_file() spends on  *)
(* the markdown, the text and the element records, in this order.          *)
(*                                                                         *)
(* A parse is one thread and shares nothing here, so its steps are         *)
(* sequential; what varies is the document.  A character is its bytes in   *)
(* UTF-8 and a record is its serialised size: nothing else about them      *)
(* decides what is kept.                                                   *)
(***************************************************************************)
EXTENDS Integers, SequencesExt

CONSTANTS
  Chars,             \* characters, by their bytes in UTF-8
  RecordSizes,       \* bytes of an element record serialised by json.dumps()
  MAX_OUTPUT_BYTES,  \* limits.py
  MAX_ELEMENTS,      \* limits.py
  MaxChars,          \* length of a text (a bound for TLC)
  MaxRecords,        \* structural items of one file (a bound for TLC)
  MaxFiles           \* files parsed (a bound for TLC)

\* UTF-8 takes at most four bytes; a record has five named fields and is longer.
ASSUME OutputBudgetAssumption ==
  /\ Chars \subseteq 1 .. 4
  /\ \A n \in RecordSizes : n \in Nat /\ n >= 4
  /\ {MAX_OUTPUT_BYTES, MAX_ELEMENTS} \subseteq Nat \ {0}
  /\ {MaxChars, MaxRecords, MaxFiles} \subseteq Nat

VARIABLES
  pc,        \* "gather", "markdown", "text", "elements" or "done"
  found,     \* the items with text of each file read so far (history)
  elements,  \* those the count caps let through
  doc,       \* markdown and text of the whole parse
  out,       \* markdown, text and elements of the result
  left,      \* remaining: bytes of the budget not spent yet
  whole      \* whole_md /\ whole_text /\ whole_elements so far

vars == <<pc, found, elements, doc, out, left, whole>>

-----------------------------------------------------------------------------
Texts == SeqOf(Chars, MaxChars)

Items == SeqOf(RecordSizes, MaxRecords)

Size(t) == SumFunction(t)

\* The first n members of a sequence: s[:n].
Upto(s, n) == SubSeq(s, 1, IF n < Len(s) THEN n ELSE Len(s))

\* str.encode("utf-8"): byte k of the i-th character is <<i, k>>.
Encode(t) == FlattenSeq([i \in DOMAIN t |-> [k \in 1 .. t[i] |-> <<i, k>>]])

\* bytes.decode("utf-8", errors="ignore") of the start of Encode(t): a character
\* survives when its last byte does.
Decode(t, bytes) ==
  LET Complete(i) == <<i, t[i]>> \in ToSet(bytes)
  IN  Upto(t, Cardinality({i \in DOMAIN t : Complete(i)}))

Clip(t, budget) == Decode(t, Upto(Encode(t), budget))

\* Mutant: a text that fills the budget exactly is called clipped.
TruncateStrictly(t, budget) ==
  IF Len(Encode(t)) < budget THEN <<t, TRUE>> ELSE <<Clip(t, budget), FALSE>>

\* Mutant: the clip loses the last byte of the budget.
TruncateShort(t, budget) ==
  IF Len(Encode(t)) <= budget THEN <<t, TRUE>> ELSE <<Clip(t, budget - 1), FALSE>>

\* _truncate(): what it returns for t and whether t is whole.
Truncate(t, budget) ==
  CASE Len(Encode(t)) <= budget -> <<t, TRUE>>
    [] Len(Encode(t)) > budget /\ budget <= 0 -> <<<<>>, t = <<>>>>
    [] OTHER -> <<Clip(t, budget), FALSE>>

-----------------------------------------------------------------------------
Init ==
  /\ pc = "gather"
  /\ found = <<>>
  /\ elements = <<>>
  /\ doc = [markdown |-> <<>>, text |-> <<>>]
  /\ out = [markdown |-> <<>>, text |-> <<>>, elements |-> <<>>]
  /\ left = MAX_OUTPUT_BYTES
  /\ whole = TRUE

\* Mutant: every file of an archive may fill MAX_ELEMENTS.
GatherPerFile ==
  /\ pc = "gather"
  /\ Len(found) < MaxFiles
  /\ \E items \in Items :
       /\ found' = Append(found, items)
       /\ elements' = elements \o Upto(items, MAX_ELEMENTS)
  /\ UNCHANGED <<pc, doc, out, left, whole>>

\* One more file is converted.  _elements() stops at MAX_ELEMENTS records, and
\* what the archive loop takes of them is what is left of MAX_ELEMENTS overall.
Gather ==
  /\ pc = "gather"
  /\ Len(found) < MaxFiles
  /\ \E items \in Items :
       /\ found' = Append(found, items)
       /\ elements' = elements \o Upto(Upto(items, MAX_ELEMENTS), MAX_ELEMENTS - Len(elements))
  /\ UNCHANGED <<pc, doc, out, left, whole>>

\* The last file is converted: its markdown and text, or the archive's joined.
\* _export_text() falls back to the markdown, and without a file there is neither.
Joined ==
  /\ pc = "gather"
  /\ pc' = "markdown"
  /\ doc' \in [markdown : Texts, text : Texts]
  /\ doc'.text = <<>> \/ found = <<>> => doc' = [markdown |-> <<>>, text |-> <<>>]
  /\ UNCHANGED <<found, elements, out, left, whole>>

\* markdown claims the budget first.
ClipMarkdown ==
  LET cut == Truncate(doc.markdown, MAX_OUTPUT_BYTES) IN
  /\ pc = "markdown"
  /\ pc' = "text"
  /\ out' = [out EXCEPT !.markdown = cut[1]]
  /\ left' = MAX_OUTPUT_BYTES - Size(cut[1])
  /\ whole' = (whole /\ cut[2])
  /\ UNCHANGED <<found, elements, doc>>

\* Mutants: the text is measured against the whole budget; or is not charged to it.
ClipTextAlone ==
  LET cut == Truncate(doc.text, MAX_OUTPUT_BYTES) IN
  /\ pc = "text"
  /\ pc' = "elements"
  /\ out' = [out EXCEPT !.text = cut[1]]
  /\ left' = MAX_OUTPUT_BYTES - Size(cut[1])
  /\ whole' = (whole /\ cut[2])
  /\ UNCHANGED <<found, elements, doc>>

ClipTextUncharged ==
  LET cut == Truncate(doc.text, left) IN
  /\ pc = "text"
  /\ pc' = "elements"
  /\ out' = [out EXCEPT !.text = cut[1]]
  /\ whole' = (whole /\ cut[2])
  /\ UNCHANGED <<found, elements, doc, left>>

ClipText ==
  LET cut == Truncate(doc.text, left) IN
  /\ pc = "text"
  /\ pc' = "elements"
  /\ out' = [out EXCEPT !.text = cut[1]]
  /\ left' = left - Size(cut[1])
  /\ whole' = (whole /\ cut[2])
  /\ UNCHANGED <<found, elements, doc>>

\* The record _fit_elements() looks at; with its separator it costs one byte more.
Record == elements[Len(out.elements) + 1]

Kept == Len(out.elements) = Len(elements)

\* Mutant: a record is taken before it is measured.
FitsUnmeasured == ~Kept

Fits == ~Kept /\ Record + 1 <= left

\* One turn of the loop of _fit_elements().
FitNext ==
  /\ pc = "elements"
  /\ Fits
  /\ out' = [out EXCEPT !.elements = Append(@, Record)]
  /\ left' = left - (Record + 1)
  /\ UNCHANGED <<pc, found, elements, doc, whole>>

\* The loop ends: at the first record that does not fit, or with all of them.
FitEnd ==
  /\ pc = "elements"
  /\ ~Fits
  /\ pc' = "done"
  /\ whole' = (whole /\ Kept)
  /\ UNCHANGED <<found, elements, doc, out, left>>

Next == Gather \/ Joined \/ ClipMarkdown \/ ClipText \/ FitNext \/ FitEnd

Spec == Init /\ [][Next]_vars

-----------------------------------------------------------------------------
(* Properties *)

\* Every variable has its type.  That left stays a natural number is the
\* reason why _truncate() and _fit_elements() never see a negative budget.
TypeOK ==
  /\ pc \in {"gather", "markdown", "text", "elements", "done"}
  /\ found \in SeqOf(Items, MaxFiles)
  /\ elements \in SeqOf(RecordSizes, MAX_ELEMENTS)
  /\ doc \in [markdown : Texts, text : Texts]
  /\ out \in [markdown : Texts, text : Texts, elements : SeqOf(RecordSizes, MAX_ELEMENTS)]
  /\ left \in 0 .. MAX_OUTPUT_BYTES
  /\ whole \in BOOLEAN

\* The bytes of a result as parse_file() counts them, a separator with each record.
Counted ==
  Size(out.markdown) + Size(out.text) + SumFunction(out.elements) + Len(out.elements)

\* The three fields share one budget (parser.py:388-398): however it is divided,
\* together they never take more than MAX_OUTPUT_BYTES.
SharedBudgetKept == Counted <= MAX_OUTPUT_BYTES

\* t is clipped to budget when it lost something, and then to a prefix whose next
\* character would not have fitted: neither half a character (parser.py:54) nor
\* a character that still fits is given up.
Tight(kept, t, budget) ==
  /\ IsPrefix(kept, t)
  /\ kept # t => Size(Upto(t, Len(kept) + 1)) > budget

\* Clipping gives up no more than the budget requires: of the markdown, of the
\* text after it, and of the elements after both.
ClippedTight ==
  pc = "done" =>
    /\ Tight(out.markdown, doc.markdown, MAX_OUTPUT_BYTES)
    /\ Tight(out.text, doc.text, MAX_OUTPUT_BYTES - Size(out.markdown))
    /\ IsPrefix(out.elements, elements)
    /\ ~Kept => Counted + Record + 1 > MAX_OUTPUT_BYTES

\* truncated (parser.py:406) is about the byte budget alone: it is set exactly when
\* a text was clipped, or an element dropped of those that the count caps had let
\* through.  An exact fit is not reported as a loss, and no loss to the budget is
\* silent; elements beyond the first MAX_ELEMENTS are missing without the flag.
TruncatedHonest ==
  pc = "done" =>
    (whole <=> out = [markdown |-> doc.markdown, text |-> doc.text,
                      elements |-> Upto(FlattenSeq(found), MAX_ELEMENTS)])

\* The element cap is global across the archive (parser.py:455-458): two caps, one
\* per file and one on the sum, keep the first MAX_ELEMENTS items of all files.
GlobalElementCap == elements = Upto(FlattenSeq(found), MAX_ELEMENTS)

\* Optional detail never crowds the payload out (limits.py:55-58): a result that
\* carries an element lost nothing of its markdown and text.
DetailLast ==
  out.elements # <<>> => out.markdown = doc.markdown /\ out.text = doc.text
=============================================================================
