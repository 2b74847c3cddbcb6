------------------------ MODULE ArchiveExtractProofs ------------------------
(***************************************************************************)
(* Theorems about ArchiveExtract, for every archive and every value of the *)
(* limits: the list and the tree, the bytes on disk, and which archives    *)
(* are accepted.                                                           *)
(***************************************************************************)
EXTENDS ArchiveExtract, FoldLemmas

\* TypeOK says more of a run that has not been refused: the list and the tree are
\* empty until the first member and again after the last.
Fresh ==
  /\ pc = "open" => next = 1
  /\ pc \in {"open", "done"} => dirs = {} /\ Files = {} /\ written = <<>>

\* A file's bytes are those of a member that has this path and has been reached.
FromMember ==
  \A p \in Paths : content[p] # 0 =>
    content[p] < next /\ IsFile(content[p]) /\ members[content[p]].path = p

\* A path that a member gone through has been written to holds the bytes of this
\* member or of a later one.
LastWritten ==
  \A p \in Paths, i \in DOMAIN members :
    /\ pc \in {"extract", "parse"} /\ i < next
    /\ IsFile(i) /\ members[i].path = p
    => content[p] >= i /\ members[content[p]].path = p

Inv == TypeOK /\ Fresh /\ FromMember /\ ListIsTheTree /\ LastWritten

LEMMA Numbers ==
  ASSUME TypeOK
  PROVE  /\ Len(members) \in Nat /\ next \in Nat /\ 1 <= next /\ next <= Len(members) + 1
         /\ MAX_ARCHIVE_BYTES \in Nat /\ total \in Nat /\ total <= MAX_ARCHIVE_BYTES
         /\ \A p \in Paths : content[p] \in Nat /\ content[p] <= Len(members)
<1>1. /\ members \in Seq(Members) /\ next \in 1 .. Len(members) + 1
      /\ total \in 0 .. MAX_ARCHIVE_BYTES /\ content \in [Paths -> 0 .. Len(members)]
  BY Zenon DEF TypeOK
<1>2. Len(members) \in Nat
  BY <1>1
<1>3. next \in Nat /\ 1 <= next /\ next <= Len(members) + 1
  BY <1>1, <1>2
<1>4. MAX_ARCHIVE_BYTES \in Nat
  BY ArchiveAssumption
<1>5. total \in Nat /\ total <= MAX_ARCHIVE_BYTES
  BY <1>1, <1>4
<1>6. \A p \in Paths : content[p] \in Nat /\ content[p] <= Len(members)
  BY <1>1, <1>2
<1>. QED
  BY <1>2, <1>3, <1>4, <1>5, <1>6

LEMMA MemberTyped ==
  ASSUME TypeOK, More
  PROVE  /\ next \in DOMAIN members /\ next \in Nat /\ Member \in Members
         /\ Member.path \in Paths /\ Member.size \in Nat /\ Member.kind \in Kinds
<1>1. members \in Seq(Members) /\ next \in 1 .. Len(members) + 1 /\ next <= Len(members)
  BY DEF TypeOK, More
<1>2. next \in DOMAIN members /\ next \in Nat /\ Member \in Members
  BY <1>1 DEF Member
<1>3. Member \in [path : Paths, named : BOOLEAN, kind : Kinds, size : Nat, sound : BOOLEAN]
  BY <1>2, ArchiveAssumption
<1>. QED
  BY <1>2, <1>3

LEMMA PrefixTransitive ==
  ASSUME NEW p \in Seq(STRING), NEW q \in Seq(STRING), NEW r \in Seq(STRING),
         IsPrefix(p, q), IsPrefix(q, r)
  PROVE  IsPrefix(p, r)
BY DEF IsPrefix

LEMMA PrefixAntisymmetric ==
  ASSUME NEW p \in Seq(STRING), NEW q \in Seq(STRING), IsPrefix(p, q), IsPrefix(q, p)
  PROVE  p = q
BY DEF IsPrefix

\* What is above something above p is above p.
LEMMA AboveTransitive ==
  ASSUME NEW p \in Paths, NEW q \in Above(p)
  PROVE  Above(q) \subseteq Above(p)
<1>1. \A x \in Paths : x \in Seq(STRING)
  BY ArchiveAssumption
<1>. QED
  BY <1>1, PrefixTransitive, PrefixAntisymmetric DEF Above

LEMMA AppendSet ==
  ASSUME NEW S, NEW s \in Seq(S), NEW e \in S
  PROVE  Append(s, e) \in Seq(S) /\ ToSet(Append(s, e)) = ToSet(s) \cup {e}
<1>1. /\ Append(s, e) \in Seq(S)
      /\ DOMAIN Append(s, e) = 1 .. Len(s) + 1
      /\ DOMAIN s = 1 .. Len(s) /\ Len(s) \in Nat
      /\ \A i \in 1 .. Len(s) : Append(s, e)[i] = s[i]
      /\ Append(s, e)[Len(s) + 1] = e
  OBVIOUS
<1>2. 1 .. Len(s) + 1 = (1 .. Len(s)) \cup {Len(s) + 1}
  BY <1>1
<1>. QED
  BY <1>1, <1>2 DEF ToSet

-----------------------------------------------------------------------------
LEMMA InitInv == Init => Inv
<1>. SUFFICES ASSUME Init PROVE Inv
  OBVIOUS
<1>1. members \in Seq(Members) /\ Len(members) \in Nat
  <2>1. PICK m \in 0 .. MaxMembers : members \in [1 .. m -> Members]
    BY DEF Init, SeqOf
  <2>2. m \in Nat
    BY <2>1, ArchiveAssumption
  <2>. QED
    BY <2>1, <2>2
<1>2. Files = {} /\ written = <<>> /\ dirs = {}
  BY DEF Init, Files
<1>3. TypeOK
  <2>a. total = 0 /\ next = 1 /\ content = [p \in Paths |-> 0]
    BY DEF Init
  <2>1. total \in 0 .. MAX_ARCHIVE_BYTES /\ next \in 1 .. Len(members) + 1
    BY <1>1, <2>a, ArchiveAssumption
  <2>2. content \in [Paths -> 0 .. Len(members)]
    BY <1>1, <2>a
  <2>3. format \in {"zip", "tar", "damaged zip", "neither"} /\ pc = "open" /\ answer = "none"
    BY DEF Init
  <2>. QED
    <3>1. written \in Seq(Paths) /\ dirs \subseteq Paths
      BY <1>2
    <3>. QED
      BY <1>1, <3>1, <2>1, <2>2, <2>3, Zenon DEF TypeOK
<1>4. ToSet(written) = {}
  BY <1>2 DEF ToSet
<1>. QED
  BY <1>2, <1>3, <1>4 DEF Inv, Init, Fresh, FromMember, ListIsTheTree, LastWritten, Files

LEMMA RaiseInv ==
  ASSUME Inv, NEW code \in {"input_rejected", "parse_failed", "extracted"}, Raise(code)
  PROVE  Inv'
<1>1. Files' = {} /\ ToSet(written') = {} /\ written' \in Seq(Paths)
  BY DEF Raise, Files, ToSet
<1>2. TypeOK'
  <2>1. Len(members) \in Nat
    BY Numbers DEF Inv
  <2>2. content' \in [Paths -> 0 .. Len(members)]
    BY <2>1 DEF Raise
  <2>. QED
    BY <1>1, <2>2 DEF Inv, TypeOK, Raise, archive
<1>. QED
  BY <1>1, <1>2 DEF Inv, Raise, Fresh, FromMember, ListIsTheTree, LastWritten, Files,
     archive, tree

LEMMA MakeDirInv ==
  ASSUME Inv, MakeDir
  PROVE  Inv'
<1>. DEFINE p == Member.path
<1>1. /\ next \in DOMAIN members /\ next \in Nat /\ p \in Paths
      /\ members \in Seq(Members)
  BY MemberTyped DEF Inv, MakeDir, Good, TypeOK
<1>2. /\ UNCHANGED <<format, members, pc, total, content, written, answer>>
      /\ dirs' = dirs \cup {p} \cup Above(p) /\ next' = next + 1
      /\ pc = "extract" /\ next <= Len(members) /\ members[next].kind = "dir"
      /\ p \notin Files /\ Above(p) \cap Files = {}
  BY DEF MakeDir, Good, More, Breaks, Clashes, archive, Member
<1>3. Files' = Files
  BY <1>2 DEF Files
<1>4. TypeOK'
  <2>1. next + 1 \in 1 .. Len(members) + 1
    BY <1>2, Numbers DEF Inv
  <2>b. dirs' \subseteq Paths
    BY <1>1, <1>2 DEF Inv, TypeOK, Above
  <2>. QED
    BY <1>2, <2>1, <2>b DEF Inv, TypeOK
<1>5. ListIsTheTree'
  <2>1. Files' \cap dirs' = {}
    BY <1>2, <1>3 DEF Inv, ListIsTheTree
  <2>2. \A q \in Files' \cup dirs' : Above(q) \subseteq dirs'
    BY <1>1, <1>2, <1>3, AboveTransitive DEF Inv, ListIsTheTree
  <2>. QED
    BY <1>2, <1>3, <2>1, <2>2 DEF Inv, ListIsTheTree
<1>6. FromMember'
  <2>1. \A n \in 0 .. Len(members) : n < next => n < next + 1
    BY <1>1
  <2>2. \A q \in Paths : content[q] \in 0 .. Len(members)
    BY DEF Inv, TypeOK
  <2>. QED
    BY <1>2, <2>1, <2>2 DEF Inv, FromMember, IsFile, Stored
<1>7. LastWritten'
  <2>1. \A i \in DOMAIN members : i < next + 1 => i < next \/ i = next
    BY <1>1
  <2>2. ~Stored(members[next])
    BY <1>2 DEF Stored
  <2>. QED
    BY <1>2, <2>1, <2>2 DEF Inv, LastWritten, IsFile, Stored
<1>. QED
  BY <1>2, <1>3, <1>4, <1>5, <1>6, <1>7 DEF Inv, Fresh

LEMMA WriteFileInv ==
  ASSUME Inv, WriteFile
  PROVE  Inv'
<1>. DEFINE p == Member.path
<1>1. /\ next \in DOMAIN members /\ next \in Nat /\ p \in Paths /\ Member.size \in Nat
      /\ members \in Seq(Members)
  BY MemberTyped DEF Inv, WriteFile, Good, TypeOK
<1>2. /\ UNCHANGED <<format, members, pc, answer>>
      /\ dirs' = dirs \cup Above(p) /\ next' = next + 1
      /\ total' = total + Member.size
      /\ content' = [content EXCEPT ![p] = next]
      /\ written' = Append(written, p)
      /\ pc = "extract" /\ next <= Len(members) /\ Stored(members[next])
      /\ members[next].path = p
      /\ total + Member.size <= MAX_ARCHIVE_BYTES
      /\ p \notin dirs /\ Above(p) \cap Files = {}
  <2>1. total \in Nat /\ MAX_ARCHIVE_BYTES \in Nat
    BY Numbers DEF Inv
  <2>2. ~(total + Member.size > MAX_ARCHIVE_BYTES)
    BY DEF WriteFile, Good, Refuses
  <2>3. total + Member.size <= MAX_ARCHIVE_BYTES
    BY <1>1, <2>1, <2>2
  <2>. QED
    BY <2>3 DEF WriteFile, Good, More, Breaks, Clashes, archive, Member
<1>3. content' \in [Paths -> 0 .. Len(members)] /\ content'[p] = next
      /\ \A q \in Paths : q # p => content'[q] = content[q]
  <2>1. next \in 0 .. Len(members)
    BY <1>1, <1>2, Numbers DEF Inv
  <2>2. content \in [Paths -> 0 .. Len(members)]
    BY Zenon DEF Inv, TypeOK
  <2>. HIDE DEF p
  <2>. QED
    BY <1>1, <1>2, <2>1, <2>2
<1>4. Files' = Files \cup {p} /\ p \notin Above(p)
  BY <1>1, <1>3 DEF Files, Above
<1>5. written' \in Seq(Paths) /\ ToSet(written') = ToSet(written) \cup {p}
  <2>1. written \in Seq(Paths)
    BY DEF Inv, TypeOK
  <2>. HIDE DEF p
  <2>. QED
    BY <1>1, <1>2, <2>1, AppendSet
<1>6. TypeOK'
  <2>1. next + 1 \in 1 .. Len(members) + 1
    BY <1>2, Numbers DEF Inv
  <2>b. dirs' \subseteq Paths
    BY <1>1, <1>2 DEF Inv, TypeOK, Above
  <2>2. total + Member.size \in 0 .. MAX_ARCHIVE_BYTES
    BY <1>1, <1>2, Numbers DEF Inv
  <2>. HIDE DEF p
  <2>. QED
    BY <1>2, <1>3, <1>5, <2>1, <2>b, <2>2 DEF Inv, TypeOK
<1>7. ListIsTheTree'
  <2>1. Files' \cap dirs' = {}
    BY <1>2, <1>4 DEF Inv, ListIsTheTree
  <2>2. \A q \in Files' \cup dirs' : Above(q) \subseteq dirs'
    BY <1>1, <1>2, <1>4, AboveTransitive DEF Inv, ListIsTheTree
  <2>. QED
    BY <1>4, <1>5, <2>1, <2>2 DEF Inv, ListIsTheTree
<1>8. FromMember'
  <2>1. \A q \in Paths : content[q] \in Nat /\ (content[q] < next => content[q] < next + 1)
    BY <1>1, Numbers DEF Inv
  <2>2. next < next + 1
    BY <1>1
  <2>. HIDE DEF p
  <2>. QED
    BY <1>1, <1>2, <1>3, <2>1, <2>2 DEF Inv, FromMember, IsFile, Stored
<1>9. LastWritten'
  <2>. SUFFICES ASSUME NEW q \in Paths, NEW i \in DOMAIN members', i < next',
                       IsFile(i)', members'[i].path = q
                PROVE  content'[q] >= i /\ members'[content'[q]].path = q
    BY DEF LastWritten
  <2>1. CASE q = p
    BY <1>1, <1>2, <1>3, <2>1
  <2>2. CASE q # p
    <3>1. i # next /\ i < next
      BY <1>1, <1>2, <2>2
    <3>2. content[q] >= i /\ members[content[q]].path = q
      BY <1>2, <3>1 DEF Inv, LastWritten, IsFile, Stored
    <3>. QED
      BY <1>2, <1>3, <2>2, <3>2
  <2>. QED
    BY <2>1, <2>2
<1>. QED
  BY <1>2, <1>6, <1>7, <1>8, <1>9 DEF Inv, Fresh

LEMMA NextInv == ASSUME Inv, [Next]_vars PROVE Inv'
<1>1. CASE UNCHANGED vars
  BY <1>1 DEF vars, archive, tree, Inv, TypeOK, Fresh, FromMember, ListIsTheTree, LastWritten,
    Files, IsFile, Stored
<1>2. CASE Open
  <2>1. CASE pc' = "extract"
    <3>1. UNCHANGED <<format, members, next, total, dirs, content, written, answer>> /\ pc = "open"
      BY <1>2, <2>1 DEF Open, Raise, archive, tree
    <3>2. TypeOK' /\ FromMember'
      BY <2>1, <3>1 DEF Inv, TypeOK, FromMember, IsFile, Stored
    <3>a. members \in Seq(Members)
      BY Zenon DEF Inv, TypeOK
    <3>3. next = 1 /\ Files' = Files /\ \A i \in DOMAIN members : ~(i < 1)
      BY <3>1, <3>a DEF Inv, Fresh, Files
    <3>. QED
      BY <2>1, <3>1, <3>2, <3>3 DEF Inv, Fresh, ListIsTheTree, LastWritten
  <2>. QED
    BY <1>2, <2>1, RaiseInv DEF Open
<1>3. CASE Refuse
  BY <1>3, RaiseInv DEF Refuse
<1>4. CASE Break
  BY <1>4, RaiseInv DEF Break, BreakCodes
<1>5. CASE Return
  BY <1>5 DEF Return, archive, tree, Inv, TypeOK, Fresh, FromMember, ListIsTheTree, LastWritten,
    Files, IsFile, Stored
<1>6. CASE Leave
  BY <1>6, RaiseInv DEF Leave
<1>. QED
  BY <1>1, <1>2, <1>3, <1>4, <1>5, <1>6, MakeDirInv, WriteFileInv DEF Next

\* The inductive invariant of the extraction loop, for archives of any length: what is
\* in the scratch directory and in the list comes from the members gone through.
THEOREM Invariance == Spec => []Inv
BY InitInv, NextInv, PTL DEF Spec

\* The variables stay in their types; in particular the declared bytes of what has
\* been extracted never exceed MAX_ARCHIVE_BYTES, in any archive.
THEOREM TypeCorrect == Spec => []TypeOK
BY Invariance, PTL DEF Inv

\* The list safe_extract() returns is exactly what it has written, and no path is
\* both a file and a directory.
THEOREM ListCorrect == Spec => []ListIsTheTree
BY Invariance, PTL DEF Inv

-----------------------------------------------------------------------------
(* What has been counted, and what the members gone through were fit for.  *)

\* The files before member n.
FilesBefore(n) == {i \in DOMAIN members : i < n /\ IsFile(i)}

Sizes == [i \in DOMAIN members |-> members[i].size]

Counted == total = SumFunctionOnSet(Sizes, FilesBefore(next))

\* A directory is there because a member is it or lies below it.
DirsFromMembers ==
  pc \in {"extract", "parse"} =>
    \A q \in Paths : q \in dirs <=>
      \E i \in DOMAIN members : /\ i < next
                                /\ \/ Named(i, "dir") /\ members[i].path = q
                                   \/ q \in Above(members[i].path)

\* zip and tar check the number of members in different places.
GoneThrough ==
  pc \in {"extract", "parse"} =>
    /\ format \in {"zip", "tar"}
    /\ format = "zip" => Len(members) <= MAX_ARCHIVE_MEMBERS
    /\ next <= MAX_ARCHIVE_MEMBERS + 1
    /\ \A i \in DOMAIN members : i < next =>
         /\ ~BadName(members[i]) /\ (Named(i, "dir") \/ IsFile(i))
         /\ IsFile(i) => members[i].sound

Answered ==
  /\ answer = "none" <=> pc \in {"open", "extract"}
  /\ pc = "parse" => answer = "extracted"
  /\ AcceptedExactly

Progress == Counted /\ DirsFromMembers /\ GoneThrough /\ Answered

\* Acceptable in the terms of this module.
Fit ==
  /\ format \in {"zip", "tar"}
  /\ Len(members) <= MAX_ARCHIVE_MEMBERS
  /\ SumFunctionOnSet(Sizes, FilesBefore(Len(members) + 1)) <= MAX_ARCHIVE_BYTES
  /\ \A i \in DOMAIN members : ~BadName(members[i]) /\ (Named(i, "dir") \/ IsFile(i))
  /\ \A i \in DOMAIN members : IsFile(i) =>
       /\ members[i].sound
       /\ \A j \in DOMAIN members :
            /\ members[i].path \notin Above(members[j].path)
            /\ Named(j, "dir") => members[i].path # members[j].path

LEMMA MembersTyped ==
  ASSUME TypeOK
  PROVE  /\ DOMAIN members = 1 .. Len(members) /\ Len(members) \in Nat
         /\ \A i \in DOMAIN members : members[i].path \in Paths /\ members[i].size \in Nat
         /\ IsFiniteSet(DOMAIN members)
<1>1. members \in Seq(Members)
  BY Zenon DEF TypeOK
<1>2. \A i \in DOMAIN members :
        members[i] \in [path : Paths, named : BOOLEAN, kind : Kinds, size : Nat, sound : BOOLEAN]
  BY <1>1, ArchiveAssumption
<1>3. DOMAIN members = 1 .. Len(members) /\ Len(members) \in Nat
  BY <1>1
<1>4. IsFiniteSet(DOMAIN members)
  BY <1>3, FS_Interval
<1>. QED
  BY <1>2, <1>3, <1>4

LEMMA FitIsAcceptable == ASSUME TypeOK PROVE Acceptable <=> Fit
<1>1. \A i \in DOMAIN members : i < Len(members) + 1
  BY MembersTyped
<1>2. FilesBefore(Len(members) + 1) = {i \in DOMAIN members : IsFile(i)}
  BY <1>1 DEF FilesBefore
<1>. QED
  BY <1>2 DEF Acceptable, Fit, Sizes

LEMMA AcceptableStays == ASSUME UNCHANGED archive PROVE Acceptable' <=> Acceptable
BY DEF archive, Acceptable, Named, IsFile, Stored

\* The files before any member are finitely many and declare a number of bytes.
LEMMA FilesBeforeTyped ==
  ASSUME TypeOK, NEW n \in Nat
  PROVE  /\ FilesBefore(n) \in SUBSET DOMAIN members /\ IsFiniteSet(FilesBefore(n))
         /\ \A i \in FilesBefore(n) : Sizes[i] \in Nat
         /\ SumFunctionOnSet(Sizes, FilesBefore(n)) \in Nat
<1>1. FilesBefore(n) \in SUBSET DOMAIN members /\ IsFiniteSet(FilesBefore(n))
  BY MembersTyped, FS_Subset DEF FilesBefore
<1>2. \A i \in FilesBefore(n) : Sizes[i] \in Nat
  BY <1>1, MembersTyped DEF Sizes
<1>. QED
  BY <1>1, <1>2, SumNat

LEMMA CountNext ==
  ASSUME TypeOK, More
  PROVE  /\ Stored(Member) =>
              SumFunctionOnSet(Sizes, FilesBefore(next + 1)) =
                SumFunctionOnSet(Sizes, FilesBefore(next)) + Member.size
         /\ ~Stored(Member) => FilesBefore(next + 1) = FilesBefore(next)
<1>1. next \in DOMAIN members /\ next \in Nat
  BY MemberTyped
<1>2. \A i \in DOMAIN members : i < next + 1 <=> i < next \/ i = next
  BY <1>1, MembersTyped
<1>3. CASE Stored(Member)
  <2>1. FilesBefore(next + 1) = FilesBefore(next) \cup {next} /\ next \notin FilesBefore(next)
    BY <1>1, <1>2, <1>3 DEF FilesBefore, IsFile, Member
  <2>2. /\ IsFiniteSet(FilesBefore(next)) /\ Sizes[next] = Member.size
        /\ \A i \in FilesBefore(next) \cup {next} : Sizes[i] \in Nat
    BY <1>1, MemberTyped, FilesBeforeTyped DEF Sizes, Member
  <2>3. SumFunctionOnSet(Sizes, FilesBefore(next) \cup {next}) =
          SumFunctionOnSet(Sizes, FilesBefore(next)) + Sizes[next]
    BY <2>1, <2>2, SumAdd
  <2>. QED
    BY <1>3, <2>1, <2>2, <2>3
<1>4. CASE ~Stored(Member)
  BY <1>1, <1>2, <1>4 DEF FilesBefore, IsFile, Member
<1>. QED
  BY <1>3, <1>4

\* What has been counted is never more than what there is to count.
LEMMA CountedSoFar ==
  ASSUME TypeOK, NEW n \in Nat
  PROVE  SumFunctionOnSet(Sizes, FilesBefore(n)) <=
           SumFunctionOnSet(Sizes, FilesBefore(Len(members) + 1))
<1>1. Len(members) + 1 \in Nat
  BY MembersTyped
<1>2. FilesBefore(n) \subseteq FilesBefore(Len(members) + 1)
  BY MembersTyped DEF FilesBefore
<1>. QED
  BY <1>1, <1>2, FilesBeforeTyped, SumPart

LEMMA InitProgress == Init => Progress
<1>. SUFFICES ASSUME Init PROVE Progress
  OBVIOUS
<1>1. TypeOK
  BY InitInv DEF Inv
<1>2. next = 1 /\ total = 0 /\ pc = "open" /\ answer = "none"
  BY DEF Init
<1>3. FilesBefore(next) = {}
  BY <1>1, <1>2, MembersTyped DEF FilesBefore
<1>4. Counted
  BY <1>2, <1>3, SumEmpty DEF Counted
<1>. QED
  BY <1>2, <1>4 DEF Progress, DirsFromMembers, GoneThrough, Answered, AcceptedExactly

\* A refusal is right when the archive is not acceptable, and leaving when it is.
LEMMA RaiseProgress ==
  ASSUME Progress, NEW code \in {"input_rejected", "parse_failed", "extracted"}, Raise(code),
         code = "extracted" <=> Acceptable
  PROVE  Progress'
<1>1. UNCHANGED <<archive, format, members, next, total>> /\ pc' = "done" /\ answer' = code
  BY DEF Raise, archive
<1>2. Counted'
  BY <1>1 DEF Progress, Counted, FilesBefore, Sizes, IsFile, Stored
<1>3. Answered'
  BY <1>1, AcceptableStays DEF Answered, AcceptedExactly
<1>. QED
  BY <1>1, <1>2, <1>3 DEF Progress, DirsFromMembers, GoneThrough

LEMMA OpenProgress == ASSUME Inv, Progress, Open PROVE Progress'
<1>. USE DEF Inv
<1>1. Len(members) \in Nat /\ MAX_ARCHIVE_MEMBERS \in Nat
  BY MembersTyped, ArchiveAssumption
<1>2. CASE format = "neither" /\ Raise("input_rejected")
  BY <1>2, RaiseProgress DEF Acceptable
<1>3. CASE format = "damaged zip" /\ Raise("parse_failed")
  BY <1>3, RaiseProgress DEF Acceptable
<1>4. CASE TooMany /\ Raise("input_rejected")
  <2>1. Len(members) > MAX_ARCHIVE_MEMBERS
    BY <1>4 DEF Open, TooMany
  <2>2. ~Acceptable
    BY <1>1, <2>1 DEF Acceptable
  <2>. QED
    BY <1>4, <2>2, RaiseProgress
<1>5. CASE /\ format \in {"zip", "tar"} /\ ~TooMany
           /\ pc' = "extract"
           /\ UNCHANGED <<archive, next, total, tree, written, answer>>
  <2>1. /\ UNCHANGED <<format, members, next, total, dirs, answer>> /\ pc = "open"
        /\ next = 1 /\ dirs = {}
    BY <1>5 DEF Open, archive, tree, Fresh
  <2>2. \A i \in DOMAIN members : ~(i < next)
    BY <2>1, MembersTyped
  <2>3. Counted'
    BY <2>1 DEF Progress, Counted, FilesBefore, Sizes, IsFile, Stored
  <2>4. DirsFromMembers'
    BY <2>1, <2>2 DEF DirsFromMembers
  <2>5. GoneThrough'
    <3>1. format = "zip" => Len(members) <= MAX_ARCHIVE_MEMBERS
      BY <1>1, <1>5 DEF TooMany
    <3>2. next <= MAX_ARCHIVE_MEMBERS + 1
      BY <1>1, <2>1
    <3>. QED
      BY <1>5, <2>1, <2>2, <3>1, <3>2 DEF GoneThrough
  <2>6. Answered'
    BY <1>5, <2>1 DEF Progress, Answered, AcceptedExactly
  <2>. QED
    BY <2>3, <2>4, <2>5, <2>6 DEF Progress
<1>. QED
  BY <1>2, <1>3, <1>4, <1>5 DEF Open

\* Whatever safe_extract() refuses before a member, the archive is not acceptable.
LEMMA RefusesRightly == ASSUME Inv, Progress, Refuse PROVE ~Acceptable
<1>. USE DEF Inv
<1>1. /\ next \in DOMAIN members /\ next \in Nat /\ next <= Len(members)
      /\ Len(members) \in Nat /\ pc = "extract"
  BY MemberTyped, MembersTyped DEF Refuse, More
<1>2. CASE TooMany
  <2>1. Len(members) > MAX_ARCHIVE_MEMBERS
    BY <1>1, <1>2, ArchiveAssumption DEF TooMany
  <2>. QED
    BY <1>1, <2>1, ArchiveAssumption DEF Acceptable
<1>3. CASE BadName(Member) \/ (Member.kind # "dir" /\ ~Stored(Member))
  BY <1>1, <1>3 DEF Acceptable, Named, IsFile, Member
<1>4. CASE Stored(Member) /\ total + Member.size > MAX_ARCHIVE_BYTES
  <2>. DEFINE all == SumFunctionOnSet(Sizes, FilesBefore(Len(members) + 1))
              now == SumFunctionOnSet(Sizes, FilesBefore(next + 1))
  <2>1. now = total + Member.size
    BY <1>4, CountNext DEF Progress, Counted, Refuse
  <2>2. now <= all /\ now \in Nat /\ all \in Nat
    <3>1. next + 1 \in Nat /\ Len(members) + 1 \in Nat
      BY <1>1
    <3>. QED
      BY <3>1, CountedSoFar, FilesBeforeTyped
  <2>3. MAX_ARCHIVE_BYTES \in Nat /\ now > MAX_ARCHIVE_BYTES
    BY <1>4, <2>1, ArchiveAssumption
  <2>4. ~(all <= MAX_ARCHIVE_BYTES)
    <3>. HIDE DEF now, all
    <3>. QED
      BY <2>2, <2>3
  <2>. QED
    BY <2>4, FitIsAcceptable DEF Fit
<1>. QED
  BY <1>2, <1>3, <1>4 DEF Refuse, Refuses

\* What cannot be written shows two members that do not go together, whichever of
\* them comes first.
LEMMA BreaksRightly == ASSUME Inv, Progress, Break PROVE ~Acceptable
<1>. USE DEF Inv
<1>1. next \in DOMAIN members /\ pc = "extract" /\ Member.path \in Paths
  BY MemberTyped DEF Break, More
<1>2. \A q \in Files : /\ content[q] \in DOMAIN members /\ IsFile(content[q])
                       /\ members[content[q]].path = q
  <2>1. \A q \in Files : q \in Paths /\ content[q] # 0
    BY DEF Files
  <2>2. \A q \in Files : content[q] \in DOMAIN members
    BY <2>1, Numbers, MembersTyped
  <2>. QED
    BY <2>1, <2>2 DEF FromMember
<1>3. CASE Above(Member.path) \cap Files # {}
  BY <1>1, <1>2, <1>3 DEF Acceptable, Member
<1>4. CASE Member.kind = "dir" /\ Member.path \in Files
  BY <1>1, <1>2, <1>4 DEF Acceptable, Member, Named, IsFile
<1>5. CASE Stored(Member) /\ Member.path \in dirs
  <2>1. PICK i \in DOMAIN members :
          \/ Named(i, "dir") /\ members[i].path = Member.path
          \/ Member.path \in Above(members[i].path)
    BY <1>1, <1>5 DEF Progress, DirsFromMembers
  <2>. QED
    BY <1>1, <1>5, <2>1 DEF Acceptable, Member, Named, IsFile
<1>6. CASE Stored(Member) /\ ~Member.sound
  BY <1>1, <1>6 DEF Acceptable, Member, Named, IsFile
<1>. QED
  BY <1>3, <1>4, <1>5, <1>6 DEF Break, Breaks, Clashes

LEMMA MakeDirProgress == ASSUME Inv, Progress, MakeDir PROVE Progress'
<1>. USE DEF Inv
<1>1. /\ UNCHANGED <<format, members, pc, total, answer, archive>>
      /\ dirs' = dirs \cup {Member.path} \cup Above(Member.path) /\ next' = next + 1
      /\ More /\ pc = "extract" /\ Member.kind = "dir" /\ ~TooMany /\ ~Refuses(Member)
  BY DEF MakeDir, Good, More, archive
<1>2. /\ next \in DOMAIN members /\ next \in Nat /\ Member.path \in Paths
      /\ \A i \in DOMAIN members : i < next + 1 <=> i < next \/ i = next
      /\ next < next + 1
  BY <1>1, MemberTyped, MembersTyped
<1>3. Counted'
  <2>1. total = SumFunctionOnSet(Sizes, FilesBefore(next + 1))
    BY <1>1, CountNext DEF Progress, Counted, Stored
  <2>. QED
    BY <1>1, <2>1 DEF Counted, FilesBefore, Sizes, IsFile, Stored
<1>4. DirsFromMembers'
  <2>1. \A q \in Paths : q \in dirs' <=>
          \E i \in DOMAIN members : /\ i < next + 1
                                    /\ \/ members[i].kind = "dir" /\ members[i].path = q
                                       \/ q \in Above(members[i].path)
    BY <1>1, <1>2 DEF Progress, DirsFromMembers, Member, Named
  <2>. QED
    BY <1>1, <2>1 DEF DirsFromMembers, Named
<1>5. GoneThrough'
  <2>1. next <= MAX_ARCHIVE_MEMBERS
    <3>1. MAX_ARCHIVE_MEMBERS \in Nat /\ Len(members) \in Nat /\ next <= Len(members)
      BY <1>1, MembersTyped, ArchiveAssumption DEF More
    <3>. QED
      BY <1>1, <1>2, <3>1 DEF Progress, GoneThrough, TooMany
  <2>2. next + 1 <= MAX_ARCHIVE_MEMBERS + 1
    BY <1>2, <2>1, ArchiveAssumption
  <2>3. ~BadName(members[next]) /\ members[next].kind = "dir"
    BY <1>1 DEF Refuses, Member
  <2>. QED
    BY <1>1, <1>2, <2>2, <2>3 DEF Progress, GoneThrough, Named, IsFile, Stored
<1>6. Answered'
  BY <1>1, AcceptableStays DEF Progress, Answered, AcceptedExactly
<1>. QED
  BY <1>3, <1>4, <1>5, <1>6 DEF Progress

LEMMA WriteFileProgress == ASSUME Inv, Progress, WriteFile PROVE Progress'
<1>. USE DEF Inv
<1>1. /\ UNCHANGED <<format, members, pc, answer, archive>>
      /\ dirs' = dirs \cup Above(Member.path) /\ next' = next + 1
      /\ total' = total + Member.size
      /\ More /\ pc = "extract" /\ Stored(Member) /\ ~TooMany /\ ~Refuses(Member)
      /\ Member.sound
  BY DEF WriteFile, Good, Breaks, More, archive
<1>2. /\ next \in DOMAIN members /\ next \in Nat /\ Member.path \in Paths
      /\ \A i \in DOMAIN members : i < next + 1 <=> i < next \/ i = next
      /\ next < next + 1
  BY <1>1, MemberTyped, MembersTyped
<1>3. Counted'
  <2>1. total + Member.size = SumFunctionOnSet(Sizes, FilesBefore(next + 1))
    BY <1>1, CountNext DEF Progress, Counted
  <2>. QED
    BY <1>1, <2>1 DEF Counted, FilesBefore, Sizes, IsFile, Stored
<1>4. DirsFromMembers'
  <2>1. \A q \in Paths : q \in dirs' <=>
          \E i \in DOMAIN members : /\ i < next + 1
                                    /\ \/ members[i].kind = "dir" /\ members[i].path = q
                                       \/ q \in Above(members[i].path)
    BY <1>1, <1>2 DEF Progress, DirsFromMembers, Member, Named, Stored
  <2>. QED
    BY <1>1, <2>1 DEF DirsFromMembers, Named
<1>5. GoneThrough'
  <2>1. next <= MAX_ARCHIVE_MEMBERS
    <3>1. MAX_ARCHIVE_MEMBERS \in Nat /\ Len(members) \in Nat /\ next <= Len(members)
      BY <1>1, MembersTyped, ArchiveAssumption DEF More
    <3>. QED
      BY <1>1, <1>2, <3>1 DEF Progress, GoneThrough, TooMany
  <2>2. next + 1 <= MAX_ARCHIVE_MEMBERS + 1
    BY <1>2, <2>1, ArchiveAssumption
  <2>3. ~BadName(members[next]) /\ Stored(members[next]) /\ members[next].sound
    BY <1>1 DEF Refuses, Member
  <2>. QED
    BY <1>1, <1>2, <2>2, <2>3 DEF Progress, GoneThrough, Named, IsFile, Stored
<1>6. Answered'
  BY <1>1, AcceptableStays DEF Progress, Answered, AcceptedExactly
<1>. QED
  BY <1>3, <1>4, <1>5, <1>6 DEF Progress

\* An archive gone through to its end is acceptable: members that do not go together
\* would be a path that is both a file and a directory.
LEMMA EndIsAcceptable ==
  ASSUME Inv, Progress, pc = "extract", next > Len(members)
  PROVE  Acceptable
<1>. USE DEF Inv
<1>1. /\ next \in Nat /\ Len(members) \in Nat /\ next = Len(members) + 1
      /\ MAX_ARCHIVE_MEMBERS \in Nat
  BY Numbers, ArchiveAssumption
<1>2. \A i \in DOMAIN members : i < next /\ members[i].path \in Paths /\ i > 0
  BY <1>1, MembersTyped
<1>3. format \in {"zip", "tar"} /\ Len(members) <= MAX_ARCHIVE_MEMBERS
  BY <1>1 DEF Progress, GoneThrough
<1>4. SumFunctionOnSet(Sizes, FilesBefore(Len(members) + 1)) <= MAX_ARCHIVE_BYTES
  <2>1. total <= MAX_ARCHIVE_BYTES
    BY Numbers
  <2>. QED
    BY <1>1, <2>1 DEF Progress, Counted
<1>5. \A i \in DOMAIN members : /\ ~BadName(members[i]) /\ (Named(i, "dir") \/ IsFile(i))
                                /\ IsFile(i) => members[i].sound
  BY <1>2 DEF Progress, GoneThrough
<1>6. \A i \in DOMAIN members : IsFile(i) => members[i].path \in Files
  <2>1. \A i \in DOMAIN members : IsFile(i) => content[members[i].path] >= i
    BY <1>2 DEF LastWritten
  <2>2. \A i \in DOMAIN members : IsFile(i) => content[members[i].path] # 0
    BY <1>2, <2>1, Numbers, MembersTyped
  <2>. QED
    BY <1>2, <2>2 DEF Files
<1>7. \A q \in Paths, j \in DOMAIN members :
        q \in Above(members[j].path) \/ (Named(j, "dir") /\ members[j].path = q) => q \in dirs
  BY <1>2 DEF Progress, DirsFromMembers
<1>8. \A i \in DOMAIN members : IsFile(i) => members[i].path \notin dirs
  BY <1>6 DEF ListIsTheTree
<1>9. \A i \in DOMAIN members : IsFile(i) =>
        \A j \in DOMAIN members : /\ members[i].path \notin Above(members[j].path)
                                  /\ Named(j, "dir") => members[i].path # members[j].path
  BY <1>2, <1>7, <1>8
<1>10. Fit
  BY <1>3, <1>4, <1>5, <1>9 DEF Fit
<1>. QED
  BY <1>10, FitIsAcceptable

LEMMA ReturnProgress == ASSUME Inv, Progress, Return PROVE Progress'
<1>1. /\ UNCHANGED <<format, members, next, total, dirs, archive>> /\ pc = "extract"
      /\ next > Len(members) /\ pc' = "parse" /\ answer' = "extracted"
  BY DEF Return, archive, tree
<1>2. Counted'
  BY <1>1 DEF Progress, Counted, FilesBefore, Sizes, IsFile, Stored
<1>3. DirsFromMembers' /\ GoneThrough'
  BY <1>1 DEF Progress, DirsFromMembers, GoneThrough, Named, IsFile, Stored
<1>4. Answered'
  BY <1>1, EndIsAcceptable, AcceptableStays DEF Answered, AcceptedExactly
<1>. QED
  BY <1>2, <1>3, <1>4 DEF Progress

LEMMA NextProgress == ASSUME Inv, Progress, [Next]_vars PROVE Progress'
<1>1. CASE UNCHANGED vars
  BY <1>1, AcceptableStays DEF vars, archive, tree, Progress, Counted, FilesBefore, Sizes,
     Named, IsFile, Stored, DirsFromMembers, GoneThrough, Answered, AcceptedExactly
<1>2. CASE Refuse
  BY <1>2, RefusesRightly, RaiseProgress DEF Refuse
<1>3. CASE Break
  BY <1>3, BreaksRightly, RaiseProgress DEF Break, BreakCodes
<1>4. CASE Leave
  BY <1>4, RaiseProgress DEF Leave, Progress, Answered, AcceptedExactly
<1>. QED
  BY <1>1, <1>2, <1>3, <1>4, OpenProgress, MakeDirProgress, WriteFileProgress, ReturnProgress
  DEF Next

\* The counters of the loop are about the members gone through, in any archive.
LEMMA ProgressInvariant == Spec => []Progress
BY InitProgress, NextProgress, Invariance, PTL DEF Spec

\* Whatever the order of its members, an archive is extracted exactly when it is within
\* the limits, each of its members is fit to extract, and no path is both a file and a
\* directory.  zip and tar agree on all of this but on special files, which a zip's
\* extraction writes out as regular files and a tar's refuses.
THEOREM AcceptanceExact == Spec => []AcceptedExactly
<1>1. Progress => AcceptedExactly
  BY DEF Progress, Answered
<1>. QED
  BY <1>1, ProgressInvariant, PTL

-----------------------------------------------------------------------------
(* What the scratch directory holds.                                       *)

LEMMA HeldByMembers ==
  ASSUME Inv
  PROVE  [p \in Files |-> content[p]] \in Injection(Files, FilesBefore(next))
<1>1. \A p \in Files : p \in Paths /\ content[p] # 0
  BY DEF Files
<1>2. \A p \in Files : content[p] \in DOMAIN members
  BY <1>1, Numbers, MembersTyped DEF Inv
<1>3. \A p \in Files : /\ content[p] < next /\ IsFile(content[p])
                       /\ members[content[p]].path = p
  BY <1>1 DEF Inv, FromMember
<1>4. \A p \in Files : content[p] \in FilesBefore(next)
  BY <1>2, <1>3 DEF FilesBefore
<1>5. \A p, q \in Files : content[p] = content[q] => p = q
  BY <1>3
<1>. QED
  BY <1>4, <1>5 DEF Injection, IsInjective

LEMMA HeldIsBounded ==
  ASSUME Inv, Progress
  PROVE  ScratchBounded
<1>. DEFINE g == [p \in Files |-> content[p]]
            T == FilesBefore(next)
            held == [p \in Files |-> members[content[p]].size]
<1>. USE DEF Inv
<1>1. next \in Nat /\ total \in Nat /\ MAX_ARCHIVE_BYTES \in Nat /\ total <= MAX_ARCHIVE_BYTES
  BY Numbers
<1>2. /\ g \in Injection(Files, T) /\ IsFiniteSet(T) /\ T \in SUBSET DOMAIN members
      /\ \A i \in T : Sizes[i] \in Nat
  BY <1>1, HeldByMembers, FilesBeforeTyped
<1>3. SumFunction(held) <= MAX_ARCHIVE_BYTES
  <2>1. SumFunctionOnSet([p \in Files |-> Sizes[g[p]]], Files) <= SumFunctionOnSet(Sizes, T)
    <3>. HIDE DEF g, T
    <3>. QED
      BY <1>2, SumPicked
  <2>2. [p \in Files |-> Sizes[g[p]]] = held
    <3>1. \A p \in Files : content[p] \in T
      BY <1>2 DEF Injection
    <3>. QED
      BY <1>2, <3>1 DEF Sizes
  <2>3. SumFunctionOnSet(Sizes, T) = total
    BY DEF Progress, Counted
  <2>4. SumFunction(held) = SumFunctionOnSet(held, Files)
    BY DEF SumFunction
  <2>. HIDE DEF held
  <2>5. SumFunction(held) <= total
    BY <2>1, <2>2, <2>3, <2>4
  <2>6. SumFunction(held) \in Nat
    <3>1. IsFiniteSet(Files)
      BY <1>2, FS_Injection
    <3>2. \A p \in Files : held[p] \in Nat
      <4>1. \A p \in Files : content[p] \in T
        BY <1>2 DEF Injection
      <4>. QED
        BY <1>2, <4>1 DEF held, Sizes
    <3>. QED
      BY <2>4, <3>1, <3>2, SumNat
  <2>. QED
    BY <1>1, <2>5, <2>6
<1>4. Cardinality(Files) <= MAX_ARCHIVE_MEMBERS
  <2>1. CASE pc \in {"open", "done"}
    <3>1. Cardinality(Files) = 0
      BY <2>1, FS_EmptySet DEF Fresh
    <3>. QED
      BY <3>1, ArchiveAssumption
  <2>2. CASE pc \in {"extract", "parse"}
    <3>1. next <= MAX_ARCHIVE_MEMBERS + 1
      BY <2>2 DEF Progress, GoneThrough
    <3>2. T \subseteq 1 .. MAX_ARCHIVE_MEMBERS
      BY <1>1, <3>1, MembersTyped, ArchiveAssumption DEF FilesBefore
    <3>3. /\ IsFiniteSet(1 .. MAX_ARCHIVE_MEMBERS)
          /\ Cardinality(1 .. MAX_ARCHIVE_MEMBERS) = MAX_ARCHIVE_MEMBERS
      BY ArchiveAssumption, FS_Interval
    <3>. HIDE DEF g, T
    <3>4. Cardinality(T) <= MAX_ARCHIVE_MEMBERS
      BY <3>2, <3>3, FS_Subset
    <3>5. /\ Cardinality(Files) <= Cardinality(T) /\ Cardinality(T) \in Nat
          /\ Cardinality(Files) \in Nat
      BY <1>2, FS_Injection, FS_CardinalityType
    <3>. QED
      BY <3>4, <3>5, ArchiveAssumption
  <2>. QED
    BY <2>1, <2>2 DEF TypeOK
<1>. QED
  BY <1>3, <1>4 DEF ScratchBounded

\* Files are overwritten by members that count again, so what is on disk is at most what
\* has been counted, and there are at most as many files as members gone through.
THEOREM ScratchNeverOverfull == Spec => []ScratchBounded
<1>1. Inv /\ Progress => ScratchBounded
  BY HeldIsBounded
<1>. QED
  BY <1>1, Invariance, ProgressInvariant, PTL
=============================================================================
