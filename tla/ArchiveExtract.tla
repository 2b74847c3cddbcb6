--------------------------- MODULE ArchiveExtract ---------------------------
(***************************************************************************)
(* safe_extract() of sidecar/ryu_docling/paths.py: the members of one zip  *)
(* or tar archive written one after the other into a scratch directory,    *)
(* with the limits checked on the way, and the list of files that the      *)
(* member loop of parser.py (see Parser) then reads.                       *)
(*                                                                         *)
(* A member's path is the one _check_member_name() makes of its name, so   *)
(* that two names may give one path ("a", "./a").  Both libraries hand out *)
(* at most as many bytes as a member declares; its size stands for both.   *)
(***************************************************************************)
EXTENDS Naturals, SequencesExt

CONSTANTS
  Paths,                \* relative paths, as sequences of names
  Members,              \* the members archives are made of
  MAX_ARCHIVE_MEMBERS,  \* limits.py
  MAX_ARCHIVE_BYTES,    \* limits.py
  MaxMembers            \* members in an archive (a bound for TLC)

\* A special file is a fifo, a device or a socket.
Kinds == {"file", "dir", "link", "special"}

ASSUME ArchiveAssumption ==
  /\ \A p \in Paths : p \in Seq(STRING) /\ p # <<>>
  /\ Members \subseteq [path : Paths, named : BOOLEAN, kind : Kinds,
                        size : Nat, sound : BOOLEAN]
  /\ {MAX_ARCHIVE_MEMBERS, MAX_ARCHIVE_BYTES, MaxMembers} \subseteq Nat

VARIABLES
  format,   \* what the file turns out to be
  members,  \* infolist(), or what iterating the tar yields
  pc,       \* "open", "extract", "parse" or "done"
  next,     \* the member at hand
  total,    \* declared bytes of the files so far
  dirs,     \* directories in the scratch directory
  content,  \* per path, the member whose bytes the file there holds, or 0
  written,  \* the list under construction
  answer    \* the code of the refusal, or "extracted"

archive == <<format, members>>
tree == <<dirs, content>>
vars == <<archive, pc, next, total, tree, written, answer>>

-----------------------------------------------------------------------------
Above(p) == {q \in Paths : q # p /\ IsPrefix(q, p)}

Member == members[next]

Files == {p \in Paths : content[p] # 0}

More == pc = "extract" /\ next <= Len(members)

\* zip is held to the limit before the first member, tar at the one too many.
TooMany ==
  \/ format = "zip" /\ Len(members) > MAX_ARCHIVE_MEMBERS
  \/ format = "tar" /\ pc = "extract" /\ next > MAX_ARCHIVE_MEMBERS

\* Members written out as regular files.  The zip reader looks for symbolic links
\* only, the tar reader for regular files.
Stored(m) == m.kind = "file" \/ (m.kind = "special" /\ format = "zip")

\* The name is empty, absolute or leads out of the scratch directory.
BadName(m) == ~m.named

\* Mutants: a total that is exactly at the limit is refused; each file is held to
\* the limit alone.
RefusesFullArchive(m) ==
  \/ BadName(m)
  \/ m.kind # "dir" /\ ~Stored(m)
  \/ Stored(m) /\ total + m.size >= MAX_ARCHIVE_BYTES

RefusesEachAlone(m) ==
  \/ BadName(m)
  \/ m.kind # "dir" /\ ~Stored(m)
  \/ Stored(m) /\ m.size > MAX_ARCHIVE_BYTES

\* The checks that raise InputError: the name, the kind, the bytes.
Refuses(m) ==
  \/ BadName(m)
  \/ m.kind # "dir" /\ ~Stored(m)
  \/ Stored(m) /\ total + m.size > MAX_ARCHIVE_BYTES

\* What mkdir() and open() cannot do: a directory where a file is, a file where a
\* directory is, anything below a file.
Clashes(m) ==
  \/ Above(m.path) \cap Files # {}
  \/ m.kind = "dir" /\ m.path \in Files
  \/ Stored(m) /\ m.path \in dirs

Breaks(m) == Clashes(m) \/ (Stored(m) /\ ~m.sound)

\* safe_extract() turns an OSError or a TarError into an InputError, for tar only;
\* what the decompressor raises, and all that a zip raises, reaches work() as it is.
BreakCodes(m) ==
  IF format = "zip" THEN {"parse_failed"}
  ELSE {"input_rejected"} \cup {c \in {"parse_failed"} : ~Clashes(m)}

-----------------------------------------------------------------------------
Init ==
  /\ format \in {"zip", "tar", "damaged zip", "neither"}
  /\ members \in SeqOf(Members, MaxMembers)
  /\ pc = "open"
  /\ next = 1
  /\ total = 0
  /\ dirs = {}
  /\ content = [p \in Paths |-> 0]
  /\ written = <<>>
  /\ answer = "none"

\* An exception leaves the scratch directory, which is removed with all in it.
Raise(code) ==
  /\ pc' = "done"
  /\ answer' = code
  /\ dirs' = {}
  /\ content' = [p \in Paths |-> 0]
  /\ written' = <<>>
  /\ UNCHANGED <<archive, next, total>>

Open ==
  /\ pc = "open"
  /\ \/ format = "neither" /\ Raise("input_rejected")
     \/ format = "damaged zip" /\ Raise("parse_failed")
     \/ TooMany /\ Raise("input_rejected")
     \/ /\ format \in {"zip", "tar"} /\ ~TooMany
        /\ pc' = "extract"
        /\ UNCHANGED <<archive, next, total, tree, written, answer>>

Refuse ==
  /\ More
  /\ TooMany \/ Refuses(Member)
  /\ Raise("input_rejected")

Break ==
  /\ More
  /\ ~TooMany /\ ~Refuses(Member) /\ Breaks(Member)
  /\ \E code \in BreakCodes(Member) : Raise(code)

Good == More /\ ~TooMany /\ ~Refuses(Member) /\ ~Breaks(Member)

MakeDir ==
  /\ Good /\ Member.kind = "dir"
  /\ dirs' = dirs \cup {Member.path} \cup Above(Member.path)
  /\ next' = next + 1
  /\ UNCHANGED <<archive, pc, total, content, written, answer>>

\* Mutant: an empty file is not listed.
WriteFileUnlisted ==
  /\ Good /\ Stored(Member)
  /\ total' = total + Member.size
  /\ dirs' = dirs \cup Above(Member.path)
  /\ content' = [content EXCEPT ![Member.path] = next]
  /\ written' = IF Member.size > 0 THEN Append(written, Member.path) ELSE written
  /\ next' = next + 1
  /\ UNCHANGED <<archive, pc, answer>>

WriteFile ==
  /\ Good /\ Stored(Member)
  /\ total' = total + Member.size
  /\ dirs' = dirs \cup Above(Member.path)
  /\ content' = [content EXCEPT ![Member.path] = next]
  /\ written' = Append(written, Member.path)
  /\ next' = next + 1
  /\ UNCHANGED <<archive, pc, answer>>

Return ==
  /\ pc = "extract" /\ next > Len(members)
  /\ pc' = "parse"
  /\ answer' = "extracted"
  /\ UNCHANGED <<archive, next, total, tree, written>>

\* The member loop has read every file in the list; the scratch directory goes.
Leave == pc = "parse" /\ Raise("extracted")

Next == Open \/ Refuse \/ Break \/ MakeDir \/ WriteFile \/ Return \/ Leave

Spec == Init /\ [][Next]_vars

-----------------------------------------------------------------------------
(* Properties.                                                             *)

\* The values every variable may take; the limits hold at every moment.
TypeOK ==
  /\ format \in {"zip", "tar", "damaged zip", "neither"}
  /\ members \in Seq(Members)
  /\ pc \in {"open", "extract", "parse", "done"}
  /\ next \in 1 .. Len(members) + 1
  /\ total \in 0 .. MAX_ARCHIVE_BYTES
  /\ dirs \subseteq Paths
  /\ content \in [Paths -> 0 .. Len(members)]
  /\ written \in Seq(Paths)
  /\ answer \in {"none", "input_rejected", "parse_failed", "extracted"}

Named(i, kind) == members[i].kind = kind

IsFile(i) == Stored(members[i])

\* What an archive has to be, whatever the order of its members: within the
\* limits, each member fit to extract, and no path both a file and a directory.
Acceptable ==
  LET I == DOMAIN members
      \* Bytes are counted by what is declared, duplicates included.
      Bytes == SumFunctionOnSet([i \in I |-> members[i].size], {i \in I : IsFile(i)})
  IN /\ format \in {"zip", "tar"}
     /\ Len(members) <= MAX_ARCHIVE_MEMBERS
     /\ Bytes <= MAX_ARCHIVE_BYTES
     /\ \A i \in I : ~BadName(members[i]) /\ (Named(i, "dir") \/ IsFile(i))
     /\ \A i \in I : IsFile(i) =>
          /\ members[i].sound
          /\ \A j \in I : /\ members[i].path \notin Above(members[j].path)
                          /\ Named(j, "dir") => members[i].path # members[j].path

\* The loop stops at the first thing it cannot do, and zip and tar check in
\* different orders and places; but whether an archive is accepted does not depend
\* on the order of its members, and only special files tell the formats apart: a
\* zip with one is extracted, a tar with one is refused.
AcceptedExactly == answer # "none" => (answer = "extracted" <=> Acceptable)

\* What the member loop is given is what is there: every listed path is a file, no
\* file is missing from the list, and no path is both a file and a directory.
ListIsTheTree ==
  /\ ToSet(written) = Files
  /\ Files \cap dirs = {}
  /\ \A p \in Files \cup dirs : Above(p) \subseteq dirs

\* limits.py: "total expanded bytes".  At no moment does the scratch directory hold
\* more than MAX_ARCHIVE_BYTES, or more files than MAX_ARCHIVE_MEMBERS.
ScratchBounded ==
  /\ SumFunction([p \in Files |-> members[content[p]].size]) <= MAX_ARCHIVE_BYTES
  /\ Cardinality(Files) <= MAX_ARCHIVE_MEMBERS
=============================================================================
