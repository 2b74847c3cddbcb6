-------------------------- MODULE MCArchiveExtract --------------------------
(* Instances of ArchiveExtract for TLC.                                    *)
EXTENDS ArchiveExtract

A == <<"a">>
AB == <<"a", "b">>
C == <<"c">>

MCPaths == {A, AB, C}

Of(p, k, n) == [path |-> p, named |-> TRUE, kind |-> k, size |-> n, sound |-> TRUE]

\* Files, directories, a link, a special file, a name that is refused, a file cut short.
MCMembers ==
  {Of(p, "file", n) : p \in MCPaths, n \in {0, 1, 2}}
    \cup {Of(p, "dir", 0) : p \in MCPaths}
    \cup {Of(C, "link", 0), Of(C, "special", 1),
          [Of(C, "file", 1) EXCEPT !.named = FALSE],
          [Of(C, "file", 1) EXCEPT !.sound = FALSE]}
=============================================================================
