------------------------------ MODULE MCFiles ------------------------------
(* FileTable for TLC: two names for a file of two bytes, a parent and a      *)
(* child, the standard output and one more descriptor each, one stream.      *)
EXTENDS FileTable, TLC

CONSTANTS p, q

MCPaths == {p, q}
EitherName == Permutations({p, q})
MCInodes == {1}
MCStreams == {1}
MCFds == {1, 3}
MCTables == {1, 2}
MCTexts == {"lf"}

\* A spelling of every kind FileTable::open answers as it is asked.
MCSpellings == {StdioMode("r", FALSE, TRUE),  StdioMode("r", TRUE, FALSE),
                PosixFlags("rdwr", {}),       PosixFlags("wronly", {"creat", "trunc"}),
                StdioMode("a", TRUE, TRUE),   Win32Flags({"read", "write"}, "create_new")}

ASSUME SpellingsAsAsked

\* What a call answered has no part in what can happen next.
Standing == <<names, disk, stream, buffer, table, wrote>>

=============================================================================
