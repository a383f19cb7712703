--------------------------- MODULE MC_UsageQueries ---------------------------
(***************************************************************************)
(* Rows of two chats and of two sources, and an archive of raw logs, small  *)
(* enough to check the queries on.  Two rows of the codex source are such   *)
(* as the usage clause refuses.                                             *)
(***************************************************************************)
EXTENDS UsageQueries

CONSTANTS chatA, chatB, gpt

MCRow(source, thread, tokens, broken) ==
    [source |-> source, thread |-> thread, model |-> gpt, tokens |-> tokens, broken |-> broken]

MCKinds ==
    {MCRow("codex", chatA, 1, FALSE), MCRow("codex", chatA, 2, FALSE),
     MCRow("codex", chatB, 0, FALSE), MCRow("codex", chatB, 1, TRUE),
     MCRow("opencode", chatB, 1, FALSE)}

MCRaw(thread, ts, named) == [thread |-> thread, ts |-> ts, named |-> named]

MCRawRows ==
    {MCRaw(chatA, 1, TRUE), MCRaw(chatA, 3, TRUE), MCRaw(chatB, 3, TRUE), MCRaw(chatB, 3, FALSE)}

MCRawLog == <<MCRaw(chatB, 3, TRUE), MCRaw(chatA, 1, TRUE), MCRaw(chatB, 3, FALSE)>>

\* Tables to begin with where there is not the time for all of them
MCTables ==
    {[id \in ids |-> Row(kind, 1)] :
        ids \in {{}, {2}},
        kind \in {MCRow("codex", chatA, 1, FALSE), MCRow("opencode", chatB, 1, FALSE)}}
=============================================================================
