----------------------------- MODULE MCChunking -----------------------------
(* An instance of Chunking for TLC. *)
EXTENDS Chunking

\* The ink of a line: L is a letter.
L == TRUE
S == FALSE

Plain(ink) == [mark |-> "text", level |-> 0, char |-> "", size |-> 0, info |-> FALSE, ink |-> ink]
Heading(level) == [mark |-> "heading", level |-> level, char |-> "", size |-> 0, info |-> FALSE, ink |-> <<L>>]
Fence(char, size, info) ==
    [mark |-> "fence", level |-> 0, char |-> char, size |-> size, info |-> info, ink |-> <<L, L, L>>]

MCLines ==
    {Plain(<<>>), Plain(<<S>>), Plain(<<L, S, L, L>>), Plain(<<L, L, L, L, L>>),
     Heading(1), Heading(2), Heading(3),
     Fence("backtick", 3, FALSE), Fence("backtick", 4, FALSE), Fence("tilde", 3, FALSE),
     Fence("tilde", 3, TRUE)}
=============================================================================
