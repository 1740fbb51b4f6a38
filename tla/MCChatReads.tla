---------------------------- MODULE MCChatReads -----------------------------
(***************************************************************************)
(* Finite instances of ChatReads: those of ChatLog, with a reader.         *)
(***************************************************************************)
EXTENDS MCChatLog, ChatReads

\* From the beginning, from the middle, from a number that int64() makes negative;
\* the default limit, single entries, no entries, more than maxHistoryLimit.
Froms == {None, 1, SignBit, Garbage}
SmallFroms == Froms \ {SignBit}
Limits == {None, 0, 1, maxHistoryLimit + 1}
=============================================================================
