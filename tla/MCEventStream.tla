--------------------------- MODULE MCEventStream ----------------------------
(***************************************************************************)
(* Finite instances of EventStream.                                        *)
(***************************************************************************)
EXTENDS EventStream

\* A stream of one chat, whose broker carries another chat's events too.
OneStream == [s \in {"s1"} |-> "c1"]
=============================================================================
