-------------------------- MODULE MCNodeLifecycle ---------------------------
(***************************************************************************)
(* Finite instances of NodeLifecycle: those of ChatLog, started and        *)
(* stopped.                                                                *)
(***************************************************************************)
EXTENDS MCChatLog, NodeLifecycle
=============================================================================
