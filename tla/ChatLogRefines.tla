--------------------------- MODULE ChatLogRefines ---------------------------
(***************************************************************************)
(* ChatLog implements AppendOnlyLog: the refinement mapping.               *)
(*                                                                         *)
(* A message is identified by its signature, which storage keeps as it is. *)
(* A call is committed when its row is, before it is published and         *)
(* snapshotted; it is acknowledged by 201.                                 *)
(***************************************************************************)
EXTENDS ChatLog

Identity(m) == m.Signature

\* A goroutine whose row is not written yet.
Uncommitted == {"lock", "readTip", "append"}

AbsLog == [c \in Chats |-> [s \in DOMAIN rows[c] |-> Identity(rows[c][s].Message)]]

CallOf(p) ==
    IF pc[p] = "idle" THEN [State |-> "none", Chat |-> None, Msg |-> None, At |-> None]
    ELSE IF pc[p] \in Uncommitted
    THEN [State |-> "open", Chat |-> Chat(p), Msg |-> Identity(msg[p]), At |-> None]
    ELSE [State |-> "committed", Chat |-> Chat(p), Msg |-> Identity(msg[p]),
          At |-> entry[p].Sequence]

AckOf(p) ==
    IF response[p].Status # 201 THEN None
    ELSE LET e == response[p].Entry
         IN  [State |-> "committed", Chat |-> e.Message.ChatID, Msg |-> Identity(e.Message),
              At |-> e.Sequence]

AbsCall == [p \in Procs |-> CallOf(p)]

AbsAck == [p \in Procs |-> AckOf(p)]

AbsAbandoned == {<<w.Chat, Identity(w.Entry.Message)>> : w \in limbo}

Abs == INSTANCE AppendOnlyLog
       WITH Callers <- Procs, Messages <- {Identity(r.Msg) : r \in Requests},
            log <- AbsLog, call <- AbsCall, ack <- AbsAck, abandoned <- AbsAbandoned

(***************************************************************************)
(* Whatever the goroutines of several nodes, their failing writes and      *)
(* their crashes do, callers see the abstract log: messages are appended   *)
(* one at a time at the end, an answer 201 names a message that was        *)
(* appended by this very call at this position, and what a failed call     *)
(* leaves behind is appended late, once, or never (log.go Append,          *)
(* storage.go and scylla.go AppendEntry).                                  *)
(***************************************************************************)
Implements == Abs!Spec
=============================================================================
