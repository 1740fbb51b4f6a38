--------------------------- MODULE AppendOnlyLog ----------------------------
(***************************************************************************)
(* What the node promises its callers, without mutexes, hashes, snapshots  *)
(* or failures of its parts: each chat is one sequence of messages that    *)
(* only ever grows at its end; an acknowledged call was appended, once, at *)
(* the position its caller is told; a call that fails, or whose node dies, *)
(* was appended before, or never, or is abandoned and may be later.        *)
(***************************************************************************)
EXTENDS Naturals, FiniteSets

CONSTANTS Callers, Chats, Messages, None

VARIABLES
    log,        \* log[c][s]: the message at position s of chat c
    call,       \* each caller's call: its state, what it asks and where it went
    ack,        \* each caller's last acknowledgement
    abandoned   \* failed calls that may yet be appended: <<chat, message>>

NoCall == [State |-> "none", Chat |-> None, Msg |-> None, At |-> None]

absVars == <<log, call, ack, abandoned>>

Init ==
    /\ log = [c \in Chats |-> [s \in {} |-> None]]
    /\ call = [p \in Callers |-> NoCall]
    /\ ack = [p \in Callers |-> None]
    /\ abandoned = {}

\* The position after the last message of a chat.
End(c) == Cardinality(DOMAIN log[c])

Extend(c, m) ==
    log' = [log EXCEPT ![c] = [s \in 0 .. End(c) |-> IF s = End(c) THEN m ELSE log[c][s]]]

Submit(p, c, m) ==
    /\ call[p].State = "none"
    /\ call' = [call EXCEPT ![p] = [State |-> "open", Chat |-> c, Msg |-> m, At |-> None]]
    /\ ack' = [ack EXCEPT ![p] = None]
    /\ UNCHANGED <<log, abandoned>>

Commit(p) ==
    /\ call[p].State = "open"
    /\ Extend(call[p].Chat, call[p].Msg)
    /\ call' = [call EXCEPT ![p] = [State |-> "committed", Chat |-> @.Chat, Msg |-> @.Msg,
                                   At |-> End(@.Chat)]]
    /\ UNCHANGED <<ack, abandoned>>

Acknowledge(p) ==
    /\ call[p].State = "committed"
    /\ call' = [call EXCEPT ![p] = NoCall]
    /\ ack' = [ack EXCEPT ![p] = call[p]]
    /\ UNCHANGED <<log, abandoned>>

\* The calls of P, none or several, end without an acknowledgement.
Fail(P) ==
    /\ call' = [p \in Callers |-> IF p \in P THEN NoCall ELSE call[p]]
    /\ ack' = [p \in Callers |-> IF p \in P THEN None ELSE ack[p]]
    /\ \E Q \in SUBSET {p \in P : call[p].State = "open"} :
           abandoned' = abandoned \cup {<<call[p].Chat, call[p].Msg>> : p \in Q}
    /\ UNCHANGED log

\* The same message may have been abandoned more than once.
LateCommit(w) ==
    /\ Extend(w[1], w[2])
    /\ abandoned' \in {abandoned, abandoned \ {w}}
    /\ UNCHANGED <<call, ack>>

Next ==
    \/ \E p \in Callers :
        \/ \E c \in Chats, m \in Messages : Submit(p, c, m)
        \/ Commit(p)
        \/ Acknowledge(p)
    \/ \E P \in SUBSET Callers : Fail(P)
    \/ \E w \in abandoned : LateCommit(w)

Spec == Init /\ [][Next]_absVars
=============================================================================
