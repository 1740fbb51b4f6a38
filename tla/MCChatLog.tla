----------------------------- MODULE MCChatLog ------------------------------
(***************************************************************************)
(* Finite instances of ChatLog.                                            *)
(***************************************************************************)
EXTENDS ChatLogRefines

CONSTANTS p1, p2, n1, n2

\* One sender's messages to a chat, at a clock reading between two milliseconds.
Now == TicksPerMilli + 1

Signed(chat, id, content, now) == SignMessage(NewMessage(chat, id, "alice", content, now), "alice")

Valid(chat, id) == [Path |-> chat, Cap |-> 0, Msg |-> Signed(chat, id, 1, Now)]

Unsigned(chat) == [Path |-> chat, Cap |-> 0, Msg |-> NewMessage(chat, "x", "alice", 1, Now)]
Oversized(chat) == [Path |-> chat, Cap |-> 1, Msg |-> Signed(chat, "x", 2, Now)]

\* Requests the handlers turn away: no signature, an oversized attachment, another
\* schema version, a message signed for another chat, a key that did not sign.
Invalid(chat, other) ==
    LET m == Signed(chat, "x", 1, Now)
    IN  { Unsigned(chat),
          Oversized(chat),
          [Path |-> chat, Cap |-> 0,
           Msg |-> SignMessage([m EXCEPT !.SchemaVersion = CurrentSchemaVersion + 1], "alice")],
          [Path |-> other, Cap |-> 0, Msg |-> m],
          [Path |-> chat, Cap |-> 0, Msg |-> [m EXCEPT !.PublicKey = "bob"]] }

OneNode == [p \in {p1, p2} |-> n1]
OneProc == [p \in {p1} |-> n1]
TwoNodes == [p \in {p1, p2} |-> IF p = p1 THEN n1 ELSE n2]

\* Exchanging the two nodes, each with its goroutine, changes nothing.
NodeSymmetry ==
    {f \in Permutations({p1, p2, n1, n2}) : f[p1] \in {p1, p2} /\ f[n1] = TwoNodes[f[p1]]
                                           /\ f[p2] \in {p1, p2}}

TwoChatRequests == {Valid("c1", "a"), Valid("c2", "a")} \cup Invalid("c1", "c2")
OneChatRequests == {Valid("c1", "a"), Valid("c1", "b"), Unsigned("c1")}
MixedRequests == OneChatRequests \cup {Oversized("c1")}
OneRequest == {Valid("c1", "a")}
=============================================================================
