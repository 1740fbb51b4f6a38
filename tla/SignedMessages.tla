--------------------------- MODULE SignedMessages ---------------------------
(***************************************************************************)
(* internal/models/message.go and internal/crypto/keys.go: signed          *)
(* messages, log entries and their hashes.                                 *)
(*                                                                         *)
(* A key pair is one value, a signature is the pair of key and signed      *)
(* payload, and a hash is the tuple of what was hashed.  Content is        *)
(* represented by its length, the only thing the server looks at; sender   *)
(* id, content type, filename and the encrypted flag only ever travel      *)
(* inside the payload and are left out with the content bytes.             *)
(***************************************************************************)
EXTENDS Naturals

CurrentSchemaVersion == 1
GenesisHash == <<>>
NoSignature == <<>>

\* Clock readings are ticks, TicksPerMilli of them to a millisecond: enough to
\* tell a millisecond-aligned timestamp from one that is not.
TicksPerMilli == 2

Truncate(t) == t - (t % TicksPerMilli)

\* A message with the clock reading as it is.
NewMessageUntruncated(chat, id, key, content, now) ==
    [SchemaVersion |-> CurrentSchemaVersion, MessageID |-> id, ChatID |-> chat,
     Content |-> content, Timestamp |-> now, PublicKey |-> key,
     Signature |-> NoSignature]

\* models.NewMessage: what a client builds before signing.
NewMessage(chat, id, key, content, now) ==
    [SchemaVersion |-> CurrentSchemaVersion, MessageID |-> id, ChatID |-> chat,
     Content |-> content, Timestamp |-> Truncate(now), PublicKey |-> key,
     Signature |-> NoSignature]

\* A payload that leaves the chat out, as if it were only routing information.
PayloadWithoutChat(m) ==
    <<m.SchemaVersion, m.MessageID, m.Content, m.Timestamp, m.PublicKey>>

\* Everything but the signature itself is signed.
SigningPayload(m) ==
    <<m.SchemaVersion, m.MessageID, m.ChatID, m.Content, m.Timestamp, m.PublicKey>>

Sign(key, data) == <<key, data>>

SignMessage(m, key) == [m EXCEPT !.Signature = Sign(key, SigningPayload(m))]

VerifyMessage(m) ==
    /\ m.Signature # NoSignature
    /\ m.Signature = Sign(m.PublicKey, SigningPayload(m))

\* A hash of the entry alone, that commits to nothing before it.
ComputeHashUnchained(e) ==
    <<e.Sequence, <<>>, << SigningPayload(e.Message), e.Message.Signature >> >>

\* LogEntry.ComputeHash: position, predecessor and message digest.
ComputeHash(e) ==
    <<e.Sequence, e.PrevHash, << SigningPayload(e.Message), e.Message.Signature >> >>
=============================================================================
