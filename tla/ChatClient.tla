----------------------------- MODULE ChatClient -----------------------------
(***************************************************************************)
(* web/src/chat/useChat.ts: one chat view, with the history, send and      *)
(* stream endpoints it talks to.                                           *)
(*                                                                         *)
(* Entries are their sequences and the server's log is its length.  Every  *)
(* request is three steps: sent, answered by the server, received by the   *)
(* view; requests overlap and their answers arrive in any order.           *)
(***************************************************************************)
EXTENDS Naturals, Sequences, FiniteSets, FiniteSetsExt

CONSTANTS
    Slots,       \* bound: requests in flight
    PageSize,    \* PAGE_SIZE
    MaxLen,      \* bound: length of the log
    Failures,    \* whether requests may fail (network, 429, 500)
    NullPages,   \* whether an empty page is null, as the ScyllaDB adapter makes it
    None

ASSUME PageAssumption == PageSize \in Nat \ {0}
ASSUME BoundAssumption == MaxLen \in Nat
ASSUME FlagAssumption == {Failures, NullPages} \subseteq BOOLEAN

VARIABLES
    len,       \* entries in the server's log
    messages,  \* entries shown, in order of display
    nextSeq,   \* nextSeqRef
    caughtUp,
    req,       \* the request in each slot: kind, first sequence, answer
    stream,    \* the WebSocket: closed, connecting, open, lost
    events,    \* entry_appended events it has not delivered yet
    sent,      \* whether the view shows an entry it has sent itself
    newest,    \* the slot whose fetch is for the newest event, once there is one
    failed     \* whether that fetch has failed

vars == <<len, messages, nextSeq, caughtUp, req, stream, events, sent, newest, failed>>
view == <<messages, nextSeq, caughtUp, stream>>
told == <<newest, failed>>

Request(kind) == [Kind |-> kind, From |-> nextSeq, Answer |-> None]

\* On mount the view is reset and the first page requested.
Init ==
    /\ len \in 0 .. MaxLen
    /\ messages = <<>> /\ nextSeq = 0
    /\ caughtUp = FALSE
    /\ \E s \in Slots :
        req = [t \in Slots |-> IF t = s THEN [Kind |-> "load", From |-> 0, Answer |-> None]
                                        ELSE None]
    /\ stream = "closed" /\ events = 0
    /\ sent = FALSE /\ newest = None /\ failed = FALSE

-----------------------------------------------------------------------------
(***************************************************************************)
(* The server.                                                             *)
(***************************************************************************)

\* Sends that the log has to have room for.
Sending == {s \in Slots : req[s] # None /\ req[s].Kind = "send" /\ req[s].Answer = None}

\* An append publishes an event: it reaches the open stream, or is dropped at a
\* full channel.
Grow ==
    /\ len < MaxLen
    /\ len' = len + 1
    /\ \/ /\ stream = "open"
          /\ events' = events + 1
          /\ newest' = None /\ failed' = FALSE
       \/ /\ stream # "open" \/ Failures
          /\ UNCHANGED <<events, told>>

OtherAppends ==
    /\ len + Cardinality(Sending) < MaxLen
    /\ Grow
    /\ UNCHANGED <<view, req, sent>>

\* handleHistory: a full page has a next_from.
Page(from) ==
    LET last == IF len < from + PageSize THEN len ELSE from + PageSize
    IN  [Messages |-> [i \in 1 .. last - from |-> from + i - 1],
         More     |-> last - from = PageSize]

Answering(s, kinds) == req[s] # None /\ req[s].Kind \in kinds /\ req[s].Answer = None

ServeHistory(s) ==
    /\ Answering(s, {"load", "live"})
    /\ req' = [req EXCEPT ![s].Answer = Page(req[s].From)]
    /\ UNCHANGED <<len, view, events, sent, told>>

ServeSend(s) ==
    /\ Answering(s, {"send"})
    /\ req' = [req EXCEPT ![s].Answer = len]
    /\ Grow
    /\ UNCHANGED <<view, sent>>

\* The server has subscribed the stream and the handshake is complete.
Connect ==
    /\ stream = "connecting"
    /\ stream' = "open"
    /\ UNCHANGED <<len, messages, nextSeq, caughtUp, req, events, sent, told>>

-----------------------------------------------------------------------------
(***************************************************************************)
(* The view.                                                               *)
(***************************************************************************)

\* entries.filter: the first k of the entries, without those already seen.
Kept(entries, seen) ==
    LET kept[k \in 0 .. Len(entries)] ==
            IF k = 0 THEN <<>>
            ELSE IF entries[k] \in seen THEN kept[k - 1]
            ELSE Append(kept[k - 1], entries[k])
    IN  kept

Fresh(entries, seen) == Kept(entries, seen)[Len(entries)]

\* Appending without the set of sequences already shown.
appendAll(entries) ==
    IF entries = <<>> THEN UNCHANGED <<messages, nextSeq>>
    ELSE /\ messages' = messages \o entries
         /\ nextSeq' = Max({nextSeq, entries[Len(entries)] + 1})

\* A cursor that counts the entries received.
appendCounting(entries) ==
    LET seen == {messages[k] : k \in DOMAIN messages}
    IN  /\ messages' = messages \o Fresh(entries, seen)
        /\ nextSeq' = nextSeq + Len(entries)

\* A cursor that follows the last answer, without Math.max.
appendLatest(entries) ==
    LET seen == {messages[k] : k \in DOMAIN messages}
    IN  IF entries = <<>> THEN UNCHANGED <<messages, nextSeq>>
        ELSE /\ messages' = messages \o Fresh(entries, seen)
             /\ nextSeq' = entries[Len(entries)] + 1

appendEntries(entries) ==
    LET seen == {messages[k] : k \in DOMAIN messages}
    IN  IF entries = <<>> THEN UNCHANGED <<messages, nextSeq>>
        ELSE /\ messages' = messages \o Fresh(entries, seen)
             /\ nextSeq' = Max({nextSeq, entries[Len(entries)] + 1})

\* `.length` of a null page throws.
Throws(page) == NullPages /\ page.Messages = <<>>

Free(s) == req' = [req EXCEPT ![s] = None]

Answered(s, kind) == req[s] # None /\ req[s].Kind = kind /\ req[s].Answer # None

Start(s, kind) ==
    /\ req[s] = None
    /\ req' = [req EXCEPT ![s] = Request(kind)]

\* The button, shown until the view has caught up.
LoadMore(s) ==
    /\ ~ caughtUp
    /\ Start(s, "load")
    /\ UNCHANGED <<len, view, events, sent, told>>

\* The stream effect follows caughtUp: an open stream stays, its cleanup closes it.
StreamEffect(up) ==
    /\ caughtUp' = up
    /\ stream' = IF ~ up THEN "closed" ELSE IF caughtUp THEN stream ELSE "connecting"
    /\ events' = IF up THEN events ELSE 0

PageLoaded(s) ==
    /\ Answered(s, "load")
    /\ LET page == req[s].Answer
       IN  \/ /\ Throws(page)
              /\ UNCHANGED <<messages, nextSeq, caughtUp, stream, events>>
           \/ /\ ~ Throws(page)
              /\ appendEntries(page.Messages)
              /\ StreamEffect(~ page.More)
    /\ Free(s)
    /\ UNCHANGED <<len, sent, told>>

\* A handler that leaves an event to the fetch that is already under way.
OnEventCoalesced(s) ==
    /\ stream = "open" /\ events > 0
    /\ \/ /\ \E t \in Slots : req[t] # None /\ req[t].Kind = "live"
          /\ UNCHANGED <<req, newest>>
       \/ /\ \A t \in Slots : req[t] # None => req[t].Kind # "live"
          /\ Start(s, "live")
          /\ newest' = IF events = 1 THEN s ELSE newest
    /\ events' = events - 1
    /\ UNCHANGED <<len, view, sent, failed>>

\* An event asks for what is new since the last sequence.
OnEvent(s) ==
    /\ stream = "open" /\ events > 0
    /\ Start(s, "live")
    /\ newest' = IF events = 1 THEN s ELSE newest
    /\ events' = events - 1
    /\ UNCHANGED <<len, view, sent, failed>>

\* The fetch for the newest event, if this was it, is over.
FetchEnds(s) == newest' = IF newest = s THEN None ELSE newest

PageLive(s) ==
    /\ Answered(s, "live")
    /\ IF Throws(req[s].Answer) THEN UNCHANGED <<messages, nextSeq>>
       ELSE appendEntries(req[s].Answer.Messages)
    /\ Free(s)
    /\ FetchEnds(s)
    /\ UNCHANGED <<len, caughtUp, stream, events, sent, failed>>

Send(s) ==
    /\ len + Cardinality(Sending) < MaxLen
    /\ Start(s, "send")
    /\ UNCHANGED <<len, view, events, sent, told>>

SendDone(s) ==
    /\ Answered(s, "send")
    /\ appendEntries(<<req[s].Answer>>)
    /\ sent' = TRUE
    /\ Free(s)
    /\ UNCHANGED <<len, caughtUp, stream, events, told>>

\* A request fails: load and send show the error, a live fetch has no catch.
\* Nothing is fetched again.
RequestFails(s) ==
    /\ Failures
    /\ req[s] # None
    /\ failed' = (failed \/ newest = s)
    /\ Free(s)
    /\ FetchEnds(s)
    /\ UNCHANGED <<len, messages, nextSeq, caughtUp, stream, events, sent>>

\* The WebSocket is lost: the view has no handler for that and does not reconnect.
StreamFails ==
    /\ Failures
    /\ stream \in {"connecting", "open"}
    /\ stream' = "lost"
    /\ events' = 0
    /\ UNCHANGED <<len, messages, nextSeq, caughtUp, req, sent, told>>

-----------------------------------------------------------------------------
Next ==
    \/ OtherAppends \/ Connect \/ StreamFails
    \/ \E s \in Slots :
        \/ ServeHistory(s) \/ ServeSend(s)
        \/ LoadMore(s) \/ PageLoaded(s)
        \/ OnEvent(s) \/ PageLive(s)
        \/ Send(s) \/ SendDone(s)
        \/ RequestFails(s)

\* The server answers, the browser delivers answers and events.  An event is
\* strongly fair because it may find no free slot, which is a bound of the model.
Fairness ==
    /\ SF_vars(\E s \in Slots : OnEvent(s))
    /\ \A s \in Slots :
        /\ WF_vars(ServeHistory(s) \/ ServeSend(s))
        /\ WF_vars(PageLoaded(s) \/ PageLive(s) \/ SendDone(s))

Spec == Init /\ [][Next]_vars /\ Fairness

-----------------------------------------------------------------------------
(***************************************************************************)
(* Properties.                                                             *)
(***************************************************************************)

(***************************************************************************)
(* No entry is shown twice, however the answers of overlapping history     *)
(* fetches, live fetches and sends are ordered (useChat.ts appendEntries:  *)
(* "can race and both deliver the same entry").                            *)
(***************************************************************************)
NoDuplicates ==
    \A j, k \in DOMAIN messages : messages[j] = messages[k] => j = k

(***************************************************************************)
(* The cursor stays one past the newest entry shown and never runs ahead   *)
(* of the log, whichever request moved it last (useChat.ts nextSeqRef).    *)
(***************************************************************************)
CursorAtNewest ==
    /\ nextSeq <= len
    /\ nextSeq = IF messages = <<>> THEN 0
                 ELSE Max({messages[k] : k \in DOMAIN messages}) + 1

(***************************************************************************)
(* Until it shows an entry of its own, a view shows a prefix of the log, in*)
(* order, at every moment: failed, repeated and reordered fetches, null    *)
(* pages and a lost stream never leave a hole (useChat.ts loadMore and the *)
(* stream effect; stream.ts: "callers always re-derive truth from the REST *)
(* history endpoint").                                                     *)
(***************************************************************************)
ShownIsPrefix == ~ sent => messages = [k \in 1 .. nextSeq |-> k - 1]

(***************************************************************************)
(* A view that is behind and is told of an entry moves on, although the    *)
(* answer of a send was lost, fetches for earlier events failed or events  *)
(* were dropped: only when the fetch for the newest event that has reached *)
(* it fails, or the stream ends, does it stay where it is (useChat.ts      *)
(* stream effect: "fetch what's new since our last sequence").             *)
(***************************************************************************)
ToldAdvances ==
    \A n \in 0 .. MaxLen - 1 :
        (stream = "open" /\ events > 0 /\ nextSeq = n /\ n < len)
            ~> (nextSeq > n \/ failed \/ stream # "open")

Quiet == \A s \in Slots : req[s] = None

(***************************************************************************)
(* With nothing in flight, every entry before the cursor is shown: the     *)
(* cursor is "the next sequence to fetch" (useChat.ts nextSeqRef), and no  *)
(* later request asks for anything before it.                              *)
(***************************************************************************)
NoHole ==
    Quiet => \A s \in 0 .. MaxLen : s < nextSeq => \E k \in DOMAIN messages : messages[k] = s

(***************************************************************************)
(* A live view with nothing in flight shows the whole log (useChat.ts:     *)
(* "caught up to the live tip"; README.md: "so clients don't have to poll  *)
(* history").                                                              *)
(***************************************************************************)
LiveShowsAll == (stream = "open" /\ events = 0 /\ Quiet) => nextSeq = len

=============================================================================
