---------------------------- MODULE EventStream -----------------------------
(***************************************************************************)
(* internal/broker (InMemory and RabbitMQ) and handleStream of             *)
(* internal/api: from Publish to the WebSocket frames of each subscriber.  *)
(*                                                                         *)
(* An event is its position in published.  InMemory.Publish sends to the   *)
(* subscribers' channels itself; with RabbitMQ it goes to one queue per    *)
(* subscriber, and a goroutine of Subscribe, the pump, moves it to the     *)
(* channel.  A step is one channel operation or one call on the broker.    *)
(***************************************************************************)
EXTENDS Naturals, Sequences, FiniteSets

CONSTANTS
    Brokers,    \* the adapters looked at: "memory", "rabbitmq"
    Streams,    \* WebSocket requests
    ChatOf,     \* the chat a stream is for
    Chats,
    Capacity,   \* of the event channel (64 in the code)
    MaxEvents,  \* bound: events published
    Faulty      \* whether RabbitMQ may refuse a subscription or be lost

ASSUME BrokerAssumption == Brokers \subseteq {"memory", "rabbitmq"}
ASSUME StreamAssumption == ChatOf \in [Streams -> Chats]
ASSUME CapacityAssumption == Capacity \in Nat \ {0}
ASSUME FaultyAssumption == Faulty \in BOOLEAN

VARIABLES
    broker,     \* the adapter main has wired
    up,         \* the node's one AMQP channel is open; it is not opened again
    published,  \* the chat of each event published
    phase,      \* of handleStream: new, bound, subscribed, streaming, closed, refused
    bound,      \* the broker delivers to the stream: map entry or bound queue
    queue,      \* RabbitMQ's queue of the subscription
    pump,       \* the pump: none, running, stopped
    cancelled,  \* the subscription's done channel is closed
    out,        \* the event channel
    closed,     \* whether it is closed
    gone,       \* the client has disconnected
    done,       \* the reader goroutine has seen it
    sent,       \* frames written to the client
    dropped,    \* events that found the channel full
    since       \* events published before the handshake completed

vars == <<broker, up, published, phase, bound, queue, pump, cancelled, out, closed, gone, done,
          sent, dropped, since>>
sub  == <<bound, queue, pump, cancelled>>
chan == <<out, closed, dropped>>
conn == <<gone, done, since>>

ForAll(v) == [s \in Streams |-> v]

Init ==
    /\ broker \in Brokers /\ up = TRUE
    /\ published = <<>>
    /\ phase = ForAll("new")
    /\ bound = ForAll(FALSE) /\ queue = ForAll(<<>>)
    /\ pump = ForAll("none") /\ cancelled = ForAll(FALSE)
    /\ out = ForAll(<<>>) /\ closed = ForAll(FALSE) /\ dropped = ForAll({})
    /\ gone = ForAll(FALSE) /\ done = ForAll(FALSE) /\ since = ForAll(0)
    /\ sent = ForAll(<<>>)

-----------------------------------------------------------------------------
(***************************************************************************)
(* The broker.                                                             *)
(***************************************************************************)

Full(s) == Len(out[s]) >= Capacity

\* A send with `default`: an event that finds the channel full is dropped.
TrySend(i, to) ==
    /\ out' = [s \in Streams |-> IF s \in to /\ ~ Full(s) THEN Append(out[s], i) ELSE out[s]]
    /\ dropped' = [s \in Streams |-> IF s \in to /\ Full(s) THEN dropped[s] \cup {i}
                                                         ELSE dropped[s]]

Publish(c) ==
    LET i  == Len(published) + 1
        to == {s \in Streams : up /\ bound[s]}
    IN  /\ Len(published) < MaxEvents
        /\ published' = Append(published, c)
        /\ \/ /\ broker = "memory"
              /\ TrySend(i, to)
              /\ UNCHANGED queue
           \/ /\ broker = "rabbitmq"
              /\ queue' = [s \in Streams |-> IF s \in to THEN Append(queue[s], i) ELSE queue[s]]
              /\ UNCHANGED <<out, dropped>>
        /\ UNCHANGED <<broker, up, phase, bound, pump, cancelled, closed, conn, sent>>

\* The pump's two cases; both may be ready.
PumpDelivers(s) ==
    /\ up /\ pump[s] = "running" /\ queue[s] # <<>>
    /\ TrySend(Head(queue[s]), {s})
    /\ queue' = [queue EXCEPT ![s] = Tail(@)]
    /\ UNCHANGED <<broker, up, published, phase, bound, pump, cancelled, closed, conn, sent>>

StopPump(s) ==
    /\ pump' = [pump EXCEPT ![s] = "stopped"]
    /\ closed' = [closed EXCEPT ![s] = TRUE]

\* A pump that does not look at ok when its deliveries end.
PumpStopsWhenCancelled(s) ==
    /\ pump[s] = "running" /\ cancelled[s]
    /\ StopPump(s)
    /\ UNCHANGED <<broker, up, published, phase, bound, queue, cancelled, out, dropped, conn, sent>>

PumpStops(s) ==
    /\ pump[s] = "running" /\ (cancelled[s] \/ ~ up)
    /\ StopPump(s)
    /\ UNCHANGED <<broker, up, published, phase, bound, queue, cancelled, out, dropped, conn, sent>>

\* The channel is lost: the deliveries of every subscription end.
ChannelCloses ==
    /\ Faulty /\ broker = "rabbitmq" /\ up
    /\ up' = FALSE
    /\ UNCHANGED <<broker, published, phase, sub, chan, conn, sent>>

-----------------------------------------------------------------------------
(***************************************************************************)
(* handleStream.                                                           *)
(***************************************************************************)

\* RabbitMQ's QueueDeclare and QueueBind: from now on the queue takes events.
BindQueue(s) ==
    /\ broker = "rabbitmq" /\ up /\ phase[s] = "new"
    /\ phase' = [phase EXCEPT ![s] = "bound"]
    /\ bound' = [bound EXCEPT ![s] = TRUE]
    /\ UNCHANGED <<broker, up, published, queue, pump, cancelled, chan, conn, sent>>

\* InMemory registers in one step; RabbitMQ's Consume starts the pump.
Subscribe(s) ==
    /\ \/ /\ broker = "memory" /\ phase[s] = "new"
          /\ bound' = [bound EXCEPT ![s] = TRUE]
          /\ UNCHANGED pump
       \/ /\ broker = "rabbitmq" /\ up /\ phase[s] = "bound"
          /\ pump' = [pump EXCEPT ![s] = "running"]
          /\ UNCHANGED bound
    /\ phase' = [phase EXCEPT ![s] = "subscribed"]
    /\ UNCHANGED <<broker, up, published, queue, cancelled, chan, conn, sent>>

\* The channel is closed already, or RabbitMQ refuses QueueDeclare, QueueBind or
\* Consume, which closes it.
SubscribeFails(s) ==
    /\ Faulty /\ broker = "rabbitmq" /\ phase[s] \in {"new", "bound"}
    /\ phase' = [phase EXCEPT ![s] = "refused"]
    /\ up' = FALSE
    /\ UNCHANGED <<broker, published, sub, chan, conn, sent>>

\* InMemory's cancel without the delete.
CancelKeepingEntry(s) ==
    /\ closed' = [closed EXCEPT ![s] = TRUE]
    /\ UNCHANGED <<bound, cancelled>>

\* InMemory's cancel removes the entry and closes the channel; RabbitMQ's stops
\* the pump and the consumer, and the pump closes the channel.
Cancel(s) ==
    /\ bound' = [bound EXCEPT ![s] = FALSE]
    /\ \/ /\ broker = "memory"
          /\ closed' = [closed EXCEPT ![s] = TRUE]
          /\ UNCHANGED cancelled
       \/ /\ broker = "rabbitmq"
          /\ cancelled' = [cancelled EXCEPT ![s] = TRUE]
          /\ UNCHANGED closed

\* `return` with its deferred Close and cancel.
Return(s) ==
    /\ phase' = [phase EXCEPT ![s] = "closed"]
    /\ Cancel(s)

UpgradeFails(s) ==
    /\ phase[s] = "subscribed"
    /\ Return(s)
    /\ UNCHANGED <<broker, up, published, queue, pump, out, dropped, conn, sent>>

Upgrade(s) ==
    /\ phase[s] = "subscribed"
    /\ phase' = [phase EXCEPT ![s] = "streaming"]
    /\ since' = [since EXCEPT ![s] = Len(published)]
    /\ UNCHANGED <<broker, up, published, sub, chan, gone, done, sent>>

\* The loop's select: the reader has ended, the channel is closed and empty, or a
\* write (an event of the chat, a ping) fails.
Leave(s) ==
    /\ phase[s] = "streaming"
    /\ \/ done[s]
       \/ out[s] = <<>> /\ closed[s]
       \/ gone[s]
    /\ Return(s)
    /\ UNCHANGED <<broker, up, published, queue, pump, out, dropped, conn, sent>>

\* A stream that passes on every chat's events.
ForwardAll(s) ==
    /\ phase[s] = "streaming" /\ out[s] # <<>>
    /\ out' = [out EXCEPT ![s] = Tail(@)]
    /\ sent' = IF ~ gone[s] THEN [sent EXCEPT ![s] = Append(@, Head(out[s]))] ELSE sent
    /\ UNCHANGED <<broker, up, published, phase, sub, closed, dropped, conn>>

\* It takes an event: another chat's is skipped; a write to a client that is gone
\* may still succeed.
Forward(s) ==
    /\ phase[s] = "streaming" /\ out[s] # <<>>
    /\ out' = [out EXCEPT ![s] = Tail(@)]
    /\ sent' = IF published[Head(out[s])] = ChatOf[s] /\ ~ gone[s]
               THEN [sent EXCEPT ![s] = Append(@, Head(out[s]))] ELSE sent
    /\ UNCHANGED <<broker, up, published, phase, sub, closed, dropped, conn>>

\* The client goes away; the reader goroutine notices later.
Disconnect(s) ==
    /\ phase[s] = "streaming" /\ ~ gone[s]
    /\ gone' = [gone EXCEPT ![s] = TRUE]
    /\ UNCHANGED <<broker, up, published, phase, sub, chan, done, since, sent>>

ReaderEnds(s) ==
    /\ gone[s] /\ ~ done[s]
    /\ done' = [done EXCEPT ![s] = TRUE]
    /\ UNCHANGED <<broker, up, published, phase, sub, chan, gone, since, sent>>

-----------------------------------------------------------------------------
\* A handler that completes the handshake first and subscribes second.
HandleUpgradingFirst(s) ==
    \/ /\ phase[s] = "new"
       /\ phase' = [phase EXCEPT ![s] = "streaming"]
       /\ since' = [since EXCEPT ![s] = Len(published)]
       /\ UNCHANGED <<broker, up, published, sub, chan, gone, done, sent>>
    \/ /\ up /\ phase[s] = "streaming" /\ ~ bound[s]
       /\ bound' = [bound EXCEPT ![s] = TRUE]
       /\ pump' = [pump EXCEPT ![s] = IF broker = "memory" THEN "none" ELSE "running"]
       /\ UNCHANGED <<broker, up, published, phase, queue, cancelled, chan, conn, sent>>
    \/ UpgradeFails(s) \/ Leave(s) \/ Forward(s)

Handle(s) == Upgrade(s) \/ UpgradeFails(s) \/ Leave(s) \/ Forward(s)
Pump(s)   == PumpDelivers(s) \/ PumpStops(s)

Next ==
    \/ \E c \in Chats : Publish(c)
    \/ ChannelCloses
    \/ \E s \in Streams :
        \/ BindQueue(s) \/ Subscribe(s) \/ SubscribeFails(s) \/ Handle(s)
        \/ Pump(s) \/ Disconnect(s) \/ ReaderEnds(s)

\* Goroutines that can go on are scheduled; nobody has to publish or disconnect.
Fairness == \A s \in Streams : WF_vars(Handle(s)) /\ WF_vars(Pump(s)) /\ WF_vars(ReaderEnds(s))

Spec == Init /\ [][Next]_vars /\ Fairness

-----------------------------------------------------------------------------
(***************************************************************************)
(* Properties.                                                             *)
(***************************************************************************)

(***************************************************************************)
(* Nobody sends on a closed channel, which would panic the publishing      *)
(* goroutine inside Append: while a subscriber is registered with the      *)
(* in-memory broker, or its pump runs, the channel is open (broker.go      *)
(* Subscribe, Publish; rabbitmq.go Subscribe).                             *)
(***************************************************************************)
NoSendOnClosed ==
    \A s \in Streams : ((broker = "memory" /\ bound[s]) \/ pump[s] = "running") => ~ closed[s]

(***************************************************************************)
(* The frames of a stream are events of its own chat, in the order they    *)
(* were published and none twice (server.go handleStream).                 *)
(***************************************************************************)
OwnChatInOrder ==
    \A s \in Streams :
        /\ \A k \in DOMAIN sent[s] : published[sent[s][k]] = ChatOf[s]
        /\ \A k \in 2 .. Len(sent[s]) : sent[s][k - 1] < sent[s][k]

Elements(seq) == {seq[k] : k \in DOMAIN seq}

(***************************************************************************)
(* No event of the chat published after the handshake slips through: it is *)
(* sent, on its way, or was dropped at a full channel (server.go           *)
(* handleStream: "otherwise an event published between upgrade and         *)
(* subscribe would be missed").                                            *)
(***************************************************************************)
NoneSlipsThrough ==
    \A s \in Streams : (phase[s] = "streaming" /\ ~ gone[s] /\ ~ closed[s] /\ up) =>
        \A i \in since[s] + 1 .. Len(published) :
            published[i] = ChatOf[s] =>
                i \in Elements(sent[s]) \cup Elements(out[s]) \cup Elements(queue[s])
                        \cup dropped[s]

(***************************************************************************)
(* When a client disconnects, or the AMQP channel is lost, be it by the    *)
(* refusal of another stream's subscription, its handler returns, its      *)
(* goroutines end and its registration is released: no goroutine and no    *)
(* client is left waiting for events that cannot come (server.go           *)
(* handleStream, rabbitmq.go Subscribe).                                   *)
(***************************************************************************)
GoroutinesEnd ==
    \A s \in Streams :
        (gone[s] \/ (~ up /\ phase[s] \in {"subscribed", "streaming"}))
            ~> (phase[s] = "closed" /\ pump[s] # "running" /\ ~ bound[s])

(***************************************************************************)
(* A connected client gets every event of its chat from the handshake on   *)
(* that was not dropped (server.go handleStream).                          *)
(***************************************************************************)
EventuallySent ==
    \A s \in Streams : \A i \in 1 .. MaxEvents :
        (phase[s] = "streaming" /\ i \in since[s] + 1 .. Len(published)
            /\ published[i] = ChatOf[s])
        ~> (i \in Elements(sent[s]) \cup dropped[s] \/ gone[s] \/ closed[s] \/ ~ up)
=============================================================================
