-------------------------- MODULE EventStreamProofs --------------------------
(***************************************************************************)
(* Proofs about the brokers and the event stream, for any streams, chats,  *)
(* channel capacity and number of events.                                  *)
(***************************************************************************)
EXTENDS EventStream, SequenceTheorems, TLAPS

(***************************************************************************)
(* Facts about sequences of events, in the order of their positions.       *)
(***************************************************************************)
InOrder(q) == \A i, j \in DOMAIN q : i < j => q[i] < q[j]

Before(P, Q) == \A x \in P, y \in Q : x < y

(***************************************************************************)
(* An event sent on a channel or to a queue is its last (Publish).         *)
(***************************************************************************)
LEMMA AppendEvent ==
    ASSUME NEW q \in Seq(Nat), NEW x \in Nat
    PROVE  /\ Append(q, x) \in Seq(Nat)
           /\ Elements(Append(q, x)) = Elements(q) \cup {x}
           /\ InOrder(q) /\ Before(Elements(q), {x}) => InOrder(Append(q, x))
<1> DEFINE n == Len(q)
           r == Append(q, x)
<1>1. /\ n \in Nat /\ r \in Seq(Nat) /\ Len(r) = n + 1 /\ r[n + 1] = x
      /\ \A i \in 1 .. n : r[i] = q[i]
      /\ DOMAIN q = 1 .. n /\ DOMAIN r = 1 .. n + 1
  BY AppendProperties, LenProperties
<1> HIDE DEF n, r
<1>2. Elements(r) = Elements(q) \cup {x}
  <2>1. \A i \in DOMAIN r : i \in DOMAIN q \/ i = n + 1
    BY <1>1
  <2>2. n + 1 \in DOMAIN r /\ \A i \in DOMAIN q : i \in DOMAIN r
    BY <1>1
  <2> QED BY <1>1, <2>1, <2>2 DEF Elements
<1>3. ASSUME InOrder(q), Before(Elements(q), {x}), NEW i \in DOMAIN r, NEW j \in DOMAIN r, i < j
      PROVE  r[i] < r[j]
  <2>1. i \in 1 .. n
    BY <1>1, <1>3
  <2>2. CASE j \in 1 .. n
    BY <1>1, <1>3, <2>1, <2>2 DEF InOrder
  <2>3. CASE j = n + 1
    BY <1>1, <1>3, <2>1, <2>3 DEF Before, Elements
  <2> QED BY <1>1, <2>2, <2>3
<1> QED BY <1>1, <1>2, <1>3 DEF InOrder, r

(***************************************************************************)
(* An event taken from a channel or a queue is its first (the pump and the *)
(* handler's loop).                                                        *)
(***************************************************************************)
LEMMA TakeEvent ==
    ASSUME NEW q \in Seq(Nat), q # <<>>
    PROVE  /\ Head(q) \in Nat /\ Tail(q) \in Seq(Nat)
           /\ Elements(q) = Elements(Tail(q)) \cup {Head(q)}
           /\ InOrder(q) => InOrder(Tail(q)) /\ Before({Head(q)}, Elements(Tail(q)))
<1> DEFINE n == Len(q)
           r == Tail(q)
<1>1. /\ n \in Nat \ {0} /\ r \in Seq(Nat) /\ Len(r) = n - 1 /\ Head(q) = q[1]
      /\ \A i \in 1 .. n - 1 : r[i] = q[i + 1]
      /\ DOMAIN q = 1 .. n /\ DOMAIN r = 1 .. n - 1 /\ q[1] \in Nat
  BY HeadTailProperties, LenProperties, EmptySeq, ElementOfSeq
<1> HIDE DEF n, r
<1>4. 1 \in 1 .. n /\ \A i \in 1 .. n - 1 : i \in Nat \ {0} /\ i + 1 \in 1 .. n
  BY <1>1
<1>2. Elements(q) = Elements(r) \cup {Head(q)}
  <2>1. ASSUME NEW i \in 1 .. n PROVE q[i] \in Elements(r) \cup {Head(q)}
    <3>1. CASE i = 1
      BY <1>1, <3>1
    <3>2. CASE i # 1
      <4>1. i - 1 \in 1 .. n - 1 /\ (i - 1) + 1 = i
        BY <1>1, <3>2
      <4>2. r[i - 1] = q[i]
        BY <1>1, <4>1
      <4> QED BY <1>1, <4>1, <4>2 DEF Elements
    <3> QED BY <3>1, <3>2
  <2>2. Elements(r) \subseteq Elements(q)
    BY <1>1, <1>4 DEF Elements
  <2>3. Head(q) \in Elements(q)
    BY <1>1, <1>4 DEF Elements
  <2>4. Elements(q) \subseteq Elements(r) \cup {Head(q)}
    BY <1>1, <2>1 DEF Elements
  <2> QED BY <2>2, <2>3, <2>4
<1>3. ASSUME InOrder(q) PROVE InOrder(r) /\ Before({Head(q)}, Elements(r))
  <2>1. ASSUME NEW i \in DOMAIN r, NEW j \in DOMAIN r, i < j PROVE r[i] < r[j]
    <3>1. i \in 1 .. n - 1 /\ j \in 1 .. n - 1
      BY <1>1
    <3>2. i + 1 \in DOMAIN q /\ j + 1 \in DOMAIN q /\ i + 1 < j + 1
      <4>1. i \in Nat /\ j \in Nat
        BY <1>4, <3>1
      <4>2. i + 1 < j + 1
        BY <2>1, <4>1
      <4> QED BY <1>1, <1>4, <3>1, <4>2
    <3>3. q[i + 1] < q[j + 1]
      BY <1>3, <3>2 DEF InOrder
    <3> QED BY <1>1, <3>1, <3>3
  <2>2. ASSUME NEW j \in DOMAIN r PROVE Head(q) < r[j]
    <3>1. j \in 1 .. n - 1
      BY <1>1
    <3>2. j + 1 \in DOMAIN q /\ 1 \in DOMAIN q /\ 1 < j + 1
      BY <1>1, <1>4, <3>1
    <3>3. q[1] < q[j + 1]
      BY <1>3, <3>2 DEF InOrder
    <3> QED BY <1>1, <3>1, <3>3
  <2> QED BY <2>1, <2>2 DEF InOrder, Before, Elements
<1> QED BY <1>1, <1>2, <1>3 DEF r

\* No events are in order.
LEMMA EmptyEvents == <<>> \in Seq(Nat) /\ Elements(<<>>) = {} /\ InOrder(<<>>)
BY EmptySeq, LenProperties DEF Elements, InOrder

-----------------------------------------------------------------------------
(***************************************************************************)
(* The type invariant.                                                     *)
(***************************************************************************)
StreamType ==
    /\ broker \in {"memory", "rabbitmq"} /\ up \in BOOLEAN
    /\ published \in Seq(Chats)
    /\ phase \in [Streams -> {"new", "bound", "subscribed", "streaming", "closed", "refused"}]
    /\ bound \in [Streams -> BOOLEAN] /\ queue \in [Streams -> Seq(Nat)]
    /\ pump \in [Streams -> {"none", "running", "stopped"}]
    /\ cancelled \in [Streams -> BOOLEAN]
    /\ out \in [Streams -> Seq(Nat)] /\ closed \in [Streams -> BOOLEAN]
    /\ dropped \in [Streams -> SUBSET Nat]
    /\ gone \in [Streams -> BOOLEAN] /\ done \in [Streams -> BOOLEAN]
    /\ since \in [Streams -> Nat] /\ sent \in [Streams -> Seq(Nat)]

(***************************************************************************)
(* A registration lives as long as its handler: what the handler's phase   *)
(* says about the subscription, the pump and the channel.                  *)
(***************************************************************************)
Registered(s) ==
    /\ phase[s] = "new" => ~ bound[s] /\ pump[s] = "none" /\ ~ closed[s]
    /\ phase[s] = "bound" => broker = "rabbitmq" /\ bound[s] /\ pump[s] = "none" /\ ~ closed[s]
    /\ phase[s] \in {"subscribed", "streaming"} =>
          bound[s] /\ (broker = "memory" => ~ closed[s])
    /\ phase[s] = "closed" => ~ bound[s]
    /\ broker = "memory" => pump[s] = "none" /\ queue[s] = <<>> /\ phase[s] # "refused"
    /\ pump[s] = "running" => ~ closed[s]

(***************************************************************************)
(* An event is in one place, and the places are in order: frames sent,     *)
(* then the channel, then RabbitMQ's queue.                                *)
(***************************************************************************)
Lined(s) ==
    /\ InOrder(sent[s]) /\ InOrder(out[s]) /\ InOrder(queue[s])
    /\ Before(Elements(sent[s]), Elements(out[s]))
    /\ Before(Elements(sent[s]), Elements(queue[s]))
    /\ Before(Elements(out[s]), Elements(queue[s]))
    /\ Elements(sent[s]) \cup Elements(out[s]) \cup Elements(queue[s]) \subseteq 1 .. Len(published)
    /\ \A x \in Elements(sent[s]) : published[x] = ChatOf[s]

(***************************************************************************)
(* While the AMQP channel is open and the client is there, no event of the *)
(* chat since the handshake is lost without a trace.                       *)
(***************************************************************************)
Kept(s) ==
    (phase[s] = "streaming" /\ ~ gone[s] /\ up) =>
        \A i \in since[s] + 1 .. Len(published) :
            published[i] = ChatOf[s] =>
                i \in Elements(sent[s]) \cup Elements(out[s]) \cup Elements(queue[s])
                        \cup dropped[s]

(***************************************************************************)
(* The initial state: no stream and no event.                              *)
(***************************************************************************)
LEMMA InitStream == Init => StreamType /\ \A s \in Streams : Registered(s) /\ Lined(s) /\ Kept(s)
<1> SUFFICES ASSUME Init PROVE StreamType /\ \A s \in Streams : Registered(s) /\ Lined(s) /\ Kept(s)
  OBVIOUS
<1>1. StreamType
  BY BrokerAssumption, EmptySeq DEF Init, StreamType, ForAll
<1>2. ASSUME NEW s \in Streams PROVE Registered(s) /\ Lined(s) /\ Kept(s)
  <2>1. /\ phase[s] = "new" /\ bound[s] = FALSE /\ pump[s] = "none" /\ closed[s] = FALSE
        /\ queue[s] = <<>> /\ out[s] = <<>> /\ sent[s] = <<>>
    BY DEF Init, ForAll
  <2>2. Lined(s)
    BY <2>1, EmptyEvents DEF Lined, Before
  <2> QED BY <2>1, <2>2 DEF Registered, Kept
<1> QED BY <1>1, <1>2

(***************************************************************************)
(* Every step keeps the types.                                             *)
(***************************************************************************)
LEMMA TypeStep == StreamType /\ [Next]_vars => StreamType'
<1> SUFFICES ASSUME StreamType, [Next]_vars PROVE StreamType'
  OBVIOUS
<1>1. ASSUME NEW c \in Chats, Publish(c) PROVE StreamType'
  <2>1. Len(published) + 1 \in Nat /\ published' \in Seq(Chats)
    BY <1>1, AppendProperties, LenProperties DEF Publish, StreamType
  <2>2. \A s \in Streams : /\ Append(out[s], Len(published) + 1) \in Seq(Nat)
                           /\ Append(queue[s], Len(published) + 1) \in Seq(Nat)
    BY <2>1, AppendEvent DEF StreamType
  <2>3. out' \in [Streams -> Seq(Nat)] /\ dropped' \in [Streams -> SUBSET Nat]
    <3>1. CASE UNCHANGED <<out, dropped>>
      BY <3>1 DEF StreamType
    <3>2. CASE TrySend(Len(published) + 1, {s \in Streams : up /\ bound[s]})
      <4>1. out' \in [Streams -> Seq(Nat)]
        BY <2>2, <3>2 DEF TrySend, StreamType
      <4>2. dropped' \in [Streams -> SUBSET Nat]
        BY <2>1, <3>2 DEF TrySend, StreamType
      <4> QED BY <4>1, <4>2
    <3> QED BY <1>1, <3>1, <3>2 DEF Publish
  <2>4. queue' \in [Streams -> Seq(Nat)]
    BY <1>1, <2>1, <2>2 DEF Publish, StreamType
  <2> QED BY <1>1, <2>1, <2>3, <2>4 DEF Publish, StreamType, conn
<1>2. CASE ChannelCloses
  BY <1>2 DEF ChannelCloses, StreamType, sub, chan, conn
<1>3. ASSUME NEW s \in Streams, BindQueue(s) \/ Subscribe(s) \/ SubscribeFails(s) \/ Upgrade(s)
      PROVE  StreamType'
  <2>0. CASE BindQueue(s)
    BY <2>0 DEF BindQueue, StreamType, chan, conn
  <2>1. CASE Subscribe(s)
    BY <2>1 DEF Subscribe, StreamType, chan, conn
  <2>2. CASE SubscribeFails(s)
    BY <2>2 DEF SubscribeFails, StreamType, sub, chan, conn
  <2>3. CASE Upgrade(s)
    BY <2>3, LenProperties DEF Upgrade, StreamType, sub, chan
  <2> QED BY <1>3, <2>0, <2>1, <2>2, <2>3
<1>4. ASSUME NEW s \in Streams, UpgradeFails(s) \/ Leave(s) PROVE StreamType'
  BY <1>4 DEF UpgradeFails, Leave, Return, Cancel, StreamType, conn
<1>5. ASSUME NEW s \in Streams, Forward(s) PROVE StreamType'
  <2>1. /\ Head(out[s]) \in Nat /\ Tail(out[s]) \in Seq(Nat)
        /\ Append(sent[s], Head(out[s])) \in Seq(Nat)
    BY <1>5, TakeEvent, AppendEvent DEF Forward, StreamType
  <2>2. out' \in [Streams -> Seq(Nat)]
    BY <1>5, <2>1 DEF Forward, StreamType
  <2>3. sent' \in [Streams -> Seq(Nat)]
    BY <1>5, <2>1 DEF Forward, StreamType
  <2> QED BY <1>5, <2>2, <2>3 DEF Forward, StreamType, sub, conn
<1>6. ASSUME NEW s \in Streams, PumpDelivers(s) PROVE StreamType'
  <2>1. /\ Head(queue[s]) \in Nat /\ Tail(queue[s]) \in Seq(Nat)
        /\ \A t \in Streams : Append(out[t], Head(queue[s])) \in Seq(Nat)
    BY <1>6, TakeEvent, AppendEvent DEF PumpDelivers, StreamType
  <2>2. out' \in [Streams -> Seq(Nat)] /\ dropped' \in [Streams -> SUBSET Nat]
    BY <1>6, <2>1 DEF PumpDelivers, TrySend, StreamType
  <2>3. queue' \in [Streams -> Seq(Nat)]
    BY <1>6, <2>1 DEF PumpDelivers, StreamType
  <2> QED BY <1>6, <2>2, <2>3 DEF PumpDelivers, StreamType, conn
<1>7. ASSUME NEW s \in Streams, PumpStops(s) PROVE StreamType'
  BY <1>7 DEF PumpStops, StopPump, StreamType, conn
<1>8. ASSUME NEW s \in Streams, Disconnect(s) \/ ReaderEnds(s) PROVE StreamType'
  BY <1>8 DEF Disconnect, ReaderEnds, StreamType, sub, chan
<1>9. CASE UNCHANGED vars
  BY <1>9 DEF vars, StreamType
<1> QED BY <1>1, <1>2, <1>3, <1>4, <1>5, <1>6, <1>7, <1>8, <1>9 DEF Next, Handle, Pump

-----------------------------------------------------------------------------
Stream(s) == Registered(s) /\ Lined(s) /\ Kept(s)

\* Nothing of stream s changes.
Same(s) ==
    /\ broker' = broker /\ published' = published /\ up' \in {up, FALSE}
    /\ phase'[s] = phase[s] /\ bound'[s] = bound[s] /\ queue'[s] = queue[s]
    /\ pump'[s] = pump[s] /\ out'[s] = out[s] /\ closed'[s] = closed[s]
    /\ gone'[s] = gone[s] /\ sent'[s] = sent[s] /\ dropped'[s] = dropped[s]
    /\ since'[s] = since[s]

(***************************************************************************)
(* A stream is not disturbed by what other streams do, nor by the loss of  *)
(* the AMQP channel.                                                       *)
(***************************************************************************)
LEMMA SameStream == ASSUME NEW s \in Streams, Stream(s), Same(s) PROVE Stream(s)'
<1>1. Registered(s)'
  BY DEF Stream, Same, Registered
<1>2. Lined(s)'
  BY DEF Stream, Same, Lined
<1>3. Kept(s)'
  BY DEF Stream, Same, Kept
<1> QED BY <1>1, <1>2, <1>3 DEF Stream

\* A step of one stream leaves the others alone.
LEMMA OtherStream ==
    ASSUME StreamType, NEW s \in Streams, NEW t \in Streams, s # t,
           \/ BindQueue(t) \/ Subscribe(t) \/ SubscribeFails(t) \/ Handle(t)
           \/ Pump(t) \/ Disconnect(t) \/ ReaderEnds(t)
    PROVE  Same(s)
<1>0. CASE BindQueue(t)
  BY <1>0 DEF BindQueue, Same, StreamType, chan, conn
<1>1. CASE Subscribe(t)
  BY <1>1 DEF Subscribe, Same, StreamType, chan, conn
<1>2. CASE SubscribeFails(t)
  BY <1>2 DEF SubscribeFails, Same, StreamType, sub, chan, conn
<1>3. CASE Upgrade(t)
  BY <1>3 DEF Upgrade, Same, StreamType, sub, chan
<1>4. CASE UpgradeFails(t) \/ Leave(t)
  BY <1>4 DEF UpgradeFails, Leave, Return, Cancel, Same, StreamType, conn
<1>5. CASE Forward(t)
  BY <1>5 DEF Forward, Same, StreamType, sub, conn
<1>6. CASE PumpDelivers(t)
  BY <1>6 DEF PumpDelivers, TrySend, Same, StreamType, conn
<1>7. CASE PumpStops(t)
  BY <1>7 DEF PumpStops, StopPump, Same, StreamType, conn
<1>8. CASE Disconnect(t) \/ ReaderEnds(t)
  BY <1>8 DEF Disconnect, ReaderEnds, Same, StreamType, sub, chan
<1> QED BY <1>0, <1>1, <1>2, <1>3, <1>4, <1>5, <1>6, <1>7, <1>8 DEF Handle, Pump

(***************************************************************************)
(* Publish puts the event at the end of the channel or of the queue of     *)
(* every registered stream, or drops it at a full channel (broker.go       *)
(* Publish, rabbitmq.go Publish).                                          *)
(***************************************************************************)
LEMMA PublishStream ==
    ASSUME StreamType, NEW s \in Streams, Stream(s), NEW c \in Chats, Publish(c)
    PROVE  Stream(s)'
<1> DEFINE i == Len(published) + 1
<1>1. /\ broker' = broker /\ up' = up /\ phase' = phase /\ bound' = bound /\ pump' = pump
      /\ closed' = closed /\ gone' = gone /\ since' = since /\ sent' = sent
      /\ published' = Append(published, c)
  BY DEF Publish, conn
<1>2. /\ published \in Seq(Chats) /\ Len(published) \in Nat /\ i \in Nat
      /\ Len(published') = i /\ published'[i] = c
      /\ \A x \in 1 .. Len(published) : published'[x] = published[x]
  BY <1>1, AppendProperties, LenProperties DEF StreamType
<1>3. /\ sent[s] \in Seq(Nat) /\ out[s] \in Seq(Nat) /\ queue[s] \in Seq(Nat)
      /\ dropped[s] \subseteq Nat /\ since[s] \in Nat
  BY DEF StreamType
<1>4. \/ out'[s] = out[s] /\ queue'[s] = queue[s] /\ (i \in dropped'[s] \/ ~ up \/ ~ bound[s])
      \/ out'[s] = Append(out[s], i) /\ queue'[s] = queue[s] /\ broker = "memory"
      \/ out'[s] = out[s] /\ queue'[s] = Append(queue[s], i) /\ broker = "rabbitmq"
  <2>1. CASE broker = "memory"
    BY <2>1 DEF Publish, TrySend
  <2>2. CASE broker = "rabbitmq"
    BY <2>2 DEF Publish
  <2> QED BY <2>1, <2>2 DEF StreamType
<1>5. dropped[s] \subseteq dropped'[s]
  BY DEF Publish, TrySend
<1>6. Registered(s)'
  BY <1>1, <1>4 DEF Stream, Registered
<1> DEFINE A == Elements(sent[s]) \cup Elements(out[s]) \cup Elements(queue[s])
           B == Elements(sent[s]) \cup Elements(out'[s]) \cup Elements(queue'[s])
<1>7. A \subseteq 1 .. Len(published) /\ Before(A, {i})
  <2>1. A \subseteq 1 .. Len(published)
    BY DEF Stream, Lined
  <2>2. \A x \in 1 .. Len(published) : x < i
    BY <1>2
  <2> QED BY <2>1, <2>2 DEF Before
<1>8. 1 .. Len(published) \subseteq 1 .. i /\ i \in 1 .. i
  BY <1>2
<1>9. Lined(s)' /\ (B = A \/ B = A \cup {i})
  <2>0. \A x \in Elements(sent[s]) : published'[x] = ChatOf[s]
    BY <1>2, <1>7 DEF Stream, Lined
  <2>1. CASE out'[s] = out[s] /\ queue'[s] = queue[s]
    BY <1>1, <1>2, <1>7, <1>8, <2>0, <2>1 DEF Stream, Lined
  <2>2. CASE out'[s] = Append(out[s], i) /\ queue'[s] = queue[s] /\ broker = "memory"
    <3>1. Elements(queue[s]) = {}
      BY <2>2, EmptyEvents DEF Stream, Registered
    <3>2. /\ Elements(out'[s]) = Elements(out[s]) \cup {i} /\ InOrder(out'[s])
          /\ Before(Elements(sent[s]), Elements(out'[s]))
      BY <1>2, <1>3, <1>7, <2>2, AppendEvent DEF Stream, Lined, Before
    <3> QED BY <1>1, <1>2, <1>7, <1>8, <2>0, <2>2, <3>1, <3>2 DEF Stream, Lined, Before
  <2>3. CASE out'[s] = out[s] /\ queue'[s] = Append(queue[s], i)
    <3>1. /\ Elements(queue'[s]) = Elements(queue[s]) \cup {i} /\ InOrder(queue'[s])
          /\ Before(Elements(sent[s]), Elements(queue'[s]))
          /\ Before(Elements(out[s]), Elements(queue'[s]))
      BY <1>2, <1>3, <1>7, <2>3, AppendEvent DEF Stream, Lined, Before
    <3> QED BY <1>1, <1>2, <1>7, <1>8, <2>0, <2>3, <3>1 DEF Stream, Lined
  <2> QED BY <1>4, <2>1, <2>2, <2>3
<1>10. Kept(s)'
  <2>1. SUFFICES ASSUME phase[s] = "streaming", ~ gone[s], up,
                        NEW x \in since[s] + 1 .. i, published'[x] = ChatOf[s]
                 PROVE  x \in B \cup dropped'[s]
    BY <1>1, <1>2 DEF Kept
  <2>2. CASE x = i
    <3>1. bound[s]
      BY <2>1 DEF Stream, Registered
    <3>2. i \in Elements(Append(out[s], i)) /\ i \in Elements(Append(queue[s], i))
      <4> HIDE DEF i
      <4>1. \A q \in Seq(Nat) : i \in Elements(Append(q, i))
        <5> TAKE q \in Seq(Nat)
        <5>1. i \in Nat /\ Elements(Append(q, i)) = Elements(q) \cup {i}
          BY <1>2, AppendEvent
        <5> QED BY <5>1
      <4> QED BY <1>3, <4>1
    <3> HIDE DEF i
    <3> QED BY <1>4, <2>1, <2>2, <3>1, <3>2
  <2>3. CASE x # i
    <3>1. x \in since[s] + 1 .. Len(published) /\ x \in 1 .. Len(published)
      BY <1>2, <1>3, <2>3
    <3>2. x \in A \cup dropped[s]
      BY <1>2, <2>1, <3>1 DEF Stream, Kept
    <3> QED BY <1>5, <1>9, <3>2
  <2> QED BY <2>2, <2>3
<1> QED BY <1>6, <1>9, <1>10 DEF Stream

(***************************************************************************)
(* The handler's loop takes the first event of the channel and sends it if *)
(* it is of the stream's chat (server.go handleStream).                    *)
(***************************************************************************)
LEMMA ForwardStream ==
    ASSUME StreamType, NEW s \in Streams, Stream(s), Forward(s) PROVE Stream(s)'
<1> DEFINE x == Head(out[s])
<1>1. /\ broker' = broker /\ up' = up /\ published' = published /\ phase' = phase
      /\ bound' = bound /\ queue' = queue /\ pump' = pump /\ closed' = closed /\ gone' = gone
      /\ since' = since /\ dropped' = dropped
      /\ out[s] # <<>> /\ out'[s] = Tail(out[s])
      /\ \/ published[x] = ChatOf[s] /\ ~ gone[s] /\ sent'[s] = Append(sent[s], x)
         \/ (published[x] # ChatOf[s] \/ gone[s]) /\ sent'[s] = sent[s]
  BY DEF Forward, StreamType, sub, conn
<1>2. /\ sent[s] \in Seq(Nat) /\ out[s] \in Seq(Nat)
  BY DEF StreamType
<1>3. /\ x \in Nat /\ Elements(out[s]) = Elements(out'[s]) \cup {x} /\ InOrder(out'[s])
      /\ Before({x}, Elements(out'[s]))
  BY <1>1, <1>2, TakeEvent DEF Stream, Lined
<1>4. /\ Elements(sent'[s]) \subseteq Elements(sent[s]) \cup {x} /\ InOrder(sent'[s])
      /\ Elements(sent[s]) \subseteq Elements(sent'[s])
      /\ x \in Elements(sent'[s]) => x \in Elements(sent[s]) \/ published[x] = ChatOf[s]
      /\ published[x] = ChatOf[s] /\ ~ gone[s] => x \in Elements(sent'[s])
  <2>1. Before(Elements(sent[s]), {x}) /\ InOrder(sent[s])
    BY <1>3 DEF Stream, Lined, Before
  <2>2. CASE sent'[s] = Append(sent[s], x) /\ published[x] = ChatOf[s]
    BY <1>2, <1>3, <2>1, <2>2, AppendEvent
  <2>3. CASE sent'[s] = sent[s] /\ (published[x] # ChatOf[s] \/ gone[s])
    BY <2>1, <2>3
  <2> QED BY <1>1, <2>2, <2>3
<1> HIDE DEF x
<1>5. Registered(s)'
  BY <1>1 DEF Stream, Registered
<1>6. Lined(s)'
  <2>1. /\ Before(Elements(sent'[s]), Elements(out'[s]))
        /\ Before(Elements(sent'[s]), Elements(queue[s]))
        /\ Before(Elements(out'[s]), Elements(queue[s]))
    BY <1>3, <1>4 DEF Stream, Lined, Before
  <2>2. /\ Elements(sent'[s]) \cup Elements(out'[s]) \cup Elements(queue[s]) \subseteq 1 .. Len(published)
        /\ \A y \in Elements(sent'[s]) : published[y] = ChatOf[s]
    BY <1>3, <1>4 DEF Stream, Lined
  <2> QED BY <1>1, <1>3, <1>4, <2>1, <2>2 DEF Stream, Lined
<1>7. Kept(s)'
  BY <1>1, <1>3, <1>4 DEF Stream, Kept
<1> QED BY <1>5, <1>6, <1>7 DEF Stream

(***************************************************************************)
(* The pump moves the first event of the queue to the channel, or drops it *)
(* at a full one (rabbitmq.go Subscribe).                                  *)
(***************************************************************************)
LEMMA PumpStream ==
    ASSUME StreamType, NEW s \in Streams, Stream(s), PumpDelivers(s) PROVE Stream(s)'
<1> DEFINE x == Head(queue[s])
<1>1. /\ broker' = broker /\ up' = up /\ published' = published /\ phase' = phase
      /\ bound' = bound /\ pump' = pump /\ closed' = closed /\ gone' = gone
      /\ since' = since /\ sent' = sent
      /\ pump[s] = "running" /\ queue[s] # <<>> /\ queue'[s] = Tail(queue[s])
      /\ \/ out'[s] = Append(out[s], x) /\ dropped'[s] = dropped[s]
         \/ out'[s] = out[s] /\ dropped'[s] = dropped[s] \cup {x}
  BY DEF PumpDelivers, TrySend, StreamType, conn
<1>2. queue[s] \in Seq(Nat) /\ out[s] \in Seq(Nat)
  BY DEF StreamType
<1>3. /\ x \in Nat /\ Elements(queue[s]) = Elements(queue'[s]) \cup {x} /\ InOrder(queue'[s])
      /\ Before({x}, Elements(queue'[s]))
  BY <1>1, <1>2, TakeEvent DEF Stream, Lined
<1>4. /\ Elements(out'[s]) \subseteq Elements(out[s]) \cup {x} /\ InOrder(out'[s])
      /\ Elements(out[s]) \subseteq Elements(out'[s]) /\ dropped[s] \subseteq dropped'[s]
      /\ x \in Elements(out'[s]) \cup dropped'[s]
  <2>1. Before(Elements(out[s]), {x}) /\ InOrder(out[s])
    BY <1>3 DEF Stream, Lined, Before
  <2>2. CASE out'[s] = Append(out[s], x) /\ dropped'[s] = dropped[s]
    BY <1>2, <1>3, <2>1, <2>2, AppendEvent
  <2>3. CASE out'[s] = out[s] /\ dropped'[s] = dropped[s] \cup {x}
    BY <2>1, <2>3
  <2> QED BY <1>1, <2>2, <2>3
<1>5. Registered(s)'
  BY <1>1 DEF Stream, Registered
<1> HIDE DEF x
<1>6. Lined(s)'
  <2>1. /\ Before(Elements(sent[s]), Elements(out'[s]))
        /\ Before(Elements(sent[s]), Elements(queue'[s]))
        /\ Before(Elements(out'[s]), Elements(queue'[s]))
    BY <1>3, <1>4 DEF Stream, Lined, Before
  <2>2. Elements(sent[s]) \cup Elements(out'[s]) \cup Elements(queue'[s]) \subseteq 1 .. Len(published)
    BY <1>3, <1>4 DEF Stream, Lined
  <2> QED BY <1>1, <1>3, <1>4, <2>1, <2>2 DEF Stream, Lined
<1>7. Kept(s)'
  BY <1>1, <1>3, <1>4 DEF Stream, Kept
<1> QED BY <1>5, <1>6, <1>7 DEF Stream

(***************************************************************************)
(* The steps of a stream that move no event: subscribing, the handshake,   *)
(* returning, and the end of the pump or of the client.                    *)
(***************************************************************************)
LEMMA QuietStream ==
    ASSUME StreamType, NEW s \in Streams, Stream(s),
           \/ BindQueue(s) \/ Subscribe(s) \/ SubscribeFails(s)
           \/ Upgrade(s) \/ UpgradeFails(s) \/ Leave(s) \/ PumpStops(s) \/ Disconnect(s) \/ ReaderEnds(s)
    PROVE  Stream(s)'
<1>1. /\ published' = published /\ sent' = sent /\ out' = out /\ queue' = queue
      /\ dropped' = dropped /\ broker' = broker /\ up' \in {up, FALSE}
  BY DEF BindQueue, Subscribe, SubscribeFails, Upgrade, UpgradeFails, Leave, PumpStops, Disconnect,
         ReaderEnds, Return, Cancel, StopPump, sub, chan
<1>2. Lined(s)'
  BY <1>1 DEF Stream, Lined
<1>3. Registered(s) /\ Kept(s)
  BY DEF Stream
<1>4. CASE Subscribe(s)
  <2>1. /\ phase'[s] = "subscribed" /\ bound'[s] /\ closed' = closed /\ ~ closed[s]
        /\ pump'[s] = IF broker = "memory" THEN "none" ELSE "running"
    BY <1>3, <1>4 DEF Subscribe, Registered, StreamType, chan
  <2> QED BY <1>1, <1>2, <1>3, <2>1 DEF Stream, Registered, Kept
<1>5. CASE SubscribeFails(s)
  <2>1. /\ phase'[s] = "refused" /\ closed' = closed /\ pump' = pump /\ broker = "rabbitmq"
        /\ pump[s] = "none"
    BY <1>3, <1>5 DEF SubscribeFails, Registered, StreamType, sub, chan
  <2> QED BY <1>1, <1>2, <1>3, <2>1 DEF Stream, Registered, Kept
<1>6. CASE Upgrade(s)
  <2>1. /\ phase[s] = "subscribed" /\ phase'[s] = "streaming" /\ closed' = closed /\ pump' = pump
        /\ bound' = bound /\ since'[s] = Len(published)
    BY <1>6 DEF Upgrade, StreamType, sub, chan
  <2>2. Len(published) + 1 .. Len(published) = {}
    BY LenProperties DEF StreamType
  <2>3. Kept(s)'
    BY <1>1, <2>1, <2>2 DEF Kept
  <2> QED BY <1>1, <1>2, <1>3, <2>1, <2>3 DEF Stream, Registered
<1>7. CASE UpgradeFails(s) \/ Leave(s)
  <2>1. /\ phase'[s] = "closed" /\ ~ bound'[s] /\ pump' = pump
        /\ broker = "memory" \/ closed' = closed
    BY <1>7 DEF UpgradeFails, Leave, Return, Cancel, StreamType
  <2> QED BY <1>1, <1>2, <1>3, <2>1 DEF Stream, Registered, Kept
<1>8. CASE PumpStops(s)
  <2>1. /\ phase' = phase /\ bound' = bound /\ gone' = gone /\ since' = since
        /\ pump[s] = "running" /\ pump'[s] = "stopped"
    BY <1>8 DEF PumpStops, StopPump, StreamType, conn
  <2>2. Registered(s)'
    BY <1>1, <1>3, <2>1 DEF Registered
  <2>3. Kept(s)'
    BY <1>1, <1>3, <2>1 DEF Kept
  <2> QED BY <1>2, <2>2, <2>3 DEF Stream
<1>9. CASE Disconnect(s) \/ ReaderEnds(s)
  <2>1. /\ phase' = phase /\ bound' = bound /\ pump' = pump /\ closed' = closed /\ since' = since
        /\ gone[s] => gone'[s]
    BY <1>9 DEF Disconnect, ReaderEnds, StreamType, sub, chan
  <2>2. Registered(s)'
    BY <1>1, <1>3, <2>1 DEF Registered
  <2>3. Kept(s)'
    BY <1>1, <1>3, <2>1 DEF Kept
  <2> QED BY <1>2, <2>2, <2>3 DEF Stream
<1>10. CASE BindQueue(s)
  <2>1. /\ phase[s] = "new" /\ phase'[s] = "bound" /\ bound'[s] /\ closed' = closed
        /\ pump' = pump /\ broker = "rabbitmq"
    BY <1>10 DEF BindQueue, StreamType, chan
  <2> QED BY <1>1, <1>2, <1>3, <2>1 DEF Stream, Registered, Kept
<1> QED BY <1>4, <1>5, <1>6, <1>7, <1>8, <1>9, <1>10

-----------------------------------------------------------------------------
StreamInv == StreamType /\ \A s \in Streams : Stream(s)

(***************************************************************************)
(* The inductive invariant of the event stream.                            *)
(***************************************************************************)
THEOREM StreamInvHolds == Spec => []StreamInv
<1>1. Init => StreamInv
  BY InitStream DEF StreamInv, Stream
<1>2. ASSUME StreamInv, [Next]_vars PROVE StreamInv'
  <2>1. StreamType'
    BY <1>2, TypeStep DEF StreamInv
  <2>2. ASSUME NEW s \in Streams PROVE Stream(s)'
    <3>0. StreamType /\ Stream(s)
      BY <1>2 DEF StreamInv
    <3>1. CASE \E c \in Chats : Publish(c)
      BY <3>0, <3>1, PublishStream
    <3>2. CASE ChannelCloses \/ UNCHANGED vars
      <4>1. Same(s)
        BY <3>2 DEF ChannelCloses, vars, Same, sub, chan, conn
      <4> QED BY <3>0, <4>1, SameStream
    <3>3. ASSUME NEW t \in Streams,
                 \/ BindQueue(t) \/ Subscribe(t) \/ SubscribeFails(t) \/ Handle(t)
                 \/ Pump(t) \/ Disconnect(t) \/ ReaderEnds(t)
          PROVE  Stream(s)'
      <4>1. CASE s # t
        BY <3>0, <3>3, <4>1, OtherStream, SameStream
      <4>2. CASE s = t
        BY <3>0, <3>3, <4>2, ForwardStream, PumpStream, QuietStream DEF Handle, Pump
      <4> QED BY <4>1, <4>2
    <3> QED BY <1>2, <3>1, <3>2, <3>3 DEF Next
  <2> QED BY <2>1, <2>2 DEF StreamInv
<1> QED BY <1>1, <1>2, PTL DEF Spec

(***************************************************************************)
(* Nobody sends on a closed channel, whichever way publishing, cancelling, *)
(* the pump and the loss of the AMQP channel interleave (broker.go and     *)
(* rabbitmq.go, Publish and Subscribe).                                    *)
(***************************************************************************)
THEOREM NoSendOnClosedHolds == Spec => []NoSendOnClosed
<1>1. StreamInv => NoSendOnClosed
  <2> SUFFICES ASSUME StreamInv, NEW s \in Streams,
                      (broker = "memory" /\ bound[s]) \/ pump[s] = "running"
               PROVE  ~ closed[s]
    BY DEF NoSendOnClosed
  <2>1. /\ Registered(s)
        /\ phase[s] \in {"new", "bound", "subscribed", "streaming", "closed", "refused"}
    BY DEF StreamInv, Stream, StreamType
  <2> QED BY <2>1 DEF Registered
<1> QED BY <1>1, StreamInvHolds, PTL

(***************************************************************************)
(* A client gets events of its own chat only, in the order of publishing   *)
(* and none twice, for any capacity and with either broker (server.go      *)
(* handleStream).                                                          *)
(***************************************************************************)
THEOREM OwnChatInOrderHolds == Spec => []OwnChatInOrder
<1>1. StreamInv => OwnChatInOrder
  <2> SUFFICES ASSUME StreamInv, NEW s \in Streams
               PROVE  /\ \A k \in DOMAIN sent[s] : published[sent[s][k]] = ChatOf[s]
                      /\ \A k \in 2 .. Len(sent[s]) : sent[s][k - 1] < sent[s][k]
    BY DEF OwnChatInOrder
  <2>1. /\ sent[s] \in Seq(Nat) /\ InOrder(sent[s])
        /\ \A x \in Elements(sent[s]) : published[x] = ChatOf[s]
    BY DEF StreamInv, StreamType, Stream, Lined
  <2>2. \A k \in DOMAIN sent[s] : published[sent[s][k]] = ChatOf[s]
    BY <2>1 DEF Elements
  <2>3. ASSUME NEW k \in 2 .. Len(sent[s]) PROVE sent[s][k - 1] < sent[s][k]
    <3>1. k - 1 \in DOMAIN sent[s] /\ k \in DOMAIN sent[s] /\ k - 1 < k
      BY <2>1, LenProperties
    <3> QED BY <2>1, <3>1 DEF InOrder
  <2> QED BY <2>2, <2>3
<1> QED BY <1>1, StreamInvHolds, PTL

(***************************************************************************)
(* No event of the chat published since the handshake slips through, for   *)
(* any capacity and with either broker (server.go handleStream, which      *)
(* subscribes before it upgrades).                                         *)
(***************************************************************************)
THEOREM NoneSlipsThroughHolds == Spec => []NoneSlipsThrough
<1>1. StreamInv => NoneSlipsThrough
  BY DEF StreamInv, Stream, Kept, NoneSlipsThrough
<1> QED BY <1>1, StreamInvHolds, PTL
=============================================================================
