----------------------------- MODULE ChatProofs -----------------------------
(* Proofs about Chat, for every set of users, conversations, senders and    *)
(* streams and any buffer: TypeOK, HubExact, FeedInOrder and NothingMissed  *)
(* are invariants. ChatInv adds what each send and each stream is about.    *)
EXTENDS Chat, TLAPS

-----------------------------------------------------------------------------
(* The inductive invariant *)

Live(w) == send[w].pc # "idle"

(* A send has a number of its own. Its message is stored before it is       *)
(* published and answered last, and it is published to streams that are     *)
(* subscribed and do not have it yet.                                       *)
SendOK(w) ==
    LET t == send[w]
        m == t.message
    IN
    /\ t.pc # "publishing" => t.todo = {}
    /\ t.todo \subseteq Subscribers(t.conv)
    /\ Live(w) => m \in 1 .. begun /\ m \notin answered
    /\ t.pc = "store" => m \notin DOMAIN message
    /\ t.pc \in {"publish", "publishing"} => m \in DOMAIN message /\ message[m] = t.conv
    /\ \A s \in Streams : t.pc = "publish" \/ s \in t.todo => m \notin Elements(Feed(s))

OwnNumbers ==
    \A v, w \in Senders :
        Live(v) /\ Live(w) /\ send[v].message = send[w].message => v = w

StreamOK(s) ==
    LET t == stream[s] IN
    /\ t.pc # "off" => t.conv \in Conversations
    /\ t.held # None <=> t.pc = "write"
    /\ ~ t.connected => t.received = <<>>

AfterAnswered == \A m \in 1 .. begun : after[m] \subseteq answered

(* FeedInOrder, NothingMissed and HubExact, stream by stream.               *)
Ordered(q, c) ==
    \A j \in DOMAIN q :
        /\ message[q[j]] = c
        /\ \A i \in 1 .. j - 1 : q[j] \notin after[q[i]] \cup {q[i]}

Complete(s) ==
    stream[s].pc \in {"select", "write"} /\ stream[s].connected =>
        \A m \in DOMAIN message \ stream[s].since :
            message[m] = stream[s].conv =>
                \/ m \in Elements(Feed(s)) \cup stream[s].dropped
                \/ ToPublish(m, s)

Subscribing(t, c) == t.conv = c /\ t.pc \in {"greet", "select", "write", "unsubscribe"}
Known(s) == \A c \in Conversations : s \in Subscribers(c) <=> Subscribing(stream[s], c)

StreamInv(s) ==
    StreamOK(s) /\ Ordered(Feed(s), stream[s].conv) /\ Complete(s) /\ Known(s)

ChatInv ==
    /\ TypeOK
    /\ \A s \in Streams : StreamInv(s)
    /\ \A w \in Senders : SendOK(w)
    /\ OwnNumbers
    /\ AfterAnswered
    /\ \A c \in DOMAIN subs : subs[c] # {}

-----------------------------------------------------------------------------
(* Feeds *)

(* The sequence of at most one message that a stream holds.                 *)
Held(t) == IF t.held = None THEN <<>> ELSE <<t.held>>

LEMMA FeedType ==
    ASSUME TypeOK, NEW s \in Streams
    PROVE  /\ Feed(s) = stream[s].received \o Held(stream[s]) \o stream[s].channel
           /\ stream[s].received \in Seq(DOMAIN message)
           /\ Held(stream[s]) \in Seq(DOMAIN message)
           /\ stream[s].channel \in Seq(DOMAIN message)
           /\ Feed(s) \in Seq(DOMAIN message)
<1>1. IsStream(stream[s])
    BY DEF TypeOK
<1>2. /\ stream[s].received \in Seq(DOMAIN message)
      /\ stream[s].channel \in Seq(DOMAIN message)
      /\ stream[s].held \in DOMAIN message \cup {None}
    BY <1>1 DEF IsStream
<1>4. Held(stream[s]) \in Seq(DOMAIN message)
  <2>1. CASE stream[s].held = None
      BY <2>1 DEF Held
  <2>2. CASE stream[s].held # None
    <3>1. stream[s].held \in DOMAIN message
        BY <1>2, <2>2
    <3>2. <<stream[s].held>> \in Seq(DOMAIN message)
        BY <3>1
    <3> QED BY <2>2, <3>2 DEF Held
  <2> QED BY <2>1, <2>2
<1>3. Feed(s) = stream[s].received \o Held(stream[s]) \o stream[s].channel
    BY DEF Feed, Held
<1> QED BY <1>2, <1>3, <1>4

LEMMA TakeSeq ==
    ASSUME NEW S, NEW r \in Seq(S), NEW c \in Seq(S), c # <<>>
    PROVE  /\ r \o <<>> \o c = r \o <<Head(c)>> \o Tail(c)
           /\ Head(c) \in S /\ Tail(c) \in Seq(S)
OBVIOUS

LEMMA DeliverSeq ==
    ASSUME NEW S, NEW r \in Seq(S), NEW c \in Seq(S), NEW h \in S
    PROVE  r \o <<h>> \o c = Append(r, h) \o <<>> \o c
OBVIOUS

LEMMA PublishSeq ==
    ASSUME NEW S, NEW r \in Seq(S), NEW h \in Seq(S), NEW c \in Seq(S), NEW m \in S
    PROVE  r \o h \o Append(c, m) = Append(r \o h \o c, m)
OBVIOUS

LEMMA CatSeq ==
    ASSUME NEW S, NEW r \in Seq(S), NEW h \in Seq(S), NEW c \in Seq(S)
    PROVE  r \o h \o c = r \o (h \o c)
<1>1. DOMAIN (r \o h \o c) = DOMAIN (r \o (h \o c))
    OBVIOUS
<1>2. \A i \in DOMAIN (r \o h \o c) : (r \o h \o c)[i] = (r \o (h \o c))[i]
    OBVIOUS
<1> QED BY <1>1, <1>2

(* What a stream leaves unread comes last in its feed.                      *)
LEMMA CutSeq ==
    ASSUME NEW S, NEW r \in Seq(S), NEW q \in Seq(S)
    PROVE  /\ r \o q \in Seq(S)
           /\ \A j \in DOMAIN q : Len(r) + j \in DOMAIN (r \o q) /\ (r \o q)[Len(r) + j] = q[j]
           /\ Elements(q) \subseteq Elements(r \o q)
<1>1. \A j \in DOMAIN q : Len(r) + j \in DOMAIN (r \o q) /\ (r \o q)[Len(r) + j] = q[j]
    OBVIOUS
<1>2. Elements(q) \subseteq Elements(r \o q)
    BY <1>1 DEF Elements
<1>3. r \o q \in Seq(S)
    OBVIOUS
<1> QED BY <1>1, <1>2, <1>3

LEMMA AppendElements ==
    ASSUME NEW S, NEW q \in Seq(S), NEW m \in S
    PROVE  \A x : x \in Elements(Append(q, m)) <=> x \in Elements(q) \/ x = m
<1>1. /\ DOMAIN Append(q, m) = DOMAIN q \cup {Len(q) + 1}
      /\ Append(q, m)[Len(q) + 1] = m
      /\ \A i \in DOMAIN q : Append(q, m)[i] = q[i]
    OBVIOUS
<1>2. ASSUME NEW x PROVE x \in Elements(Append(q, m)) <=> x \in Elements(q) \/ x = m
    BY <1>1 DEF Elements
<1> QED BY <1>2

LEMMA OrderedCut ==
    ASSUME NEW S, NEW r \in Seq(S), NEW q \in Seq(S), NEW c, Ordered(r \o q, c)
    PROVE  Ordered(q, c)
<1>1. ASSUME NEW j \in DOMAIN q
      PROVE  /\ message[q[j]] = c
             /\ \A i \in 1 .. j - 1 : q[j] \notin after[q[i]] \cup {q[i]}
  <2>1. Len(r) + j \in DOMAIN (r \o q) /\ (r \o q)[Len(r) + j] = q[j]
      BY CutSeq
  <2>2. ASSUME NEW i \in 1 .. j - 1 PROVE q[j] \notin after[q[i]] \cup {q[i]}
    <3>1. i \in DOMAIN q /\ Len(r) + i \in 1 .. (Len(r) + j) - 1
        OBVIOUS
    <3>2. (r \o q)[Len(r) + i] = q[i]
        BY <3>1, CutSeq
    <3> QED BY <2>1, <3>1, <3>2 DEF Ordered
  <2> QED BY <2>1, <2>2 DEF Ordered
<1> QED BY <1>1 DEF Ordered

LEMMA OrderedAppend ==
    ASSUME NEW S, NEW q \in Seq(S), NEW m \in S, NEW c, Ordered(q, c), message[m] = c,
           \A x \in Elements(q) : m \notin after[x] \cup {x}
    PROVE  Ordered(Append(q, m), c)
<1>1. ASSUME NEW j \in DOMAIN Append(q, m)
      PROVE  /\ message[Append(q, m)[j]] = c
             /\ \A i \in 1 .. j - 1 :
                    Append(q, m)[j] \notin after[Append(q, m)[i]] \cup {Append(q, m)[i]}
  <2>1. CASE j \in DOMAIN q
    <3>1. Append(q, m)[j] = q[j] /\ \A i \in 1 .. j - 1 : Append(q, m)[i] = q[i]
        BY <2>1
    <3> QED BY <2>1, <3>1 DEF Ordered
  <2>2. CASE j = Len(q) + 1
    <3>1. Append(q, m)[j] = m /\ \A i \in 1 .. j - 1 : i \in DOMAIN q /\ Append(q, m)[i] = q[i]
        BY <2>2
    <3> QED BY <3>1 DEF Elements
  <2> QED BY <2>1, <2>2
<1> QED BY <1>1 DEF Ordered

LEMMA OrderedEmpty == ASSUME NEW c PROVE Ordered(<<>>, c)
BY DEF Ordered

-----------------------------------------------------------------------------
(* What a step leaves alone *)

LEMMA SeqGrows ==
    ASSUME NEW S, NEW T, S \subseteq T, NEW q \in Seq(S)
    PROVE  q \in Seq(T)
OBVIOUS

LEMMA StreamType ==
    ASSUME NEW t, IsStream(t), DOMAIN message \subseteq DOMAIN message'
    PROVE  IsStream(t)'
<1>1. /\ t.channel \in Seq(DOMAIN message') /\ t.received \in Seq(DOMAIN message')
      /\ t.held \in DOMAIN message' \cup {None}
    BY SeqGrows DEF IsStream
<1> QED BY <1>1 DEF IsStream

(* A sender moves: the streams have what they had.                          *)
LEMMA SendFrame ==
    ASSUME ChatInv, UNCHANGED <<stream, subs>>, NEW s \in Streams,
           \A x \in DOMAIN message : x \in DOMAIN message' /\ message'[x] = message[x],
           \A x \in 1 .. begun : after'[x] = after[x]
    PROVE  StreamOK(s)' /\ Ordered(Feed(s), stream[s].conv)' /\ Known(s)' /\ Feed(s)' = Feed(s)
<1>1. Feed(s)' = Feed(s)
    BY DEF Feed
<1>2. \A j \in DOMAIN Feed(s) : Feed(s)[j] \in DOMAIN message /\ Feed(s)[j] \in 1 .. begun
  <2>1. Feed(s) \in Seq(DOMAIN message) /\ DOMAIN message \subseteq 1 .. begun
      BY FeedType DEF ChatInv, TypeOK
  <2> QED BY <2>1
<1>3. PICK q : q = Feed(s)
    OBVIOUS
<1>4. Ordered(q, stream[s].conv)
    BY <1>3 DEF ChatInv, StreamInv
<1>5. Ordered(q, stream[s].conv)'
  <2>1. \A j \in DOMAIN q : \A i \in 1 .. j - 1 : i \in DOMAIN q
    <3>1. q \in Seq(DOMAIN message)
        BY <1>3, FeedType DEF ChatInv
    <3> QED BY <3>1
  <2> QED BY <1>2, <1>3, <1>4, <2>1 DEF Ordered
<1>6. Ordered(Feed(s), stream[s].conv)'
    BY <1>1, <1>3, <1>5
<1>7. StreamOK(s)' /\ Known(s)'
    BY DEF ChatInv, StreamInv, StreamOK, Known, Subscribers, Subscribing
<1> QED BY <1>1, <1>6, <1>7

(* A sender moves: the other sends are where they were.                     *)
LEMMA OtherSends ==
    ASSUME ChatInv, UNCHANGED <<stream, subs>>, NEW w \in Senders, NEW v \in Senders \ {w},
           send'[v] = send[v], begun' \in {begun, begun + 1},
           \A x \in DOMAIN message : x \in DOMAIN message' /\ message'[x] = message[x],
           \A x \in DOMAIN message' \ DOMAIN message : Live(w) /\ x = send[w].message,
           \A x \in answered' \ answered : Live(w) /\ x = send[w].message
    PROVE  SendOK(v)'
<1>1. SendOK(v) /\ begun \in Nat
    BY DEF ChatInv, TypeOK
<1>2. Live(v) /\ Live(w) => send[v].message # send[w].message
    BY DEF ChatInv, OwnNumbers
<1>3. \A s \in Streams : Feed(s)' = Feed(s)
    BY DEF Feed
<1>4. Live(v) => send[v].message \in 1 .. begun' /\ send[v].message \notin answered'
    BY <1>1, <1>2 DEF SendOK
<1>5. send[v].pc = "store" => send[v].message \notin DOMAIN message'
    BY <1>1, <1>2 DEF SendOK, Live
<1> QED BY <1>1, <1>3, <1>4, <1>5 DEF SendOK, Live, Subscribers

(* Nothing that Complete(s) looks at for a message on its way changes.      *)
LEMMA SameStream ==
    ASSUME ChatInv, UNCHANGED <<message, send, after>>, NEW s \in Streams,
           stream'[s] = stream[s],
           \A c \in Conversations : s \in Subscribers(c)' <=> s \in Subscribers(c)
    PROVE  StreamInv(s)' /\ Feed(s)' = Feed(s)
<1>1. Feed(s)' = Feed(s)
    BY DEF Feed
<1>2. PICK q : q = Feed(s)
    OBVIOUS
<1>3. Ordered(Feed(s), stream[s].conv)'
    BY <1>1 DEF ChatInv, StreamInv, Ordered
<1>4. Complete(s)'
    BY <1>1 DEF ChatInv, StreamInv, Complete, ToPublish
<1>5. StreamOK(s)' /\ Known(s)'
    BY DEF ChatInv, StreamInv, StreamOK, Known, Subscribing
<1> QED BY <1>1, <1>3, <1>4, <1>5 DEF StreamInv
-----------------------------------------------------------------------------
(* Steps of one stream *)

FeedOf(t) == t.received \o Held(t) \o t.channel

Missing(s, t) ==
    {m \in DOMAIN message \ t.since :
        /\ message[m] = t.conv
        /\ m \notin Elements(FeedOf(t)) \cup t.dropped
        /\ ~ ToPublish(m, s)}

LEMMA FeedNext ==
    ASSUME NEW s, NEW t, stream'[s] = t
    PROVE  Feed(s)' = FeedOf(t)
BY DEF Feed, FeedOf, Held

LEMMA FeedParts ==
    ASSUME NEW t, NEW u, t.held = u.held, t.received = u.received
    PROVE  FeedOf(t) = u.received \o Held(u) \o t.channel
BY DEF FeedOf, Held

LEMMA FeedSame ==
    ASSUME NEW s, stream'[s] = stream[s]
    PROVE  Feed(s)' = Feed(s)
BY DEF Feed

(* A stream's step that leaves the hub, the table and the sends alone, adds *)
(* nothing to the feed and loses nothing of it while the client listens.    *)
LEMMA StreamMoves ==
    ASSUME ChatInv, NEW s \in Streams, NEW t,
           stream' = [stream EXCEPT ![s] = t],
           UNCHANGED <<begun, message, send, subs, pending, answered, after>>,
           IsStream(t),
           t.pc # "off" => t.conv \in Conversations,
           t.held # None <=> t.pc = "write",
           ~ t.connected => t.received = <<>>,
           Ordered(FeedOf(t), t.conv),
           Elements(FeedOf(t)) \subseteq Elements(Feed(s)),
           t.pc \in {"select", "write"} /\ t.connected => Missing(s, t) = {},
           \A c \in Conversations : Subscribing(t, c) <=> Subscribing(stream[s], c)
    PROVE  ChatInv'
<1>1. stream'[s] = t /\ \A x \in Streams \ {s} : stream'[x] = stream[x]
    BY DEF ChatInv, TypeOK
<1>2. Feed(s)' = FeedOf(t)
    BY <1>1, FeedNext
<1>3. \A x \in Streams \ {s} : Feed(x)' = Feed(x)
    BY <1>1, FeedSame
<1>4. TypeOK'
  <2>1. \A x \in Streams : IsStream(stream'[x])
      BY <1>1 DEF ChatInv, TypeOK
  <2>2. \A x \in Streams : IsStream(stream[x])'
      BY <2>1 DEF IsStream
  <2> QED BY <2>2 DEF ChatInv, TypeOK
<1>5. StreamInv(s)'
  <2>1. StreamOK(s)' /\ Known(s)'
      BY <1>1 DEF ChatInv, StreamInv, StreamOK, Known, Subscribing, Subscribers
  <2>2. Ordered(Feed(s), stream[s].conv)'
      BY <1>1, <1>2 DEF Ordered
  <2>3. Complete(s)'
      BY <1>1, <1>2 DEF Complete, Missing, ToPublish
  <2> QED BY <2>1, <2>2, <2>3 DEF StreamInv
<1>6. \A x \in Streams \ {s} : StreamInv(x)'
    BY <1>1, SameStream DEF Subscribers
<1>7. ASSUME NEW w \in Senders PROVE SendOK(w)'
  <2>1. SendOK(w) /\ \A x \in Streams : Elements(Feed(x)') \subseteq Elements(Feed(x))
      BY <1>2, <1>3 DEF ChatInv
  <2> QED BY <2>1 DEF SendOK, Live, Subscribers, Elements
<1> QED BY <1>4, <1>5, <1>6, <1>7 DEF ChatInv, OwnNumbers, AfterAnswered, Live

(* A step that only renames what the stream does next.                      *)
LEMMA StreamFacts ==
    ASSUME ChatInv, NEW s \in Streams
    PROVE  /\ IsStream(stream[s]) /\ StreamOK(s)
           /\ Feed(s) = FeedOf(stream[s])
           /\ Ordered(FeedOf(stream[s]), stream[s].conv)
           /\ stream[s].pc \in {"select", "write"} /\ stream[s].connected =>
                  Missing(s, stream[s]) = {}
<1>1. Feed(s) = FeedOf(stream[s])
    BY DEF Feed, FeedOf, Held
<1> QED BY <1>1 DEF ChatInv, TypeOK, StreamInv, Complete, Missing

LEMMA OpenKeeps ==
    ASSUME ChatInv, NEW s \in Streams, StreamOpen(s)
    PROVE  ChatInv'
<1>1. PICK c \in Conversations :
          stream' = [stream EXCEPT ![s] =
             [Closed EXCEPT !.pc = "subscribe", !.conv = c, !.connected = TRUE]]
    BY DEF StreamOpen
<1>2. PICK t : t = [Closed EXCEPT !.pc = "subscribe", !.conv = c, !.connected = TRUE]
    OBVIOUS
<1>3. /\ t.pc = "subscribe" /\ t.conv = c /\ t.connected /\ t.held = None
      /\ t.received = <<>> /\ t.channel = <<>> /\ DOMAIN t = DOMAIN Closed
      /\ t.since = {} /\ t.dropped = {} /\ t.connected \in BOOLEAN
    BY <1>2 DEF Closed
<1>4. IsStream(t)
    BY <1>3, BufferAssumption DEF IsStream
<1>5. FeedOf(t) = <<>>
    BY <1>3 DEF FeedOf, Held
<1>6. Ordered(FeedOf(t), t.conv) /\ Elements(FeedOf(t)) \subseteq Elements(Feed(s))
    BY <1>5, OrderedEmpty DEF Elements
<1>7. \A d \in Conversations : Subscribing(t, d) <=> Subscribing(stream[s], d)
    BY <1>3 DEF Subscribing, StreamOpen
<1> QED
    BY <1>1, <1>2, <1>3, <1>4, <1>6, <1>7, StreamMoves DEF StreamOpen

LEMMA GreetKeeps ==
    ASSUME ChatInv, NEW s \in Streams, Greet(s)
    PROVE  ChatInv'
<1>1. PICK t : t = [stream[s] EXCEPT !.pc = "select", !.since = DOMAIN message]
    OBVIOUS
<1>2. IsStream(stream[s]) /\ StreamOK(s) /\ Feed(s) = FeedOf(stream[s])
      /\ Ordered(FeedOf(stream[s]), stream[s].conv)
    BY StreamFacts
<1>3. /\ t.pc = "select" /\ t.since = DOMAIN message /\ DOMAIN t = DOMAIN stream[s]
      /\ t.conv = stream[s].conv /\ t.connected = stream[s].connected
      /\ t.held = stream[s].held /\ t.received = stream[s].received
      /\ t.channel = stream[s].channel /\ t.dropped = stream[s].dropped
    BY <1>1, <1>2 DEF IsStream, Closed
<1>4. stream' = [stream EXCEPT ![s] = t]
    BY <1>1 DEF Greet, ChatInv, TypeOK
<1>5. IsStream(t)
  <2>1. DOMAIN message \subseteq Message
      BY MessagesAssumption DEF ChatInv, TypeOK, Message
  <2> QED BY <1>2, <1>3, <2>1 DEF IsStream
<1>6. FeedOf(t) = FeedOf(stream[s])
    BY <1>3 DEF FeedOf, Held
<1>7. Missing(s, t) = {}
    BY <1>3 DEF Missing
<1>8. \A c \in Conversations : Subscribing(t, c) <=> Subscribing(stream[s], c)
    BY <1>3 DEF Subscribing, Greet
<1> QED
    BY <1>2, <1>3, <1>4, <1>5, <1>6, <1>7, <1>8, StreamMoves DEF Greet, StreamOK

LEMMA TakeKeeps ==
    ASSUME ChatInv, NEW s \in Streams, Take(s)
    PROVE  ChatInv'
<1>1. PICK u : u = stream[s]
    OBVIOUS
<1>2. PICK t : t = [u EXCEPT !.pc = "write", !.held = Head(u.channel), !.channel = Tail(u.channel)]
    OBVIOUS
<1>3. /\ IsStream(u) /\ StreamOK(s) /\ Feed(s) = FeedOf(u) /\ Ordered(FeedOf(u), u.conv)
      /\ u.pc \in {"select", "write"} /\ u.connected => Missing(s, u) = {}
    BY <1>1, StreamFacts
<1>4. /\ t.pc = "write" /\ t.held = Head(u.channel) /\ t.channel = Tail(u.channel)
      /\ DOMAIN t = DOMAIN u /\ t.since = u.since /\ t.conv = u.conv
      /\ t.connected = u.connected /\ t.received = u.received /\ t.dropped = u.dropped
    BY <1>2, <1>3 DEF IsStream, Closed
<1>5. stream' = [stream EXCEPT ![s] = t] /\ u.pc = "select" /\ u.channel # <<>> /\ u.held = None
    BY <1>1, <1>2, <1>3 DEF Take, StreamOK, ChatInv, TypeOK
<1>6. /\ u.received \in Seq(DOMAIN message) /\ u.channel \in Seq(DOMAIN message)
      /\ Len(u.channel) <= Buffer /\ Buffer \in Nat
    BY <1>3, BufferAssumption DEF IsStream
<1>7. /\ t.held \in DOMAIN message /\ t.channel \in Seq(DOMAIN message)
      /\ Len(t.channel) <= Buffer
  <2>1. Head(u.channel) \in DOMAIN message /\ Tail(u.channel) \in Seq(DOMAIN message)
      BY <1>5, <1>6, TakeSeq
  <2>2. Len(Tail(u.channel)) = Len(u.channel) - 1 /\ Len(u.channel) \in Nat
      BY <1>5, <1>6
  <2> QED BY <1>4, <1>6, <2>1, <2>2
<1>8. IsStream(t)
    BY <1>3, <1>4, <1>7 DEF IsStream
<1>9. t.held # None
    BY <1>7, NoneAssumption, MessagesAssumption DEF ChatInv, TypeOK
<1>10. FeedOf(t) = FeedOf(u)
  <2>1. Held(t) = <<Head(u.channel)>> /\ Held(u) = <<>>
      BY <1>4, <1>5, <1>9 DEF Held
  <2>2. u.received \o <<>> \o u.channel = u.received \o <<Head(u.channel)>> \o Tail(u.channel)
      BY <1>5, <1>6, TakeSeq
  <2> QED BY <1>4, <2>1, <2>2 DEF FeedOf
<1>11. t.connected => Missing(s, t) = {}
    BY <1>3, <1>4, <1>5, <1>10 DEF Missing
<1>12. \A c \in Conversations : Subscribing(t, c) <=> Subscribing(stream[s], c)
    BY <1>1, <1>4, <1>5 DEF Subscribing
<1>13. /\ ~ t.connected => t.received = <<>>
       /\ t.conv \in Conversations
    BY <1>1, <1>3, <1>4, <1>5 DEF StreamOK
<1>14. UNCHANGED <<begun, message, send, subs, pending, answered, after>>
    BY DEF Take
<1> QED
    BY <1>3, <1>4, <1>5, <1>8, <1>9, <1>10, <1>11, <1>12, <1>13, <1>14, StreamMoves

LEMMA DeliverKeeps ==
    ASSUME ChatInv, NEW s \in Streams, Deliver(s)
    PROVE  ChatInv'
<1>1. PICK u : u = stream[s]
    OBVIOUS
<1>2. PICK t : t = [u EXCEPT !.pc = "select", !.held = None, !.received = Append(u.received, u.held)]
    OBVIOUS
<1>3. /\ IsStream(u) /\ StreamOK(s) /\ Feed(s) = FeedOf(u) /\ Ordered(FeedOf(u), u.conv)
      /\ u.pc \in {"select", "write"} /\ u.connected => Missing(s, u) = {}
    BY <1>1, StreamFacts
<1>4. /\ t.pc = "select" /\ t.held = None /\ t.received = Append(u.received, u.held)
      /\ DOMAIN t = DOMAIN u /\ t.since = u.since /\ t.conv = u.conv
      /\ t.connected = u.connected /\ t.channel = u.channel /\ t.dropped = u.dropped
    BY <1>2, <1>3 DEF IsStream, Closed
<1>5. /\ stream' = [stream EXCEPT ![s] = t] /\ u.pc = "write" /\ u.connected /\ u.held # None
    BY <1>1, <1>2, <1>3 DEF Deliver, StreamOK, ChatInv, TypeOK
<1>6. /\ u.received \in Seq(DOMAIN message) /\ u.channel \in Seq(DOMAIN message)
      /\ u.held \in DOMAIN message
    BY <1>3, <1>5 DEF IsStream
<1>7. t.received \in Seq(DOMAIN message)
    BY <1>4, <1>6
<1>8. IsStream(t)
    BY <1>3, <1>4, <1>7 DEF IsStream
<1>10. FeedOf(t) = FeedOf(u)
  <2>1. Held(u) = <<u.held>> /\ Held(t) = <<>>
      BY <1>4, <1>5 DEF Held
  <2>2. u.received \o <<u.held>> \o u.channel = Append(u.received, u.held) \o <<>> \o u.channel
      BY <1>6, DeliverSeq
  <2> QED BY <1>4, <2>1, <2>2 DEF FeedOf
<1>11. Missing(s, t) = {}
    BY <1>3, <1>4, <1>5, <1>10 DEF Missing
<1>12. \A c \in Conversations : Subscribing(t, c) <=> Subscribing(stream[s], c)
    BY <1>1, <1>4, <1>5 DEF Subscribing
<1>13. t.connected /\ t.conv \in Conversations
    BY <1>1, <1>3, <1>4, <1>5 DEF StreamOK
<1>14. UNCHANGED <<begun, message, send, subs, pending, answered, after>>
    BY DEF Deliver
<1> QED
    BY <1>3, <1>4, <1>5, <1>8, <1>10, <1>11, <1>12, <1>13, <1>14, StreamMoves

LEMMA DisconnectKeeps ==
    ASSUME ChatInv, NEW s \in Streams, Disconnect(s)
    PROVE  ChatInv'
<1>1. PICK u : u = stream[s]
    OBVIOUS
<1>2. PICK t : t = [u EXCEPT !.connected = FALSE, !.received = <<>>, !.since = {}, !.dropped = {}]
    OBVIOUS
<1>3. /\ IsStream(u) /\ StreamOK(s) /\ Feed(s) = FeedOf(u) /\ Ordered(FeedOf(u), u.conv)
    BY <1>1, StreamFacts
<1>4. /\ t.pc = u.pc /\ t.held = u.held /\ t.received = <<>>
      /\ DOMAIN t = DOMAIN u /\ t.since = {} /\ t.conv = u.conv
      /\ t.connected = FALSE /\ t.channel = u.channel /\ t.dropped = {}
    BY <1>2, <1>3 DEF IsStream, Closed
<1>5. stream' = [stream EXCEPT ![s] = t]
    BY <1>1, <1>2, <1>3 DEF Disconnect, ChatInv, TypeOK
<1>6. IsStream(t)
  <2>1. <<>> \in Seq(DOMAIN message)
      OBVIOUS
  <2> QED BY <1>3, <1>4, <2>1 DEF IsStream
<1>7. /\ u.received \in Seq(DOMAIN message) /\ u.channel \in Seq(DOMAIN message)
      /\ Held(u) \in Seq(DOMAIN message)
    BY <1>1, FeedType DEF ChatInv
<1>8. PICK q : q = Held(u) \o u.channel
    OBVIOUS
<1>9. q \in Seq(DOMAIN message)
    BY <1>7, <1>8
<1>10. FeedOf(u) = u.received \o q
  <2>1. FeedOf(u) = u.received \o Held(u) \o u.channel
      BY DEF FeedOf
  <2>2. u.received \o Held(u) \o u.channel = u.received \o (Held(u) \o u.channel)
    <3>1. PICK h : h = Held(u)
        OBVIOUS
    <3>2. PICK c : c = u.channel
        OBVIOUS
    <3>3. PICK r : r = u.received
        OBVIOUS
    <3>4. PICK S : S = DOMAIN message
        OBVIOUS
    <3>5. r \in Seq(S) /\ h \in Seq(S) /\ c \in Seq(S)
        BY <1>7, <3>1, <3>2, <3>3, <3>4
    <3>6. r \o h \o c = r \o (h \o c)
        BY <3>5, CatSeq
    <3> QED BY <3>1, <3>2, <3>3, <3>6
  <2> QED BY <1>8, <2>1, <2>2, Zenon
<1>11. FeedOf(t) = q
  <2>1. Held(t) = Held(u)
      BY <1>4 DEF Held
  <2>2. <<>> \o Held(u) \o u.channel = q
      BY <1>7, <1>8
  <2> QED BY <1>4, <2>1, <2>2 DEF FeedOf
<1>12. Ordered(FeedOf(t), t.conv)
    BY <1>3, <1>4, <1>7, <1>9, <1>10, <1>11, OrderedCut
<1>13. Elements(FeedOf(t)) \subseteq Elements(Feed(s))
    BY <1>3, <1>7, <1>9, <1>10, <1>11, CutSeq
<1>14. \A c \in Conversations : Subscribing(t, c) <=> Subscribing(stream[s], c)
    BY <1>1, <1>4 DEF Subscribing
<1>15. /\ t.pc # "off" => t.conv \in Conversations
       /\ t.held # None <=> t.pc = "write"
    BY <1>1, <1>3, <1>4 DEF StreamOK
<1>16. UNCHANGED <<begun, message, send, subs, pending, answered, after>>
    BY DEF Disconnect
<1> QED
    BY <1>4, <1>5, <1>6, <1>12, <1>13, <1>14, <1>15, <1>16, StreamMoves

LEMMA LeaveKeeps ==
    ASSUME ChatInv, NEW s \in Streams, Leave(s)
    PROVE  ChatInv'
<1>1. PICK u : u = stream[s]
    OBVIOUS
<1>2. PICK t : t = [u EXCEPT !.pc = "unsubscribe", !.held = None]
    OBVIOUS
<1>3. /\ IsStream(u) /\ StreamOK(s) /\ Feed(s) = FeedOf(u) /\ Ordered(FeedOf(u), u.conv)
    BY <1>1, StreamFacts
<1>4. /\ t.pc = "unsubscribe" /\ t.held = None /\ t.received = u.received
      /\ DOMAIN t = DOMAIN u /\ t.since = u.since /\ t.conv = u.conv
      /\ t.connected = u.connected /\ t.channel = u.channel /\ t.dropped = u.dropped
    BY <1>2, <1>3 DEF IsStream, Closed
<1>5. /\ stream' = [stream EXCEPT ![s] = t] /\ ~ u.connected
      /\ u.pc \in {"greet", "select", "write"}
    BY <1>1, <1>2, <1>3 DEF Leave, ChatInv, TypeOK
<1>6. IsStream(t)
    BY <1>3, <1>4 DEF IsStream
<1>7. /\ u.channel \in Seq(DOMAIN message) /\ Held(u) \in Seq(DOMAIN message)
      /\ u.received = <<>>
    BY <1>1, <1>3, <1>5, FeedType DEF ChatInv, StreamOK
<1>10. FeedOf(u) = Held(u) \o u.channel
    BY <1>7 DEF FeedOf
<1>11. FeedOf(t) = u.channel
    BY <1>4, <1>7 DEF FeedOf, Held
<1>12. Ordered(FeedOf(t), t.conv)
    BY <1>3, <1>4, <1>7, <1>10, <1>11, OrderedCut
<1>13. Elements(FeedOf(t)) \subseteq Elements(Feed(s))
    BY <1>3, <1>7, <1>10, <1>11, CutSeq
<1>14. \A c \in Conversations : Subscribing(t, c) <=> Subscribing(stream[s], c)
    BY <1>1, <1>4, <1>5 DEF Subscribing
<1>15. t.conv \in Conversations
    BY <1>1, <1>3, <1>4, <1>5 DEF StreamOK
<1>16. UNCHANGED <<begun, message, send, subs, pending, answered, after>>
    BY DEF Leave
<1> QED
    BY <1>4, <1>6, <1>5, <1>7, <1>12, <1>13, <1>14, <1>15, <1>16, StreamMoves

LEMMA AnnounceKeeps ==
    ASSUME ChatInv, NEW s \in Streams, LockAnnounce(s)
    PROVE  ChatInv'
<1>1. \A x \in Streams : StreamInv(x)' /\ Feed(x)' = Feed(x)
    BY SameStream DEF LockAnnounce, Subscribers
<1>2. \A w \in Senders : SendOK(w)'
    BY <1>1 DEF ChatInv, SendOK, Live, Subscribers, LockAnnounce
<1>3. TypeOK'
    BY DEF ChatInv, TypeOK, LockAnnounce, IsStream
<1> QED
    BY <1>1, <1>2, <1>3 DEF ChatInv, LockAnnounce, OwnNumbers, AfterAnswered, Live

-----------------------------------------------------------------------------
(* Steps of one send *)

Wants(s, m) ==
    /\ stream[s].pc \in {"select", "write"} /\ stream[s].connected
    /\ m \notin stream[s].since \cup stream[s].dropped \cup Elements(Feed(s))

(* A send's step that leaves the hub and the streams alone: the message it  *)
(* carries may be stored or answered by it, and a stream that still wants   *)
(* it will get it from this send.                                           *)
LEMMA SenderMoves ==
    ASSUME ChatInv, NEW w \in Senders, NEW t, NEW m, m = send[w].message,
           send' = [send EXCEPT ![w] = t], UNCHANGED <<subs, pending, stream>>,
           TypeOK', AfterAnswered', SendOK(w)',
           begun' \in {begun, begun + 1},
           \A x \in DOMAIN message : x \in DOMAIN message' /\ message'[x] = message[x],
           \A x \in 1 .. begun : after'[x] = after[x],
           \A x \in DOMAIN message' \ DOMAIN message : Live(w) /\ x = m,
           \A x \in answered' \ answered : Live(w) /\ x = m,
           t.pc # "idle" => (Live(w) /\ t.message = m) \/ t.message = begun + 1,
           \A s \in Streams :
               Live(w) /\ Wants(s, m) /\ m \in DOMAIN message' /\ message'[m] = stream[s].conv
                   => t.message = m /\ (t.pc = "publish" \/ s \in t.todo)
    PROVE  ChatInv'
<1>1. send'[w] = t /\ \A v \in Senders \ {w} : send'[v] = send[v]
    BY DEF ChatInv, TypeOK
<1>2. \A s \in Streams : Feed(s)' = Feed(s)
    BY FeedSame
<1>3. ASSUME NEW s \in Streams PROVE StreamInv(s)'
  <2>1. StreamOK(s)' /\ Ordered(Feed(s), stream[s].conv)' /\ Known(s)'
      BY SendFrame
  <2>2. ASSUME stream[s].pc \in {"select", "write"}, stream[s].connected,
               NEW x \in DOMAIN message' \ stream[s].since, message'[x] = stream[s].conv,
               x \notin Elements(Feed(s)) \cup stream[s].dropped
        PROVE  ToPublish(x, s)'
    <3>1. CASE Live(w) /\ x = m
      <4>1. send'[w].message = x /\ (send'[w].pc = "publish" \/ s \in send'[w].todo)
          BY <1>1, <2>2, <3>1 DEF Wants
      <4> QED BY <4>1 DEF ToPublish
    <3>2. CASE ~ (Live(w) /\ x = m)
      <4>1. x \in DOMAIN message /\ message[x] = stream[s].conv
          BY <2>2, <3>2
      <4>2. PICK v \in Senders : send[v].message = x /\ (send[v].pc = "publish" \/ s \in send[v].todo)
          BY <2>2, <4>1 DEF ChatInv, StreamInv, Complete, ToPublish
      <4>3. send[v].pc # "publishing" => send[v].todo = {}
          BY DEF ChatInv, SendOK
      <4>4. v # w
          BY <3>2, <4>2, <4>3 DEF Live
      <4> QED BY <1>1, <4>2, <4>4 DEF ToPublish
    <3> QED BY <3>1, <3>2
  <2>3. Complete(s)'
      BY <1>2, <2>2 DEF Complete
  <2> QED BY <2>1, <2>3 DEF StreamInv
<1>4. \A v \in Senders : SendOK(v)'
    BY <1>1, OtherSends
<1>5. OwnNumbers'
  <2>1. \A v \in Senders \ {w} : Live(v) => send[v].message \in 1 .. begun
      BY DEF ChatInv, SendOK
  <2>2. begun \in Nat
      BY DEF ChatInv, TypeOK
  <2>3. \A v \in Senders \ {w} : Live(v) => ~ (t.pc # "idle" /\ t.message = send[v].message)
      BY <2>1, <2>2 DEF ChatInv, OwnNumbers
  <2> QED BY <1>1, <2>3 DEF ChatInv, OwnNumbers, Live
<1> QED BY <1>3, <1>4, <1>5 DEF ChatInv

LEMMA SendFacts ==
    ASSUME ChatInv, NEW w \in Senders
    PROVE  /\ send[w] \in SendState /\ SendOK(w)
           /\ begun \in Nat /\ MaxMessages \in Nat /\ begun <= MaxMessages
           /\ DOMAIN message \subseteq 1 .. begun /\ DOMAIN message \subseteq Message
           /\ answered \subseteq DOMAIN message
           /\ send[w] # Idle => Live(w) /\ send[w].message \in Message
BY MessagesAssumption DEF ChatInv, TypeOK, Message, SendState, Idle, Live

LEMMA StreamsKeepType ==
    ASSUME ChatInv, UNCHANGED stream, DOMAIN message \subseteq DOMAIN message'
    PROVE  \A s \in Streams : IsStream(stream[s])'
<1>1. ASSUME NEW s \in Streams PROVE IsStream(stream[s])'
  <2>1. PICK t : t = stream[s]
      OBVIOUS
  <2>2. IsStream(t)'
      BY <2>1, StreamType DEF ChatInv, TypeOK
  <2> QED BY <2>1, <2>2
<1> QED BY <1>1

LEMMA BeginKeeps ==
    ASSUME ChatInv, NEW w \in Senders, SendBegin(w)
    PROVE  ChatInv'
<1>1. PICK c \in Conversations :
          send' = [send EXCEPT ![w] =
             [pc |-> "store", message |-> begun + 1, conv |-> c, todo |-> {}]]
    BY DEF SendBegin
<1>2. PICK t : t = [pc |-> "store", message |-> begun + 1, conv |-> c, todo |-> {}]
    OBVIOUS
<1>3. /\ send[w] = Idle /\ begun < MaxMessages /\ begun' = begun + 1
      /\ after' = [m \in 1 .. begun + 1 |-> IF m <= begun THEN after[m] ELSE answered]
      /\ UNCHANGED <<message, subs, pending, stream, answered>>
    BY DEF SendBegin
<1>4. ~ Live(w)
    BY <1>3 DEF Live, Idle
<1>5. /\ begun \in Nat /\ MaxMessages \in Nat /\ DOMAIN message \subseteq 1 .. begun
      /\ answered \subseteq DOMAIN message /\ DOMAIN message \subseteq Message
    BY SendFacts
<1>6. t \in SendState
    BY <1>2, <1>3, <1>5 DEF SendState, Message
<1>7. send'[w] = t /\ send' \in [Senders -> SendState]
    BY <1>1, <1>2, <1>6 DEF ChatInv, TypeOK
<1>8. /\ \A m \in 1 .. begun : after'[m] = after[m]
      /\ AfterAnswered'
      /\ after' \in [1 .. begun' -> SUBSET Message]
    BY <1>3, <1>5 DEF ChatInv, TypeOK, AfterAnswered
<1>9. TypeOK'
  <2>1. begun' \in 0 .. MaxMessages /\ DOMAIN message' \subseteq 1 .. begun'
      BY <1>3, <1>5
  <2> QED BY <1>3, <1>7, <1>8, <2>1, StreamsKeepType DEF ChatInv, TypeOK
<1>10. SendOK(w)'
    BY <1>2, <1>3, <1>5, <1>7 DEF SendOK, Live
<1> QED
    BY <1>1, <1>2, <1>3, <1>4, <1>8, <1>9, <1>10, SenderMoves

LEMMA StoreKeeps ==
    ASSUME ChatInv, NEW w \in Senders, Store(w)
    PROVE  ChatInv'
<1>1. PICK m : m = send[w].message
    OBVIOUS
<1>2. PICK t : t = [send[w] EXCEPT !.pc = "publish"]
    OBVIOUS
<1>3. /\ send[w] \in SendState /\ SendOK(w) /\ begun \in Nat
      /\ DOMAIN message \subseteq 1 .. begun /\ answered \subseteq DOMAIN message
    BY SendFacts
<1>4. /\ send[w].pc = "store" /\ send' = [send EXCEPT ![w] = t]
      /\ message' = [x \in DOMAIN message \cup {m} |-> IF x = m THEN send[w].conv ELSE message[x]]
      /\ UNCHANGED <<begun, subs, pending, stream, answered, after>>
    BY <1>1, <1>2 DEF Store, ChatInv, TypeOK
<1>5. /\ Live(w) /\ m \in 1 .. begun /\ m \notin answered /\ m \notin DOMAIN message
      /\ send[w].todo = {} /\ send[w].conv \in Conversations /\ m \in Message
    BY <1>1, <1>3, <1>4 DEF SendOK, Live, SendState, Idle
<1>6. t.pc = "publish" /\ t.message = m /\ t.conv = send[w].conv /\ t.todo = {} /\ t \in SendState
    BY <1>1, <1>2, <1>3, <1>4, <1>5 DEF SendState, Idle
<1>7. send'[w] = t /\ send' \in [Senders -> SendState]
    BY <1>4, <1>6 DEF ChatInv, TypeOK
<1>8. /\ DOMAIN message' = DOMAIN message \cup {m} /\ message'[m] = send[w].conv
      /\ \A x \in DOMAIN message : message'[x] = message[x]
      /\ message' \in [DOMAIN message' -> Conversations]
    BY <1>4, <1>5 DEF ChatInv, TypeOK
<1>9. TypeOK'
    BY <1>3, <1>4, <1>5, <1>7, <1>8, StreamsKeepType DEF ChatInv, TypeOK
<1>10. SendOK(w)'
  <2>1. ASSUME NEW s \in Streams PROVE m \notin Elements(Feed(s))'
    <3>1. Feed(s) \in Seq(DOMAIN message) /\ Feed(s)' = Feed(s)
        BY <1>4, FeedType, FeedSame DEF ChatInv
    <3>2. Elements(Feed(s)) \subseteq DOMAIN message
        BY <3>1 DEF Elements
    <3> QED BY <1>5, <3>1, <3>2 DEF Elements
  <2> QED BY <1>4, <1>5, <1>6, <1>7, <1>8, <2>1 DEF SendOK, Live
<1>11. AfterAnswered'
    BY <1>4 DEF ChatInv, AfterAnswered
<1> QED
    BY <1>1, <1>3, <1>4, <1>5, <1>6, <1>8, <1>9, <1>10, <1>11, SenderMoves

LEMMA StoreFailKeeps ==
    ASSUME ChatInv, NEW w \in Senders, StoreFail(w)
    PROVE  ChatInv'
<1>1. /\ send[w].pc = "store" /\ send' = [send EXCEPT ![w] = Idle]
      /\ UNCHANGED <<begun, message, subs, pending, stream, answered, after>>
    BY DEF StoreFail
<1>2. send'[w] = Idle /\ send' \in [Senders -> SendState]
    BY <1>1 DEF ChatInv, TypeOK, SendState
<1>3. send[w].message \notin DOMAIN message
    BY <1>1, SendFacts DEF SendOK
<1>4. TypeOK'
    BY <1>1, <1>2, StreamsKeepType DEF ChatInv, TypeOK
<1>5. SendOK(w)'
    BY <1>2 DEF SendOK, Live, Idle
<1>6. AfterAnswered'
    BY <1>1 DEF ChatInv, AfterAnswered
<1>7. PICK t : t = Idle
    OBVIOUS
<1>8. begun \in Nat /\ t.pc = "idle"
    BY <1>7, SendFacts DEF Idle
<1> QED
    BY <1>1, <1>3, <1>4, <1>5, <1>6, <1>7, <1>8, SenderMoves

LEMMA PublishBeginKeeps ==
    ASSUME ChatInv, NEW w \in Senders, PublishBegin(w)
    PROVE  ChatInv'
<1>1. PICK m, c : m = send[w].message /\ c = send[w].conv
    OBVIOUS
<1>2. PICK t : t = [send[w] EXCEPT !.pc = "publishing", !.todo = Subscribers(c)]
    OBVIOUS
<1>3. send[w] \in SendState /\ SendOK(w) /\ begun \in Nat
    BY SendFacts
<1>4. /\ send[w].pc = "publish" /\ send' = [send EXCEPT ![w] = t]
      /\ UNCHANGED <<begun, message, subs, pending, stream, answered, after>>
    BY <1>1, <1>2 DEF PublishBegin, ChatInv, TypeOK
<1>5. /\ Live(w) /\ m \in 1 .. begun /\ m \notin answered /\ m \in DOMAIN message
      /\ message[m] = c /\ c \in Conversations /\ m \in Message
      /\ \A s \in Streams : m \notin Elements(Feed(s))
    BY <1>1, <1>3, <1>4 DEF SendOK, Live, SendState, Idle
<1>6. Subscribers(c) \subseteq Streams
    BY DEF Subscribers, ChatInv, TypeOK
<1>7. /\ t.pc = "publishing" /\ t.message = m /\ t.conv = c /\ t.todo = Subscribers(c)
      /\ t \in SendState
    BY <1>1, <1>2, <1>3, <1>4, <1>5, <1>6 DEF SendState, Idle
<1>8. send'[w] = t /\ send' \in [Senders -> SendState]
    BY <1>4, <1>7 DEF ChatInv, TypeOK
<1>9. TypeOK'
    BY <1>4, <1>8, StreamsKeepType DEF ChatInv, TypeOK
<1>10. SendOK(w)'
  <2>1. \A s \in Streams : Feed(s)' = Feed(s)
      BY <1>4, FeedSame
  <2>2. Subscribers(c)' = Subscribers(c)
      BY <1>4 DEF Subscribers
  <2> QED BY <1>4, <1>5, <1>7, <1>8, <2>1, <2>2 DEF SendOK, Live
<1>11. AfterAnswered'
    BY <1>4 DEF ChatInv, AfterAnswered
<1>12. \A s \in Streams : Wants(s, m) /\ message[m] = stream[s].conv => s \in t.todo
    BY <1>5, <1>7 DEF Wants, ChatInv, StreamInv, Known, Subscribing
<1> QED
    BY <1>1, <1>3, <1>4, <1>5, <1>7, <1>9, <1>10, <1>11, <1>12, SenderMoves

LEMMA PublishEndKeeps ==
    ASSUME ChatInv, NEW w \in Senders, PublishEnd(w)
    PROVE  ChatInv'
<1>1. PICK m : m = send[w].message
    OBVIOUS
<1>2. PICK t : t = Idle
    OBVIOUS
<1>3. send[w] \in SendState /\ SendOK(w) /\ begun \in Nat /\ t.pc = "idle"
    BY <1>2, SendFacts DEF Idle
<1>4. /\ send[w].pc = "publishing" /\ send[w].todo = {} /\ send' = [send EXCEPT ![w] = t]
      /\ answered' = answered \cup {m}
      /\ UNCHANGED <<begun, message, subs, pending, stream, after>>
    BY <1>1, <1>2 DEF PublishEnd
<1>5. Live(w) /\ m \in DOMAIN message
    BY <1>1, <1>3, <1>4 DEF SendOK, Live
<1>6. send'[w] = Idle /\ send' \in [Senders -> SendState]
    BY <1>2, <1>4 DEF ChatInv, TypeOK, SendState
<1>7. TypeOK'
    BY <1>4, <1>5, <1>6, StreamsKeepType DEF ChatInv, TypeOK
<1>8. SendOK(w)'
    BY <1>6 DEF SendOK, Live, Idle
<1>9. AfterAnswered'
    BY <1>4 DEF ChatInv, AfterAnswered
<1>10. ASSUME NEW s \in Streams, Wants(s, m), message[m] = stream[s].conv
       PROVE  FALSE
  <2>1. ToPublish(m, s)
      BY <1>5, <1>10 DEF Wants, ChatInv, StreamInv, Complete
  <2>2. PICK v \in Senders : send[v].message = m /\ (send[v].pc = "publish" \/ s \in send[v].todo)
      BY <2>1 DEF ToPublish
  <2>3. Live(v)
      BY <2>2 DEF Live, ChatInv, SendOK
  <2>4. v = w
      BY <1>1, <1>5, <2>2, <2>3 DEF ChatInv, OwnNumbers
  <2> QED BY <1>4, <2>2, <2>4
<1> QED
    BY <1>1, <1>2, <1>3, <1>4, <1>5, <1>7, <1>8, <1>9, <1>10, SenderMoves

-----------------------------------------------------------------------------
(* One iteration of the publish loop *)

Pushed(s, m) ==
    [stream[s] EXCEPT
        !.channel = IF Room(s) THEN Append(@, m) ELSE @,
        !.dropped = IF Room(s) \/ ~ stream[s].connected THEN @ ELSE @ \cup {m}]

Reaches(w, s, m, t) == s \in send[w].todo /\ m = send[w].message /\ t = Pushed(s, m)

(* The stream that is reached gets the message, behind all that was         *)
(* answered before it was begun, or loses it.                               *)
LEMMA PublishReaches ==
    ASSUME ChatInv, NEW w \in Senders, NEW s, NEW m, NEW t, Reaches(w, s, m, t)
    PROVE  /\ s \in Streams /\ IsStream(t)
           /\ t.pc = stream[s].pc /\ t.conv = stream[s].conv /\ t.held = stream[s].held
           /\ t.connected = stream[s].connected /\ t.received = stream[s].received
           /\ t.since = stream[s].since
           /\ Ordered(FeedOf(t), t.conv)
           /\ Elements(Feed(s)) \subseteq Elements(FeedOf(t))
           /\ Elements(FeedOf(t)) \subseteq Elements(Feed(s)) \cup {m}
           /\ stream[s].dropped \subseteq t.dropped
           /\ stream[s].connected => m \in Elements(FeedOf(t)) \cup t.dropped
<1>1. /\ send[w] \in SendState /\ SendOK(w) /\ DOMAIN message \subseteq 1 .. begun
      /\ DOMAIN message \subseteq Message
    BY SendFacts
<1> /\ s \in send[w].todo /\ m = send[w].message /\ t = Pushed(s, m)
    BY DEF Reaches
<1>2. send[w].pc = "publishing" /\ s \in Streams
    BY <1>1 DEF SendState, Idle, SendOK
<1>3. /\ m \in DOMAIN message /\ m \notin answered /\ m \notin Elements(Feed(s))
      /\ message[m] = send[w].conv /\ send[w].conv \in Conversations
      /\ s \in Subscribers(send[w].conv)
    BY <1>1, <1>2 DEF SendOK, Live, SendState, Idle
<1>4. stream[s].conv = message[m]
    BY <1>2, <1>3 DEF ChatInv, StreamInv, Known, Subscribing
<1>5. PICK u : u = stream[s]
    OBVIOUS
<1>6. /\ IsStream(u) /\ Feed(s) = FeedOf(u) /\ Ordered(FeedOf(u), u.conv)
    BY <1>2, <1>5, StreamFacts
<1>7. PICK q : q = FeedOf(u)
    OBVIOUS
<1>8. /\ u.received \in Seq(DOMAIN message) /\ Held(u) \in Seq(DOMAIN message)
      /\ u.channel \in Seq(DOMAIN message) /\ q \in Seq(DOMAIN message)
    BY <1>2, <1>5, <1>6, <1>7, FeedType DEF ChatInv
<1>0. PICK S : q \in Seq(S) /\ m \in S /\ u.received \in Seq(S) /\ u.channel \in Seq(S)
              /\ Held(u) \in Seq(S)
    BY <1>3, <1>8
<1>9. /\ DOMAIN t = DOMAIN u
      /\ t.pc = u.pc /\ t.conv = u.conv /\ t.held = u.held /\ t.connected = u.connected
      /\ t.received = u.received /\ t.since = u.since
    BY <1>5, <1>6 DEF IsStream, Closed, Pushed
<1>10. CASE Room(s)
  <2>1. t.channel = Append(u.channel, m) /\ t.dropped = u.dropped
      BY <1>5, <1>6, <1>10 DEF IsStream, Closed, Pushed
  <2>2. t.channel \in Seq(DOMAIN message) /\ Len(t.channel) <= Buffer
      BY <1>3, <1>5, <1>8, <1>10, <2>1, BufferAssumption DEF Room
  <2>3. IsStream(t)
      BY <1>6, <1>9, <2>1, <2>2 DEF IsStream
  <2>4. FeedOf(t) = Append(q, m)
    <3>1. PICK h : h = Held(u)
        OBVIOUS
    <3>2. PICK r, c : r = u.received /\ c = u.channel
        OBVIOUS
    <3>3. q = r \o h \o c
        BY <1>7, <3>1, <3>2 DEF FeedOf
    <3>4. FeedOf(t) = r \o h \o Append(c, m)
      <4>1. FeedOf(t) = u.received \o Held(u) \o t.channel
          BY <1>9, FeedParts
      <4> QED BY <2>1, <3>1, <3>2, <4>1
    <3>5. r \in Seq(S) /\ h \in Seq(S) /\ c \in Seq(S)
        BY <1>0, <3>1, <3>2
    <3>6. r \o h \o Append(c, m) = Append(r \o h \o c, m)
        BY <1>0, <3>5, PublishSeq
    <3> QED BY <3>3, <3>4, <3>6
  <2>5. Elements(FeedOf(t)) = Elements(q) \cup {m}
    <3>2. \A x : x \in Elements(Append(q, m)) <=> x \in Elements(q) \/ x = m
        BY <1>0, AppendElements
    <3> QED BY <2>4, <3>2
  <2>6. \A x \in Elements(q) : m \notin after[x] \cup {x}
    <3>1. \A x \in Elements(q) : x \in 1 .. begun
        BY <1>1, <1>8 DEF Elements
    <3> QED BY <1>3, <1>6, <1>7, <3>1 DEF ChatInv, AfterAnswered
  <2>7. Ordered(FeedOf(t), t.conv)
    <3>1. q \in Seq(S) /\ m \in S /\ message[m] = t.conv /\ Ordered(q, t.conv)
        BY <1>0, <1>3, <1>4, <1>5, <1>6, <1>7, <1>9
    <3>2. Ordered(Append(q, m), t.conv)
        BY <2>6, <3>1, OrderedAppend, Zenon
    <3> QED BY <2>4, <3>2
  <2> QED BY <1>2, <1>5, <1>6, <1>7, <1>9, <2>1, <2>3, <2>5, <2>7
<1>11. CASE ~ Room(s)
  <2>1. /\ t.channel = u.channel
        /\ t.dropped = IF u.connected THEN u.dropped \cup {m} ELSE u.dropped
      BY <1>5, <1>6, <1>11 DEF IsStream, Closed, Pushed
  <2>2. IsStream(t)
    <3>1. t.dropped \subseteq Message
        BY <1>1, <1>3, <1>6, <2>1 DEF IsStream
    <3> QED BY <1>6, <1>9, <2>1, <3>1 DEF IsStream
  <2>3. FeedOf(t) = q
    <3>1. FeedOf(t) = u.received \o Held(u) \o t.channel
        BY <1>9, FeedParts
    <3> QED BY <1>7, <2>1, <3>1 DEF FeedOf
  <2> QED BY <1>2, <1>5, <1>6, <1>7, <1>9, <2>1, <2>2, <2>3
<1> QED BY <1>10, <1>11

LEMMA PublishKeeps ==
    ASSUME ChatInv, NEW w \in Senders, Publish(w)
    PROVE  ChatInv'
<1>1. PICK s \in send[w].todo :
        /\ stream' = [stream EXCEPT
             ![s].channel = IF Room(s) THEN Append(@, send[w].message) ELSE @,
             ![s].dropped = IF Room(s) \/ ~ stream[s].connected
                              THEN @ ELSE @ \cup {send[w].message}]
        /\ send' = [send EXCEPT ![w].todo = @ \ {s}]
        /\ UNCHANGED <<begun, message, subs, pending, answered, after>>
    BY DEF Publish
<1>2. PICK m : m = send[w].message
    OBVIOUS
<1>3. PICK t : t = Pushed(s, m)
    OBVIOUS
<1>4. /\ s \in Streams /\ IsStream(t)
      /\ t.pc = stream[s].pc /\ t.conv = stream[s].conv /\ t.held = stream[s].held
      /\ t.connected = stream[s].connected /\ t.received = stream[s].received
      /\ t.since = stream[s].since
      /\ Ordered(FeedOf(t), t.conv)
      /\ Elements(Feed(s)) \subseteq Elements(FeedOf(t))
      /\ Elements(FeedOf(t)) \subseteq Elements(Feed(s)) \cup {m}
      /\ stream[s].dropped \subseteq t.dropped
      /\ stream[s].connected => m \in Elements(FeedOf(t)) \cup t.dropped
  <2>1. Reaches(w, s, m, t)
      BY <1>1, <1>2, <1>3 DEF Reaches
  <2> QED BY <2>1, PublishReaches
<1>5. stream' = [stream EXCEPT ![s] = t]
    BY <1>1, <1>2, <1>3, <1>4 DEF ChatInv, TypeOK, IsStream, Closed, Pushed
<1>6. stream'[s] = t /\ \A x \in Streams \ {s} : stream'[x] = stream[x]
    BY <1>4, <1>5 DEF ChatInv, TypeOK
<1>7. Feed(s)' = FeedOf(t) /\ \A x \in Streams \ {s} : Feed(x)' = Feed(x)
    BY <1>6, FeedNext, FeedSame
<1>8. /\ send[w] \in SendState /\ SendOK(w)
    BY SendFacts
<1>9. /\ send[w].pc = "publishing" /\ Live(w)
    BY <1>8 DEF SendState, Idle, SendOK, Live
<1>10. /\ \A v \in Senders : send'[v].pc = send[v].pc /\ send'[v].message = send[v].message
                              /\ send'[v].conv = send[v].conv
       /\ send'[w].todo = send[w].todo \ {s}
       /\ \A v \in Senders \ {w} : send'[v] = send[v]
       /\ send' \in [Senders -> SendState]
  <2>1. [send[w] EXCEPT !.todo = @ \ {s}] \in SendState
      BY <1>8, <1>9 DEF SendState, Idle
  <2>2. send'[w] = [send[w] EXCEPT !.todo = @ \ {s}] /\ \A v \in Senders \ {w} : send'[v] = send[v]
      BY <1>1 DEF ChatInv, TypeOK
  <2>3. send'[w].pc = send[w].pc /\ send'[w].message = send[w].message
        /\ send'[w].conv = send[w].conv /\ send'[w].todo = send[w].todo \ {s}
      BY <1>8, <1>9, <2>2 DEF SendState, Idle
  <2>4. send' \in [Senders -> SendState]
      BY <1>1, <2>1, <2>2 DEF ChatInv, TypeOK
  <2> QED BY <2>2, <2>3, <2>4
<1>11. TypeOK'
  <2>1. \A x \in Streams : IsStream(stream'[x])
      BY <1>4, <1>6 DEF ChatInv, TypeOK
  <2>2. \A x \in Streams : IsStream(stream[x])'
      BY <1>1, <2>1 DEF IsStream
  <2> QED BY <1>1, <1>10, <2>2 DEF ChatInv, TypeOK
<1>12. ASSUME NEW x \in Streams PROVE StreamInv(x)'
  <2>1. StreamOK(x)' /\ Known(x)'
    <3>1. StreamOK(x) /\ Known(x)
        BY DEF ChatInv, StreamInv
    <3>2. /\ stream'[x].pc = stream[x].pc /\ stream'[x].conv = stream[x].conv
          /\ stream'[x].held = stream[x].held /\ stream'[x].received = stream[x].received
          /\ stream'[x].connected = stream[x].connected
        BY <1>4, <1>6
    <3>3. StreamOK(x)'
        BY <3>1, <3>2 DEF StreamOK
    <3>4. Known(x)'
        BY <1>1, <3>1, <3>2 DEF Known, Subscribing, Subscribers
    <3> QED BY <3>3, <3>4
  <2>2. Ordered(Feed(x), stream[x].conv)'
    <3>1. CASE x = s
        BY <1>1, <1>4, <1>6, <1>7, <3>1 DEF Ordered
    <3>2. CASE x # s
        BY <1>1, <1>6, <1>7, <3>2 DEF ChatInv, StreamInv, Ordered
    <3> QED BY <3>1, <3>2
  <2>3. ASSUME stream'[x].pc \in {"select", "write"}, stream'[x].connected,
               NEW y \in DOMAIN message \ stream'[x].since, message[y] = stream'[x].conv,
               y \notin Elements(Feed(x)') \cup stream'[x].dropped
        PROVE  \E v \in Senders : send'[v].message = y /\ (send'[v].pc = "publish" \/ x \in send'[v].todo)
    <3>1. /\ stream[x].pc \in {"select", "write"} /\ stream[x].connected
          /\ y \notin stream[x].since /\ message[y] = stream[x].conv
          /\ y \notin Elements(Feed(x)) \cup stream[x].dropped
        BY <1>4, <1>6, <1>7, <2>3
    <3>2. PICK v \in Senders : send[v].message = y /\ (send[v].pc = "publish" \/ x \in send[v].todo)
        BY <3>1 DEF ChatInv, StreamInv, Complete, ToPublish
    <3>3. ~ (v = w /\ x = s)
        BY <1>2, <1>4, <1>6, <1>7, <2>3, <3>1, <3>2
    <3>4. send'[v].pc = "publish" \/ x \in send'[v].todo
        BY <1>10, <3>2, <3>3
    <3> QED BY <1>10, <3>2, <3>4
  <2>4. Complete(x)'
      BY <1>1, <2>3 DEF Complete, ToPublish
  <2> QED BY <2>1, <2>2, <2>4 DEF StreamInv
<1>13. ASSUME NEW v \in Senders PROVE SendOK(v)'
  <2>1. SendOK(v)
      BY DEF ChatInv
  <2>2. ASSUME NEW x \in Streams, send'[v].pc = "publish" \/ x \in send'[v].todo
        PROVE  send'[v].message \notin Elements(Feed(x)')
    <3>1. send[v].message \notin Elements(Feed(x)) /\ Live(v)
        BY <1>10, <2>1, <2>2 DEF SendOK, Live
    <3>2. CASE x # s
        BY <1>7, <1>10, <3>1, <3>2
    <3>3. CASE x = s
      <4>1. v # w
          BY <1>9, <1>10, <2>2, <3>3
      <4>2. send[v].message # m
          BY <1>2, <1>9, <3>1, <4>1 DEF ChatInv, OwnNumbers
      <4> QED BY <1>4, <1>7, <1>10, <3>1, <3>3, <4>2
    <3> QED BY <3>2, <3>3
  <2>3. send'[v].todo \subseteq send[v].todo
      BY <1>10
  <2> QED BY <1>1, <1>10, <2>1, <2>2, <2>3 DEF SendOK, Live, Subscribers, Elements
<1> QED
    BY <1>1, <1>10, <1>11, <1>12, <1>13 DEF ChatInv, OwnNumbers, AfterAnswered, Live

-----------------------------------------------------------------------------
(* Steps under the write lock *)

(* No publisher is at its loop, so the hub may change: s enters or leaves.  *)
LEMMA HubMoves ==
    ASSUME ChatInv, NEW s \in Streams, NEW t, Reading = {},
           stream' = [stream EXCEPT ![s] = t], pending' = None,
           UNCHANGED <<begun, message, send, answered, after>>,
           IsStream(t), t.pc \notin {"select", "write"}, t.held = None,
           t.pc # "off" => t.conv \in Conversations,
           ~ t.connected => t.received = <<>>,
           Ordered(FeedOf(t), t.conv), Elements(FeedOf(t)) \subseteq Elements(Feed(s)),
           DOMAIN subs' \subseteq Conversations, subs' \in [DOMAIN subs' -> SUBSET Streams],
           \A c \in DOMAIN subs' : subs'[c] # {},
           \A c \in Conversations : s \in Subscribers(c)' <=> Subscribing(t, c),
           \A x \in Streams \ {s}, c \in Conversations :
               x \in Subscribers(c)' <=> x \in Subscribers(c)
    PROVE  ChatInv'
<1>1. stream'[s] = t /\ \A x \in Streams \ {s} : stream'[x] = stream[x]
    BY DEF ChatInv, TypeOK
<1>2. Feed(s)' = FeedOf(t) /\ \A x \in Streams \ {s} : Feed(x)' = Feed(x)
    BY <1>1, FeedNext, FeedSame
<1>3. TypeOK'
  <2>1. \A x \in Streams : IsStream(stream'[x])
      BY <1>1 DEF ChatInv, TypeOK
  <2>2. \A x \in Streams : IsStream(stream[x])'
      BY <2>1 DEF IsStream
  <2> QED BY <2>2 DEF ChatInv, TypeOK
<1>4. StreamInv(s)'
  <2>1. StreamOK(s)' /\ Known(s)' /\ Complete(s)'
      BY <1>1 DEF StreamOK, Known, Complete, Subscribing
  <2>2. Ordered(Feed(s), stream[s].conv)'
      BY <1>1, <1>2 DEF Ordered
  <2> QED BY <2>1, <2>2 DEF StreamInv
<1>5. ASSUME NEW x \in Streams \ {s} PROVE StreamInv(x)'
    BY <1>1, SameStream
<1>6. ASSUME NEW w \in Senders PROVE SendOK(w)'
  <2>1. SendOK(w) /\ send[w].todo = {}
      BY DEF ChatInv, SendOK, Reading
  <2>2. \A x \in Streams : Elements(Feed(x)') \subseteq Elements(Feed(x))
      BY <1>2
  <2> QED BY <2>1, <2>2 DEF SendOK, Live, Elements
<1> QED BY <1>3, <1>4, <1>5, <1>6 DEF ChatInv, OwnNumbers, AfterAnswered, Live

LEMMA SubscribeKeeps ==
    ASSUME ChatInv, NEW s \in Streams, Subscribe(s)
    PROVE  ChatInv'
<1>1. PICK u : u = stream[s]
    OBVIOUS
<1>2. PICK t : t = [u EXCEPT !.pc = "greet"]
    OBVIOUS
<1>3. PICK c : c = u.conv
    OBVIOUS
<1>4. /\ IsStream(u) /\ StreamOK(s) /\ Feed(s) = FeedOf(u) /\ Ordered(FeedOf(u), u.conv)
    BY <1>1, StreamFacts
<1>5. /\ t.pc = "greet" /\ t.held = u.held /\ t.received = u.received
      /\ DOMAIN t = DOMAIN u /\ t.since = u.since /\ t.conv = c
      /\ t.connected = u.connected /\ t.channel = u.channel /\ t.dropped = u.dropped
    BY <1>2, <1>3, <1>4 DEF IsStream, Closed
<1>6. /\ stream' = [stream EXCEPT ![s] = t] /\ u.pc = "subscribe" /\ Reading = {}
      /\ pending' = None /\ UNCHANGED <<begun, message, send, answered, after>>
      /\ subs' = With(c, Subscribers(c) \cup {s})
    BY <1>1, <1>2, <1>3, <1>4 DEF Subscribe, Subscribed, Locked, ChatInv, TypeOK
<1>7. IsStream(t)
    BY <1>3, <1>4, <1>5 DEF IsStream
<1>8. FeedOf(t) = FeedOf(u)
    BY <1>5 DEF FeedOf, Held
<1>9. /\ c \in Conversations /\ t.held = None
      /\ ~ t.connected => t.received = <<>>
    BY <1>1, <1>3, <1>4, <1>5, <1>6 DEF StreamOK
<1>10. /\ DOMAIN subs' = DOMAIN subs \cup {c} /\ subs'[c] = Subscribers(c) \cup {s}
       /\ \A d \in DOMAIN subs \ {c} : subs'[d] = subs[d]
    BY <1>6 DEF With
<1>11. /\ DOMAIN subs \subseteq Conversations /\ \A d \in DOMAIN subs : subs[d] \subseteq Streams
       /\ \A d \in DOMAIN subs : subs[d] # {}
    BY DEF ChatInv, TypeOK
<1>12. DOMAIN subs' \subseteq Conversations /\ \A d \in DOMAIN subs' : subs'[d] # {}
    BY <1>9, <1>10, <1>11
<1>13. subs' \in [DOMAIN subs' -> SUBSET Streams]
  <2>1. \A d \in DOMAIN subs' : subs'[d] \in SUBSET Streams
      BY <1>10, <1>11 DEF Subscribers
  <2>2. subs' = [d \in DOMAIN subs' |-> subs'[d]]
      BY <1>6 DEF With
  <2> QED BY <2>1, <2>2
<1>14. \A x, d : x \in Subscribers(d)' <=> x \in Subscribers(d) \/ (d = c /\ x = s)
    BY <1>10 DEF Subscribers
<1>15. \A d \in Conversations : s \notin Subscribers(d)
    BY <1>1, <1>6 DEF ChatInv, StreamInv, Known, Subscribing
<1>16. \A d \in Conversations : s \in Subscribers(d)' <=> Subscribing(t, d)
    BY <1>5, <1>14, <1>15 DEF Subscribing
<1>17. t.pc \notin {"select", "write"} /\ t.pc # "off" /\ t.conv \in Conversations
    BY <1>5, <1>9
<1> QED
    BY <1>3, <1>4, <1>5, <1>6, <1>7, <1>8, <1>9, <1>12, <1>13, <1>14, <1>16, <1>17, HubMoves

LEMMA ClosedType ==
    /\ IsStream(Closed) /\ FeedOf(Closed) = <<>>
    /\ Closed.pc = "off" /\ Closed.held = None /\ Closed.received = <<>>
<1> PICK t : t = Closed
    OBVIOUS
<1>1. /\ t.pc = "off" /\ t.held = None /\ t.received = <<>> /\ DOMAIN t = DOMAIN Closed
      /\ t.since = {} /\ t.conv = None /\ t.connected \in BOOLEAN
      /\ t.channel = <<>> /\ t.dropped = {}
    BY DEF Closed
<1>2. <<>> \in Seq(DOMAIN message) /\ Len(<<>>) <= Buffer
    BY BufferAssumption
<1>3. IsStream(t)
    BY <1>1, <1>2 DEF IsStream
<1>4. FeedOf(t) = <<>>
    BY <1>1 DEF FeedOf, Held
<1> QED BY <1>1, <1>3, <1>4

LEMMA UnsubscribeKeeps ==
    ASSUME ChatInv, NEW s \in Streams, Unsubscribe(s)
    PROVE  ChatInv'
<1>1. PICK c : c = stream[s].conv
    OBVIOUS
<1>2. PICK t : t = Closed
    OBVIOUS
<1>3. PICK left : left = Subscribers(c) \ {s}
    OBVIOUS
<1>4. /\ stream' = [stream EXCEPT ![s] = t] /\ stream[s].pc = "unsubscribe" /\ Reading = {}
      /\ pending' = None /\ UNCHANGED <<begun, message, send, answered, after>>
      /\ subs' = Without(c, s)
    BY <1>1, <1>2 DEF Unsubscribe, Locked
<1>5. t.pc = "off" /\ t.held = None /\ t.received = <<>>
    BY <1>2, ClosedType
<1>6. IsStream(t)
    BY <1>2, ClosedType
<1>7. FeedOf(t) = <<>>
    BY <1>2, ClosedType
<1>8. Ordered(FeedOf(t), t.conv) /\ Elements(FeedOf(t)) \subseteq Elements(Feed(s))
    BY <1>7, OrderedEmpty DEF Elements
<1>9. c \in Conversations /\ s \in Subscribers(c)
    BY <1>1, <1>4 DEF ChatInv, StreamInv, StreamOK, Known, Subscribing
<1>10. /\ DOMAIN subs \subseteq Conversations /\ \A d \in DOMAIN subs : subs[d] \subseteq Streams
       /\ \A d \in DOMAIN subs : subs[d] # {}
    BY DEF ChatInv, TypeOK
<1>11. c \in DOMAIN subs /\ subs[c] = Subscribers(c) /\ left \subseteq Streams
    BY <1>3, <1>9, <1>10 DEF Subscribers
<1>12. /\ DOMAIN subs' = IF left = {} THEN DOMAIN subs \ {c} ELSE DOMAIN subs
       /\ left # {} => subs'[c] = left
       /\ \A d \in DOMAIN subs \ {c} : subs'[d] = subs[d]
       /\ subs' = [d \in DOMAIN subs' |-> subs'[d]]
    BY <1>3, <1>4, <1>11 DEF Without, With
<1>13. DOMAIN subs' \subseteq Conversations /\ \A d \in DOMAIN subs' : subs'[d] # {}
    BY <1>10, <1>12
<1>14. subs' \in [DOMAIN subs' -> SUBSET Streams]
  <2>1. \A d \in DOMAIN subs' : subs'[d] \in SUBSET Streams
      BY <1>10, <1>11, <1>12
  <2> QED BY <1>12, <2>1
<1>15. \A x, d : x \in Subscribers(d)' <=> x \in Subscribers(d) /\ ~ (d = c /\ x = s)
    BY <1>3, <1>11, <1>12 DEF Subscribers
<1>16. \A d \in Conversations : s \in Subscribers(d) => d = c
    BY <1>1 DEF ChatInv, StreamInv, Known, Subscribing
<1>17. \A d \in Conversations : s \in Subscribers(d)' <=> Subscribing(t, d)
    BY <1>5, <1>15, <1>16 DEF Subscribing
<1> QED
    BY <1>4, <1>5, <1>6, <1>8, <1>13, <1>14, <1>15, <1>17, HubMoves

-----------------------------------------------------------------------------
(* A fresh process, at the start and after a restart *)

Fresh ==
    /\ send = [w \in Senders |-> Idle]
    /\ subs = [c \in {} |-> {}]
    /\ pending = None
    /\ stream = [s \in Streams |-> Closed]
    /\ begun \in 0 .. MaxMessages
    /\ DOMAIN message \subseteq 1 .. begun
    /\ message \in [DOMAIN message -> Conversations]
    /\ answered \subseteq DOMAIN message
    /\ after \in [1 .. begun -> SUBSET Message]
    /\ AfterAnswered

LEMMA FreshProcess == Fresh => ChatInv
<1> SUFFICES ASSUME Fresh PROVE ChatInv
    OBVIOUS
<1> USE DEF Fresh
<1>1. ASSUME NEW s \in Streams PROVE IsStream(stream[s]) /\ StreamInv(s)
  <2>1. PICK t : t = stream[s]
      OBVIOUS
  <2>2. t.pc = "off" /\ t.held = None /\ t.received = <<>>
      BY <2>1, ClosedType
  <2>3. IsStream(t)
      BY <2>1, ClosedType
  <2>4. Feed(s) = FeedOf(t)
      BY <2>1 DEF Feed, FeedOf, Held
  <2>5. FeedOf(t) = <<>>
      BY <2>1, ClosedType
  <2>6. Ordered(Feed(s), t.conv)
      BY <2>4, <2>5, OrderedEmpty
  <2>7. StreamOK(s) /\ Complete(s) /\ Known(s)
      BY <2>1, <2>2 DEF StreamOK, Complete, Known, Subscribing, Subscribers
  <2> QED BY <2>1, <2>3, <2>6, <2>7 DEF StreamInv
<1>2. ASSUME NEW w \in Senders PROVE SendOK(w) /\ ~ Live(w)
    BY DEF SendOK, Live, Idle
<1>3. TypeOK
    BY <1>1 DEF TypeOK, SendState
<1> QED BY <1>1, <1>2, <1>3 DEF ChatInv, OwnNumbers

LEMMA RestartKeeps == ASSUME ChatInv, Restart PROVE ChatInv'
<1>1. Fresh'
    BY DEF ChatInv, Restart, TypeOK, AfterAnswered, Fresh
<1> QED BY <1>1, FreshProcess, PTL

-----------------------------------------------------------------------------
(* The invariants *)

LEMMA ChatInit == Init => ChatInv
<1> SUFFICES ASSUME Init PROVE ChatInv
    OBVIOUS
<1>1. Fresh
    BY MessagesAssumption DEF Init, Fresh, AfterAnswered
<1> QED BY <1>1, FreshProcess

LEMMA ChatNext == ChatInv /\ [Next]_vars => ChatInv'
<1> SUFFICES ASSUME ChatInv, [Next]_vars PROVE ChatInv'
    OBVIOUS
<1>1. ASSUME NEW w \in Senders, SendBegin(w) \/ Sending(w) \/ StoreFail(w) PROVE ChatInv'
    BY <1>1, BeginKeeps, StoreKeeps, StoreFailKeeps, PublishBeginKeeps, PublishKeeps,
       PublishEndKeeps DEF Sending
<1>2. ASSUME NEW s \in Streams, StreamOpen(s) \/ Disconnect(s) PROVE ChatInv'
    BY <1>2, OpenKeeps, DisconnectKeeps
<1>3. ASSUME NEW s \in Streams, Streaming(s) PROVE ChatInv'
    BY <1>3, GreetKeeps, TakeKeeps, DeliverKeeps, LeaveKeeps, AnnounceKeeps,
       SubscribeKeeps, UnsubscribeKeeps DEF Streaming
<1>4. CASE Restart
    BY <1>4, RestartKeeps
<1>5. CASE UNCHANGED vars
  <2>1. TypeOK' /\ (\A w \in Senders : SendOK(w)') /\ \A s \in Streams : StreamInv(s)'
      BY <1>5, SameStream
      DEF vars, ChatInv, TypeOK, IsStream, SendOK, Live, Subscribers, Feed
  <2> QED BY <1>5, <2>1 DEF vars, ChatInv, OwnNumbers, AfterAnswered, Live
<1> QED BY <1>1, <1>2, <1>3, <1>4, <1>5 DEF Next

(* Every reachable state satisfies ChatInv.                                 *)
THEOREM ChatInductive == Spec => []ChatInv
BY ChatInit, ChatNext, PTL DEF Spec

(* Requests, streams, hub and table have their shapes; no channel holds     *)
(* more than its capacity; no stream carries what was not stored.           *)
THEOREM ChatTypeCorrect == Spec => []TypeOK
<1>1. ChatInv => TypeOK
    BY DEF ChatInv
<1> QED BY <1>1, ChatInductive, PTL

(* The hub knows exactly the streams that have subscribed and not yet       *)
(* unsubscribed, and keeps no empty entry.                                  *)
THEOREM HubIsExact == Spec => []HubExact
<1>1. ChatInv => HubExact
    BY DEF ChatInv, HubExact, StreamInv, Known, Subscribing
<1> QED BY <1>1, ChatInductive, PTL

(* A feed holds its conversation's messages, each once, and nothing that    *)
(* was begun after another was answered comes before it.                    *)
THEOREM FeedsInOrder == Spec => []FeedInOrder
<1>1. ChatInv => FeedInOrder
    BY DEF ChatInv, FeedInOrder, StreamInv, Ordered
<1> QED BY <1>1, ChatInductive, PTL

(* A greeted client misses no message stored from then on, except those     *)
(* that found its channel full.                                             *)
THEOREM GreetedMissesNothing == Spec => []NothingMissed
<1>1. ChatInv => NothingMissed
    BY DEF ChatInv, NothingMissed, StreamInv, Complete
<1> QED BY <1>1, ChatInductive, PTL

=============================================================================
