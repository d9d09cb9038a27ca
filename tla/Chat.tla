-------------------------------- MODULE Chat --------------------------------
(* Sending and streaming chat messages (backend/internal/chat/{service,http} *)
(* .go): a send stores the message, then publishes it through the hub, a map *)
(* of subscriber channels behind a sync.RWMutex; a stream request subscribes *)
(* and a goroutine of its own copies its channel to the HTTP response.       *)
(*                                                                           *)
(* A message is its number in the order of created_at (NewID and now are     *)
(* taken together). Bodies, profiles and tokens are left out.                *)
EXTENDS Naturals, Sequences, FiniteSets

CONSTANTS
    Users, Conversations,
    Members,      \* conversation -> its two users
    Senders,      \* goroutines that serve SendChatMessage
    Streams,      \* goroutines that serve StreamChatMessages
    Buffer,       \* capacity of a subscriber's channel: 32 in the code
    MaxMessages,  \* bound of the model on messages begun
    None

ASSUME MembersAssumption == Members \in [Conversations -> SUBSET Users]
ASSUME BufferAssumption == Buffer \in Nat \ {0}
ASSUME MessagesAssumption == MaxMessages \in Nat
ASSUME NoneAssumption == None \notin Streams \cup (1 .. MaxMessages)

VARIABLES
    begun,    \* number of messages begun
    message,  \* the table: message -> its conversation
    send,     \* per sender: next statement, message, conversation, who is left
    subs,     \* hub.subs: conversation -> subscribed streams
    pending,  \* the stream that has announced hub.mu.Lock, or None
    stream,   \* per stream: goroutine, channel and client
    answered, \* history: messages whose send was answered
    after     \* history: message -> messages answered when it was begun

vars == <<begun, message, send, subs, pending, stream, answered, after>>

Message == 1 .. MaxMessages
Elements(q) == {q[i] : i \in DOMAIN q}

Idle == [pc |-> "idle", message |-> None, conv |-> None, todo |-> {}]
Closed ==
    [pc |-> "off", conv |-> None, connected |-> FALSE, channel |-> <<>>,
     held |-> None, received |-> <<>>, since |-> {}, dropped |-> {}]

SendState ==
    {Idle} \cup
    [pc : {"store", "publish", "publishing"}, message : Message,
     conv : Conversations, todo : SUBSET Streams]

IsStream(t) ==
    /\ DOMAIN t = DOMAIN Closed
    /\ t.pc \in {"off", "subscribe", "greet", "select", "write", "unsubscribe"}
    /\ t.conv \in Conversations \cup {None}
    /\ t.connected \in BOOLEAN
    /\ t.channel \in Seq(DOMAIN message) /\ Len(t.channel) <= Buffer
    /\ t.held \in DOMAIN message \cup {None}
    /\ t.received \in Seq(DOMAIN message)
    /\ t.since \subseteq Message /\ t.dropped \subseteq Message

(* Requests, streams, the hub and the message table have their shapes, no    *)
(* channel holds more than its capacity, and no stream carries a message     *)
(* that was not stored (chat/service.go).                                    *)
TypeOK ==
    /\ begun \in 0 .. MaxMessages
    /\ DOMAIN message \subseteq 1 .. begun
    /\ message \in [DOMAIN message -> Conversations]
    /\ send \in [Senders -> SendState]
    /\ DOMAIN subs \subseteq Conversations
    /\ subs \in [DOMAIN subs -> SUBSET Streams]
    /\ pending \in Streams \cup {None}
    /\ DOMAIN stream = Streams /\ \A s \in Streams : IsStream(stream[s])
    /\ answered \subseteq DOMAIN message
    /\ after \in [1 .. begun -> SUBSET Message]

Init ==
    /\ begun = 0
    /\ message = [m \in {} |-> None]
    /\ send = [w \in Senders |-> Idle]
    /\ subs = [c \in {} |-> {}]
    /\ pending = None
    /\ stream = [s \in Streams |-> Closed]
    /\ answered = {}
    /\ after = [m \in {} |-> {}]

-----------------------------------------------------------------------------
(* The hub's RWMutex: a goroutine that has announced Lock keeps new readers  *)
(* out and goes on when the readers inside have left.                        *)
Reading == {w \in Senders : send[w].pc = "publishing"}
RLockFree == pending = None
Locked(s) == pending = s /\ Reading = {}

Subscribers(c) == IF c \in DOMAIN subs THEN subs[c] ELSE {}
With(c, ss) ==
    [d \in DOMAIN subs \cup {c} |-> IF d = c THEN ss ELSE subs[d]]
(* Mutant: the last subscriber leaves an empty entry behind.                 *)
KeepingEntry(c, s) == With(c, Subscribers(c) \ {s})
Without(c, s) ==
    LET left == Subscribers(c) \ {s}
    IN  IF left = {} THEN [d \in DOMAIN subs \ {c} |-> subs[d]] ELSE With(c, left)

(* Mutant: the hub keeps one channel per conversation.                       *)
SubscribedAlone(c, s) == With(c, {s})
Subscribed(c, s) == With(c, Subscribers(c) \cup {s})

-----------------------------------------------------------------------------
(* SendChatMessage *)

(* The sender is a member; CreateMessage takes an id and the time.           *)
SendBegin(w) ==
    \E u \in Users, c \in Conversations :
        /\ send[w] = Idle
        /\ u \in Members[c]
        /\ begun < MaxMessages
        /\ begun' = begun + 1
        /\ send' = [send EXCEPT ![w] =
             [pc |-> "store", message |-> begun + 1, conv |-> c, todo |-> {}]]
        /\ after' = [m \in 1 .. begun + 1 |->
             IF m <= begun THEN after[m] ELSE answered]
        /\ UNCHANGED <<message, subs, pending, stream, answered>>

(* The transaction of CreateMessage commits.                                 *)
Store(w) ==
    LET t == send[w] IN
    /\ t.pc = "store"
    /\ message' = [m \in DOMAIN message \cup {t.message} |->
         IF m = t.message THEN t.conv ELSE message[m]]
    /\ send' = [send EXCEPT ![w].pc = "publish"]
    /\ UNCHANGED <<begun, subs, pending, stream, answered, after>>

(* Mutant: the error of CreateMessage does not keep Send from publishing.    *)
StoreFailIgnored(w) ==
    /\ send[w].pc = "store"
    /\ send' = [send EXCEPT ![w].pc = "publish"]
    /\ UNCHANGED <<begun, message, subs, pending, stream, answered, after>>
StoreFail(w) ==
    /\ send[w].pc = "store"
    /\ send' = [send EXCEPT ![w] = Idle]
    /\ UNCHANGED <<begun, message, subs, pending, stream, answered, after>>

(* publish takes the read lock; subs cannot change until it gives it back.   *)
(* Mutant: "go s.hub.publish(...)", the sender does not wait for it.         *)
PublishBeginAsync(w) ==
    /\ send[w].pc = "publish"
    /\ RLockFree
    /\ send' = [send EXCEPT ![w].pc = "publishing", ![w].todo = Subscribers(send[w].conv)]
    /\ answered' = answered \cup {send[w].message}
    /\ UNCHANGED <<begun, message, subs, pending, stream, after>>
PublishBegin(w) ==
    /\ send[w].pc = "publish"
    /\ RLockFree
    /\ send' = [send EXCEPT ![w].pc = "publishing", ![w].todo = Subscribers(send[w].conv)]
    /\ UNCHANGED <<begun, message, subs, pending, stream, answered, after>>

Room(s) == Len(stream[s].channel) < Buffer

(* One iteration of the loop over the channels: send, or drop when full.     *)
(* Mutant: a plain send, which waits for room.                               *)
PublishBlocking(w) ==
    \E s \in send[w].todo :
        /\ Room(s)
        /\ stream' = [stream EXCEPT ![s].channel = Append(@, send[w].message)]
        /\ send' = [send EXCEPT ![w].todo = @ \ {s}]
        /\ UNCHANGED <<begun, message, subs, pending, answered, after>>
Publish(w) ==
    \E s \in send[w].todo :
        /\ stream' = [stream EXCEPT
             ![s].channel = IF Room(s) THEN Append(@, send[w].message) ELSE @,
             ![s].dropped = IF Room(s) \/ ~ stream[s].connected
                              THEN @ ELSE @ \cup {send[w].message}]
        /\ send' = [send EXCEPT ![w].todo = @ \ {s}]
        /\ UNCHANGED <<begun, message, subs, pending, answered, after>>

(* RUnlock, and the sender gets its answer.                                  *)
PublishEnd(w) ==
    /\ send[w].pc = "publishing"
    /\ send[w].todo = {}
    /\ answered' = answered \cup {send[w].message}
    /\ send' = [send EXCEPT ![w] = Idle]
    /\ UNCHANGED <<begun, message, subs, pending, stream, after>>

-----------------------------------------------------------------------------
(* StreamChatMessages *)

(* The user is a member; subscribe makes the channel.                        *)
StreamOpen(s) ==
    \E u \in Users, c \in Conversations :
        /\ stream[s].pc = "off"
        /\ u \in Members[c]
        /\ stream' = [stream EXCEPT ![s] =
             [Closed EXCEPT !.pc = "subscribe", !.conv = c, !.connected = TRUE]]
        /\ UNCHANGED <<begun, message, send, subs, pending, answered, after>>

LockAnnounce(s) ==
    /\ stream[s].pc \in {"subscribe", "unsubscribe"}
    /\ pending = None
    /\ pending' = s
    /\ UNCHANGED <<begun, message, send, subs, stream, answered, after>>

Subscribe(s) ==
    /\ stream[s].pc = "subscribe"
    /\ Locked(s)
    /\ subs' = Subscribed(stream[s].conv, s)
    /\ pending' = None
    /\ stream' = [stream EXCEPT ![s].pc = "greet"]
    /\ UNCHANGED <<begun, message, send, answered, after>>

(* The client gets ": connected" and knows that it is listening.             *)
(* Mutant: the response starts before the subscription.                      *)
GreetFirst(s) ==
    /\ stream[s].connected
    /\ \/ /\ stream[s].pc = "subscribe"
          /\ stream' = [stream EXCEPT ![s].since = DOMAIN message]
       \/ /\ stream[s].pc = "greet"
          /\ stream[s].since # {}
          /\ stream' = [stream EXCEPT ![s].pc = "select"]
    /\ UNCHANGED <<begun, message, send, subs, pending, answered, after>>
Greet(s) ==
    /\ stream[s].pc = "greet"
    /\ stream[s].connected
    /\ stream' = [stream EXCEPT ![s].pc = "select", ![s].since = DOMAIN message]
    /\ UNCHANGED <<begun, message, send, subs, pending, answered, after>>

Take(s) ==
    /\ stream[s].pc = "select"
    /\ stream[s].channel # <<>>
    /\ stream' = [stream EXCEPT
         ![s].pc = "write", ![s].held = Head(stream[s].channel), ![s].channel = Tail(@)]
    /\ UNCHANGED <<begun, message, send, subs, pending, answered, after>>

(* The pipe's write returns when the response has read it: a slow client can *)
(* keep it waiting for ever.                                                 *)
Deliver(s) ==
    /\ stream[s].pc = "write"
    /\ stream[s].connected
    /\ stream' = [stream EXCEPT
         ![s].pc = "select", ![s].held = None, ![s].received = Append(@, stream[s].held)]
    /\ UNCHANGED <<begun, message, send, subs, pending, answered, after>>

(* The client goes away, or its connection does; with it, what it had got.   *)
Disconnect(s) ==
    /\ stream[s].connected
    /\ stream' = [stream EXCEPT ![s].connected = FALSE,
         ![s].received = <<>>, ![s].since = {}, ![s].dropped = {}]
    /\ UNCHANGED <<begun, message, send, subs, pending, answered, after>>

(* ctx.Done, or the pipe's write fails: the goroutine returns.               *)
(* Mutant: no case for ctx.Done, only a failing write ends the loop.         *)
LeaveOnWrite(s) ==
    /\ stream[s].pc = "write"
    /\ ~ stream[s].connected
    /\ stream' = [stream EXCEPT ![s].pc = "unsubscribe", ![s].held = None]
    /\ UNCHANGED <<begun, message, send, subs, pending, answered, after>>
Leave(s) ==
    /\ stream[s].pc \in {"greet", "select", "write"}
    /\ ~ stream[s].connected
    /\ stream' = [stream EXCEPT ![s].pc = "unsubscribe", ![s].held = None]
    /\ UNCHANGED <<begun, message, send, subs, pending, answered, after>>

Unsubscribe(s) ==
    /\ stream[s].pc = "unsubscribe"
    /\ Locked(s)
    /\ subs' = Without(stream[s].conv, s)
    /\ pending' = None
    /\ stream' = [stream EXCEPT ![s] = Closed]
    /\ UNCHANGED <<begun, message, send, answered, after>>

(* The process dies and starts again: the hub was only in its memory.        *)
Restart ==
    /\ send' = [w \in Senders |-> Idle]
    /\ subs' = [c \in {} |-> {}]
    /\ pending' = None
    /\ stream' = [s \in Streams |-> Closed]
    /\ UNCHANGED <<begun, message, answered, after>>

-----------------------------------------------------------------------------
Sending(w) == Store(w) \/ PublishBegin(w) \/ Publish(w) \/ PublishEnd(w)
Streaming(s) ==
    \/ Greet(s) \/ Take(s) \/ Deliver(s) \/ Leave(s)
    \/ LockAnnounce(s) \/ Subscribe(s) \/ Unsubscribe(s)

Next ==
    \/ \E w \in Senders : SendBegin(w)
    \/ \E w \in Senders : Sending(w)
    \/ \E w \in Senders : StoreFail(w)
    \/ \E s \in Streams : StreamOpen(s)
    \/ \E s \in Streams : Streaming(s)
    \/ \E s \in Streams : Disconnect(s)
    \/ Restart

Spec == Init /\ [][Next]_vars

(* The scheduler runs every goroutine, and sync.RWMutex starves nobody: a    *)
(* writer keeps new readers out, and the readers it kept out go before the   *)
(* next writer. Nobody has to read a stream: Greet, Take and Deliver are     *)
(* not fair, nor is anything that a user decides.                            *)
Fairness ==
    /\ \A w \in Senders :
          /\ WF_vars(Store(w)) /\ SF_vars(PublishBegin(w))
          /\ WF_vars(Publish(w)) /\ WF_vars(PublishEnd(w))
    /\ \A s \in Streams :
          /\ SF_vars(LockAnnounce(s)) /\ WF_vars(Subscribe(s))
          /\ WF_vars(Unsubscribe(s)) /\ WF_vars(Leave(s))
FairSpec == Spec /\ Fairness

-----------------------------------------------------------------------------
(* Properties *)

(* What a stream's client has got and will get if it keeps reading.          *)
Feed(s) ==
    stream[s].received
    \o (IF stream[s].held = None THEN <<>> ELSE <<stream[s].held>>)
    \o stream[s].channel

ToPublish(m, s) ==
    \E w \in Senders :
        /\ send[w].message = m
        /\ send[w].pc = "publish" \/ s \in send[w].todo

(* A client that has been greeted misses no message stored from then on,     *)
(* except those that found its channel full: each is in its feed or on its   *)
(* way to it (subscribe before the response starts, publish under the lock). *)
NothingMissed ==
    \A s \in Streams : stream[s].pc \in {"select", "write"} /\ stream[s].connected =>
        \A m \in DOMAIN message \ stream[s].since :
            message[m] = stream[s].conv =>
                \/ m \in Elements(Feed(s)) \cup stream[s].dropped
                \/ ToPublish(m, s)

(* A feed holds messages of its conversation, repeats nothing, and what was  *)
(* begun after another message was answered never comes before it, whichever *)
(* senders and streams overlap (Send publishes before it answers).           *)
FeedInOrder ==
    \A s \in Streams : \A j \in DOMAIN Feed(s) :
        /\ message[Feed(s)[j]] = stream[s].conv
        /\ \A i \in 1 .. j - 1 : Feed(s)[j] \notin after[Feed(s)[i]] \cup {Feed(s)[i]}

(* The hub knows exactly the streams whose goroutine has subscribed and not  *)
(* yet unsubscribed, and keeps no entry for a conversation without any: an   *)
(* entry left behind would be filled and dropped into until the restart.     *)
HubExact ==
    /\ \A s \in Streams, c \in Conversations :
          s \in Subscribers(c) <=>
              /\ stream[s].conv = c
              /\ stream[s].pc \in {"greet", "select", "write", "unsubscribe"}
    /\ \A c \in DOMAIN subs : subs[c] # {}

(* Every send is answered, however slow the readers are (publish drops       *)
(* instead of waiting while it holds the lock).                              *)
EverySendEnds == \A w \in Senders : send[w] # Idle ~> send[w] = Idle

(* No goroutine outlives its client: it unsubscribes and ends.               *)
StreamsEnd ==
    \A s \in Streams :
        stream[s].pc # "off" /\ ~ stream[s].connected ~> stream[s].pc = "off"
=============================================================================
