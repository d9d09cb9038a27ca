------------------------------ MODULE ChatPanel ------------------------------
(* The chat panel of the browser (frontend/src/app/app/_components/          *)
(* ChatPanel.tsx): three React effects and the handlers of its buttons,      *)
(* whose answers come back in any order, perhaps for a conversation that is  *)
(* no longer the open one.                                                   *)
(*                                                                           *)
(* A message is its position in the table. The server is what module Chat    *)
(* lets the panel see of it: lists show what is stored, a stream gets what   *)
(* is published while it is subscribed or drops it, a send is answered when  *)
(* its message has been published. Drafts, errors and layout are left out,   *)
(* and the panel keeps the target it was mounted with.                       *)
EXTENDS Naturals, Sequences, FiniteSets

CONSTANTS
    Convs,        \* conversations the signed-in user has or can open
    Target,       \* the one with initialOtherUserId
    MaxMessages,  \* bound of the model on messages stored
    MaxEffects,   \* bound of the model on runs of the message effect
    None

ASSUME ConvsAssumption == Target \in Convs /\ None \notin Convs
ASSUME BoundsAssumption == MaxMessages \in Nat /\ MaxEffects \in Nat

VARIABLES
    existing,    \* server: the user's conversations
    stored,      \* server: the messages, a sequence of [conv, mine]
    published,   \* server: those that have been through the hub
    sending,     \* own messages whose send has not been answered
    listing,     \* requests for the conversation list: what there was when
                 \* each was sent (equal ones count once)
    opening,     \* openTarget has not been answered
    conversations, active,  \* state of the panel
    clicked,     \* history: the user has chosen a conversation
    changed,     \* active has been set, its effect has not run yet
    effect,      \* number and conversation of the running message effect
    lists,       \* requests for messages: the effect that sent it, and how
                 \* many were stored then
    source,      \* the effect's EventSource
    wire,        \* events on their way from it
    messages,    \* what the panel shows
    loaded,      \* the effect's list has arrived
    since,       \* history: stored when both list and stream were there
    dropped      \* history: published while the stream's buffer was full

server == <<existing, stored, published>>
requests == <<sending, listing, opening>>
choice == <<conversations, active, clicked, changed>>
stream == <<source, wire, dropped>>
vars == <<server, requests, choice, effect, lists, stream, messages, loaded, since>>

Ids == DOMAIN stored
In(c) == {i \in Ids : stored[i].conv = c}
Shown == {messages[n] : n \in DOMAIN messages}

(* Requests, effects and what is shown have their shapes, and the panel only *)
(* ever shows messages the server has (ChatPanel.tsx's useState values).     *)
TypeOK ==
    /\ existing \subseteq Convs
    /\ stored \in Seq([conv : Convs, mine : BOOLEAN])
    /\ published \subseteq Ids /\ sending \subseteq Ids
    /\ listing \subseteq SUBSET existing
    /\ {opening, clicked, changed, loaded} \subseteq BOOLEAN
    /\ conversations \subseteq existing
    /\ active \in existing \cup {None}
    /\ effect \in [number : 0 .. MaxEffects, conv : Convs \cup {None}]
    /\ \A l \in lists :
          /\ l.of \in [number : 1 .. effect.number, conv : Convs]
          /\ l.from \in 0 .. Len(stored)
    /\ source \in {"none", "connecting", "open", "closed"}
    /\ wire \in Seq(Ids) /\ messages \in Seq(Ids)
    /\ since \subseteq Ids /\ dropped \subseteq Ids

(* The panel is mounted with a target: the first two effects have run.       *)
Init ==
    /\ existing \in {Convs, Convs \ {Target}}
    /\ stored = <<>> /\ published = {}
    /\ sending = {}
    /\ listing = {existing}
    /\ opening = TRUE
    /\ conversations = {} /\ active = None
    /\ clicked = FALSE /\ changed = FALSE
    /\ effect = [number |-> 0, conv |-> None]
    /\ lists = {}
    /\ source = "none" /\ wire = <<>> /\ dropped = {}
    /\ messages = <<>> /\ loaded = FALSE /\ since = {}

-----------------------------------------------------------------------------
(* The server *)

Stored(c, mine) ==
    /\ Len(stored) < MaxMessages
    /\ stored' = Append(stored, [conv |-> c, mine |-> mine])

(* The other user of a conversation sends a message.                         *)
OtherSends ==
    \E c \in existing :
        /\ Stored(c, FALSE)
        /\ UNCHANGED <<existing, published, requests, choice, effect, lists, stream,
                       messages, loaded, since>>

(* The hub passes a message on to the stream, if it is subscribed and has    *)
(* room for it.                                                              *)
Publish ==
    \E i \in Ids \ published :
        /\ published' = published \cup {i}
        /\ IF source = "open" /\ stored[i].conv = effect.conv
             THEN \/ wire' = Append(wire, i) /\ UNCHANGED dropped
                  \/ dropped' = dropped \cup {i} /\ UNCHANGED wire
             ELSE UNCHANGED <<wire, dropped>>
        /\ UNCHANGED <<existing, stored, requests, choice, effect, lists, source,
                       messages, loaded, since>>

-----------------------------------------------------------------------------
(* load, and "Refresh conversations" *)

(* The first item becomes active unless another already is.                  *)
(* Mutant: the first item becomes active.                                    *)
Preferring(c) == c
Keeping(c) == IF active = None THEN c ELSE active

(* The answer shows what there was at some moment since the request.         *)
ListingAnswer ==
    \E l \in listing : \E items \in {l, existing} :
        /\ listing' = listing \ {l}
        /\ conversations' = items
        /\ \E first \in (IF items = {} THEN {None} ELSE items) :
              active' = Keeping(first)
        /\ changed' = (changed \/ active' # active)
        /\ UNCHANGED <<server, sending, opening, clicked, effect, lists, stream, messages,
                       loaded, since>>

ListingFail ==
    \E l \in listing :
        /\ listing' = listing \ {l}
        /\ UNCHANGED <<server, sending, opening, choice, effect, lists, stream, messages,
                       loaded, since>>

Refresh ==
    /\ listing' = listing \cup {existing}
    /\ UNCHANGED <<server, sending, opening, choice, effect, lists, stream, messages,
                   loaded, since>>

-----------------------------------------------------------------------------
(* openTarget, and a click on a conversation *)

(* POST /chat/conversations has created the target on the server.            *)
TargetCreated ==
    /\ opening
    /\ Target \notin existing
    /\ existing' = existing \cup {Target}
    /\ UNCHANGED <<stored, published, requests, choice, effect, lists, stream, messages,
                   loaded, since>>

(* Mutant: the panel does not wait for the answer.                           *)
TargetAssumed ==
    /\ opening
    /\ opening' = FALSE
    /\ conversations' = conversations \cup {Target}
    /\ active' = Target
    /\ changed' = TRUE
    /\ clicked' = FALSE
    /\ UNCHANGED <<server, sending, listing, effect, lists, stream, messages, loaded,
                   since>>
TargetAnswer ==
    /\ opening
    /\ Target \in existing
    /\ opening' = FALSE
    /\ conversations' = conversations \cup {Target}
    /\ active' = Target
    /\ changed' = TRUE
    /\ clicked' = FALSE
    /\ UNCHANGED <<server, sending, listing, effect, lists, stream, messages, loaded,
                   since>>

TargetFail ==
    /\ opening
    /\ opening' = FALSE
    /\ clicked' = TRUE
    /\ UNCHANGED <<server, sending, listing, conversations, active, changed, effect,
                   lists, stream, messages, loaded, since>>

(* The item may be another object for the same conversation: the effect      *)
(* runs again then.                                                          *)
Click ==
    \E c \in conversations :
        /\ active' = c
        /\ changed' \in {TRUE, changed \/ c # active}
        /\ clicked' = TRUE
        /\ UNCHANGED <<server, requests, conversations, effect, lists, stream, messages,
                       loaded, since>>

-----------------------------------------------------------------------------
(* The message effect *)

(* Cleanup of the previous run, then a new list request and EventSource. The *)
(* messages of the previous conversation stay until the list arrives.        *)
RunEffect ==
    LET new == [number |-> effect.number + 1, conv |-> active] IN
    /\ changed
    /\ effect.number < MaxEffects
    /\ changed' = FALSE
    /\ effect' = new
    /\ lists' = lists \cup {[of |-> new, from |-> Len(stored)]}
    /\ source' = "connecting"
    /\ wire' = <<>> /\ dropped' = {}
    /\ loaded' = FALSE /\ since' = {}
    /\ UNCHANGED <<server, requests, conversations, active, clicked, messages>>

(* ListMessages when n messages were stored: the conversation's, in the order *)
(* of created_at. There is one such sequence.                                *)
IsListed(items, c, n) ==
    /\ {items[k] : k \in DOMAIN items} = {i \in 1 .. n : stored[i].conv = c}
    /\ \A j, k \in DOMAIN items : j < k => items[j] < items[k]
Listed(c, n) == {items \in UNION {[1 .. k -> 1 .. n] : k \in 0 .. n} : IsListed(items, c, n)}

(* A list arrives; the cleanup of an earlier run has set its alive to false. *)
(* Mutant: alive is not looked at.                                           *)
AliveAlways(l) == TRUE
Alive(l) == l.of = effect

MessagesAnswer ==
    \E l \in lists : \E n \in l.from .. Len(stored) :
        /\ lists' = lists \ {l}
        /\ IF Alive(l)
             THEN /\ messages' \in Listed(l.of.conv, n)
                  /\ loaded' = TRUE
                  /\ since' = IF source = "open" /\ ~ loaded THEN Ids ELSE since
             ELSE UNCHANGED <<messages, loaded, since>>
        /\ UNCHANGED <<server, requests, choice, effect, stream>>

MessagesFail ==
    \E l \in lists :
        /\ lists' = lists \ {l}
        /\ UNCHANGED <<server, requests, choice, effect, stream, messages, loaded, since>>

(* The stream is subscribed.                                                 *)
Connect ==
    /\ source = "connecting"
    /\ source' = "open"
    /\ since' = IF loaded THEN Ids ELSE since
    /\ UNCHANGED <<server, requests, choice, effect, lists, wire, dropped, messages,
                   loaded>>

(* onerror closes the source, and nothing opens it again.                    *)
Disconnect ==
    /\ source \in {"connecting", "open"}
    /\ source' = "closed"
    /\ wire' = <<>>
    /\ UNCHANGED <<server, requests, choice, effect, lists, dropped, messages, loaded,
                   since>>

(* Mutant: the message is appended without looking for it.                   *)
AppendAlways(items, i) == Append(items, i)
AppendNew(items, i) ==
    IF \E n \in DOMAIN items : items[n] = i THEN items ELSE Append(items, i)

Event ==
    /\ wire # <<>>
    /\ wire' = Tail(wire)
    /\ messages' = AppendNew(messages, Head(wire))
    /\ UNCHANGED <<server, requests, choice, effect, lists, source, dropped, loaded,
                   since>>

-----------------------------------------------------------------------------
(* sendMessage *)

(* The request is sent, and the server stores the message.                   *)
Send ==
    /\ active # None
    /\ Stored(active, TRUE)
    /\ sending' = sending \cup {Len(stored) + 1}
    /\ UNCHANGED <<existing, published, listing, opening, choice, effect, lists, stream,
                   messages, loaded, since>>

(* The answer is shown in whatever conversation is open by now.              *)
SendAnswer ==
    \E i \in sending \cap published :
        /\ sending' = sending \ {i}
        /\ messages' = AppendNew(messages, i)
        /\ conversations' = conversations \cup {stored[i].conv}
        /\ UNCHANGED <<server, listing, opening, active, clicked, changed, effect, lists,
                       stream, loaded, since>>

Next ==
    \/ OtherSends \/ Publish
    \/ ListingAnswer \/ ListingFail \/ Refresh
    \/ TargetCreated \/ TargetAnswer \/ TargetFail \/ Click
    \/ RunEffect \/ MessagesAnswer \/ MessagesFail
    \/ Connect \/ Disconnect \/ Event
    \/ Send \/ SendAnswer

Spec == Init /\ [][Next]_vars

-----------------------------------------------------------------------------
(* Properties *)

(* No message is shown twice, though list, stream and answer may each bring  *)
(* it (the some() checks before setMessages).                                *)
ShownOnce ==
    \A m, n \in DOMAIN messages : messages[m] = messages[n] => m = n

(* Once the list of a conversation is there, what others wrote in another    *)
(* conversation is not shown in it, however late an answer or an event comes *)
(* (cleanup of the message effect). Own messages may be: SendAnswer.         *)
OthersBelong ==
    loaded => \A i \in Shown : stored[i].mine \/ stored[i].conv = effect.conv

(* From the moment both list and stream are there, the panel shows every     *)
(* message stored, or it is on its way, unless the hub dropped it. Before    *)
(* that moment messages can be lost between the two.                         *)
NothingMissedOnceOpen ==
    loaded /\ source = "open" =>
        \A i \in In(effect.conv) \ since :
            \/ i \in Shown \cup {wire[n] : n \in DOMAIN wire} \cup dropped
            \/ i \notin published

(* The conversation the user asked for stays open until he chooses another,  *)
(* whichever of the two requests of the mounted panel is answered first.     *)
TargetStays == ~ opening /\ ~ clicked => active = Target

(* While a conversation stays open, what is shown stays, in its order.       *)
ShownStays ==
    [][loaded /\ loaded' /\ effect' = effect =>
        /\ Len(messages) <= Len(messages')
        /\ SubSeq(messages', 1, Len(messages)) = messages]_vars
=============================================================================
