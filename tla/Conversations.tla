---------------------------- MODULE Conversations ----------------------------
(* Opening a chat conversation (backend/internal/store/chat.go) while        *)
(* proposals and pickups are being made: only the two parties of a deal may  *)
(* talk, and the two of them share one conversation. GetOrCreateConversation *)
(* is four statements without a transaction, each on the newest committed    *)
(* rows; the unique index on (user1_id, user2_id) is all that holds when two *)
(* of them overlap.                                                          *)
EXTENDS Delivery, Sequences

CONSTANTS
    Rank,     \* the order of user ids as strings
    Convs,    \* ids NewID("conv") can draw
    Openers   \* connections that serve GetOrCreateChatConversation

ASSUME RankAssumption ==
    /\ Rank \in [Users -> Nat]
    /\ \A a, b \in Users : Rank[a] = Rank[b] => a = b

VARIABLES
    conversation,  \* the table: id -> <<user1, user2>>
    open           \* per opener: next statement and the users it is about

chatVars == <<vars, conversation, open>>

NotOpening == [pc |-> "idle", pair |-> <<>>]

ChatInit ==
    /\ Init
    /\ conversation = NoRow
    /\ open = [o \in Openers |-> NotOpening]

(* Mutant: the users are kept in the order of the request.                   *)
AsGiven(a, b) == <<a, b>>
Normalized(a, b) == IF Rank[a] > Rank[b] THEN <<b, a>> ELSE <<a, b>>

-----------------------------------------------------------------------------
(* UsersRelatedForChat: the two joins, each in both directions. *)

(* Mutant: the second user's side of the first join is forgotten.            *)
DealsOneWay(a, b, row, donor) ==
    \/ donor = a /\ b \in {row.receiver, row.volunteer}
    \/ row.receiver = a /\ row.volunteer = b
    \/ row.receiver = b /\ row.volunteer = a
Deals(a, b, row, donor) ==
    \/ donor = a /\ b \in {row.receiver, row.volunteer}
    \/ donor = b /\ a \in {row.receiver, row.volunteer}
    \/ row.receiver = a /\ row.volunteer = b
    \/ row.receiver = b /\ row.volunteer = a

ProposalRelates(a, b) ==
    \E p \in DOMAIN proposal :
        /\ proposal[p].donation \in DOMAIN donation
        /\ Deals(a, b, proposal[p], donation[proposal[p].donation].donor)
PickupRelates(a, b) ==
    \E k \in DOMAIN pickup :
        /\ pickup[k].donation \in DOMAIN donation
        /\ Deals(a, b, pickup[k], donation[pickup[k].donation].donor)
UsersRelatedForChat(a, b) == a # b /\ (ProposalRelates(a, b) \/ PickupRelates(a, b))

-----------------------------------------------------------------------------
(* GetOrCreateConversation *)

Goes(o, statement) ==
    /\ open' = [open EXCEPT ![o].pc = statement]
    /\ UNCHANGED <<vars, conversation>>

(* The request is checked, and the first join decides or not.                *)
OpenBegin(o) ==
    \E a, b \in Users :
        LET pair == Normalized(a, b) IN
        /\ open[o] = NotOpening
        /\ a # b
        /\ open' = [open EXCEPT ![o] =
             [pc |-> IF ProposalRelates(pair[1], pair[2]) THEN "find" ELSE "pickups",
              pair |-> pair]]
        /\ UNCHANGED <<vars, conversation>>

(* The second join, or the answer 403.                                       *)
(* Mutant: the answer of the second join is not looked at.                   *)
OpenPickupsIgnored(o) == open[o].pc = "pickups" /\ Goes(o, "find")
OpenPickups(o) ==
    LET pair == open[o].pair IN
    /\ open[o].pc = "pickups"
    /\ IF PickupRelates(pair[1], pair[2])
         THEN Goes(o, "find")
         ELSE /\ open' = [open EXCEPT ![o] = NotOpening]
              /\ UNCHANGED <<vars, conversation>>

Existing(pair) == {c \in DOMAIN conversation : conversation[c] = pair}

OpenFind(o) ==
    /\ open[o].pc = "find"
    /\ Goes(o, IF Existing(open[o].pair) = {} THEN "insert" ELSE "found")

(* INSERT under the unique index: the loser of two overlapping requests gets *)
(* a duplicate key error.                                                    *)
OpenInsert(o) ==
    LET pair == open[o].pair IN
    /\ open[o].pc = "insert"
    /\ IF Existing(pair) # {}
         THEN Goes(o, "failed")
         ELSE \E c \in Convs \ DOMAIN conversation :
                /\ conversation' = Applied(Only(c, pair), conversation)
                /\ open' = [open EXCEPT ![o].pc = "found"]
                /\ UNCHANGED vars

(* The answer: the conversation, or 500.                                     *)
OpenEnd(o) ==
    /\ open[o].pc \in {"found", "failed"}
    /\ open' = [open EXCEPT ![o] = NotOpening]
    /\ UNCHANGED <<vars, conversation>>

Opening(o) ==
    OpenBegin(o) \/ OpenPickups(o) \/ OpenFind(o) \/ OpenInsert(o) \/ OpenEnd(o)

Deal == Next /\ UNCHANGED <<conversation, open>>

ChatNext ==
    \/ Deal
    \/ \E o \in Openers : Opening(o)

ChatSpec == ChatInit /\ [][ChatNext]_chatVars

-----------------------------------------------------------------------------
(* Properties *)

Parties(row, donor) == {donor, row.receiver, row.volunteer}

(* Two users may talk exactly when both are parties of one proposal: the     *)
(* joins over pickups add nobody, because a pickup keeps the parties of its  *)
(* proposal, and no order of arguments or roles is forgotten.                *)
RelatedIffParties ==
    \A a, b \in Users :
        UsersRelatedForChat(a, b) <=>
            /\ a # b
            /\ \E p \in DOMAIN proposal :
                 {a, b} \subseteq
                     Parties(proposal[p], donation[proposal[p].donation].donor)

(* Two users never get two conversations, whoever opens first and however    *)
(* their requests overlap (GetOrCreateConversation, idx_conversation_users). *)
OneConversationPerPair ==
    \A c, d \in DOMAIN conversation :
        {conversation[c][1], conversation[c][2]} = {conversation[d][1], conversation[d][2]}
            => c = d

(* Whoever shares a conversation is still related, though the check ran      *)
(* statements before the insert: no request withdraws a relation.            *)
TalkersRelated ==
    \A c \in DOMAIN conversation :
        UsersRelatedForChat(conversation[c][1], conversation[c][2])
=============================================================================
