--------------------------- MODULE ChatPanelProofs ---------------------------
(* Proofs about ChatPanel, for every set of conversations and any number of *)
(* messages and of runs of the message effect: what the panel shows, and    *)
(* which conversation it has open, whatever order the answers come in.      *)
EXTENDS ChatPanel, TLAPS

-----------------------------------------------------------------------------
(* The inductive invariant *)

(* Messages are in conversations of the server; own sends carry own         *)
(* messages; only an open conversation makes the message effect run.        *)
Sources ==
    /\ \A i \in Ids : stored[i].conv \in existing
    /\ \A i \in sending : stored[i].mine
    /\ changed => active # None

(* The stream carries its conversation's messages only.                     *)
WireBelongs == \A n \in DOMAIN wire : stored[wire[n]].conv = effect.conv

(* A run of the message effect asks for one list, and the list of the       *)
(* running one is on its way until it is loaded.                            *)
OneList ==
    /\ \A l, k \in lists : l.of = k.of => l = k
    /\ \A l \in lists : Alive(l) => ~ loaded

PanelInv ==
    /\ TypeOK /\ Sources /\ WireBelongs /\ OneList
    /\ ShownOnce /\ OthersBelong /\ NothingMissedOnceOpen /\ TargetStays
-----------------------------------------------------------------------------
(* Steps that choose a conversation *)

(* Lists of conversations, the target and clicks change nothing of what is  *)
(* shown, and of the server at most that it has the target.                 *)
LEMMA ChoiceKeeps ==
    ASSUME PanelInv,
           UNCHANGED <<stored, published, sending, effect, lists, stream, messages, loaded,
                       since>>,
           existing \subseteq existing', existing' \subseteq Convs,
           listing' \subseteq SUBSET existing',
           {opening', clicked', changed'} \subseteq BOOLEAN,
           conversations' \subseteq existing', active' \in existing' \cup {None},
           changed' => active' # None,
           TargetStays'
    PROVE  PanelInv'
<1> USE DEF PanelInv, stream
<1>1. TypeOK'
    BY DEF TypeOK, Ids
<1>2. Sources' /\ WireBelongs' /\ OneList'
    BY DEF Sources, WireBelongs, OneList, Ids, Alive, TypeOK
<1>3. ShownOnce' /\ OthersBelong'
    BY DEF ShownOnce, OthersBelong, Shown
<1>4. NothingMissedOnceOpen'
    BY DEF NothingMissedOnceOpen, In, Ids, Shown
<1> QED BY <1>1, <1>2, <1>3, <1>4

LEMMA ListingKeeps ==
    ASSUME PanelInv, ListingAnswer \/ ListingFail \/ Refresh
    PROVE  PanelInv'
<1> USE DEF PanelInv
<1>1. CASE ListingAnswer
  <2>0. PICK l \in listing : \E items \in {l, existing} :
          /\ listing' = listing \ {l} /\ conversations' = items
          /\ \E first \in (IF items = {} THEN {None} ELSE items) : active' = Keeping(first)
          /\ changed' = (changed \/ active' # active)
          /\ UNCHANGED <<server, sending, opening, clicked, effect, lists, stream, messages,
                         loaded, since>>
      BY <1>1 DEF ListingAnswer
  <2>1. PICK items \in {l, existing} :
          /\ listing' = listing \ {l} /\ conversations' = items
          /\ \E first \in (IF items = {} THEN {None} ELSE items) : active' = Keeping(first)
          /\ changed' = (changed \/ active' # active)
          /\ UNCHANGED <<server, sending, opening, clicked, effect, lists, stream, messages,
                         loaded, since>>
      BY <2>0
  <2>2. PICK first \in (IF items = {} THEN {None} ELSE items) : active' = Keeping(first)
      BY <2>1
  <2>3. items \subseteq existing /\ first \in existing \cup {None}
      BY <2>2 DEF TypeOK
  <2>4. /\ active # None => active' = active
        /\ active = None => active' = first
      BY <2>2 DEF Keeping
  <2>5. active' \in existing \cup {None} /\ (changed' => active' # None)
      BY <2>1, <2>3, <2>4 DEF TypeOK, Sources
  <2>6. TargetStays'
      BY <2>1, <2>4, ConvsAssumption DEF TargetStays
  <2>7. {opening', clicked', changed'} \subseteq BOOLEAN
      BY <2>1 DEF TypeOK
  <2>8. listing' \subseteq SUBSET existing /\ conversations' \subseteq existing
        /\ existing \subseteq Convs
      BY <2>1, <2>3 DEF TypeOK
  <2> QED BY <2>1, <2>5, <2>6, <2>7, <2>8, ChoiceKeeps DEF server
<1>2. CASE ListingFail \/ Refresh
  <2>1. /\ listing' \subseteq listing \cup {existing}
        /\ UNCHANGED <<existing, stored, published, sending, opening, conversations, active,
                       clicked, changed, effect, lists, stream, messages, loaded, since>>
      BY <1>2 DEF ListingFail, Refresh, server, choice
  <2>2. TargetStays'
      BY <2>1 DEF TargetStays
  <2> QED BY <2>1, <2>2, ChoiceKeeps DEF TypeOK, Sources
<1> QED BY <1>1, <1>2

LEMMA TargetKeeps ==
    ASSUME PanelInv, TargetCreated \/ TargetAnswer \/ TargetFail \/ Click
    PROVE  PanelInv'
<1> USE DEF PanelInv
<1>1. CASE TargetCreated
  <2>1. TargetStays'
      BY <1>1 DEF TargetCreated, requests, choice, TargetStays
  <2> QED BY <1>1, <2>1, ConvsAssumption, ChoiceKeeps
      DEF TargetCreated, requests, choice, TypeOK, Sources
<1>2. CASE TargetAnswer
  <2>1. TargetStays' /\ active' = Target /\ Target \in existing /\ Target # None
      BY <1>2, ConvsAssumption DEF TargetAnswer, TargetStays
  <2>2. {opening', clicked', changed'} \subseteq BOOLEAN
      BY <1>2 DEF TargetAnswer
  <2> QED BY <1>2, <2>1, <2>2, ChoiceKeeps DEF TargetAnswer, server, TypeOK
<1>3. CASE TargetFail
  <2>1. TargetStays' /\ {opening', clicked', changed'} \subseteq BOOLEAN
      BY <1>3 DEF TargetFail, TargetStays, TypeOK
  <2> QED BY <1>3, <2>1, ChoiceKeeps DEF TargetFail, server, TypeOK, Sources
<1>4. CASE Click
  <2>1. TargetStays' /\ {opening', clicked', changed'} \subseteq BOOLEAN
      BY <1>4 DEF Click, requests, TargetStays, TypeOK
  <2>2. active' \in existing /\ active' # None
      BY <1>4, ConvsAssumption DEF Click, TypeOK
  <2> QED BY <1>4, <2>1, <2>2, ChoiceKeeps DEF Click, server, requests, TypeOK
<1> QED BY <1>1, <1>2, <1>3, <1>4

-----------------------------------------------------------------------------
(* Steps of the server *)

LEMMA SeqGrows ==
    ASSUME NEW S, NEW T, S \subseteq T, NEW q \in Seq(S)
    PROVE  q \in Seq(T)
OBVIOUS

LEMMA StoredFacts ==
    ASSUME TypeOK, NEW c \in Convs, NEW mine \in BOOLEAN, Stored(c, mine)
    PROVE  /\ stored' \in Seq([conv : Convs, mine : BOOLEAN])
           /\ Len(stored) + 1 \notin Ids /\ Len(stored') = Len(stored) + 1
           /\ Ids' = Ids \cup {Len(stored) + 1}
           /\ stored'[Len(stored) + 1].conv = c /\ stored'[Len(stored) + 1].mine = mine
           /\ \A i \in Ids : stored'[i] = stored[i]
<1>1. PICK r : r = [conv |-> c, mine |-> mine]
    OBVIOUS
<1>2. /\ r \in [conv : Convs, mine : BOOLEAN] /\ r.conv = c /\ r.mine = mine
      /\ stored \in Seq([conv : Convs, mine : BOOLEAN]) /\ stored' = Append(stored, r)
    BY <1>1 DEF TypeOK, Stored
<1> QED BY <1>2 DEF Ids

(* A message stored by either side: nobody has it yet.                      *)
LEMMA StoreKeeps ==
    ASSUME PanelInv, NEW c \in existing, NEW mine \in BOOLEAN, Stored(c, mine),
           sending' = sending \/ (mine /\ sending' = sending \cup {Len(stored) + 1}),
           UNCHANGED <<existing, published, listing, opening, choice, effect, lists, stream,
                       messages, loaded, since>>
    PROVE  PanelInv'
<1> USE DEF PanelInv, choice, stream
<1>1. PICK new : new = Len(stored) + 1
    OBVIOUS
<1>2. /\ stored' \in Seq([conv : Convs, mine : BOOLEAN])
      /\ new \notin Ids /\ Ids' = Ids \cup {new} /\ Len(stored') = Len(stored) + 1
      /\ Len(stored) \in Nat
      /\ stored'[new].conv = c /\ stored'[new].mine = mine
      /\ \A i \in Ids : stored'[i] = stored[i]
  <2>1. c \in Convs /\ Len(stored) \in Nat
      BY DEF TypeOK
  <2> QED BY <1>1, <2>1, StoredFacts
<1>3. wire' \in Seq(Ids') /\ messages' \in Seq(Ids')
    BY <1>2, SeqGrows DEF TypeOK
<1>4. /\ \A n \in DOMAIN wire : wire[n] \in Ids
      /\ Shown \subseteq Ids
    BY DEF TypeOK, Shown
<1>5. TypeOK'
    BY <1>1, <1>2, <1>3 DEF TypeOK
<1>6. Sources'
    BY <1>1, <1>2 DEF Sources, TypeOK
<1>7. WireBelongs' /\ OneList' /\ ShownOnce' /\ TargetStays'
    BY <1>2, <1>4 DEF WireBelongs, OneList, Alive, ShownOnce, TargetStays
<1>8. OthersBelong'
    BY <1>2, <1>4 DEF OthersBelong, Shown
<1>9. NothingMissedOnceOpen'
    BY <1>2 DEF NothingMissedOnceOpen, In, Shown, TypeOK
<1> QED BY <1>5, <1>6, <1>7, <1>8, <1>9

LEMMA AnyoneSends ==
    ASSUME PanelInv, OtherSends \/ Send
    PROVE  PanelInv'
<1>1. CASE OtherSends
    BY <1>1, StoreKeeps DEF OtherSends, requests
<1>2. CASE Send
  <2>1. active \in existing
      BY <1>2 DEF Send, PanelInv, TypeOK
  <2> QED BY <1>2, <2>1, StoreKeeps DEF Send
<1> QED BY <1>1, <1>2

LEMMA PublishKeeps ==
    ASSUME PanelInv, Publish
    PROVE  PanelInv'
<1> USE DEF PanelInv
<1>1. PICK i \in Ids \ published :
        /\ published' = published \cup {i}
        /\ IF source = "open" /\ stored[i].conv = effect.conv
             THEN \/ wire' = Append(wire, i) /\ UNCHANGED dropped
                  \/ dropped' = dropped \cup {i} /\ UNCHANGED wire
             ELSE UNCHANGED <<wire, dropped>>
        /\ UNCHANGED <<existing, stored, requests, choice, effect, lists, source,
                       messages, loaded, since>>
    BY DEF Publish
<1>2. wire \in Seq(Ids)
    BY DEF TypeOK
<1>3. \/ wire' = wire
      \/ /\ wire' = Append(wire, i) /\ stored[i].conv = effect.conv
         /\ wire' \in Seq(Ids) /\ DOMAIN wire' = DOMAIN wire \cup {Len(wire) + 1}
         /\ wire'[Len(wire) + 1] = i /\ \A n \in DOMAIN wire : wire'[n] = wire[n]
  <2>1. \/ wire' = wire
        \/ wire' = Append(wire, i) /\ stored[i].conv = effect.conv
      BY <1>1
  <2>2. CASE wire' = Append(wire, i) /\ stored[i].conv = effect.conv
    <3>1. i \in Ids
        BY <1>1
    <3>2. Append(wire, i) \in Seq(Ids)
        BY <1>2, <3>1
    <3>3. /\ DOMAIN Append(wire, i) = DOMAIN wire \cup {Len(wire) + 1}
          /\ Append(wire, i)[Len(wire) + 1] = i
          /\ \A n \in DOMAIN wire : Append(wire, i)[n] = wire[n]
        BY <1>2
    <3> QED BY <2>2, <3>2, <3>3
  <2> QED BY <2>1, <2>2
<1>4. wire' \in Seq(Ids) /\ (dropped' = dropped \/ dropped' = dropped \cup {i})
    BY <1>1, <1>2, <1>3
<1>5. \A n \in DOMAIN wire : n \in DOMAIN wire' /\ wire'[n] = wire[n]
    BY <1>2, <1>3
<1>6. TypeOK'
    BY <1>1, <1>4 DEF TypeOK, Ids, requests, choice
<1>7. Sources' /\ OneList' /\ ShownOnce' /\ TargetStays' /\ OthersBelong'
    BY <1>1 DEF Sources, OneList, Alive, Ids, ShownOnce, TargetStays, OthersBelong, Shown,
                requests, choice
<1>8. WireBelongs'
    BY <1>1, <1>3 DEF WireBelongs
<1>9. ASSUME loaded, source = "open", NEW j \in In(effect.conv) \ since
      PROVE  \/ j \in Shown \cup {wire'[n] : n \in DOMAIN wire'} \cup dropped'
             \/ j \notin published'
  <2>1. CASE j = i
    <3>1. j \in {wire'[n] : n \in DOMAIN wire'} \cup dropped'
        BY <1>1, <1>3, <1>9, <2>1 DEF In
    <3> QED BY <3>1
  <2>2. CASE j # i
    <3>1. j \in Shown \cup {wire[n] : n \in DOMAIN wire} \cup dropped \/ j \notin published
        BY <1>9 DEF NothingMissedOnceOpen
    <3> QED BY <1>1, <1>4, <1>5, <2>2, <3>1
  <2> QED BY <2>1, <2>2
<1>10. NothingMissedOnceOpen'
    BY <1>1, <1>9 DEF NothingMissedOnceOpen, In, Ids, Shown
<1> QED BY <1>6, <1>7, <1>8, <1>10

-----------------------------------------------------------------------------
(* Steps of the message effect *)

LEMMA EffectKeeps ==
    ASSUME PanelInv, RunEffect
    PROVE  PanelInv'
<1> USE DEF PanelInv
<1>1. PICK new : new = [number |-> effect.number + 1, conv |-> active]
    OBVIOUS
<1>2. /\ changed /\ effect.number < MaxEffects /\ changed' = FALSE /\ effect' = new
      /\ lists' = lists \cup {[of |-> new, from |-> Len(stored)]}
      /\ source' = "connecting" /\ wire' = <<>> /\ dropped' = {}
      /\ loaded' = FALSE /\ since' = {}
      /\ UNCHANGED <<server, requests, conversations, active, clicked, messages>>
    BY <1>1 DEF RunEffect
<1>3. PICK l : l = [of |-> new, from |-> Len(stored)]
    OBVIOUS
<1>4. /\ active \in Convs /\ effect.number \in Nat /\ Len(stored) \in Nat
      /\ new.number = effect.number + 1 /\ new.conv = active
      /\ new.number \in 1 .. MaxEffects
    BY <1>1, <1>2, BoundsAssumption DEF Sources, TypeOK
<1>5. \A k \in lists : k.of # new /\ k.of.number <= effect.number
    BY <1>4 DEF TypeOK
<1>6. l.of = new /\ l.from = Len(stored) /\ lists' = lists \cup {l}
    BY <1>2, <1>3
<1>7. TypeOK'
  <2>1. new \in [number : 0 .. MaxEffects, conv : Convs \cup {None}]
        /\ new \in [number : 1 .. new.number, conv : Convs]
      BY <1>1, <1>4
  <2>2. \A k \in lists' : k.of \in [number : 1 .. effect'.number, conv : Convs]
                          /\ k.from \in 0 .. Len(stored')
    <3>1. ASSUME NEW k \in lists
          PROVE  k.of \in [number : 1 .. new.number, conv : Convs] /\ k.from \in 0 .. Len(stored)
      <4>1. k.of \in [number : 1 .. effect.number, conv : Convs] /\ k.from \in 0 .. Len(stored)
          BY DEF TypeOK
      <4>2. 1 .. effect.number \subseteq 1 .. new.number
          BY <1>4
      <4> QED BY <4>1, <4>2
    <3>2. l.of \in [number : 1 .. new.number, conv : Convs] /\ l.from \in 0 .. Len(stored)
        BY <1>4, <1>6, <2>1
    <3> QED BY <1>2, <1>6, <3>1, <3>2 DEF server
  <2>3. wire' \in Seq(Ids) /\ messages' \in Seq(Ids) /\ since' \subseteq Ids /\ dropped' \subseteq Ids
        /\ Ids' = Ids
      BY <1>2 DEF TypeOK, Ids, server
  <2>4. {opening', clicked', changed', loaded'} \subseteq BOOLEAN
      BY <1>2 DEF TypeOK, requests
  <2> QED BY <1>2, <2>1, <2>2, <2>3, <2>4 DEF TypeOK, server, requests
<1>8. Sources' /\ ShownOnce' /\ TargetStays'
    BY <1>2 DEF Sources, Ids, ShownOnce, TargetStays, server, requests
<1>9. WireBelongs' /\ OthersBelong' /\ NothingMissedOnceOpen'
    BY <1>2 DEF WireBelongs, OthersBelong, NothingMissedOnceOpen
<1>10. OneList'
    BY <1>2, <1>5, <1>6 DEF OneList, Alive
<1> QED BY <1>7, <1>8, <1>9, <1>10

LEMMA ListedFacts ==
    ASSUME TypeOK, NEW c, NEW n \in 0 .. Len(stored), NEW items \in Listed(c, n)
    PROVE  /\ items \in Seq(Ids)
           /\ \A j, k \in DOMAIN items : items[j] = items[k] => j = k
           /\ \A k \in DOMAIN items : stored[items[k]].conv = c
<1>1. PICK k \in 0 .. n : items \in [1 .. k -> 1 .. n]
    BY DEF Listed
<1>2. IsListed(items, c, n) /\ 1 .. n \subseteq Ids
    BY DEF Listed, TypeOK, Ids
<1>3. items \in Seq(Ids)
    BY <1>1, <1>2
<1>4. \A j, m \in DOMAIN items : items[j] = items[m] => j = m
  <2>1. \A j, m \in DOMAIN items : j \in Nat /\ m \in Nat /\ items[j] \in Nat /\ items[m] \in Nat
      BY <1>1
  <2> QED BY <1>2, <2>1 DEF IsListed
<1>5. \A j \in DOMAIN items : stored[items[j]].conv = c
    BY <1>2 DEF IsListed
<1> QED BY <1>3, <1>4, <1>5

LEMMA MessagesKeeps ==
    ASSUME PanelInv, MessagesAnswer \/ MessagesFail
    PROVE  PanelInv'
<1> USE DEF PanelInv
<1>1. PICK l \in lists :
        /\ lists' = lists \ {l}
        /\ UNCHANGED <<server, requests, choice, effect, stream>>
        /\ \/ UNCHANGED <<messages, loaded, since>>
           \/ /\ Alive(l) /\ loaded' = TRUE
              /\ \E n \in l.from .. Len(stored) : messages' \in Listed(l.of.conv, n)
              /\ since' = IF source = "open" /\ ~ loaded THEN Ids ELSE since
    BY DEF MessagesAnswer, MessagesFail
<1>2. TargetStays' /\ Sources' /\ WireBelongs'
    BY <1>1 DEF TargetStays, Sources, WireBelongs, Ids, server, requests, choice, stream
<1>3. CASE UNCHANGED <<messages, loaded, since>>
  <2>1. TypeOK'
      BY <1>1, <1>3 DEF TypeOK, Ids, server, requests, choice, stream
  <2>2. OneList' /\ ShownOnce' /\ OthersBelong' /\ NothingMissedOnceOpen'
      BY <1>1, <1>3 DEF OneList, Alive, ShownOnce, OthersBelong, NothingMissedOnceOpen, Shown,
                        In, Ids, server, stream
  <2> QED BY <1>2, <2>1, <2>2
<1>4. CASE /\ Alive(l) /\ loaded' = TRUE
           /\ \E n \in l.from .. Len(stored) : messages' \in Listed(l.of.conv, n)
           /\ since' = IF source = "open" /\ ~ loaded THEN Ids ELSE since
  <2>1. PICK n \in l.from .. Len(stored) : messages' \in Listed(effect.conv, n)
      BY <1>4 DEF Alive
  <2>2. n \in 0 .. Len(stored)
      BY <2>1 DEF TypeOK
  <2>3. /\ messages' \in Seq(Ids)
        /\ \A j, k \in DOMAIN messages' : messages'[j] = messages'[k] => j = k
        /\ \A k \in DOMAIN messages' : stored[messages'[k]].conv = effect.conv
      BY <2>1, <2>2, ListedFacts
  <2>4. ~ loaded
      BY <1>4 DEF OneList
  <2>5. TypeOK'
      BY <1>1, <1>4, <2>3 DEF TypeOK, Ids, server, requests, choice, stream
  <2>6. OneList'
      BY <1>1, <1>4 DEF OneList, Alive
  <2>7. ShownOnce' /\ OthersBelong'
      BY <1>1, <2>3 DEF ShownOnce, OthersBelong, Shown, server
  <2>8. NothingMissedOnceOpen'
      BY <1>1, <1>4, <2>4 DEF NothingMissedOnceOpen, In, Ids, server, stream
  <2> QED BY <1>2, <2>5, <2>6, <2>7, <2>8
<1> QED BY <1>1, <1>3, <1>4

LEMMA SourceKeeps ==
    ASSUME PanelInv, Connect \/ Disconnect
    PROVE  PanelInv'
<1> USE DEF PanelInv
<1>1. CASE Connect
  <2>1. TypeOK'
      BY <1>1 DEF Connect, TypeOK, Ids, server, requests, choice
  <2>2. Sources' /\ WireBelongs' /\ OneList' /\ ShownOnce' /\ OthersBelong' /\ TargetStays'
      BY <1>1 DEF Connect, Sources, WireBelongs, OneList, Alive, ShownOnce, OthersBelong,
                  TargetStays, Shown, Ids, server, requests, choice
  <2>3. NothingMissedOnceOpen'
      BY <1>1 DEF Connect, NothingMissedOnceOpen, In, Ids, server
  <2> QED BY <2>1, <2>2, <2>3
<1>2. CASE Disconnect
  <2>1. wire' \in Seq(Ids)
      BY <1>2 DEF Disconnect
  <2>2. TypeOK'
      BY <1>2, <2>1 DEF Disconnect, TypeOK, Ids, server, requests, choice
  <2>3. Sources' /\ WireBelongs' /\ OneList' /\ ShownOnce' /\ OthersBelong' /\ TargetStays'
      BY <1>2 DEF Disconnect, Sources, WireBelongs, OneList, Alive, ShownOnce, OthersBelong,
                  TargetStays, Shown, Ids, server, requests, choice
  <2>4. NothingMissedOnceOpen'
      BY <1>2 DEF Disconnect, NothingMissedOnceOpen
  <2> QED BY <2>2, <2>3, <2>4
<1> QED BY <1>1, <1>2

-----------------------------------------------------------------------------
(* Steps that show one message more *)

Extends(r, q, i) ==
    /\ Len(q) <= Len(r) /\ \A n \in DOMAIN q : n \in DOMAIN r /\ r[n] = q[n]
    /\ {r[n] : n \in DOMAIN r} = {q[n] : n \in DOMAIN q} \cup {i}
    /\ (\A m, n \in DOMAIN q : q[m] = q[n] => m = n) =>
           \A m, n \in DOMAIN r : r[m] = r[n] => m = n

LEMMA AppendNewFacts ==
    ASSUME NEW S, NEW q \in Seq(S), NEW i \in S
    PROVE  AppendNew(q, i) \in Seq(S) /\ Extends(AppendNew(q, i), q, i)
<1> PICK r : r = AppendNew(q, i)
    OBVIOUS
<1> SUFFICES r \in Seq(S) /\ Extends(r, q, i)
    OBVIOUS
<1>1. CASE \E n \in DOMAIN q : q[n] = i
    BY <1>1 DEF AppendNew, Extends
<1>2. CASE ~ \E n \in DOMAIN q : q[n] = i
  <2>1. r = Append(q, i)
      BY <1>2 DEF AppendNew
  <2>2. /\ r \in Seq(S) /\ Len(r) = Len(q) + 1 /\ Len(q) \in Nat
        /\ DOMAIN r = DOMAIN q \cup {Len(q) + 1} /\ r[Len(q) + 1] = i
        /\ \A n \in DOMAIN q : r[n] = q[n]
      BY <2>1
  <2>3. {r[n] : n \in DOMAIN r} = {q[n] : n \in DOMAIN q} \cup {i}
      BY <2>2
  <2>4. ASSUME \A m, n \in DOMAIN q : q[m] = q[n] => m = n
        PROVE  \A m, n \in DOMAIN r : r[m] = r[n] => m = n
      BY <1>2, <2>2, <2>4
  <2> QED BY <2>2, <2>3, <2>4 DEF Extends
<1> QED BY <1>1, <1>2

(* The message that is shown is the user's own, or the stream's next.       *)
LEMMA ShowKeeps ==
    ASSUME PanelInv, NEW i \in Ids, messages' = AppendNew(messages, i),
           stored[i].mine \/ stored[i].conv = effect.conv,
           UNCHANGED <<server, effect, lists, source, dropped, loaded, since>>
    PROVE  /\ messages' \in Seq(Ids) /\ Shown' = Shown \cup {i}
           /\ ShownOnce' /\ OthersBelong' /\ OneList'
<1> USE DEF PanelInv
<1>1. PICK r : r = messages'
    OBVIOUS
<1>2. messages \in Seq(Ids) /\ r = AppendNew(messages, i)
    BY <1>1 DEF TypeOK
<1>3. /\ r \in Seq(Ids)
      /\ {r[n] : n \in DOMAIN r} = {messages[n] : n \in DOMAIN messages} \cup {i}
      /\ (\A m, n \in DOMAIN messages : messages[m] = messages[n] => m = n) =>
             \A m, n \in DOMAIN r : r[m] = r[n] => m = n
  <2>1. AppendNew(messages, i) \in Seq(Ids) /\ Extends(AppendNew(messages, i), messages, i)
      BY <1>2, AppendNewFacts
  <2>2. r \in Seq(Ids) /\ Extends(r, messages, i)
      BY <1>2, <2>1
  <2> QED BY <2>2 DEF Extends
<1>4. Shown' = Shown \cup {i}
  <2>1. Shown' = {r[n] : n \in DOMAIN r}
      BY <1>1 DEF Shown
  <2> QED BY <1>3, <2>1 DEF Shown
<1>5. ShownOnce'
    BY <1>1, <1>3 DEF ShownOnce
<1>6. OthersBelong'
    BY <1>4 DEF OthersBelong, server
<1>7. OneList'
    BY DEF OneList, Alive
<1> QED BY <1>1, <1>3, <1>4, <1>5, <1>6, <1>7

LEMMA EventKeeps ==
    ASSUME PanelInv, Event
    PROVE  PanelInv'
<1> USE DEF PanelInv
<1>1. PICK i : i = Head(wire)
    OBVIOUS
<1>2. /\ wire # <<>> /\ wire' = Tail(wire) /\ messages' = AppendNew(messages, i)
      /\ UNCHANGED <<server, requests, choice, effect, lists, source, dropped, loaded, since>>
    BY <1>1 DEF Event
<1>3. wire \in Seq(Ids)
    BY DEF TypeOK
<1>4. /\ 1 \in DOMAIN wire /\ i = wire[1] /\ i \in Ids /\ wire' \in Seq(Ids)
      /\ \A n \in DOMAIN wire' : n + 1 \in DOMAIN wire /\ wire'[n] = wire[n + 1]
      /\ \A n \in DOMAIN wire : n # 1 => n - 1 \in DOMAIN wire' /\ wire'[n - 1] = wire[n]
    BY <1>1, <1>2, <1>3
<1>5. stored[i].conv = effect.conv
    BY <1>4 DEF WireBelongs
<1>6. /\ messages' \in Seq(Ids) /\ Shown' = Shown \cup {i}
      /\ ShownOnce' /\ OthersBelong' /\ OneList'
    BY <1>2, <1>4, <1>5, ShowKeeps
<1>7. TypeOK'
    BY <1>2, <1>4, <1>6 DEF TypeOK, Ids, server, requests, choice
<1>8. Sources' /\ TargetStays'
    BY <1>2 DEF Sources, TargetStays, Ids, server, requests, choice
<1>9. WireBelongs'
    BY <1>2, <1>4 DEF WireBelongs, server
<1>10. {wire[n] : n \in DOMAIN wire} \subseteq {wire'[n] : n \in DOMAIN wire'} \cup {i}
  <2>1. ASSUME NEW n \in DOMAIN wire PROVE wire[n] \in {wire'[k] : k \in DOMAIN wire'} \cup {i}
      BY <1>4
  <2> QED BY <2>1
<1>11. NothingMissedOnceOpen'
  <2>1. ASSUME loaded, source = "open", NEW j \in In(effect.conv) \ since
        PROVE  \/ j \in Shown' \cup {wire'[n] : n \in DOMAIN wire'} \cup dropped
               \/ j \notin published
    <3>1. j \in Shown \cup {wire[n] : n \in DOMAIN wire} \cup dropped \/ j \notin published
        BY <2>1 DEF NothingMissedOnceOpen
    <3> QED BY <1>6, <1>10, <3>1
  <2> QED BY <1>2, <2>1 DEF NothingMissedOnceOpen, In, Ids, server
<1> QED BY <1>6, <1>7, <1>8, <1>9, <1>11

LEMMA SendAnswerKeeps ==
    ASSUME PanelInv, SendAnswer
    PROVE  PanelInv'
<1> USE DEF PanelInv
<1>1. PICK i \in sending \cap published :
        /\ sending' = sending \ {i}
        /\ messages' = AppendNew(messages, i)
        /\ conversations' = conversations \cup {stored[i].conv}
        /\ UNCHANGED <<server, listing, opening, active, clicked, changed, effect, lists,
                       stream, loaded, since>>
    BY DEF SendAnswer
<1>2. i \in Ids /\ stored[i].mine /\ stored[i].conv \in existing
    BY DEF TypeOK, Sources
<1>3. /\ messages' \in Seq(Ids) /\ Shown' = Shown \cup {i}
      /\ ShownOnce' /\ OthersBelong' /\ OneList'
    BY <1>1, <1>2, ShowKeeps DEF stream
<1>4. TypeOK'
    BY <1>1, <1>2, <1>3 DEF TypeOK, Ids, server, stream
<1>5. Sources' /\ TargetStays' /\ WireBelongs'
    BY <1>1 DEF Sources, TargetStays, WireBelongs, Ids, server, stream
<1>6. NothingMissedOnceOpen'
    BY <1>1, <1>3 DEF NothingMissedOnceOpen, In, Ids, server, stream
<1> QED BY <1>3, <1>4, <1>5, <1>6

-----------------------------------------------------------------------------
(* The invariants *)

LEMMA PanelInit == Init => PanelInv
<1> SUFFICES ASSUME Init PROVE PanelInv
    OBVIOUS
<1>1. TypeOK
  <2>1. existing \subseteq Convs /\ active = None /\ conversations = {} /\ listing = {existing}
        /\ published = {} /\ sending = {} /\ since = {} /\ dropped = {} /\ lists = {}
        /\ source = "none"
      BY DEF Init
  <2>2. {opening, clicked, changed, loaded} \subseteq BOOLEAN
      BY DEF Init
  <2>3. stored \in Seq([conv : Convs, mine : BOOLEAN]) /\ wire \in Seq(Ids) /\ messages \in Seq(Ids)
      BY DEF Init
  <2>4. effect \in [number : 0 .. MaxEffects, conv : Convs \cup {None}]
      BY BoundsAssumption DEF Init
  <2> QED BY <2>1, <2>2, <2>3, <2>4 DEF TypeOK
<1>2. Sources /\ WireBelongs /\ OneList
    BY DEF Init, Sources, WireBelongs, OneList, Ids
<1>3. ShownOnce /\ OthersBelong /\ NothingMissedOnceOpen /\ TargetStays
    BY DEF Init, ShownOnce, OthersBelong, NothingMissedOnceOpen, TargetStays
<1> QED BY <1>1, <1>2, <1>3 DEF PanelInv

LEMMA PanelNext == PanelInv /\ [Next]_vars => PanelInv'
<1> SUFFICES ASSUME PanelInv, [Next]_vars PROVE PanelInv'
    OBVIOUS
<1>1. CASE Next
    BY <1>1, AnyoneSends, PublishKeeps, ListingKeeps, TargetKeeps, EffectKeeps,
       MessagesKeeps, SourceKeeps, EventKeeps, SendAnswerKeeps DEF Next
<1>2. CASE UNCHANGED vars
  <2>1. UNCHANGED <<existing, stored, published, sending, listing, opening, conversations,
                    active, clicked, changed, effect, lists, stream, messages, loaded, since>>
      BY <1>2 DEF vars, server, requests, choice
  <2> QED BY <2>1, ChoiceKeeps DEF PanelInv, TypeOK, Sources, TargetStays
<1> QED BY <1>1, <1>2

(* Every reachable state satisfies PanelInv.                                *)
THEOREM PanelInductive == Spec => []PanelInv
BY PanelInit, PanelNext, PTL DEF Spec

(* Requests, effects and what is shown have their shapes, and the panel     *)
(* only ever shows messages the server has.                                 *)
THEOREM PanelTypeCorrect == Spec => []TypeOK
<1>1. PanelInv => TypeOK
    BY DEF PanelInv
<1> QED BY <1>1, PanelInductive, PTL

(* No message is shown twice, though list, stream and answer may each bring *)
(* it.                                                                      *)
THEOREM PanelShowsOnce == Spec => []ShownOnce
<1>1. PanelInv => ShownOnce
    BY DEF PanelInv
<1> QED BY <1>1, PanelInductive, PTL

(* Once a conversation's list is there, what others wrote elsewhere is not  *)
(* shown in it, however late an answer or an event comes.                   *)
THEOREM PanelOthersBelong == Spec => []OthersBelong
<1>1. PanelInv => OthersBelong
    BY DEF PanelInv
<1> QED BY <1>1, PanelInductive, PTL

(* From the moment list and stream are both there, every message stored is  *)
(* shown, dropped by the hub or on its way.                                 *)
THEOREM PanelMissesNothing == Spec => []NothingMissedOnceOpen
<1>1. PanelInv => NothingMissedOnceOpen
    BY DEF PanelInv
<1> QED BY <1>1, PanelInductive, PTL

(* The conversation the user asked for stays open until he chooses another, *)
(* whichever of the first two requests is answered first.                   *)
THEOREM PanelTargetStays == Spec => []TargetStays
<1>1. PanelInv => TargetStays
    BY DEF PanelInv
<1> QED BY <1>1, PanelInductive, PTL

(* A step that leaves the open conversation's list loaded only adds behind  *)
(* what is shown: the only one that replaces it, the list's answer, finds   *)
(* nothing loaded.                                                          *)
LEMMA ShownGrows ==
    ASSUME PanelInv, [Next]_vars, loaded, loaded', effect' = effect
    PROVE  /\ Len(messages) <= Len(messages')
           /\ SubSeq(messages', 1, Len(messages)) = messages
<1> USE DEF PanelInv
<1>1. messages \in Seq(Ids)
    BY DEF TypeOK
<1>2. PICK r : r = messages'
    OBVIOUS
<1>3. r = messages \/ \E i \in Ids : r = AppendNew(messages, i)
  <2>1. CASE MessagesAnswer
    <3>1. PICK l \in lists : Alive(l) \/ UNCHANGED messages
        BY <2>1 DEF MessagesAnswer
    <3> QED BY <1>2, <3>1 DEF OneList
  <2>2. CASE Event
    <3>1. Head(wire) \in Ids
      <4>1. wire \in Seq(Ids) /\ wire # <<>>
          BY <2>2 DEF Event, TypeOK
      <4> QED BY <4>1
    <3> QED BY <1>2, <2>2, <3>1 DEF Event
  <2>3. CASE SendAnswer
    <3>1. sending \subseteq Ids
        BY DEF TypeOK
    <3> QED BY <1>2, <2>3, <3>1 DEF SendAnswer
  <2>4. CASE OtherSends \/ Publish \/ ListingAnswer \/ ListingFail \/ Refresh \/ TargetCreated
             \/ TargetAnswer
      BY <1>2, <2>4 DEF OtherSends, Publish, ListingAnswer, ListingFail, Refresh, TargetCreated,
                  TargetAnswer
  <2>5. CASE TargetFail \/ Click \/ RunEffect \/ MessagesFail \/ Connect \/ Disconnect \/ Send
      BY <1>2, <2>5 DEF TargetFail, Click, RunEffect, MessagesFail, Connect, Disconnect, Send
  <2>6. CASE UNCHANGED vars
      BY <1>2, <2>6 DEF vars
  <2> QED BY <2>1, <2>2, <2>3, <2>4, <2>5, <2>6 DEF Next
<1>4. /\ r \in Seq(Ids) /\ Len(messages) <= Len(r)
      /\ \A n \in DOMAIN messages : n \in DOMAIN r /\ r[n] = messages[n]
  <2>1. CASE r = messages
      BY <1>1, <2>1
  <2>2. ASSUME NEW i \in Ids, r = AppendNew(messages, i)
        PROVE  /\ r \in Seq(Ids) /\ Len(messages) <= Len(r)
               /\ \A n \in DOMAIN messages : n \in DOMAIN r /\ r[n] = messages[n]
    <3>1. AppendNew(messages, i) \in Seq(Ids) /\ Extends(AppendNew(messages, i), messages, i)
        BY <1>1, AppendNewFacts
    <3> QED BY <2>2, <3>1 DEF Extends
  <2> QED BY <1>3, <2>1, <2>2
<1>5. SubSeq(r, 1, Len(messages)) = messages
  <2>1. PICK q : q = messages
      OBVIOUS
  <2>2. SubSeq(r, 1, Len(q)) = q
      BY <1>1, <1>4, <2>1
  <2> QED BY <2>1, <2>2
<1> QED BY <1>2, <1>4, <1>5

(* While a conversation stays open, what is shown stays, in its order.      *)
THEOREM PanelShownStays == Spec => ShownStays
<1>1. PanelInv /\ [Next]_vars =>
        [loaded /\ loaded' /\ effect' = effect =>
            /\ Len(messages) <= Len(messages')
            /\ SubSeq(messages', 1, Len(messages)) = messages]_vars
    BY ShownGrows
<1> QED BY <1>1, PanelInductive, PTL DEF Spec, ShownStays

=============================================================================
