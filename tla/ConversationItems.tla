--------------------------- MODULE ConversationItems ---------------------------
(***************************************************************************)
(* ConversationItemStore: the one ordered conversation a session shows and *)
(* the ownership rules by which a live representation of a Pi message (a   *)
(* stream of events) and its persisted one (a session entry) become one    *)
(* visible item.                                                           *)
(*                                                                         *)
(* A store is a record c.  c.items is the conversation: turns, which hold  *)
(* items, and stand-alone items, held here in an element of their own.     *)
(* The code keeps the place of each message beside the conversation; here  *)
(* an item's id is its owner's view id and a part of it, and its place is  *)
(* looked up.  The content of an item is the number of its Pi message.     *)
(*   live      keys of messages an event has shown ("text", "compaction")  *)
(*   claims    the persisted entries and the view each one owns            *)
(*   results   tool calls whose result is persisted                        *)
(*   customs   views of custom messages delivered and not persisted yet,   *)
(*             in the order of delivery                                    *)
(*   appended  custom messages announced with their entry id               *)
(***************************************************************************)
EXTENDS Integers, SequencesExt

None == <<>>

Item(id, kind, m, st) == [id |-> id, kind |-> kind, m |-> m, st |-> st]

NewTurn(id, user, source) ==
  [id |-> id, turn |-> TRUE, user |-> user, source |-> source,
   st |-> "running", items |-> <<>>]

Alone(item) ==
  [id |-> item.id, turn |-> FALSE, user |-> 0, source |-> 0,
   st |-> "completed", items |-> <<item>>]

EmptyStore ==
  [items |-> <<>>, live |-> {}, claims |-> {}, results |-> {},
   customs |-> <<>>, appended |-> {}]

HasTurn(c, t) == \E i \in DOMAIN c.items : c.items[i].turn /\ c.items[i].id = t

TurnOf(c, t) == c.items[CHOOSE i \in DOMAIN c.items : c.items[i].id = t]

Append1(c, x) == [c EXCEPT !.items = Append(@, x)]

Without(c, id) == [c EXCEPT !.items = SelectSeq(@, LAMBDA x : x.id # id)]

\* Throws in the code when the turn is not in the conversation; callers look first.
ReplaceTurn(c, x) ==
  [c EXCEPT !.items = [i \in DOMAIN @ |-> IF @[i].id = x.id THEN x ELSE @[i]]]

MoveToEnd(c, x) == Append1(Without(c, x.id), x)

SetTurnStatus(c, t, st) == ReplaceTurn(c, [TurnOf(c, t) EXCEPT !.st = st])

WithItems(c, t, items) == ReplaceTurn(c, [TurnOf(c, t) EXCEPT !.items = items])

IndexOf(items, id) == SelectInSeq(items, LAMBDA x : x.id = id)

UpsertItem(c, t, item) ==
  LET items == TurnOf(c, t).items
      i == IndexOf(items, item.id)
  IN WithItems(c, t, IF i = 0 THEN Append(items, item) ELSE [items EXCEPT ![i] = item])

\* All items with the turn each is in (None: it stands alone).
Places(c) ==
  UNION {LET x == c.items[i] IN
         {[turn |-> IF x.turn THEN x.id ELSE None, item |-> x.items[j]] : j \in DOMAIN x.items} :
           i \in DOMAIN c.items}

OwnedBy(c, view) == {p \in Places(c) : SubSeq(p.item.id, 1, 2) = view}

RemoveItems(c, ids) ==
  LET kept == SelectSeq(c.items, LAMBDA x : x.turn \/ x.id \notin ids)
  IN [c EXCEPT !.items =
        [i \in DOMAIN kept |->
           [kept[i] EXCEPT !.items = SelectSeq(@, LAMBDA x : x.id \notin ids)]]]

FinalizeTools(c) ==
  [c EXCEPT !.items =
     [i \in DOMAIN @ |->
        [@[i] EXCEPT !.items =
           [j \in DOMAIN @ |->
              IF @[j].kind = "tool" /\ @[j].st = "running"
              THEN [@[j] EXCEPT !.st = "cancelled"] ELSE @[j]]]]]

(***************************************************************************)
(* Tools: a call is one item wherever its assistant message is.            *)
(***************************************************************************)
Calls(c, m) == {p \in Places(c) : p.item.kind = "tool" /\ p.item.m = m}

HasTool(c, m) == Calls(c, m) # {}

UpsertTool(c, src, fallback, m, st) ==
  LET known == Calls(c, m)
      call == CHOOSE p \in known : TRUE
      t == IF known # {} THEN call.turn ELSE fallback
      id == IF known # {} THEN call.item.id ELSE <<"tool", m, "tool">>
  IN IF t = None \/ (src = "live" /\ m \in c.results) THEN c
     ELSE [UpsertItem(c, t, Item(id, "tool", m, st)) EXCEPT
             !.results = IF src = "live" THEN @ ELSE @ \cup {m}]

\* A persisted assistant message says a call exists, not how it went.
Preserving(c, acts) ==
  [i \in DOMAIN acts |->
     IF acts[i].kind = "tool" /\ HasTool(c, acts[i].m)
     THEN [acts[i] EXCEPT !.st = (CHOOSE p \in Calls(c, acts[i].m) : TRUE).item.st]
     ELSE acts[i]]

(***************************************************************************)
(* Assistant messages and compactions: one owner per message.              *)
(***************************************************************************)
Claimed(c, kind, key) == {x \in c.claims : x.kind = kind /\ x.key = key}

\* The view a live event of a message is shown under.
LiveView(kind, key) == <<kind, key>>

\* (Mutant) An entry never takes the live view over.
PersistedView_Own(c, kind, key, entry) == <<"entry", entry>>

\* The view an entry takes over, or a view of its own.
PersistedView(c, kind, key, entry) ==
  IF Claimed(c, kind, key) = {} /\ [kind |-> kind, key |-> key] \in c.live
  THEN LiveView(kind, key) ELSE <<"entry", entry>>

Shows(c, kind, key) == [c EXCEPT !.live = @ \cup {[kind |-> kind, key |-> key]}]

Claim(c, kind, key, entry, view) ==
  [c EXCEPT !.claims = @ \cup {[kind |-> kind, key |-> key, entry |-> entry, view |-> view]}]

\* In its turn a message is replaced where it stands; else it moves as one.
PublishAssistant(c, view, t, acts) ==
  LET owned == OwnedBy(c, view)
      ids == {p.item.id : p \in owned}
      news == {acts[i].id : i \in DOMAIN acts}
      here == SelectSeq(TurnOf(c, t).items, LAMBDA x : x.id \notin ids \ news)
      replaced == [i \in DOMAIN here |->
                     IF here[i].id \in news
                     THEN acts[IndexOf(acts, here[i].id)] ELSE here[i]]
      added == SelectSeq(acts, LAMBDA x : IndexOf(here, x.id) = 0)
      moved == RemoveItems(c, ids)
  IN IF owned # {} /\ \A p \in owned : p.turn = t
     THEN WithItems(c, t, replaced \o added)
     ELSE WithItems(moved, t, TurnOf(moved, t).items \o acts)

PlaceLiveAssistant(c, key, t, acts) ==
  PublishAssistant(Shows(c, "text", key), LiveView("text", key), t, acts)

PlacePersistedAssistant(c, key, entry, t, acts) ==
  LET view == PersistedView(c, "text", key, entry)
  IN PublishAssistant(Claim(c, "text", key, entry, view), view, t, Preserving(c, acts))

\* A compaction or a custom message: in its place if it stays where it is.
PublishAnnotation(c, t, item) ==
  LET old == {p \in Places(c) : p.item.id = item.id}
      stays == \E p \in old : p.turn = t
      rest == RemoveItems(c, {item.id})
  IN IF t # None
     THEN IF stays THEN UpsertItem(c, t, item) ELSE UpsertItem(rest, t, item)
     ELSE IF stays THEN ReplaceTurn(c, Alone(item)) ELSE Append1(rest, Alone(item))

PlaceLiveCompaction(c, key, t, m) ==
  IF Claimed(c, "compaction", key) # {} THEN c
  ELSE PublishAnnotation(Shows(c, "compaction", key), t,
         Item(Append(LiveView("compaction", key), "item"), "compaction", m, "complete"))

PlacePersistedCompaction(c, key, entry, t, m) ==
  LET view == PersistedView(c, "compaction", key, entry)
  IN PublishAnnotation(Claim(c, "compaction", key, entry, view), t,
       Item(Append(view, "item"), "compaction", m, "complete"))

(***************************************************************************)
(* Custom messages: deliveries pair with new entries in order, announced   *)
(* entries by their id.                                                    *)
(***************************************************************************)
CustomItem(view, m) == Item(Append(view, "item"), "custom", m, "complete")

PlaceLiveCustom(c, t, m) ==
  [PublishAnnotation(c, t, CustomItem(<<"custom", m>>, m)) EXCEPT
     !.customs = Append(@, <<"custom", m>>)]

PlaceAppendedCustom(c, entry, t, m) ==
  [PublishAnnotation(c, t, CustomItem(<<"entry", entry>>, m)) EXCEPT
     !.appended = @ \cup {entry}]

PlacePersistedCustom(c, entry, t, m) ==
  LET announced == entry \in c.appended
      view == IF announced \/ c.customs = <<>> THEN <<"entry", entry>> ELSE Head(c.customs)
      taken == [c EXCEPT !.appended = @ \ {entry},
                         !.customs = IF announced \/ @ = <<>> THEN @ ELSE Tail(@)]
  IN PublishAnnotation(taken, t, CustomItem(view, m))

\* One live view that several new entries could adopt: nothing is changed.
Ambiguous(c, entries) ==
  \E i, j \in DOMAIN entries :
    /\ i # j
    /\ entries[i].kind = entries[j].kind
    /\ entries[i].key = entries[j].key
    /\ \E kind \in {"text", "compaction"} :
         /\ entries[i].kind = (IF kind = "text" THEN "assistant" ELSE kind)
         /\ [kind |-> kind, key |-> entries[i].key] \in c.live
         /\ Claimed(c, kind, entries[i].key) = {}
================================================================================
