------------------------------ MODULE RoomRules ------------------------------
(* services/synapse-policy: what a room promises when it is created, its kind *)
(* and whether it is encrypted, held against every event that follows, one    *)
(* after another.  on_create_room rewrites the request; Synapse then emits    *)
(* the initial events one by one, each through check_event_allowed, and a     *)
(* refused one leaves half a room.  Later come the events of its members,     *)
(* whom Synapse lets change the state or post by their power levels.          *)
(*                                                                            *)
(* Requests are well formed and name local users; names, topics and other     *)
(* state without a rule are left out.                                         *)
EXTENDS Naturals, Sequences

CONSTANTS Members,        \* of the room, beside its owner
          RoomOwner,
          MessageLimit,   \* messages in a window (30 in a minute, 1000 in a day)
          ReceiptLimit,   \* receipts in a window (90 in a minute, 3000 in a day)
          Absent          \* no request, no state of a type

VARIABLES
  asked,      \* the kind and encryption of the request that was accepted
  stage,      \* "none", "creating", "created", "halted"
  initial,    \* the initial events Synapse has yet to emit
  content,    \* the room's state: [type of state -> its content, or Absent]
  timeline,   \* accepted messages and receipts, [type, byRole]
  blocking,   \* one of the two members of a dm blocks the other
  sent        \* what senders are charged in the window: [Everyone -> [Charges -> Nat]]

roomVars == <<asked, stage, initial, content, timeline, blocking, sent>>

Everyone == Members \cup {RoomOwner}
Kinds == {"dm", "group", "channel"}
RoomMetas == [kind : Kinds, encryption : {"standard", "e2ee"}]
CapOf == [dm |-> 2, group |-> 100, channel |-> 1000]
\* Power levels: those of posting by default and, if set, of messages; of members
\* by default; and who has a role (50 or more).
Powers == [events : {0, 50}, messages : {{}, {0}, {50}}, users : {0, 50}, roles : {{RoomOwner}, Everyone}]
NoPowers == [events |-> 0, messages |-> {}, users |-> 0, roles |-> {RoomOwner}]
\* None of Python is no content; "empty" is a content without anything in it.
ASSUME RoomAssumption ==
  /\ RoomOwner \notin Members /\ MessageLimit \in Nat \ {0} /\ ReceiptLimit \in Nat \ {0}
  /\ Absent \notin RoomMetas /\ Absent \notin Powers
  /\ Absent \notin {"empty", "megolm", "public", "invite", "shared", "invited", "forbidden", "none"}
Stated == {"create", "conversation", "encryption", "rules", "history", "guest", "power"}
Posted == {"message", "encrypted", "receipt"}
Charges == {"messages", "receipts"}
Limit == [messages |-> MessageLimit, receipts |-> ReceiptLimit]

RoomInit ==
  /\ asked = Absent /\ stage = "none" /\ initial = <<>> /\ content = [t \in Stated |-> Absent]
  /\ timeline = {} /\ blocking = FALSE /\ sent = [u \in Everyone |-> [k \in Charges |-> 0]]

\* A state event under the empty state key, or under another.
State(type, c) == [type |-> type, key |-> "main", value |-> c]
Aside(type, c) == [type |-> type, key |-> "aside", value |-> c]
IsChannel == asked.kind = "channel"

\* metadata: the conversation state, what the room was created with, or a default.
Metadata ==
  IF content["conversation"] # Absent THEN content["conversation"]
  ELSE IF content["create"] # Absent THEN content["create"]
  ELSE [kind |-> "group", encryption |-> "standard"]

------------------------------------------------------------------------------
\* on_create_room: a request has a conversation, initial encryption and power
\* levels or none, and invitations; and state under another key, which is not
\* looked at: a conversation, the same or another, encryption or levels.  Bound:
\* not with levels under the empty key as well.
Asides == {"same", "another", "megolm", "levels"}
RoomRequests == {q \in [meta : RoomMetas, encryption : {Absent, "empty", "megolm", "other"},
                        power : {Absent} \cup Powers, aside : {Absent} \cup Asides, invites : {1, 2}] :
                   q.power = Absent \/ q.aside = Absent}
Acceptable(q) ==
  /\ IF q.meta.encryption = "e2ee" THEN q.meta.kind # "channel" /\ q.encryption = "megolm"
     ELSE q.encryption \in {Absent, "empty"}
  /\ q.invites + 1 <= CapOf[q.meta.kind]

\* A channel's posting levels override the request's, not its levels by type.
InitialPower(q) ==
  LET p == IF q.power = Absent THEN NoPowers ELSE q.power IN
  IF q.meta.kind = "channel" THEN [p EXCEPT !.events = 50, !.users = 0] ELSE p
\* What Synapse emits, in this order: the creation, the power levels, and the
\* initial state with the conversation first.
CreateContentUnset(q) == Absent
CreateContent(q) == q.meta
Besides(q, type) ==
  CASE type = "conversation" /\ q.aside = "same" -> <<Aside(type, q.meta)>>
    [] type = "conversation" /\ q.aside = "another" -> <<Aside(type, CHOOSE m \in RoomMetas : m # q.meta)>>
    [] type = "encryption" /\ q.aside = "megolm" -> <<Aside(type, "megolm")>>
    [] type = "power" /\ q.aside = "levels" -> <<Aside(type, NoPowers)>>
    [] OTHER -> <<>>
InitialState(q) ==
  <<State("create", CreateContent(q)), State("power", InitialPower(q)), State("conversation", q.meta)>>
  \o Besides(q, "conversation")
  \o (IF q.encryption = Absent THEN <<>> ELSE <<State("encryption", q.encryption)>>)
  \o Besides(q, "encryption") \o Besides(q, "power")
  \o <<State("rules", IF q.meta.kind = "channel" THEN "public" ELSE "invite"),
       State("history", IF q.meta.kind = "channel" THEN "shared" ELSE "invited"),
       State("guest", "forbidden")>>

CreateRoom(q) ==
  /\ stage = "none" /\ Acceptable(q)
  /\ stage' = "creating" /\ asked' = q.meta /\ initial' = InitialState(q)
  /\ UNCHANGED <<content, timeline, blocking, sent>>

\* check_event_allowed.
PowerAllowed(p) == p.events >= 50 /\ p.users < 50 /\ 0 \notin p.messages
StateAllowed(e) ==
  LET meta == Metadata
      old == IF e.key = "main" THEN content[e.type] ELSE Absent
      c == e.value
  IN CASE e.type = "conversation" -> c = meta /\ old \in {Absent, c}
       [] e.type = "encryption" -> meta.encryption = "e2ee" /\ c = "megolm" /\ old \in {Absent, c}
       [] e.type = "rules" -> c = IF meta.kind = "channel" THEN "public" ELSE "invite"
       [] e.type = "history" -> c = IF meta.kind = "channel" THEN "shared" ELSE "invited"
       [] e.type = "guest" -> c = "forbidden"
       [] e.type = "power" -> meta.kind = "channel" => PowerAllowed(c)
       [] e.type = "create" -> TRUE
RedactionAllowed(type) == type \notin {"conversation", "encryption"}
PostAllowed(type) ==
  /\ (Metadata.encryption = "e2ee") = (type = "encrypted")
  /\ Metadata.kind = "dm" => ~blocking

\* A refused initial event leaves the room as it is. State under another key has
\* no part in what follows.
EmitInitial ==
  /\ stage = "creating"
  /\ IF StateAllowed(Head(initial)) THEN
       /\ content' = IF Head(initial).key = "main"
                     THEN [content EXCEPT ![Head(initial).type] = Head(initial).value] ELSE content
       /\ initial' = Tail(initial) /\ stage' = IF Tail(initial) = <<>> THEN "created" ELSE "creating"
     ELSE stage' = "halted" /\ UNCHANGED <<content, initial>>
  /\ UNCHANGED <<asked, timeline, blocking, sent>>

------------------------------------------------------------------------------
\* Later events: Synapse lets those with a role change and redact the state, and
\* whoever has the level post.
ContentsOf(type) ==
  CASE type = "conversation" -> RoomMetas
    [] type = "encryption" -> {"megolm", "other"}
    [] type = "rules" -> {"public", "invite"}
    [] type = "history" -> {"shared", "invited", "world_readable"}
    [] type = "guest" -> {"forbidden", "can_join"}
    [] type = "power" -> Powers
    [] OTHER -> {}
ChangeState(e) ==
  /\ stage = "created" /\ StateAllowed(e) /\ content[e.type] # e.value
  /\ content' = [content EXCEPT ![e.type] = e.value]
  /\ UNCHANGED <<asked, stage, initial, timeline, blocking, sent>>
Redacted(type) == IF type = "conversation" THEN [kind |-> "none", encryption |-> "none"] ELSE "none"
RedactState(type) ==
  /\ stage = "created" /\ type \in {"conversation", "encryption", "guest"} /\ RedactionAllowed(type)
  /\ content[type] \notin {Absent, Redacted(type)}
  /\ content' = [content EXCEPT ![type] = Redacted(type)]
  /\ UNCHANGED <<asked, stage, initial, timeline, blocking, sent>>

Level(u) == IF u \in content["power"].roles THEN 100 ELSE content["power"].users
Needed == IF content["power"].messages = {} THEN content["power"].events ELSE CHOOSE n \in content["power"].messages : TRUE
\* check_event_for_spam: the sender's share is charged in one transaction; state
\* events have a share of their own, which is left out.
Charge(type) == IF type = "receipt" THEN "receipts" ELSE "messages"
Post(u, type) ==
  /\ stage = "created" /\ Level(u) >= Needed /\ PostAllowed(type) /\ sent[u][Charge(type)] < Limit[Charge(type)]
  /\ timeline' = timeline \cup {[type |-> type, byRole |-> u \in content["power"].roles]}
  /\ sent' = [sent EXCEPT ![u][Charge(type)] = @ + 1]
  /\ UNCHANGED <<asked, stage, initial, content, blocking>>
NextMinute ==
  /\ \E u \in Everyone, k \in Charges : sent[u][k] > 0
  /\ sent' = [u \in Everyone |-> [k \in Charges |-> 0]]
  /\ UNCHANGED <<asked, stage, initial, content, timeline, blocking>>
ToggleBlock ==
  /\ stage = "created" /\ content["create"].kind = "dm"
  /\ blocking' = ~blocking
  /\ UNCHANGED <<asked, stage, initial, content, timeline, sent>>

RoomNext ==
  \/ \E q \in RoomRequests : CreateRoom(q)
  \/ EmitInitial
  \/ \E type \in Stated : \E c \in ContentsOf(type) : ChangeState(State(type, c))
  \/ \E type \in Stated : RedactState(type)
  \/ \E u \in Everyone, type \in Posted : Post(u, type)
  \/ NextMinute \/ ToggleBlock

RoomSpec == RoomInit /\ [][RoomNext]_roomVars

------------------------------------------------------------------------------
RoomTypeOK ==
  /\ stage \in {"none", "creating", "created", "halted"}
  /\ \A u \in Everyone, k \in Charges : sent[u][k] \in 0..Limit[k]
  /\ timeline \subseteq [type : Posted, byRole : BOOLEAN]

Overlooked(e) == \/ e.key # "main"
                 \/ e.type = "encryption" /\ e.value = "empty" /\ asked.encryption = "standard"
                 \/ e.type = "power" /\ IsChannel /\ 0 \in e.value.messages

\* A room is what it was created as, through every sequence of its own initial
\* events, later state, redactions, power levels and messages: the same kind, never
\* a plain message in an encrypted room nor the reverse, no post in a channel by
\* whoever has no role. A request that was accepted comes to be such a room, unless
\* it has what on_create_room does not look at: levels by type that let members of
\* a channel post, encryption without content in a standard room, or state under
\* another key. ("Validate immutable room boundaries on every path, including raw
\* state sends".)
RoomKeepsPromise ==
  /\ stage = "created" =>
       /\ Metadata = asked
       /\ content["encryption"] = IF asked.encryption = "e2ee" THEN "megolm" ELSE Absent
       /\ content["rules"] = IF IsChannel THEN "public" ELSE "invite"
  /\ \A m \in timeline : /\ (m.type = "encrypted") = (asked.encryption = "e2ee")
                         /\ IsChannel => m.byRole
  /\ stage = "halted" => Overlooked(Head(initial))
=============================================================================
