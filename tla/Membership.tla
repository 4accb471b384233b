----------------------------- MODULE Membership -----------------------------
(***************************************************************************)
(* Admission to rooms: the hooks user_may_invite, user_may_join_room,      *)
(* check_event_for_spam and on_new_event of services/synapse-policy and    *)
(* their tables member_slots, contacts, trusted_contacts and blocks.       *)
(*                                                                         *)
(* A hook reads the room's state (an await) and then decides in one step   *)
(* of the single Synapse process.  Synapse then creates the membership     *)
(* event, which check_event_for_spam or the room's rules may still refuse, *)
(* and calls on_new_event from a background task, which may be late, run   *)
(* in any order, or be lost with the process.  Nothing tells the module    *)
(* that an event it had admitted was refused.                              *)
(***************************************************************************)
EXTENDS Naturals, FiniteSets

CONSTANTS
  Users,         \* local users
  Rooms,         \* rooms
  Creator,       \* Creator[r]: the user who created r
  Public,        \* the rooms that are channels
  DMs,           \* the rooms that are dms
  Cap,           \* Cap[r]: the member limit of r's kind (2, 100, 1000)
  Reqs,          \* membership requests Synapse handles at once
  ContactLimit,  \* new contacts a user may ask for in a day (5)
  Known,         \* pairs that are trusted contacts at the start
  Wanted,        \* the users every creator keeps inviting (for liveness)
  Blockers,      \* the users who may block others
  Leavers,       \* bound: the users who leave rooms, are removed or decline
  Linearized,    \* TRUE: Synapse changes memberships of a room one at a time
  MaxTime,       \* bound: half-days that pass
  MaxRefused,    \* bound: events refused after a hook admitted them
  MaxLate,       \* bound: callbacks that run late or never
  None           \* no user, no room

VARIABLES
  member,    \* Synapse: member[r][u], "out", "invite" or "join"
  by,        \* Synapse: who sent u's current invitation to r
  req,       \* Synapse: the requests at work and what their hook has read
  news,      \* Synapse: on_new_event callbacks that have not run yet
  slots,     \* policy: members with a row in member_slots
  fresh,     \* policy: those whose row is not older than 120 s
  contact,   \* policy: the contacts row of each directed pair
  used,      \* policy: contacts asked for, with the day they are counted in
  trusted,   \* policy: trusted_contacts
  blocks,    \* policy: blocks, as <<owner, target>>
  declined,  \* history: when u last turned down a stranger s, for a day
  crossed,   \* history: members of rooms an answer of whom was lost with the
             \* process, or had not been heard when they were invited again
  now,       \* half-days passed; a day's bucket is now \div 2
  refused, late  \* bounded by MaxRefused and MaxLate

synapse == <<member, by, req, news>>
policy  == <<slots, fresh, contact, used, trusted, blocks>>
vars == <<synapse, policy, declined, crossed, now, refused, late>>

Never == MaxTime + 1

Pair(a, b) == {a, b}

ASSUME MembershipAssumption ==
  /\ None \notin Users \cup Rooms
  /\ Creator \in [Rooms -> Users]
  /\ Public \subseteq Rooms /\ DMs \subseteq Rooms \ Public
  /\ Cap \in [Rooms -> Nat \ {0}]
  /\ Blockers \subseteq Users /\ Wanted \subseteq Users /\ Leavers \subseteq Users
  /\ Known \subseteq {Pair(a, b) : a \in Users, b \in Users}
  /\ Linearized \in BOOLEAN
  /\ {ContactLimit, MaxTime, MaxRefused, MaxLate} \subseteq Nat

Contact == [status : {"none", "pending", "accepted", "rejected"},
            room : Rooms \cup {None}, at : 0 .. MaxTime]
Stranger == [status |-> "none", room |-> None, at |-> 0]

\* A request: `from' asks that `who' becomes what `op' says in room; `present'
\* and `was' are the members and who's membership the hook has read.
Request == [op : {"invite", "join", "leave"}, from : Users, who : Users,
            room : Rooms, present : SUBSET Users,
            was : {"out", "invite", "join"}, at : {"hook", "event"}]
Idle == [at |-> "idle", room |-> None]

Callback == [room : Rooms, who : Users, to : {"invite", "join", "out"}]

(***************************************************************************)
(* What the hooks decide.                                                  *)
(***************************************************************************)
Present(r) == {u \in Users : member[r][u] # "out"}
Blocked(a, b) == <<a, b>> \in blocks \/ <<b, a>> \in blocks

\* Mutant of Kept: the members present do not claim their slots.
KeptRowsOnly(r, present) == {m \in slots[r] : m \in fresh[r] \cup present}
\* Mutant of Kept: reservations are never given up.
KeptForever(r, present) == slots[r] \cup present

\* The slots of r once reserve_member gave up old reservations and entered
\* the members present.
Kept(r, present) == {m \in slots[r] : m \in fresh[r]} \cup present

Reserves(q) == \/ req[q].who \in Kept(req[q].room, req[q].present)
               \/ Cardinality(Kept(req[q].room, req[q].present)) < Cap[req[q].room]

\* reserve_member's writes, `gain' being the member it enters: a row given up
\* and entered again is as new as any.
Reserve(r, present, gain) ==
  /\ slots' = [slots EXCEPT ![r] = Kept(r, present) \cup gain]
  /\ fresh' = [fresh EXCEPT ![r] =
        @ \cup ((Kept(r, present) \cup gain) \ (slots[r] \cap Kept(r, present)))]

\* An event whose callback has not run yet.
Unheard(r, u, to) == [room |-> r, who |-> u, to |-> to] \in news

Today == now \div 2
UsedToday(s) == IF used[s].day = Today THEN used[s].n ELSE 0

\* Mutant of Cooling: a rejection is forgotten at the next midnight.
CoolingToday(c) == c.status = "rejected" /\ c.at \div 2 = Today

\* A rejection younger than 24 hours.
Cooling(c) == c.status = "rejected" /\ c.at + 2 > now

\* contact_allowed may enter a new request.
MayAsk(s, u) == /\ contact[s][u].status # "pending"
                /\ ~Cooling(contact[s][u])
                /\ UsedToday(s) < ContactLimit

\* Mutant of ContactAllowed: a pending request admits any room.
ContactAllowedAnyRoom(s, u, r) ==
  /\ ~Blocked(s, u)
  /\ \/ Pair(s, u) \in trusted
     \/ contact[s][u].status = "pending"
     \/ MayAsk(s, u)

ContactAllowed(s, u, r) ==
  /\ ~Blocked(s, u)
  /\ \/ Pair(s, u) \in trusted
     \/ contact[s][u].status = "pending" /\ contact[s][u].room = r
     \/ MayAsk(s, u)

Charge(s) == used' = [used EXCEPT ![s] = [day |-> Today, n |-> UsedToday(s) + 1]]

\* contact_allowed's writes when it answers TRUE.
Ask(s, u, r) ==
  IF Pair(s, u) \in trusted \/ contact[s][u].status = "pending"
  THEN UNCHANGED <<contact, used>>
  ELSE /\ contact' = [contact EXCEPT ![s][u] =
                        [status |-> "pending", room |-> r, at |-> now]]
       /\ Charge(s)

(***************************************************************************)
(* Synapse and its clients.                                                *)
(***************************************************************************)
TypeOK ==
  /\ member \in [Rooms -> [Users -> {"out", "invite", "join"}]]
  /\ by \in [Rooms -> [Users -> Users \cup {None}]]
  /\ req \in [Reqs -> Request \cup {Idle}]
  /\ news \subseteq Callback
  /\ slots \in [Rooms -> SUBSET Users]
  /\ fresh \in [Rooms -> SUBSET Users] /\ \A r \in Rooms : fresh[r] \subseteq slots[r]
  /\ contact \in [Users -> [Users -> Contact]]
  /\ used \in [Users -> [day : 0 .. MaxTime, n : 0 .. ContactLimit]]
  /\ trusted \subseteq {Pair(a, b) : a \in Users, b \in Users}
  /\ blocks \subseteq Users \X Users
  /\ declined \in [Users -> [Users -> 0 .. Never]]
  /\ crossed \subseteq Rooms \X Users
  /\ now \in 0 .. MaxTime
  /\ refused \in 0 .. MaxRefused
  /\ late \in 0 .. MaxLate

Init ==
  /\ member = [r \in Rooms |->
                 [u \in Users |-> IF u = Creator[r] THEN "join" ELSE "out"]]
  /\ by = [r \in Rooms |-> [u \in Users |-> None]]
  /\ req = [q \in Reqs |-> Idle]
  /\ news = {}
  /\ slots = [r \in Rooms |-> {}]
  /\ fresh = [r \in Rooms |-> {}]
  /\ contact = [s \in Users |-> [u \in Users |-> Stranger]]
  /\ used = [s \in Users |-> [day |-> 0, n |-> 0]]
  /\ trusted = Known
  /\ blocks = {}
  /\ declined = [s \in Users |-> [u \in Users |-> Never]]
  /\ crossed = {}
  /\ now = 0
  /\ refused = 0
  /\ late = 0

Queued(r) == Linearized => \A q \in Reqs : req[q].room # r

\* A request reaches Synapse, which reads the room's state for the hook.
\* Leaving and removing someone have no hook.
Submit(q, op, s, u, r, at) ==
  /\ req[q] = Idle
  /\ Queued(r)
  /\ req' = [req EXCEPT ![q] = [op |-> op, from |-> s, who |-> u, room |-> r,
                 present |-> Present(r), was |-> member[r][u], at |-> at]]
  /\ UNCHANGED <<member, by, news, policy, declined, crossed, now, refused, late>>

Invite(q, s, u, r) == /\ s # u /\ member[r][s] = "join"
                      /\ Submit(q, "invite", s, u, r, "hook")
Join(q, u, r) == Submit(q, "join", u, u, r, "hook")
\* A member leaves, or turns an invitation down, or the creator removes them.
Leave(q, u, r) == /\ u \in Leavers /\ member[r][u] # "out"
                  /\ Submit(q, "leave", u, u, r, "event")

\* user_may_invite
DecideInvite(q) ==
  LET s == req[q].from
      u == req[q].who
      r == req[q].room
  IN  /\ req[q] # Idle /\ req[q].op = "invite" /\ req[q].at = "hook"
      /\ \/ /\ ~Reserves(q)
            /\ Reserve(r, req[q].present, {})
            /\ req' = [req EXCEPT ![q] = Idle]
            /\ UNCHANGED <<contact, used, crossed>>
         \/ /\ Reserves(q)
            /\ ContactAllowed(s, u, r)
            /\ Reserve(r, req[q].present, {u})
            /\ Ask(s, u, r)
            /\ crossed' = IF Unheard(r, u, "out") THEN crossed \cup {<<r, u>>} ELSE crossed
            /\ req' = [req EXCEPT ![q].at = "event"]
         \/ /\ Reserves(q)
            /\ ~ContactAllowed(s, u, r)
            /\ LET gone == {u} \ req[q].present
               IN  /\ slots' = [slots EXCEPT ![r] = (Kept(r, req[q].present) \cup {u}) \ gone]
                   /\ fresh' = [fresh EXCEPT ![r] =
                        (@ \cup (Kept(r, req[q].present) \ slots[r])) \ gone]
            /\ req' = [req EXCEPT ![q] = Idle]
            /\ UNCHANGED <<contact, used, crossed>>
      /\ UNCHANGED <<member, by, news, trusted, blocks, declined, now, refused, late>>

\* user_may_join_room: it admits a member's repeated join at once.
MayEnter(q) ==
  /\ req[q].room \in Public \/ req[q].was = "invite"
  /\ req[q].room \in DMs =>
       \A m \in req[q].present : ~Blocked(req[q].who, m)

DecideJoin(q) ==
  LET r == req[q].room
  IN  /\ req[q] # Idle /\ req[q].op = "join" /\ req[q].at = "hook"
      /\ \/ /\ req[q].was = "join"
            /\ req' = [req EXCEPT ![q].at = "event"]
            /\ UNCHANGED <<slots, fresh>>
         \/ /\ req[q].was # "join" /\ ~MayEnter(q)
            /\ req' = [req EXCEPT ![q] = Idle]
            /\ UNCHANGED <<slots, fresh>>
         \/ /\ req[q].was # "join" /\ MayEnter(q) /\ ~Reserves(q)
            /\ Reserve(r, req[q].present, {})
            /\ req' = [req EXCEPT ![q] = Idle]
         \/ /\ req[q].was # "join" /\ MayEnter(q) /\ Reserves(q)
            /\ Reserve(r, req[q].present, {req[q].who})
            /\ req' = [req EXCEPT ![q].at = "event"]
      /\ UNCHANGED <<member, by, news, contact, used, trusted, blocks, declined, crossed,
                     now, refused, late>>

(***************************************************************************)
(* The membership event, and the callback after it.                        *)
(***************************************************************************)
\* Synapse's own rules for the event.
Authorized(q) ==
  LET m == member[req[q].room]
  IN  CASE req[q].op = "invite" -> m[req[q].from] = "join" /\ m[req[q].who] # "join"
        [] req[q].op = "join"   -> m[req[q].who] # "out" \/ req[q].room \in Public
        [] req[q].op = "leave"  -> m[req[q].who] # "out"

Becomes(op) == IF op = "leave" THEN "out" ELSE op

\* Mutant of Heard: a join leaves the request pending.
HeardNoJoin(r, u, to) ==
  /\ contact' = [s \in Users |-> [contact[s] EXCEPT ![u] =
       IF @.status = "pending" /\ @.room = r /\ to = "out"
       THEN [status |-> "rejected", room |-> r, at |-> now] ELSE @]]
  /\ slots' = [slots EXCEPT ![r] = IF to = "out" THEN @ \ {u} ELSE @]
  /\ fresh' = [fresh EXCEPT ![r] = IF to = "out" THEN @ \ {u} ELSE @]
  /\ UNCHANGED trusted

\* contact_membership
Heard(r, u, to) ==
  LET asked == {s \in Users : contact[s][u].status = "pending" /\ contact[s][u].room = r}
      answer == [status |-> IF to = "join" THEN "accepted" ELSE "rejected",
                 room |-> r, at |-> now]
  IN  /\ contact' = [s \in Users |-> [contact[s] EXCEPT ![u] =
           IF s \in asked /\ to # "invite" THEN answer ELSE @]]
      /\ trusted' = trusted \cup (IF to = "join" THEN {Pair(s, u) : s \in asked} ELSE {})
      /\ slots' = [slots EXCEPT ![r] = IF to = "out" THEN @ \ {u} ELSE @]
      /\ fresh' = [fresh EXCEPT ![r] = IF to = "out" THEN @ \ {u} ELSE @]

\* The event is stored and its callback runs, now or later.
Persist(q) ==
  LET r == req[q].room
      u == req[q].who
      to == Becomes(req[q].op)
  IN  /\ req[q] # Idle /\ req[q].at = "event"
      /\ Authorized(q)
      /\ req' = [req EXCEPT ![q] = Idle]
      /\ IF to = "join" /\ member[r][u] = "join"
         THEN UNCHANGED <<member, by, news, slots, fresh, contact, trusted,
                          declined, late>>
         ELSE /\ member' = [member EXCEPT ![r][u] = to]
              /\ by' = [by EXCEPT ![r][u] = CASE to = "invite" -> req[q].from
                                              [] to = "join"   -> @
                                              [] to = "out"    -> None]
              /\ declined' = IF /\ member[r][u] = "invite" /\ to = "out"
                                /\ Pair(by[r][u], u) \notin trusted /\ <<r, u>> \notin crossed
                             THEN [declined EXCEPT ![by[r][u]][u] = now]
                             ELSE declined
              /\ \/ Heard(r, u, to) /\ UNCHANGED <<news, late>>
                 \/ /\ late < MaxLate /\ late' = late + 1
                    /\ news' = news \cup {[room |-> r, who |-> u, to |-> to]}
                    /\ UNCHANGED <<slots, fresh, contact, trusted>>
      /\ UNCHANGED <<used, blocks, crossed, now, refused>>

\* The event is refused: by the room's rules, or by check_event_for_spam once
\* the sender's budget of state events is used up.
Refuse(q) ==
  /\ req[q] # Idle /\ req[q].at = "event"
  /\ \/ ~Authorized(q) /\ UNCHANGED refused
     \/ Authorized(q) /\ refused < MaxRefused /\ refused' = refused + 1
  /\ req' = [req EXCEPT ![q] = Idle]
  /\ UNCHANGED <<member, by, news, policy, declined, crossed, now, late>>

\* on_new_event, when it is late.
Hear == \E n \in news :
  /\ Heard(n.room, n.who, n.to)
  /\ news' = news \ {n}
  /\ UNCHANGED <<member, by, req, used, blocks, declined, crossed, now, refused, late>>

\* Synapse restarts: requests and callbacks are gone, both databases stay. With no
\* callback waiting it would only end requests, as Refuse does.
Restart ==
  /\ news # {}
  /\ req' = [q \in Reqs |-> Idle]
  /\ news' = {}
  /\ crossed' = crossed \cup {<<n.room, n.who>> : n \in {m \in news : m.to # "invite"}}
  /\ UNCHANGED <<member, by, policy, declined, now, refused, late>>

(***************************************************************************)
(* Blocks and time.                                                        *)
(***************************************************************************)
Block(a, b) ==
  /\ a \in Blockers /\ a # b
  /\ blocks' = blocks \cup {<<a, b>>}
  /\ UNCHANGED <<synapse, slots, fresh, contact, used, trusted, declined, crossed, now, refused, late>>

Unblock(a, b) ==
  /\ <<a, b>> \in blocks
  /\ blocks' = blocks \ {<<a, b>>}
  /\ UNCHANGED <<synapse, slots, fresh, contact, used, trusted, declined, crossed, now, refused, late>>

AllIdle == \A q \in Reqs : req[q] = Idle

\* Two minutes pass; no request takes as long.
Age ==
  /\ AllIdle
  /\ fresh # [r \in Rooms |-> {}]
  /\ fresh' = [r \in Rooms |-> {}]
  /\ UNCHANGED <<synapse, slots, contact, used, trusted, blocks, declined, crossed, now, refused, late>>

\* Half a day passes.
Tick ==
  /\ AllIdle
  /\ now < MaxTime
  /\ now' = now + 1
  /\ fresh' = [r \in Rooms |-> {}]
  /\ declined' = [s \in Users |-> [u \in Users |->
       IF declined[s][u] + 2 <= now + 1 THEN Never ELSE declined[s][u]]]
  /\ UNCHANGED <<synapse, slots, contact, used, trusted, blocks, crossed, refused, late>>

Decide(q) == DecideInvite(q) \/ DecideJoin(q)
Complete(q) == Persist(q) \/ Refuse(q)

Next ==
  \/ \E q \in Reqs, u \in Users, r \in Rooms :
       \/ \E s \in Users : Invite(q, s, u, r)
       \/ Join(q, u, r)
       \/ Leave(q, u, r)
  \/ \E q \in Reqs : DecideInvite(q) \/ DecideJoin(q) \/ Persist(q) \/ Refuse(q)
  \/ Hear
  \/ Restart
  \/ \E a, b \in Users : Block(a, b) \/ Unblock(a, b)
  \/ Age
  \/ Tick

Spec == Init /\ [][Next]_vars

\* Synapse finishes what it began, time passes also under load, and every
\* room's creator invites the users wanted again and again.
FairSpec ==
  /\ Spec
  /\ \A q \in Reqs : WF_vars(Decide(q)) /\ WF_vars(Complete(q))
  /\ SF_vars(Age)
  /\ \A r \in Rooms, u \in Wanted :
       SF_vars(\E q \in Reqs : Invite(q, Creator[r], u, r))

(***************************************************************************)
(* Properties.                                                             *)
(***************************************************************************)
\* No room has more joined and invited members than its kind allows, however
\* requests, refusals, late callbacks and expiring reservations interleave.
WithinCapacity == \A r \in Rooms : Cardinality(Present(r)) <= Cap[r]

\* A user has at most one open invitation from a sender who is not a trusted
\* contact, also when the sender asks for several rooms at the same time, and
\* however late callbacks are, unless the answer to an earlier invitation to that
\* room was lost or crossed (contact_allowed).
OneOpenRequest ==
  \A s, u \in Users : Pair(s, u) \notin trusted =>
    Cardinality({r \in Rooms : /\ member[r][u] = "invite" /\ by[r][u] = s
                              /\ <<r, u>> \notin crossed}) <= 1

\* Whoever joined a room on someone's invitation is that sender's trusted contact
\* once the callback has run, however late and whatever was asked, refused or
\* decided meanwhile; only an answer that was lost with the process, or an
\* invitation made before the last refusal was heard, may leave them strangers.
AcceptedIsTrusted ==
  \A r \in Rooms, u \in Users :
    /\ member[r][u] = "join" /\ by[r][u] # None
    /\ ~Unheard(r, u, "join") /\ <<r, u>> \notin crossed
    => Pair(by[r][u], u) \in trusted

\* For a day after a user turned down an invitation of a stranger, no
\* invitation of that stranger is open, in whatever room, also while the refusal
\* is still to be heard; but for rooms whose answers crossed (contact_allowed).
RefusalStands ==
  \A s, u \in Users :
    Pair(s, u) \notin trusted /\ declined[s][u] # Never
    => \A r \in Rooms : <<r, u>> \notin crossed => ~(member[r][u] = "invite" /\ by[r][u] = s)

\* While nothing is being handled, a pending contact is an invitation its
\* recipient can still answer (store.py: "A native Matrix invite persists
\* until accepted/rejected").
PendingIsInvited ==
  news = {} /\ AllIdle =>
    \A s, u \in Users : contact[s][u].status = "pending" =>
      member[contact[s][u].room][u] = "invite"

\* Reservations that came to nothing do not keep a room from filling up: when
\* its creator stays, keeps inviting someone and nobody blocks anybody, the
\* room is full again and again.
RoomFills == \A r \in Rooms :
  <>[](blocks = {} /\ member[r][Creator[r]] = "join")
    => []<>(Cardinality(Present(r)) = Cap[r])
=============================================================================
