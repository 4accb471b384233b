-------------------------- MODULE Membership_proofs --------------------------
(* That rooms keep to their capacity and requests between strangers to what   *)
(* contact_allowed promises, for any number of users, rooms and requests.     *)
EXTENDS Membership, FiniteSetTheorems, TLAPS

Pairs == {Pair(a, b) : a \in Users, b \in Users}
Memberships == {"out", "invite", "join"}

------------------------------------------------------------------------------
\* What the helpers of the hooks do.

\* A request that was admitted is the same request.
Admit(x) == [x EXCEPT !.at = "event"]

LEMMA AdmittedRequest ==
  ASSUME NEW x \in Request
  PROVE  /\ Admit(x) \in Request /\ Admit(x) # Idle /\ Admit(x).at = "event"
         /\ Admit(x).op = x.op /\ Admit(x).from = x.from /\ Admit(x).who = x.who
         /\ Admit(x).room = x.room /\ Admit(x).present = x.present /\ Admit(x).was = x.was
  BY DEF Admit, Request, Idle

\* A request at work is a Request.
LEMMA AtWork ==
  ASSUME TypeOK, NEW q \in Reqs, req[q] # Idle
  PROVE  /\ req[q] \in Request
         /\ req[q].op \in {"invite", "join", "leave"} /\ req[q].from \in Users /\ req[q].who \in Users
         /\ req[q].room \in Rooms /\ req[q].present \subseteq Users /\ req[q].was \in Memberships
  BY DEF TypeOK, Request, Memberships

\* reserve_member keeps rows of users, and fresh ones among the rows.
SlotsOK == /\ slots \in [Rooms -> SUBSET Users] /\ fresh \in [Rooms -> SUBSET Users]
           /\ \A r \in Rooms : fresh[r] \subseteq slots[r]

LEMMA ReserveKeepsRows ==
  ASSUME SlotsOK, NEW r \in Rooms, NEW present \in SUBSET Users, NEW gain \in SUBSET Users,
         Reserve(r, present, gain)
  PROVE  SlotsOK'
  BY DEF SlotsOK, Reserve, Kept

\* What contact_membership does to a pair, to trust and to the slots.
Asked(s, u, r) == contact[s][u].status = "pending" /\ contact[s][u].room = r
Told(r, u, to) ==
  /\ contact' \in [Users -> [Users -> Contact]]
  /\ \A s, v \in Users : contact'[s][v] =
       IF v = u /\ Asked(s, u, r) /\ to # "invite"
       THEN [status |-> IF to = "join" THEN "accepted" ELSE "rejected", room |-> r, at |-> now]
       ELSE contact[s][v]
  /\ trusted \subseteq trusted' /\ trusted' \subseteq Pairs
  /\ to = "join" => \A s \in Users : Asked(s, u, r) => Pair(s, u) \in trusted'
  /\ SlotsOK' /\ \A x \in Rooms : fresh'[x] \subseteq fresh[x]

LEMMA HeardTells ==
  ASSUME MembershipAssumption, TypeOK, NEW r \in Rooms, NEW u \in Users,
         NEW to \in {"invite", "join", "out"}, Heard(r, u, to)
  PROVE  Told(r, u, to)
<1>. DEFINE answer == [status |-> IF to = "join" THEN "accepted" ELSE "rejected", room |-> r, at |-> now]
            asked == {s \in Users : Asked(s, u, r)}
<1>1. answer \in Contact
  BY DEF TypeOK, Contact
<1>2. /\ contact' = [s \in Users |-> [contact[s] EXCEPT ![u] = IF s \in asked /\ to # "invite" THEN answer ELSE @]]
      /\ trusted' = trusted \cup (IF to = "join" THEN {Pair(s, u) : s \in asked} ELSE {})
      /\ slots' = [slots EXCEPT ![r] = IF to = "out" THEN @ \ {u} ELSE @]
      /\ fresh' = [fresh EXCEPT ![r] = IF to = "out" THEN @ \ {u} ELSE @]
  BY DEF Heard, Asked
<1>. HIDE DEF answer
<1>3. contact \in [Users -> [Users -> Contact]]
  BY DEF TypeOK
<1>4. contact' \in [Users -> [Users -> Contact]]
  BY <1>1, <1>2, <1>3
<1>5. \A s, v \in Users : contact'[s][v] = IF v = u /\ Asked(s, u, r) /\ to # "invite" THEN answer ELSE contact[s][v]
  BY <1>2, <1>3
<1>6. /\ trusted \subseteq trusted' /\ trusted' \subseteq Pairs
      /\ to = "join" => \A s \in Users : Asked(s, u, r) => Pair(s, u) \in trusted'
  BY <1>2 DEF TypeOK, Pairs
<1>7. SlotsOK' /\ \A x \in Rooms : fresh'[x] \subseteq fresh[x]
  BY <1>2 DEF TypeOK, SlotsOK
<1>. QED
  BY <1>4, <1>5, <1>6, <1>7 DEF Told, answer

\* What a decision does to the requests: the one decided is gone or admitted.
Decided(q) ==
  /\ req[q] # Idle /\ req[q].at = "hook"
  /\ \/ req' = [req EXCEPT ![q] = Idle]
     \/ req' = [req EXCEPT ![q] = Admit(req[q])]
  /\ SlotsOK'
  /\ contact' \in [Users -> [Users -> Contact]]
  /\ used' \in [Users -> [day : 0 .. MaxTime, n : 0 .. ContactLimit]]
  /\ crossed' \in SUBSET (Rooms \X Users) /\ crossed \subseteq crossed'
  /\ UNCHANGED <<member, by, news, trusted, blocks, declined, now, refused, late>>

LEMMA DecideDecides ==
  ASSUME MembershipAssumption, TypeOK, NEW q \in Reqs, Decide(q)
  PROVE  Decided(q)
<1>. DEFINE s == req[q].from
            u == req[q].who
            r == req[q].room
            pres == req[q].present
<1>1. req[q] # Idle
  BY DEF Decide, DecideInvite, DecideJoin
<1>2. s \in Users /\ u \in Users /\ r \in Rooms /\ pres \in SUBSET Users
  BY <1>1, AtWork
<1>3. SlotsOK
  BY DEF TypeOK, SlotsOK
<1>4. CASE DecideInvite(q)
  <2>1. SlotsOK'
    <3>1. CASE Reserve(r, pres, {}) \/ Reserve(r, pres, {u})
      BY <1>2, <1>3, <3>1, ReserveKeepsRows
    <3>2. CASE LET gone == {u} \ pres
               IN  /\ slots' = [slots EXCEPT ![r] = (Kept(r, pres) \cup {u}) \ gone]
                   /\ fresh' = [fresh EXCEPT ![r] = (@ \cup (Kept(r, pres) \ slots[r])) \ gone]
      BY <1>2, <1>3, <3>2 DEF SlotsOK, Kept
    <3>. QED
      BY <1>4, <3>1, <3>2 DEF DecideInvite
  <2>2. /\ contact' \in [Users -> [Users -> Contact]]
        /\ used' \in [Users -> [day : 0 .. MaxTime, n : 0 .. ContactLimit]]
    <3>1. CASE UNCHANGED <<contact, used>>
      BY <3>1 DEF TypeOK
    <3>2. CASE ContactAllowed(s, u, r) /\ Ask(s, u, r) /\ ~(UNCHANGED <<contact, used>>)
      <4>1. MayAsk(s, u) /\ contact' = [contact EXCEPT ![s][u] = [status |-> "pending", room |-> r, at |-> now]] /\ Charge(s)
        BY <3>2 DEF ContactAllowed, Ask
      <4>2. [status |-> "pending", room |-> r, at |-> now] \in Contact
        BY <1>2 DEF Contact, TypeOK
      <4>3. contact' \in [Users -> [Users -> Contact]]
        BY <1>2, <4>1, <4>2 DEF TypeOK
      <4>4. UsedToday(s) + 1 \in 0 .. ContactLimit /\ Today \in 0 .. MaxTime
        BY <1>2, <4>1, MembershipAssumption DEF MayAsk, UsedToday, Today, TypeOK
      <4>5. used' \in [Users -> [day : 0 .. MaxTime, n : 0 .. ContactLimit]]
        BY <1>2, <4>1, <4>4 DEF Charge, TypeOK
      <4>. QED
        BY <4>3, <4>5
    <3>. QED
      BY <1>4, <3>1, <3>2 DEF DecideInvite
  <2>3. crossed' \in SUBSET (Rooms \X Users) /\ crossed \subseteq crossed'
    BY <1>2, <1>4 DEF DecideInvite, TypeOK
  <2>. QED
    BY <1>4, <2>1, <2>2, <2>3 DEF DecideInvite, Decided, Admit
<1>5. CASE DecideJoin(q)
  <2>1. SlotsOK'
    <3>1. CASE UNCHANGED <<slots, fresh>>
      BY <1>3, <3>1 DEF SlotsOK
    <3>2. CASE Reserve(r, pres, {}) \/ Reserve(r, pres, {u})
      BY <1>2, <1>3, <3>2, ReserveKeepsRows
    <3>. QED
      BY <1>5, <3>1, <3>2 DEF DecideJoin
  <2>. QED
    BY <1>5, <2>1 DEF DecideJoin, Decided, Admit, TypeOK
<1>. QED
  BY <1>4, <1>5 DEF Decide

\* What storing the event does: the member's state changes, and the callback has
\* run or waits.
Stored(q) ==
  LET r == req[q].room
      u == req[q].who
      to == Becomes(req[q].op)
  IN  /\ req[q] # Idle /\ req[q].at = "event" /\ Authorized(q)
      /\ req' = [req EXCEPT ![q] = Idle]
      /\ \/ /\ to = "join" /\ member[r][u] = "join"
            /\ UNCHANGED <<member, by, news, slots, fresh, contact, trusted, declined, late>>
         \/ /\ ~(to = "join" /\ member[r][u] = "join")
            /\ member' = [member EXCEPT ![r][u] = to]
            /\ by' = [by EXCEPT ![r][u] = IF to = "invite" THEN req[q].from
                                          ELSE IF to = "join" THEN @ ELSE None]
            /\ declined' = IF /\ member[r][u] = "invite" /\ to = "out"
                              /\ Pair(by[r][u], u) \notin trusted /\ <<r, u>> \notin crossed
                           THEN [declined EXCEPT ![by[r][u]][u] = now] ELSE declined
            /\ \/ Told(r, u, to) /\ UNCHANGED <<news, late>>
               \/ /\ late < MaxLate /\ late' = late + 1
                  /\ news' = news \cup {[room |-> r, who |-> u, to |-> to]}
                  /\ UNCHANGED <<slots, fresh, contact, trusted>>
      /\ UNCHANGED <<used, blocks, crossed, now, refused>>

LEMMA PersistStores ==
  ASSUME MembershipAssumption, TypeOK, NEW q \in Reqs, Persist(q)
  PROVE  Stored(q) /\ Becomes(req[q].op) \in Memberships
<1>1. req[q] # Idle
  BY DEF Persist
<1>2. req[q].room \in Rooms /\ req[q].who \in Users /\ Becomes(req[q].op) \in {"invite", "join", "out"}
  BY <1>1, AtWork DEF Becomes
<1>3. Heard(req[q].room, req[q].who, Becomes(req[q].op)) => Told(req[q].room, req[q].who, Becomes(req[q].op))
  BY <1>2, HeardTells
<1>. QED
  BY <1>2, <1>3 DEF Persist, Stored, Memberships

------------------------------------------------------------------------------
\* Types.
LEMMA TypesHold == Init => TypeOK
<1>. SUFFICES ASSUME Init PROVE TypeOK
  OBVIOUS
<1>1. Stranger \in Contact
  BY MembershipAssumption DEF Stranger, Contact
<1>. QED
  BY <1>1, MembershipAssumption DEF Init, TypeOK, Never, Pair

LEMMA TypesKept == TypeOK /\ [Next]_vars => TypeOK'
<1>. SUFFICES ASSUME TypeOK, [Next]_vars PROVE TypeOK'
  OBVIOUS
<1>. USE MembershipAssumption
<1>1. ASSUME NEW q \in Reqs, NEW s \in Users, NEW u \in Users, NEW r \in Rooms,
             NEW op \in {"invite", "join", "leave"}, NEW at \in {"hook", "event"}, Submit(q, op, s, u, r, at)
      PROVE  TypeOK'
  <2>. DEFINE new == [op |-> op, from |-> s, who |-> u, room |-> r, present |-> Present(r), was |-> member[r][u], at |-> at]
  <2>1. new \in Request
    BY DEF Request, Present, TypeOK
  <2>2. req' = [req EXCEPT ![q] = new] /\ UNCHANGED <<member, by, news, policy, declined, crossed, now, refused, late>>
    BY <1>1 DEF Submit
  <2>. HIDE DEF new
  <2>. QED
    BY <2>1, <2>2 DEF TypeOK, policy
<1>2. ASSUME NEW q \in Reqs, Decide(q) PROVE TypeOK'
  <2>1. Decided(q)
    BY <1>2, DecideDecides
  <2>2. Admit(req[q]) \in Request
    BY <2>1, AtWork, AdmittedRequest DEF Decided
  <2>3. req' \in [Reqs -> Request \cup {Idle}]
    <3>1. req \in [Reqs -> Request \cup {Idle}]
      BY DEF TypeOK
    <3>2. req' = [req EXCEPT ![q] = Idle] \/ req' = [req EXCEPT ![q] = Admit(req[q])]
      BY <2>1 DEF Decided
    <3>. QED
      BY <2>2, <3>1, <3>2
  <2>. QED
    BY <2>1, <2>3 DEF Decided, SlotsOK, TypeOK
<1>3. ASSUME NEW q \in Reqs, Persist(q) PROVE TypeOK'
  <2>. DEFINE r == req[q].room
              u == req[q].who
              to == Becomes(req[q].op)
  <2>1. Stored(q) /\ to \in Memberships
    BY <1>3, PersistStores
  <2>2. r \in Rooms /\ u \in Users /\ req[q].from \in Users
    BY <2>1, AtWork DEF Stored
  <2>3. req' \in [Reqs -> Request \cup {Idle}]
    BY <2>1 DEF Stored, TypeOK
  <2>. HIDE DEF r, u, to
  <2>4. member' \in [Rooms -> [Users -> Memberships]] /\ by' \in [Rooms -> [Users -> Users \cup {None}]]
    <3>1. member \in [Rooms -> [Users -> Memberships]] /\ by \in [Rooms -> [Users -> Users \cup {None}]]
      BY DEF TypeOK, Memberships
    <3>2. CASE UNCHANGED <<member, by>>
      BY <3>1, <3>2
    <3>3. CASE /\ member' = [member EXCEPT ![r][u] = to]
               /\ by' = [by EXCEPT ![r][u] = IF to = "invite" THEN req[q].from ELSE IF to = "join" THEN @ ELSE None]
      <4>1. member' \in [Rooms -> [Users -> Memberships]]
        BY <2>1, <2>2, <3>1, <3>3
      <4>2. (IF to = "invite" THEN req[q].from ELSE IF to = "join" THEN by[r][u] ELSE None) \in Users \cup {None}
        BY <2>2, <3>1
      <4>. QED
        BY <2>2, <3>1, <3>3, <4>1, <4>2
    <3>. QED
      BY <2>1, <3>2, <3>3 DEF Stored, r, u, to
  <2>7. declined' \in [Users -> [Users -> 0 .. Never]]
    <3>1. now \in 0 .. Never /\ declined \in [Users -> [Users -> 0 .. Never]]
      BY DEF TypeOK, Never
    <3>2. CASE declined' = declined
      BY <3>1, <3>2
    <3>3. CASE declined' = [declined EXCEPT ![by[r][u]][u] = now]
      BY <2>2, <3>1, <3>3
    <3>. QED
      BY <2>1, <3>2, <3>3 DEF Stored, r, u, to
  <2>5. news' \subseteq Callback /\ late' \in 0 .. MaxLate
    BY <2>1, <2>2 DEF Stored, TypeOK, r, u, to, Memberships, Callback
  <2>6. contact' \in [Users -> [Users -> Contact]] /\ trusted' \subseteq Pairs /\ SlotsOK'
    BY <2>1 DEF Stored, Told, TypeOK, SlotsOK, Pairs
  <2>. QED
    BY <2>1, <2>3, <2>4, <2>5, <2>6, <2>7 DEF Stored, TypeOK, SlotsOK, Pairs, Memberships
<1>4. ASSUME NEW q \in Reqs, Refuse(q) PROVE TypeOK'
  BY <1>4 DEF Refuse, TypeOK, policy
<1>5. CASE Hear
  <2>1. PICK n \in news : Heard(n.room, n.who, n.to) /\ news' = news \ {n}
                          /\ UNCHANGED <<member, by, req, used, blocks, declined, crossed, now, refused, late>>
    BY <1>5 DEF Hear
  <2>2. n.room \in Rooms /\ n.who \in Users /\ n.to \in {"invite", "join", "out"}
    BY DEF TypeOK, Callback
  <2>3. Told(n.room, n.who, n.to)
    BY <2>1, <2>2, HeardTells
  <2>. QED
    BY <2>1, <2>3 DEF Told, TypeOK, SlotsOK, Pairs
<1>6. CASE Restart
  <2>1. {<<n.room, n.who>> : n \in {m \in news : m.to # "invite"}} \subseteq Rooms \X Users
    BY DEF TypeOK, Callback
  <2>. QED
    BY <1>6, <2>1 DEF Restart, TypeOK, policy
<1>7. ASSUME NEW a \in Users, NEW b \in Users, Block(a, b) \/ Unblock(a, b) PROVE TypeOK'
  BY <1>7 DEF Block, Unblock, TypeOK, synapse
<1>8. CASE Age
  BY <1>8 DEF Age, TypeOK, synapse
<1>9. CASE Tick
  BY <1>9 DEF Tick, TypeOK, synapse, Never
<1>10. CASE UNCHANGED vars
  BY <1>10 DEF vars, synapse, policy, TypeOK
<1>11. ASSUME NEW q \in Reqs, NEW u \in Users, NEW r \in Rooms,
              (\E s \in Users : Invite(q, s, u, r)) \/ Join(q, u, r) \/ Leave(q, u, r)
       PROVE  TypeOK'
  BY <1>1, <1>11 DEF Invite, Join, Leave
<1>. QED
  BY <1>2, <1>3, <1>4, <1>5, <1>6, <1>7, <1>8, <1>9, <1>10, <1>11 DEF Next, Decide

\* Every variable of admission keeps its type.
THEOREM TypeCorrect == Spec => []TypeOK
  BY TypesHold, TypesKept, PTL DEF Spec

------------------------------------------------------------------------------
\* Capacity.  Synapse changes the memberships of a room one at a time, so what a
\* hook has read of its room still holds.
RoomInv ==
  /\ \A q \in Reqs, r \in Rooms : req[q] # Idle /\ req[q].room = r =>
       req[q].present = Present(r) /\ req[q].was = member[r][req[q].who]
  /\ \A p, q \in Reqs : req[p] # Idle /\ req[q] # Idle /\ req[p].room = req[q].room => p = q

\* Members present and members with a row that may not be given up count.
Load(r) == fresh[r] \cup Present(r)
Fits(S, r) == IsFiniteSet(S) /\ Cardinality(S) <= Cap[r]
LoadInv == \A r \in Rooms : Fits(Load(r), r)

\* Whoever was admitted has a place.
Admitted(q, r, u) ==
  req[q] # Idle /\ req[q].at = "event" /\ req[q].op # "leave" /\ req[q].room = r /\ req[q].who = u
AdmittedInv ==
  \A q \in Reqs, r \in Rooms, u \in Users : Admitted(q, r, u) => Fits(Load(r) \cup {u}, r)

CapacityInv == TypeOK /\ RoomInv /\ LoadInv /\ AdmittedInv

LEMMA FewerFit ==
  ASSUME MembershipAssumption, NEW r \in Rooms, NEW S, NEW T, Fits(S, r), T \subseteq S
  PROVE  Fits(T, r)
<1>1. IsFiniteSet(T) /\ Cardinality(T) <= Cardinality(S)
  BY FS_Subset DEF Fits
<1>2. Cardinality(S) \in Nat /\ Cardinality(T) \in Nat /\ Cap[r] \in Nat
  BY <1>1, FS_CardinalityType, MembershipAssumption DEF Fits
<1>. QED
  BY <1>1, <1>2 DEF Fits

\* One more fits where there is a place.
LEMMA OneMoreFits ==
  ASSUME MembershipAssumption, NEW r \in Rooms, NEW S, NEW x, Fits(S, r), x \in S \/ Cardinality(S) < Cap[r]
  PROVE  Fits(S \cup {x}, r)
<1>1. IsFiniteSet(S \cup {x}) /\ Cardinality(S \cup {x}) = IF x \in S THEN Cardinality(S) ELSE Cardinality(S) + 1
  BY FS_AddElement DEF Fits
<1>2. Cardinality(S) \in Nat /\ Cap[r] \in Nat
  BY FS_CardinalityType, MembershipAssumption DEF Fits
<1>. QED
  BY <1>1, <1>2 DEF Fits

\* A room has its creator at first.
LEMMA CapacityHolds == Init => CapacityInv
<1>. SUFFICES ASSUME Init PROVE CapacityInv
  OBVIOUS
<1>1. TypeOK
  BY TypesHold
<1>2. RoomInv /\ AdmittedInv
  BY DEF Init, RoomInv, AdmittedInv, Admitted
<1>3. ASSUME NEW r \in Rooms PROVE Fits(Load(r), r)
  <2>1. Load(r) = {Creator[r]}
    BY <1>3, MembershipAssumption DEF Init, Load, Present
  <2>2. IsFiniteSet({Creator[r]}) /\ Cardinality({Creator[r]}) = 1
    BY FS_Singleton
  <2>3. Cap[r] \in Nat \ {0}
    BY MembershipAssumption
  <2>. QED
    BY <2>1, <2>2, <2>3 DEF Fits
<1>. QED
  BY <1>1, <1>2, <1>3 DEF CapacityInv, LoadInv

\* Steps that give up requests and rows, or do nothing to either.
Quiet ==
  /\ member' = member
  /\ \A q \in Reqs : req'[q] \in {req[q], Idle}
  /\ \A r \in Rooms : fresh'[r] \subseteq fresh[r]

LEMMA QuietSteps ==
  ASSUME MembershipAssumption, TypeOK,
         \/ \E q \in Reqs : Refuse(q)
         \/ Hear \/ Restart \/ Age \/ Tick \/ UNCHANGED vars
         \/ \E a, b \in Users : Block(a, b) \/ Unblock(a, b)
  PROVE  Quiet
<1>. USE DEF Quiet, TypeOK
<1>1. CASE Hear
  <2>1. PICK n \in news : Heard(n.room, n.who, n.to) /\ UNCHANGED <<member, req>>
    BY <1>1 DEF Hear
  <2>2. n.room \in Rooms /\ n.who \in Users /\ n.to \in {"invite", "join", "out"}
    BY DEF Callback
  <2>3. Told(n.room, n.who, n.to)
    BY <2>1, <2>2, HeardTells
  <2>. QED
    BY <2>1, <2>3 DEF Told
<1>2. CASE \E q \in Reqs : Refuse(q)
  BY <1>2 DEF Refuse, policy
<1>3. CASE Restart
  BY <1>3 DEF Restart, policy
<1>4. CASE Age \/ Tick
  BY <1>4 DEF Age, Tick, synapse
<1>5. CASE UNCHANGED vars
  BY <1>5 DEF vars, synapse, policy
<1>6. CASE \E a, b \in Users : Block(a, b) \/ Unblock(a, b)
  BY <1>6 DEF Block, Unblock, synapse
<1>. QED
  BY <1>1, <1>2, <1>3, <1>4, <1>5, <1>6

LEMMA QuietKeepsCapacity ==
  ASSUME MembershipAssumption, CapacityInv, Quiet
  PROVE  RoomInv' /\ LoadInv' /\ AdmittedInv'
<1>1. RoomInv'
  BY DEF CapacityInv, RoomInv, Quiet, Present
<1>2. \A r \in Rooms : Load(r)' \subseteq Load(r)
  BY DEF Load, Quiet, Present
<1>3. LoadInv'
  <2>1. SUFFICES ASSUME NEW r \in Rooms PROVE Fits(Load(r)', r)
    BY DEF LoadInv, Fits
  <2>. QED
    BY <1>2, FewerFit DEF CapacityInv, LoadInv
<1>4. AdmittedInv'
  <2>1. SUFFICES ASSUME NEW q \in Reqs, NEW r \in Rooms, NEW u \in Users, Admitted(q, r, u)'
                 PROVE  Fits(Load(r)' \cup {u}, r)
    BY DEF AdmittedInv, Fits
  <2>2. Admitted(q, r, u)
    BY <2>1 DEF Quiet, Admitted
  <2>3. Load(r)' \cup {u} \subseteq Load(r) \cup {u}
    BY <1>2
  <2>4. Fits(Load(r) \cup {u}, r)
    BY <2>2 DEF CapacityInv, AdmittedInv
  <2>. QED
    BY <2>3, <2>4, FewerFit
<1>. QED
  BY <1>1, <1>3, <1>4

\* A new request: what its hook reads is what the room is.
LEMMA SubmitKeepsCapacity ==
  ASSUME MembershipAssumption, Linearized, CapacityInv,
         NEW q \in Reqs, NEW s \in Users, NEW u \in Users, NEW r \in Rooms,
         NEW op \in {"invite", "join", "leave"}, NEW at \in {"hook", "event"},
         at = "event" => op = "leave", Submit(q, op, s, u, r, at)
  PROVE  RoomInv' /\ LoadInv' /\ AdmittedInv'
<1>. DEFINE new == [op |-> op, from |-> s, who |-> u, room |-> r, present |-> Present(r), was |-> member[r][u], at |-> at]
<1>1. /\ req[q] = Idle
      /\ \A p \in Reqs : req[p].room # r
      /\ req' = [req EXCEPT ![q] = new]
      /\ UNCHANGED <<member, fresh>>
  BY DEF Submit, Queued, policy
<1>2. /\ new # Idle /\ new.room = r /\ new.present = Present(r) /\ new.was = member[r][u] /\ new.who = u
      /\ new.at = at /\ new.op = op
  BY DEF Idle
<1>. HIDE DEF new
<1>3. \A p \in Reqs : req'[p] = IF p = q THEN new ELSE req[p]
  BY <1>1 DEF CapacityInv, TypeOK
<1>4. \A x \in Rooms : Present(x)' = Present(x) /\ Load(x)' = Load(x)
  BY <1>1 DEF Present, Load
<1>5. RoomInv'
  <2>1. ASSUME NEW p \in Reqs, NEW x \in Rooms, req'[p] # Idle, req'[p].room = x
        PROVE  req'[p].present = Present(x)' /\ req'[p].was = member'[x][req'[p].who]
    <3>1. CASE p = q
      BY <1>1, <1>2, <1>3, <1>4, <2>1, <3>1
    <3>2. CASE p # q
      BY <1>1, <1>3, <1>4, <2>1, <3>2 DEF CapacityInv, RoomInv
    <3>. QED
      BY <3>1, <3>2
  <2>2. ASSUME NEW p \in Reqs, NEW o \in Reqs, req'[p] # Idle, req'[o] # Idle, req'[p].room = req'[o].room
        PROVE  p = o
    BY <1>1, <1>2, <1>3, <2>2 DEF CapacityInv, RoomInv
  <2>. QED
    BY <2>1, <2>2 DEF RoomInv
<1>6. LoadInv'
  BY <1>4 DEF CapacityInv, LoadInv, Fits
<1>7. AdmittedInv'
  <2>1. SUFFICES ASSUME NEW p \in Reqs, NEW x \in Rooms, NEW v \in Users, Admitted(p, x, v)'
                 PROVE  Fits(Load(x)' \cup {v}, x)
    BY DEF AdmittedInv, Fits
  <2>2. Admitted(p, x, v)
    BY <1>2, <1>3, <2>1 DEF Admitted
  <2>. QED
    BY <1>4, <2>2 DEF CapacityInv, AdmittedInv
<1>. QED
  BY <1>5, <1>6, <1>7

\* What reserve_member keeps is what counts, and a place it finds is one.
LEMMA KeptIsLoad ==
  ASSUME TypeOK, NEW r \in Rooms
  PROVE  Kept(r, Present(r)) = Load(r)
  BY DEF TypeOK, Kept, Load

\* What a decision leaves of its room's load, and whom it admits.
LEMMA DecisionFits ==
  ASSUME MembershipAssumption, CapacityInv, NEW q \in Reqs, Decide(q)
  PROVE  /\ \A x \in Rooms : x # req[q].room => fresh'[x] = fresh[x]
         /\ \/ /\ req' = [req EXCEPT ![q] = Idle]
               /\ fresh'[req[q].room] \subseteq Load(req[q].room)
            \/ /\ req' = [req EXCEPT ![q] = Admit(req[q])]
               /\ Fits(Load(req[q].room) \cup {req[q].who}, req[q].room)
               /\ fresh'[req[q].room] \subseteq Load(req[q].room) \cup {req[q].who}
<1>. DEFINE r == req[q].room
            u == req[q].who
            pres == req[q].present
<1>1. TypeOK /\ req[q] # Idle
  BY DEF CapacityInv, Decide, DecideInvite, DecideJoin
<1>2. r \in Rooms /\ u \in Users /\ fresh \in [Rooms -> SUBSET Users] /\ fresh[r] \subseteq Load(r)
  BY <1>1, AtWork DEF TypeOK, Load
<1>3. pres = Present(r) /\ req[q].was = member[r][u]
  BY <1>1, <1>2 DEF CapacityInv, RoomInv
<1>4. Kept(r, pres) = Load(r)
  BY <1>1, <1>2, <1>3, KeptIsLoad
<1>5. Fits(Load(r), r)
  BY <1>2 DEF CapacityInv, LoadInv
<1>6. Reserves(q) => Fits(Load(r) \cup {u}, r)
  BY <1>2, <1>4, <1>5, OneMoreFits DEF Reserves
<1>7. req[q].was = "join" => Load(r) \cup {u} = Load(r)
  BY <1>2, <1>3 DEF Load, Present
<1>8. \A gain \in SUBSET Users : Reserve(r, pres, gain) =>
        /\ \A x \in Rooms : x # r => fresh'[x] = fresh[x]
        /\ fresh'[r] \subseteq Load(r) \cup gain
  BY <1>2, <1>4 DEF Reserve
<1>9. CASE DecideInvite(q)
  <2>1. CASE Reserve(r, pres, {}) /\ req' = [req EXCEPT ![q] = Idle]
    BY <1>8, <2>1
  <2>2. CASE Reserves(q) /\ Reserve(r, pres, {u}) /\ req' = [req EXCEPT ![q].at = "event"]
    BY <1>2, <1>6, <1>8, <2>2 DEF Admit
  <2>3. CASE /\ fresh' = [fresh EXCEPT ![r] = (@ \cup (Kept(r, pres) \ slots[r])) \ ({u} \ pres)]
             /\ req' = [req EXCEPT ![q] = Idle]
    BY <1>2, <1>4, <2>3
  <2>. QED
    BY <1>9, <2>1, <2>2, <2>3 DEF DecideInvite
<1>10. CASE DecideJoin(q)
  <2>1. CASE UNCHANGED fresh /\ req' = [req EXCEPT ![q] = Idle]
    BY <1>2, <2>1
  <2>2. CASE req[q].was = "join" /\ UNCHANGED fresh /\ req' = [req EXCEPT ![q].at = "event"]
    BY <1>2, <1>5, <1>7, <2>2 DEF Admit
  <2>3. CASE Reserve(r, pres, {}) /\ req' = [req EXCEPT ![q] = Idle]
    BY <1>8, <2>3
  <2>4. CASE Reserves(q) /\ Reserve(r, pres, {u}) /\ req' = [req EXCEPT ![q].at = "event"]
    BY <1>2, <1>6, <1>8, <2>4 DEF Admit
  <2>. QED
    BY <1>10, <2>1, <2>2, <2>3, <2>4 DEF DecideJoin
<1>. QED
  BY <1>9, <1>10 DEF Decide

LEMMA DecideKeepsCapacity ==
  ASSUME MembershipAssumption, CapacityInv, NEW q \in Reqs, Decide(q),
         NEW room, NEW who, room = req[q].room, who = req[q].who
  PROVE  RoomInv' /\ LoadInv' /\ AdmittedInv'
<1>1. TypeOK /\ Decided(q) /\ req[q] # Idle
  BY DecideDecides DEF CapacityInv, Decided
<1>2. room \in Rooms /\ who \in Users /\ req[q] \in Request
  BY <1>1, AtWork
<1>3. \A x \in Rooms : Present(x)' = Present(x)
  BY <1>1 DEF Decided, Present
<1>4. /\ \A x \in Rooms : x # room => fresh'[x] = fresh[x]
      /\ \/ req' = [req EXCEPT ![q] = Idle] /\ fresh'[room] \subseteq Load(room)
         \/ /\ req' = [req EXCEPT ![q] = Admit(req[q])]
            /\ Fits(Load(room) \cup {who}, room) /\ fresh'[room] \subseteq Load(room) \cup {who}
  BY DecisionFits DEF CapacityInv
<1>5. \A x \in Rooms : x # room => Load(x)' = Load(x)
  BY <1>1, <1>4 DEF Decided, Load, Present
<1>6. \/ req' = [req EXCEPT ![q] = Idle] /\ Fits(Load(room)', room)
      \/ req' = [req EXCEPT ![q] = Admit(req[q])] /\ Fits(Load(room)' \cup {who}, room)
  <2>1. Fits(Load(room), room)
    BY <1>2 DEF CapacityInv, LoadInv
  <2>2. CASE req' = [req EXCEPT ![q] = Idle] /\ fresh'[room] \subseteq Load(room)
    <3>1. Load(room)' \subseteq Load(room)
      BY <1>1, <1>2, <2>2 DEF Decided, Load, Present
    <3>. QED
      BY <1>2, <2>1, <2>2, <3>1, FewerFit
  <2>3. CASE /\ req' = [req EXCEPT ![q] = Admit(req[q])] /\ Fits(Load(room) \cup {who}, room)
             /\ fresh'[room] \subseteq Load(room) \cup {who}
    <3>1. Load(room)' \cup {who} \subseteq Load(room) \cup {who}
      BY <1>1, <1>2, <2>3 DEF Decided, Load, Present
    <3>. QED
      BY <1>2, <2>3, <3>1, FewerFit
  <2>. QED
    BY <1>4, <2>2, <2>3
<1>7. \A p \in Reqs : req'[p] = IF p = q THEN req'[q] ELSE req[p]
  BY <1>1, <1>6 DEF TypeOK
<1>8. req'[q] = Idle \/ (req'[q] = Admit(req[q]) /\ Fits(Load(room)' \cup {who}, room))
  BY <1>1, <1>6 DEF TypeOK
<1>9. req'[q] # Idle =>
        /\ req'[q].room = room /\ req'[q].who = who
        /\ req'[q].present = req[q].present /\ req'[q].was = req[q].was
  BY <1>2, <1>8, AdmittedRequest
<1>10. RoomInv'
  <2>1. ASSUME NEW p \in Reqs, NEW x \in Rooms, req'[p] # Idle, req'[p].room = x
        PROVE  req'[p].present = Present(x)' /\ req'[p].was = member'[x][req'[p].who]
    BY <1>1, <1>3, <1>7, <1>9, <2>1 DEF CapacityInv, RoomInv, Decided
  <2>2. ASSUME NEW p \in Reqs, NEW o \in Reqs, req'[p] # Idle, req'[o] # Idle, req'[p].room = req'[o].room
        PROVE  p = o
    BY <1>1, <1>7, <1>9, <2>2 DEF CapacityInv, RoomInv
  <2>. QED
    BY <2>1, <2>2 DEF RoomInv
<1>11. LoadInv'
  <2>1. SUFFICES ASSUME NEW x \in Rooms PROVE Fits(Load(x)', x)
    BY DEF LoadInv, Fits
  <2>2. CASE x # room
    BY <1>5, <2>2 DEF CapacityInv, LoadInv
  <2>3. CASE x = room
    <3>1. Load(room)' \subseteq Load(room)' \cup {who}
      OBVIOUS
    <3>2. Fits(Load(room)', room) \/ Fits(Load(room)' \cup {who}, room)
      BY <1>6
    <3>3. Fits(Load(room)', room)
      BY <1>2, <3>1, <3>2, FewerFit
    <3>. QED
      BY <2>3, <3>3
  <2>. QED
    BY <2>2, <2>3
<1>12. AdmittedInv'
  <2>1. SUFFICES ASSUME NEW p \in Reqs, NEW x \in Rooms, NEW v \in Users, Admitted(p, x, v)'
                 PROVE  Fits(Load(x)' \cup {v}, x)
    BY DEF AdmittedInv, Fits
  <2>2. CASE p = q
    BY <1>8, <1>9, <2>1, <2>2 DEF Admitted
  <2>3. CASE p # q
    <3>1. Admitted(p, x, v)
      BY <1>7, <2>1, <2>3 DEF Admitted
    <3>2. x # room
      BY <1>1, <2>3, <3>1 DEF CapacityInv, RoomInv, Admitted
    <3>. QED
      BY <1>5, <3>1, <3>2 DEF CapacityInv, AdmittedInv
  <2>. QED
    BY <2>2, <2>3
<1>. QED
  BY <1>10, <1>11, <1>12

LEMMA PersistKeepsCapacity ==
  ASSUME MembershipAssumption, CapacityInv, NEW q \in Reqs, Persist(q),
         NEW room, NEW who, NEW to, room = req[q].room, who = req[q].who, to = Becomes(req[q].op)
  PROVE  RoomInv' /\ LoadInv' /\ AdmittedInv'
<1>1. TypeOK /\ Stored(q) /\ req[q] # Idle /\ req[q].at = "event"
  <2>1. TypeOK
    BY DEF CapacityInv
  <2>2. Stored(q)
    BY <2>1, PersistStores
  <2>. QED
    BY <2>1, <2>2 DEF Stored
<1>2. room \in Rooms /\ who \in Users /\ req[q].op \in {"invite", "join", "leave"}
  BY <1>1, AtWork
<1>3. \A p \in Reqs : req'[p] = IF p = q THEN Idle ELSE req[p]
  BY <1>1 DEF Stored, TypeOK
<1>4. \A x \in Rooms : fresh'[x] \subseteq fresh[x]
  BY <1>1 DEF Stored, Told
<1>5. /\ \A x \in Rooms : x # room => member'[x] = member[x]
      /\ \A v \in Users : member'[room][v] = IF v = who THEN member'[room][who] ELSE member[room][v]
      /\ to = "out" => member'[room][who] = "out"
  <2>1. member \in [Rooms -> [Users -> Memberships]]
    BY <1>1 DEF TypeOK, Memberships
  <2>2. CASE to = "join" /\ UNCHANGED member
    BY <1>2, <2>1, <2>2
  <2>3. CASE member' = [member EXCEPT ![room][who] = to]
    BY <1>2, <2>1, <2>3
  <2>. QED
    BY <1>1, <2>2, <2>3 DEF Stored
<1>6. \A x \in Rooms : x # room => Load(x)' \subseteq Load(x)
  BY <1>4, <1>5 DEF Load, Present
<1>7. Fits(Load(room)', room)
  <2>1. CASE req[q].op = "leave"
    <3>1. Load(room)' \subseteq Load(room)
      BY <1>2, <1>4, <1>5, <2>1 DEF Load, Present, Becomes
    <3>. QED
      BY <1>2, <3>1, FewerFit DEF CapacityInv, LoadInv
  <2>2. CASE req[q].op # "leave"
    <3>1. Fits(Load(room) \cup {who}, room)
      BY <1>1, <1>2, <2>2 DEF CapacityInv, AdmittedInv, Admitted
    <3>2. Load(room)' \subseteq Load(room) \cup {who}
      BY <1>2, <1>4, <1>5 DEF Load, Present
    <3>. QED
      BY <1>2, <3>1, <3>2, FewerFit
  <2>. QED
    BY <2>1, <2>2
<1>8. RoomInv'
  <2>1. ASSUME NEW p \in Reqs, NEW x \in Rooms, req'[p] # Idle, req'[p].room = x
        PROVE  x # room /\ req'[p].present = Present(x)' /\ req'[p].was = member'[x][req'[p].who]
    <3>1. p # q /\ req[p] # Idle /\ req[p].room = x
      BY <1>3, <2>1
    <3>2. x # room
      BY <1>1, <3>1 DEF CapacityInv, RoomInv
    <3>3. member'[x] = member[x] /\ req'[p] = req[p]
      BY <1>3, <1>5, <3>1, <3>2
    <3>. QED
      BY <3>1, <3>2, <3>3 DEF CapacityInv, RoomInv, Present
  <2>2. ASSUME NEW p \in Reqs, NEW o \in Reqs, req'[p] # Idle, req'[o] # Idle, req'[p].room = req'[o].room
        PROVE  p = o
    BY <1>3, <2>2 DEF CapacityInv, RoomInv
  <2>. QED
    BY <2>1, <2>2 DEF RoomInv
<1>9. LoadInv'
  <2>1. SUFFICES ASSUME NEW x \in Rooms PROVE Fits(Load(x)', x)
    BY DEF LoadInv, Fits
  <2>. QED
    <3>1. CASE x # room
      BY <1>6, <3>1, FewerFit DEF CapacityInv, LoadInv
    <3>2. CASE x = room
      BY <1>7, <3>2
    <3>. QED
      BY <3>1, <3>2
<1>10. AdmittedInv'
  <2>1. SUFFICES ASSUME NEW p \in Reqs, NEW x \in Rooms, NEW v \in Users, Admitted(p, x, v)'
                 PROVE  Fits(Load(x)' \cup {v}, x)
    BY DEF AdmittedInv, Fits
  <2>2. p # q /\ Admitted(p, x, v)
    BY <1>3, <2>1 DEF Admitted
  <2>3. x # room
    BY <1>1, <2>2 DEF CapacityInv, RoomInv, Admitted
  <2>4. Load(x)' \cup {v} \subseteq Load(x) \cup {v} /\ Fits(Load(x) \cup {v}, x)
    BY <1>6, <2>2, <2>3 DEF CapacityInv, AdmittedInv
  <2>. QED
    BY <2>4, FewerFit
<1>. QED
  BY <1>8, <1>9, <1>10

LEMMA CapacityKept ==
  ASSUME Linearized
  PROVE  CapacityInv /\ [Next]_vars => CapacityInv'
<1>. SUFFICES ASSUME CapacityInv, [Next]_vars PROVE CapacityInv'
  OBVIOUS
<1>. USE MembershipAssumption
<1>1. TypeOK /\ TypeOK'
  BY TypesKept DEF CapacityInv
<1>2. ASSUME NEW q \in Reqs, NEW u \in Users, NEW r \in Rooms,
             (\E s \in Users : Invite(q, s, u, r)) \/ Join(q, u, r) \/ Leave(q, u, r)
      PROVE  RoomInv' /\ LoadInv' /\ AdmittedInv'
  BY <1>2, SubmitKeepsCapacity DEF Invite, Join, Leave
<1>3. ASSUME NEW q \in Reqs, DecideInvite(q) \/ DecideJoin(q) PROVE RoomInv' /\ LoadInv' /\ AdmittedInv'
  BY <1>3, DecideKeepsCapacity DEF Decide
<1>4. ASSUME NEW q \in Reqs, Persist(q) PROVE RoomInv' /\ LoadInv' /\ AdmittedInv'
  BY <1>4, PersistKeepsCapacity
<1>5. CASE \/ \E q \in Reqs : Refuse(q)
           \/ Hear \/ Restart \/ Age \/ Tick \/ UNCHANGED vars
           \/ \E a, b \in Users : Block(a, b) \/ Unblock(a, b)
  <2>1. Quiet
    BY <1>1, <1>5, QuietSteps
  <2>. QED
    BY <1>1, <2>1, QuietKeepsCapacity DEF CapacityInv
<1>6. \/ \E q \in Reqs, u \in Users, r \in Rooms :
           (\E s \in Users : Invite(q, s, u, r)) \/ Join(q, u, r) \/ Leave(q, u, r)
      \/ \E q \in Reqs : DecideInvite(q) \/ DecideJoin(q)
      \/ \E q \in Reqs : Persist(q)
      \/ \E q \in Reqs : Refuse(q)
      \/ Hear \/ Restart \/ Age \/ Tick \/ UNCHANGED vars
      \/ \E a, b \in Users : Block(a, b) \/ Unblock(a, b)
  BY DEF Next
<1>. QED
  BY <1>1, <1>2, <1>3, <1>4, <1>5, <1>6 DEF CapacityInv

\* When Synapse changes the memberships of a room one at a time, no room has more
\* joined and invited members than its kind allows, though reservations expire,
\* events are refused after a hook admitted them and callbacks are late or lost
\* (store.py: reserve_member).
THEOREM Capacity == ASSUME Linearized PROVE Spec => []WithinCapacity
<1>1. Init => CapacityInv
  BY CapacityHolds
<1>2. CapacityInv /\ [Next]_vars => CapacityInv'
  BY CapacityKept
<1>3. CapacityInv => WithinCapacity
  <2>1. SUFFICES ASSUME CapacityInv, NEW r \in Rooms PROVE Cardinality(Present(r)) <= Cap[r]
    BY DEF WithinCapacity
  <2>2. Present(r) \subseteq Load(r) /\ Fits(Load(r), r)
    BY <2>1 DEF Load, CapacityInv, LoadInv
  <2>3. Fits(Present(r), r)
    BY <2>2, FewerFit, MembershipAssumption
  <2>. QED
    BY <2>3 DEF Fits
<1>. QED
  BY <1>1, <1>2, <1>3, PTL DEF Spec

------------------------------------------------------------------------------
\* Requests between strangers.  Contacts tells what Synapse knows, up to the
\* answers that are still to be heard and those that crossed or were lost.
Trusts(s, u) == Pair(s, u) \in trusted
Invites(r, s, u) == member[r][u] = "invite" /\ by[r][u] = s
Invited(q, r, s, u) ==
  /\ req[q] # Idle /\ req[q].at = "event" /\ req[q].op = "invite"
  /\ req[q].room = r /\ req[q].from = s /\ req[q].who = u

\* An invitation has a sender, who is a contact or whose request is pending, with no
\* refusal on its way that could close it; so has one that a hook admitted.  A
\* join may still have to be heard.
Crossed(r, u) == <<r, u>> \in crossed
Open(r, s, u) == Asked(s, u, r) /\ ~Unheard(r, u, "out")
Backed(r, s, u) == Crossed(r, u) \/ Trusts(s, u) \/ Open(r, s, u)

SenderInv == \A r \in Rooms, u \in Users :
  /\ member[r][u] = "out" => by[r][u] = None
  /\ member[r][u] = "invite" => by[r][u] \in Users
OpenInv == \A r \in Rooms, s, u \in Users : Invites(r, s, u) => Backed(r, s, u)
InvitedInv == \A q \in Reqs, r \in Rooms, s, u \in Users : Invited(q, r, s, u) => Backed(r, s, u)
JoinedInv == \A r \in Rooms, s, u \in Users : member[r][u] = "join" /\ by[r][u] = s =>
  Crossed(r, u) \/ Trusts(s, u) \/ (Open(r, s, u) /\ Unheard(r, u, "join"))

\* A refusal of the last day is a rejection no older than it, or is not heard yet.
Lasts(s, u) == declined[s][u] <= now /\ now < declined[s][u] + 2
Rejected(s, u) == contact[s][u].status = "rejected" /\ declined[s][u] <= contact[s][u].at
Deaf(s, u) == \E r \in Rooms : Asked(s, u, r) /\ (Crossed(r, u) \/ Unheard(r, u, "out"))
DeclinedInv == \A s, u \in Users : declined[s][u] # Never =>
  Lasts(s, u) /\ (Trusts(s, u) \/ Rejected(s, u) \/ Deaf(s, u))

StrangersInv == SenderInv /\ OpenInv /\ InvitedInv /\ JoinedInv /\ DeclinedInv
ContactInv == CapacityInv /\ StrangersInv

LEMMA StrangersHold == Init => StrangersInv
  BY MembershipAssumption
     DEF Init, StrangersInv, SenderInv, OpenInv, Invites, InvitedInv, Invited, JoinedInv, DeclinedInv

\* Steps that leave contacts and memberships as they are.
Aside ==
  /\ UNCHANGED <<member, by, news, contact, trusted, declined, crossed, now>>
  /\ \A q \in Reqs, r \in Rooms, s, u \in Users : Invited(q, r, s, u)' => Invited(q, r, s, u)

LEMMA AsideKeepsStrangers ==
  ASSUME StrangersInv, Aside
  PROVE  StrangersInv'
<1>. USE DEF StrangersInv, Aside
<1>1. \A r \in Rooms, s, u \in Users : Backed(r, s, u)' = Backed(r, s, u)
  BY DEF Backed, Crossed, Trusts, Open, Asked, Unheard
<1>2. SenderInv' /\ OpenInv' /\ JoinedInv'
  BY <1>1 DEF SenderInv, OpenInv, JoinedInv, Invites, Trusts, Asked, Open, Crossed, Unheard
<1>3. InvitedInv'
  BY <1>1 DEF InvitedInv
<1>4. DeclinedInv'
  BY DEF DeclinedInv, Trusts, Rejected, Lasts, Deaf, Asked, Crossed, Unheard
<1>. QED
  BY <1>2, <1>3, <1>4

\* A new request is not admitted, or nobody is invited by it.
LEMMA SubmitIsAside ==
  ASSUME TypeOK, NEW q \in Reqs, NEW s \in Users, NEW u \in Users, NEW r \in Rooms,
         NEW op \in {"invite", "join", "leave"}, NEW at \in {"hook", "event"},
         at = "event" => op = "leave", Submit(q, op, s, u, r, at)
  PROVE  Aside
<1>. DEFINE new == [op |-> op, from |-> s, who |-> u, room |-> r, present |-> Present(r), was |-> member[r][u], at |-> at]
<1>1. req' = [req EXCEPT ![q] = new] /\ UNCHANGED <<member, by, news, contact, trusted, declined, crossed, now>>
  BY DEF Submit, policy
<1>2. new.at = at /\ new.op = op
  OBVIOUS
<1>. HIDE DEF new
<1>3. \A p \in Reqs : req'[p] = IF p = q THEN new ELSE req[p]
  BY <1>1 DEF TypeOK
<1>. QED
  BY <1>1, <1>2, <1>3 DEF Aside, Invited

\* What a decision does to contacts: nothing, or it enters a request of a stranger
\* who may ask.  Whom it admits is backed.
Enters(s, u, r) ==
  /\ ~Trusts(s, u) /\ MayAsk(s, u)
  /\ \A a, b \in Users : contact'[a][b] =
       IF a = s /\ b = u THEN [status |-> "pending", room |-> r, at |-> now] ELSE contact[a][b]

LEMMA DecisionAsks ==
  ASSUME MembershipAssumption, TypeOK, NEW q \in Reqs, Decide(q),
         NEW r, NEW s, NEW u, r = req[q].room, s = req[q].from, u = req[q].who
  PROVE  /\ contact' = contact \/ Enters(s, u, r)
         /\ req[q].op = "invite" =>
              \/ req' = [req EXCEPT ![q] = Idle]
              \/ /\ Trusts(s, u) \/ Enters(s, u, r) \/ (contact' = contact /\ Asked(s, u, r))
                 /\ Crossed(r, u)' \/ ~Unheard(r, u, "out")
<1>1. req[q] # Idle
  BY DEF Decide, DecideInvite, DecideJoin
<1>2. s \in Users /\ u \in Users /\ r \in Rooms
  BY <1>1, AtWork
<1>3. CASE DecideInvite(q)
  <2>1. CASE req' = [req EXCEPT ![q] = Idle] /\ UNCHANGED contact
    BY <2>1
  <2>2. CASE /\ ContactAllowed(s, u, r) /\ Ask(s, u, r)
             /\ crossed' = IF Unheard(r, u, "out") THEN crossed \cup {<<r, u>>} ELSE crossed
    <3>1. CASE Trusts(s, u) \/ contact[s][u].status = "pending"
      BY <2>2, <3>1 DEF ContactAllowed, Ask, MayAsk, Trusts, Asked, Crossed
    <3>2. CASE ~(Trusts(s, u) \/ contact[s][u].status = "pending")
      <4>1. MayAsk(s, u) /\ contact' = [contact EXCEPT ![s][u] = [status |-> "pending", room |-> r, at |-> now]]
        BY <2>2, <3>2 DEF ContactAllowed, Ask, Trusts
      <4>2. \A a, b \in Users : contact'[a][b] =
              IF a = s /\ b = u THEN [status |-> "pending", room |-> r, at |-> now] ELSE contact[a][b]
        BY <1>2, <4>1 DEF TypeOK
      <4>. QED
        BY <2>2, <3>2, <4>1, <4>2 DEF Enters, Crossed
    <3>. QED
      BY <3>1, <3>2
  <2>. QED
    BY <1>3, <2>1, <2>2 DEF DecideInvite
<1>4. CASE DecideJoin(q)
  BY <1>4 DEF DecideJoin
<1>. QED
  BY <1>3, <1>4 DEF Decide

LEMMA DecideKeepsStrangers ==
  ASSUME MembershipAssumption, TypeOK, StrangersInv, NEW q \in Reqs, Decide(q),
         NEW room, NEW from, NEW who, room = req[q].room, from = req[q].from, who = req[q].who
  PROVE  StrangersInv'
<1>. USE DEF StrangersInv
<1>1. Decided(q) /\ req[q] # Idle
  BY DecideDecides DEF Decided
<1>2. room \in Rooms /\ from \in Users /\ who \in Users /\ req[q] \in Request
  BY <1>1, AtWork
<1>3. UNCHANGED <<member, by, news, trusted, declined, now>> /\ crossed \subseteq crossed'
  BY <1>1 DEF Decided
<1>4. contact' = contact \/ Enters(from, who, room)
  BY DecisionAsks
<1>5. \A s, u \in Users, r \in Rooms : Asked(s, u, r) => Asked(s, u, r)'
  BY <1>4 DEF Asked, Enters, MayAsk
<1>6. \A s, u \in Users : Rejected(s, u) /\ Lasts(s, u) => Rejected(s, u)'
  <2>1. SUFFICES ASSUME NEW s \in Users, NEW u \in Users, Rejected(s, u), Lasts(s, u) PROVE Rejected(s, u)'
    OBVIOUS
  <2>2. contact[s][u] \in Contact /\ declined[s][u] \in Nat /\ now \in Nat
    BY MembershipAssumption DEF TypeOK, Never
  <2>3. Cooling(contact[s][u])
    BY <2>1, <2>2 DEF Rejected, Lasts, Cooling, Contact
  <2>4. contact'[s][u] = contact[s][u]
    BY <1>4, <2>3 DEF Enters, MayAsk
  <2>. QED
    BY <1>3, <2>1, <2>4 DEF Rejected
<1>7. /\ \A s, u \in Users, r \in Rooms : Open(r, s, u) => Open(r, s, u)'
      /\ \A s, u \in Users, r \in Rooms : Backed(r, s, u) => Backed(r, s, u)'
      /\ \A s, u \in Users : Deaf(s, u) => Deaf(s, u)'
  BY <1>3, <1>5 DEF Open, Backed, Crossed, Trusts, Deaf, Unheard
<1>8. \A p \in Reqs : req'[p] = IF p = q THEN req'[q] ELSE req[p]
  BY <1>1 DEF Decided, TypeOK
<1>9. ASSUME NEW r \in Rooms, NEW s \in Users, NEW u \in Users, Invited(q, r, s, u)'
      PROVE  Backed(r, s, u)'
  <2>1. req' = [req EXCEPT ![q] = Admit(req[q])] /\ req'[q] = Admit(req[q])
    BY <1>1, <1>9 DEF Decided, TypeOK, Invited
  <2>2. r = room /\ s = from /\ u = who /\ req[q].op = "invite"
    BY <1>2, <1>9, <2>1, AdmittedRequest DEF Invited
  <2>3. req' # [req EXCEPT ![q] = Idle]
    BY <1>2, <2>1, AdmittedRequest DEF TypeOK
  <2>4. /\ Trusts(from, who) \/ Enters(from, who, room) \/ (contact' = contact /\ Asked(from, who, room))
        /\ Crossed(room, who)' \/ ~Unheard(room, who, "out")
    BY <2>2, <2>3, DecisionAsks
  <2>. QED
    BY <1>2, <1>3, <2>2, <2>4 DEF Enters, Asked, Backed, Open, Trusts, Unheard
<1>10. SenderInv' /\ OpenInv' /\ JoinedInv'
  BY <1>3, <1>7 DEF SenderInv, OpenInv, JoinedInv, Invites, Trusts, Crossed, Unheard
<1>11. InvitedInv'
  <2>1. ASSUME NEW p \in Reqs, NEW r \in Rooms, NEW s \in Users, NEW u \in Users, Invited(p, r, s, u)', p # q
        PROVE  Backed(r, s, u)'
    BY <1>7, <1>8, <2>1 DEF InvitedInv, Invited
  <2>. QED
    BY <1>9, <2>1 DEF InvitedInv
<1>12. DeclinedInv'
  BY <1>3, <1>6, <1>7 DEF DeclinedInv, Trusts, Lasts
<1>. QED
  BY <1>10, <1>11, <1>12

\* What becomes of a pair when an answer of u in room r is stored: it is heard at
\* once, or waits in news.
Answered(r, u, to) ==
  /\ \A s, v \in Users : contact'[s][v] # contact[s][v] => v = u /\ Asked(s, u, r) /\ to # "invite"
  /\ \A s, v \in Users : Trusts(s, v) => Trusts(s, v)'
  /\ \A x \in Rooms, v \in Users, o \in Memberships : Unheard(x, v, o) => Unheard(x, v, o)'
  /\ \A x \in Rooms, v \in Users, o \in Memberships :
       Unheard(x, v, o)' => Unheard(x, v, o) \/ (x = r /\ v = u /\ o = to)
  /\ \A s \in Users : Asked(s, u, r) /\ to = "join" =>
       Trusts(s, u)' \/ (Asked(s, u, r)' /\ Unheard(r, u, "join")')
  /\ \A s \in Users : Asked(s, u, r) /\ to = "out" =>
       \/ contact'[s][u] = [status |-> "rejected", room |-> r, at |-> now]
       \/ Asked(s, u, r)' /\ Unheard(r, u, "out")'

LEMMA AnswersAnswer ==
  ASSUME NEW r \in Rooms, NEW u \in Users, NEW to \in Memberships,
         \/ Told(r, u, to) /\ news' = news
         \/ UNCHANGED <<contact, trusted>> /\ news' = news \cup {[room |-> r, who |-> u, to |-> to]}
  PROVE  Answered(r, u, to)
<1>1. CASE Told(r, u, to) /\ news' = news
  <2>1. \A s, v \in Users : contact'[s][v] =
          IF v = u /\ Asked(s, u, r) /\ to # "invite"
          THEN [status |-> IF to = "join" THEN "accepted" ELSE "rejected", room |-> r, at |-> now]
          ELSE contact[s][v]
    BY <1>1 DEF Told
  <2>2. /\ \A s, v \in Users : Trusts(s, v) => Trusts(s, v)'
        /\ to = "join" => \A s \in Users : Asked(s, u, r) => Trusts(s, u)'
    BY <1>1 DEF Told, Trusts
  <2>. QED
    BY <1>1, <2>1, <2>2 DEF Answered, Unheard
<1>2. CASE UNCHANGED <<contact, trusted>> /\ news' = news \cup {[room |-> r, who |-> u, to |-> to]}
  <2>1. \A x \in Rooms, v \in Users, o \in Memberships :
          Unheard(x, v, o)' <=> Unheard(x, v, o) \/ (x = r /\ v = u /\ o = to)
    BY <1>2 DEF Unheard
  <2>. QED
    BY <1>2, <2>1 DEF Answered, Asked, Trusts, Memberships
<1>. QED
  BY <1>1, <1>2

\* An answer in one room leaves the others' requests as they are.
LEMMA AnsweredElsewhere ==
  ASSUME NEW r \in Rooms, NEW u \in Users, NEW to \in Memberships, Answered(r, u, to),
         crossed' = crossed,
         NEW x \in Rooms, NEW s \in Users, NEW v \in Users, x # r \/ v # u \/ to = "invite"
  PROVE  /\ Open(x, s, v) => Open(x, s, v)'
         /\ Backed(x, s, v) => Backed(x, s, v)'
<1>1. Asked(s, v, x) => Asked(s, v, x)'
  BY DEF Answered, Asked
<1>2. Unheard(x, v, "out")' => Unheard(x, v, "out")
  BY DEF Answered, Memberships
<1>3. Trusts(s, v) => Trusts(s, v)'
  BY DEF Answered
<1>. QED
  BY <1>1, <1>2, <1>3 DEF Open, Backed, Crossed

\* A refusal that stood stands: it is still a rejection, or becomes one.
LEMMA AnsweredRefusals ==
  ASSUME TypeOK, NEW r \in Rooms, NEW u \in Users, NEW to \in Memberships, Answered(r, u, to),
         crossed' = crossed, now' = now,
         NEW s \in Users, NEW v \in Users, declined'[s][v] = declined[s][v], Lasts(s, v),
         Trusts(s, v) \/ Rejected(s, v) \/ Deaf(s, v)
  PROVE  Lasts(s, v)' /\ (Trusts(s, v)' \/ Rejected(s, v)' \/ Deaf(s, v)')
<1>1. Lasts(s, v)'
  BY DEF Lasts
<1>2. CASE Trusts(s, v)
  BY <1>1, <1>2 DEF Answered
<1>3. CASE Rejected(s, v)
  <2>1. contact'[s][v] = contact[s][v]
    BY <1>3 DEF Answered, Rejected, Asked
  <2>. QED
    BY <1>1, <1>3, <2>1 DEF Rejected
<1>4. CASE Deaf(s, v)
  <2>1. PICK x \in Rooms : Asked(s, v, x) /\ (Crossed(x, v) \/ Unheard(x, v, "out"))
    BY <1>4 DEF Deaf
  <2>2. Crossed(x, v)' \/ Unheard(x, v, "out")'
    BY <2>1 DEF Answered, Crossed, Memberships
  <2>3. CASE Asked(s, v, x)'
    BY <1>1, <2>2, <2>3 DEF Deaf
  <2>4. CASE ~Asked(s, v, x)'
    <3>1. contact'[s][v] # contact[s][v]
      BY <2>1, <2>4 DEF Asked
    <3>2. v = u /\ x = r /\ to # "invite"
      BY <2>1, <3>1 DEF Answered, Asked
    <3>3. CASE to = "join"
      BY <1>1, <2>1, <2>4, <3>2, <3>3 DEF Answered
    <3>4. CASE to = "out"
      <4>1. contact'[s][v] = [status |-> "rejected", room |-> r, at |-> now]
        BY <2>1, <2>4, <3>2, <3>4 DEF Answered
      <4>. QED
        BY <1>1, <4>1 DEF Rejected, Lasts
    <3>. QED
      BY <3>2, <3>3, <3>4 DEF Memberships
  <2>. QED
    BY <2>3, <2>4
<1>. QED
  BY <1>2, <1>3, <1>4

\* An event that is stored: an invitation is backed, a join makes contacts of those
\* whose invitation it answers, and leaving rejects them, now or once it is heard.
LEMMA PersistKeepsStrangers ==
  ASSUME MembershipAssumption, CapacityInv, StrangersInv, NEW q \in Reqs, Persist(q),
         NEW room, NEW who, NEW to, room = req[q].room, who = req[q].who, to = Becomes(req[q].op)
  PROVE  StrangersInv'
<1>. USE DEF StrangersInv
<1>1. TypeOK /\ Stored(q) /\ req[q] # Idle /\ to \in Memberships
  <2>1. TypeOK
    BY DEF CapacityInv
  <2>2. Stored(q) /\ to \in Memberships
    BY <2>1, PersistStores
  <2>. QED
    BY <2>1, <2>2 DEF Stored
<1>2. room \in Rooms /\ who \in Users /\ req[q].from \in Users /\ req[q].op \in {"invite", "join", "leave"}
  BY <1>1, AtWork
<1>3. \A p \in Reqs : req'[p] = IF p = q THEN Idle ELSE req[p]
  BY <1>1 DEF Stored, TypeOK
<1>4. UNCHANGED <<crossed, now>>
  BY <1>1 DEF Stored
<1>5. CASE UNCHANGED <<member, by, news, contact, trusted, declined>>
  <2>1. Aside
    BY <1>1, <1>3, <1>5 DEF Aside, Stored, Invited
  <2>. QED
    BY <2>1, AsideKeepsStrangers
<1>6. CASE /\ ~(to = "join" /\ member[room][who] = "join")
           /\ member' = [member EXCEPT ![room][who] = to]
           /\ by' = [by EXCEPT ![room][who] = IF to = "invite" THEN req[q].from
                                             ELSE IF to = "join" THEN @ ELSE None]
           /\ declined' = IF /\ member[room][who] = "invite" /\ to = "out"
                             /\ Pair(by[room][who], who) \notin trusted /\ <<room, who>> \notin crossed
                          THEN [declined EXCEPT ![by[room][who]][who] = now] ELSE declined
           /\ \/ Told(room, who, to) /\ news' = news
              \/ UNCHANGED <<contact, trusted>> /\ news' = news \cup {[room |-> room, who |-> who, to |-> to]}
  <2>1. member \in [Rooms -> [Users -> Memberships]] /\ by \in [Rooms -> [Users -> Users \cup {None}]]
    BY <1>1 DEF TypeOK, Memberships
  <2>2. \A r \in Rooms, u \in Users : r # room \/ u # who => member'[r][u] = member[r][u] /\ by'[r][u] = by[r][u]
    BY <1>2, <1>6, <2>1
  <2>3. /\ member'[room][who] = to
        /\ by'[room][who] = IF to = "invite" THEN req[q].from ELSE IF to = "join" THEN by[room][who] ELSE None
    BY <1>2, <1>6, <2>1
  <2>4. Answered(room, who, to)
    BY <1>1, <1>2, <1>6, AnswersAnswer
  <2>5. \A r \in Rooms, s, u \in Users : r # room \/ u # who \/ to = "invite" =>
          /\ Open(r, s, u) => Open(r, s, u)'
          /\ Backed(r, s, u) => Backed(r, s, u)'
    BY <1>1, <1>2, <1>4, <2>4, AnsweredElsewhere
  <2>6. /\ \A s, u \in Users : Trusts(s, u) => Trusts(s, u)'
        /\ \A r \in Rooms, u \in Users : Crossed(r, u)' = Crossed(r, u)
    BY <1>4, <2>4 DEF Answered, Crossed
  <2>8. SenderInv'
    <3>1. SUFFICES ASSUME NEW r \in Rooms, NEW u \in Users
                   PROVE  /\ member'[r][u] = "out" => by'[r][u] = None
                          /\ member'[r][u] = "invite" => by'[r][u] \in Users
      BY DEF SenderInv
    <3>2. CASE r = room /\ u = who
      BY <1>1, <1>2, <2>3, <3>2 DEF Memberships
    <3>3. CASE r # room \/ u # who
      BY <2>2, <3>3 DEF SenderInv
    <3>. QED
      BY <3>2, <3>3
  <2>9. OpenInv'
    <3>1. SUFFICES ASSUME NEW r \in Rooms, NEW s \in Users, NEW u \in Users, Invites(r, s, u)'
                   PROVE  Backed(r, s, u)'
      BY DEF OpenInv
    <3>2. CASE r = room /\ u = who
      <4>1. to = "invite" /\ s = req[q].from
        BY <2>3, <3>1, <3>2 DEF Invites
      <4>2. Invited(q, room, s, who)
        BY <1>1, <1>2, <4>1 DEF Stored, Invited, Becomes
      <4>. QED
        BY <1>2, <2>5, <3>2, <4>1, <4>2 DEF InvitedInv
    <3>3. CASE r # room \/ u # who
      BY <2>2, <2>5, <3>1, <3>3 DEF OpenInv, Invites
    <3>. QED
      BY <3>2, <3>3
  <2>10. InvitedInv'
    <3>1. SUFFICES ASSUME NEW p \in Reqs, NEW r \in Rooms, NEW s \in Users, NEW u \in Users, Invited(p, r, s, u)'
                   PROVE  Backed(r, s, u)'
      BY DEF InvitedInv
    <3>2. p # q /\ Invited(p, r, s, u)
      BY <1>3, <3>1 DEF Invited
    <3>3. r # room
      BY <1>1, <3>2 DEF CapacityInv, RoomInv, Invited
    <3>. QED
      BY <2>5, <3>2, <3>3 DEF InvitedInv
  <2>11. JoinedInv'
    <3>1. SUFFICES ASSUME NEW r \in Rooms, NEW s \in Users, NEW u \in Users, member'[r][u] = "join", by'[r][u] = s
                   PROVE  \/ Crossed(r, u)' \/ Trusts(s, u)'
                          \/ Open(r, s, u)' /\ Unheard(r, u, "join")'
      BY DEF JoinedInv
    <3>2. CASE r = room /\ u = who
      <4>1. to = "join" /\ by[room][who] = s /\ s # None
        BY <2>3, <3>1, <3>2, MembershipAssumption
      <4>2. member[room][who] = "invite"
        BY <1>2, <1>6, <2>1, <4>1 DEF SenderInv, Memberships
      <4>3. Backed(room, s, who)
        BY <1>2, <4>1, <4>2 DEF OpenInv, Invites
      <4>4. Open(room, s, who) => Trusts(s, who)' \/ (Open(room, s, who)' /\ Unheard(room, who, "join")')
        BY <1>2, <2>4, <4>1 DEF Open, Answered, Memberships
      <4>. QED
        BY <2>6, <3>2, <4>3, <4>4 DEF Backed
    <3>3. CASE r # room \/ u # who
      <4>1. Unheard(r, u, "join") => Unheard(r, u, "join")'
        BY <2>4 DEF Answered, Memberships
      <4>. QED
        BY <2>2, <2>5, <2>6, <3>1, <3>3, <4>1 DEF JoinedInv
    <3>. QED
      BY <3>2, <3>3
  <2>12. DeclinedInv'
    <3>1. SUFFICES ASSUME NEW s \in Users, NEW u \in Users, declined'[s][u] # Never
                   PROVE  Lasts(s, u)' /\ (Trusts(s, u)' \/ Rejected(s, u)' \/ Deaf(s, u)')
      BY DEF DeclinedInv
    <3>2. declined \in [Users -> [Users -> 0 .. Never]] /\ now \in Nat
      BY <1>1, MembershipAssumption DEF TypeOK
    <3>3. CASE declined'[s][u] = declined[s][u]
      BY <1>1, <1>2, <1>4, <2>4, <3>1, <3>3, AnsweredRefusals DEF DeclinedInv
    <3>4. CASE declined'[s][u] # declined[s][u]
      <4>1. member[room][who] = "invite" /\ to = "out" /\ ~Trusts(by[room][who], who) /\ ~Crossed(room, who)
            /\ declined' = [declined EXCEPT ![by[room][who]][who] = now]
        BY <1>6, <3>4 DEF Trusts, Crossed
      <4>2. by[room][who] \in Users
        BY <1>2, <4>1 DEF SenderInv
      <4>3. s = by[room][who] /\ u = who /\ declined'[s][u] = now
        BY <1>2, <3>2, <3>4, <4>1, <4>2
      <4>4. Asked(s, u, room)
        BY <1>2, <4>1, <4>2, <4>3 DEF OpenInv, Invites, Backed, Open
      <4>5. \/ contact'[s][u] = [status |-> "rejected", room |-> room, at |-> now]
            \/ Asked(s, u, room)' /\ Unheard(room, u, "out")'
        BY <2>4, <4>1, <4>3, <4>4 DEF Answered
      <4>6. Lasts(s, u)'
        BY <1>4, <3>2, <4>3 DEF Lasts
      <4>7. CASE contact'[s][u] = [status |-> "rejected", room |-> room, at |-> now]
        BY <3>2, <4>3, <4>6, <4>7 DEF Rejected
      <4>8. CASE Asked(s, u, room)' /\ Unheard(room, u, "out")'
        BY <1>2, <4>6, <4>8 DEF Deaf
      <4>. QED
        BY <4>5, <4>7, <4>8
    <3>. QED
      BY <3>3, <3>4
  <2>. QED
    BY <2>8, <2>9, <2>10, <2>11, <2>12
<1>. QED
  BY <1>1, <1>5, <1>6 DEF Stored

\* A callback that runs late answers like one that runs at once.
LEMMA HearKeepsStrangers ==
  ASSUME MembershipAssumption, TypeOK, StrangersInv, Hear
  PROVE  StrangersInv'
<1>. USE DEF StrangersInv
<1>1. PICK n \in news : Heard(n.room, n.who, n.to) /\ news' = news \ {n}
                        /\ UNCHANGED <<member, by, req, declined, crossed, now>>
  BY DEF Hear
<1>. DEFINE r == n.room
            u == n.who
<1>2. r \in Rooms /\ u \in Users /\ n.to \in {"invite", "join", "out"} /\ n = [room |-> r, who |-> u, to |-> n.to]
  BY DEF TypeOK, Callback
<1>3. Told(r, u, n.to)
  BY <1>1, <1>2, HeardTells
<1>4. \A s, v \in Users : contact'[s][v] =
        IF v = u /\ Asked(s, u, r) /\ n.to # "invite"
        THEN [status |-> IF n.to = "join" THEN "accepted" ELSE "rejected", room |-> r, at |-> now]
        ELSE contact[s][v]
  BY <1>3 DEF Told
<1>5. /\ \A s, v \in Users : Trusts(s, v) => Trusts(s, v)'
      /\ n.to = "join" => \A s \in Users : Asked(s, u, r) => Trusts(s, u)'
  BY <1>3 DEF Told, Trusts
<1>6. \A x \in Rooms, v \in Users, o \in Memberships :
        Unheard(x, v, o)' <=> Unheard(x, v, o) /\ ~(x = r /\ v = u /\ o = n.to)
  BY <1>1, <1>2 DEF Unheard
<1>7. \A x \in Rooms, v \in Users : Crossed(x, v)' = Crossed(x, v)
  BY <1>1 DEF Crossed
<1>. HIDE DEF r, u
\* No refusal that is still to be heard can close an open request.
<1>8. \A x \in Rooms, s, v \in Users : Open(x, s, v) =>
        Trusts(s, v)' \/ (Open(x, s, v)' /\ (Unheard(x, v, "join") => Unheard(x, v, "join")'))
  <2>1. SUFFICES ASSUME NEW x \in Rooms, NEW s \in Users, NEW v \in Users, Open(x, s, v)
                 PROVE  Trusts(s, v)' \/ (Open(x, s, v)' /\ (Unheard(x, v, "join") => Unheard(x, v, "join")'))
    OBVIOUS
  <2>2. Asked(s, v, x) /\ ~Unheard(x, v, "out") /\ ~Unheard(x, v, "out")'
    BY <1>6, <2>1 DEF Open, Memberships
  <2>3. CASE x = r /\ v = u /\ n.to = "join"
    BY <1>5, <2>2, <2>3
  <2>4. CASE ~(x = r /\ v = u /\ n.to = "join")
    <3>1. x = r /\ v = u => n.to # "out"
      BY <1>1, <1>2, <2>2 DEF Unheard, r, u
    <3>2. Asked(s, v, x)'
      BY <1>2, <1>4, <2>2, <2>4, <3>1 DEF Asked
    <3>. QED
      BY <1>6, <2>2, <2>4, <3>2 DEF Open, Memberships
  <2>. QED
    BY <2>3, <2>4
<1>9. \A x \in Rooms, s, v \in Users : Backed(x, s, v) => Backed(x, s, v)'
  BY <1>5, <1>7, <1>8 DEF Backed
<1>10. SenderInv' /\ OpenInv' /\ InvitedInv'
  BY <1>1, <1>9 DEF SenderInv, OpenInv, InvitedInv, Invites, Invited
<1>11. JoinedInv'
  BY <1>1, <1>5, <1>7, <1>8 DEF JoinedInv
<1>12. DeclinedInv'
  <2>1. SUFFICES ASSUME NEW s \in Users, NEW v \in Users, declined[s][v] # Never
                 PROVE  Lasts(s, v)' /\ (Trusts(s, v)' \/ Rejected(s, v)' \/ Deaf(s, v)')
    BY <1>1 DEF DeclinedInv
  <2>2. Lasts(s, v) /\ Lasts(s, v)' /\ (Trusts(s, v) \/ Rejected(s, v) \/ Deaf(s, v))
    BY <1>1, <2>1 DEF DeclinedInv, Lasts
  <2>3. CASE Trusts(s, v)
    BY <1>5, <2>2, <2>3
  <2>4. CASE Rejected(s, v)
    BY <1>1, <1>4, <2>2, <2>4 DEF Rejected, Asked
  <2>5. CASE Deaf(s, v)
    <3>1. PICK x \in Rooms : Asked(s, v, x) /\ (Crossed(x, v) \/ Unheard(x, v, "out"))
      BY <2>5 DEF Deaf
    <3>2. CASE x = r /\ v = u /\ n.to = "join"
      BY <1>5, <2>2, <3>1, <3>2
    <3>3. CASE x = r /\ v = u /\ n.to = "out"
      <4>1. contact'[s][v] = [status |-> "rejected", room |-> r, at |-> now]
        BY <1>4, <3>1, <3>3
      <4>. QED
        BY <1>1, <2>2, <4>1 DEF Rejected, Lasts
    <3>4. CASE ~(x = r /\ v = u) \/ n.to = "invite"
      <4>1. Asked(s, v, x)'
        BY <1>4, <3>1, <3>4 DEF Asked
      <4>2. Crossed(x, v)' \/ Unheard(x, v, "out")'
        BY <1>6, <1>7, <3>1, <3>4 DEF Memberships
      <4>. QED
        BY <2>2, <4>1, <4>2 DEF Deaf
    <3>. QED
      BY <1>2, <3>2, <3>3, <3>4
  <2>. QED
    BY <2>2, <2>3, <2>4, <2>5
<1>. QED
  BY <1>10, <1>11, <1>12

\* What is lost with the process has crossed.
LEMMA RestartKeepsStrangers ==
  ASSUME MembershipAssumption, TypeOK, StrangersInv, Restart
  PROVE  StrangersInv'
<1>. USE DEF StrangersInv
<1>1. /\ UNCHANGED <<member, by, contact, trusted, declined, now>> /\ news' = {}
      /\ \A q \in Reqs : req'[q] = Idle
  BY DEF Restart, policy
<1>2. /\ \A r \in Rooms, u \in Users : Crossed(r, u) => Crossed(r, u)'
      /\ \A r \in Rooms, u \in Users : Unheard(r, u, "join") \/ Unheard(r, u, "out") => Crossed(r, u)'
  <2>1. crossed' = crossed \cup {<<n.room, n.who>> : n \in {m \in news : m.to # "invite"}}
    BY DEF Restart
  <2>2. ASSUME NEW r \in Rooms, NEW u \in Users, NEW o \in {"join", "out"}, Unheard(r, u, o)
        PROVE  <<r, u>> \in crossed'
    <3>. DEFINE m == [room |-> r, who |-> u, to |-> o]
    <3>1. m \in news /\ m.to # "invite" /\ m.room = r /\ m.who = u
      BY <2>2 DEF Unheard
    <3>. QED
      BY <2>1, <3>1
  <2>. QED
    BY <2>1, <2>2 DEF Crossed
<1>3. \A r \in Rooms, u \in Users : ~Unheard(r, u, "out")'
  BY <1>1 DEF Unheard
<1>4. SenderInv' /\ OpenInv' /\ InvitedInv'
  BY <1>1, <1>2, <1>3
     DEF SenderInv, OpenInv, InvitedInv, Invites, Invited, Backed, Trusts, Open, Asked
<1>5. JoinedInv'
  BY <1>1, <1>2 DEF JoinedInv, Trusts
<1>6. DeclinedInv'
  BY <1>1, <1>2 DEF DeclinedInv, Lasts, Trusts, Rejected, Deaf, Asked
<1>. QED
  BY <1>4, <1>5, <1>6

LEMMA TickKeepsStrangers ==
  ASSUME TypeOK, StrangersInv, Tick
  PROVE  StrangersInv'
<1>. USE DEF StrangersInv
<1>1. /\ UNCHANGED <<member, by, news, contact, trusted, crossed, req>> /\ now' = now + 1
      /\ declined' = [s \in Users |-> [u \in Users |->
           IF declined[s][u] + 2 <= now + 1 THEN Never ELSE declined[s][u]]]
  BY DEF Tick, synapse
<1>2. SenderInv' /\ OpenInv' /\ InvitedInv' /\ JoinedInv'
  BY <1>1 DEF SenderInv, OpenInv, InvitedInv, Invited, JoinedInv, Invites, Backed, Crossed, Trusts, Open,
              Asked, Unheard
<1>3. DeclinedInv'
  <2>1. SUFFICES ASSUME NEW s \in Users, NEW u \in Users, declined'[s][u] # Never
                 PROVE  Lasts(s, u)' /\ (Trusts(s, u)' \/ Rejected(s, u)' \/ Deaf(s, u)')
    BY DEF DeclinedInv
  <2>2. declined'[s][u] = declined[s][u] /\ ~(declined[s][u] + 2 <= now + 1)
    BY <1>1, <2>1
  <2>3. declined[s][u] \in 0 .. Never /\ now \in Nat
    BY MembershipAssumption DEF TypeOK
  <2>4. Lasts(s, u) /\ (Trusts(s, u) \/ Rejected(s, u) \/ Deaf(s, u))
    BY <2>1, <2>2 DEF DeclinedInv
  <2>5. Lasts(s, u)'
    BY <1>1, <2>2, <2>3, <2>4, MembershipAssumption DEF Lasts, Never
  <2>. QED
    BY <1>1, <2>2, <2>4, <2>5 DEF Trusts, Rejected, Deaf, Asked, Crossed, Unheard
<1>. QED
  BY <1>2, <1>3

LEMMA ContactKept ==
  ASSUME Linearized
  PROVE  ContactInv /\ [Next]_vars => ContactInv'
<1>. SUFFICES ASSUME ContactInv, [Next]_vars PROVE ContactInv'
  OBVIOUS
<1>. USE MembershipAssumption
<1>1. CapacityInv /\ CapacityInv' /\ TypeOK /\ TypeOK'
  BY CapacityKept DEF ContactInv, CapacityInv
<1>2. SUFFICES StrangersInv'
  BY <1>1 DEF ContactInv
<1>3. StrangersInv
  BY DEF ContactInv
<1>4. ASSUME NEW q \in Reqs, NEW u \in Users, NEW r \in Rooms,
             (\E s \in Users : Invite(q, s, u, r)) \/ Join(q, u, r) \/ Leave(q, u, r)
      PROVE  StrangersInv'
  <2>1. Aside
    BY <1>1, <1>4, SubmitIsAside DEF Invite, Join, Leave
  <2>. QED
    BY <1>3, <2>1, AsideKeepsStrangers
<1>5. ASSUME NEW q \in Reqs, DecideInvite(q) \/ DecideJoin(q) PROVE StrangersInv'
  BY <1>1, <1>3, <1>5, DecideKeepsStrangers DEF Decide
<1>6. ASSUME NEW q \in Reqs, Persist(q) PROVE StrangersInv'
  BY <1>1, <1>3, <1>6, PersistKeepsStrangers
<1>7. CASE \/ \E q \in Reqs : Refuse(q)
           \/ Age \/ UNCHANGED vars
           \/ \E a, b \in Users : Block(a, b) \/ Unblock(a, b)
  <2>1. UNCHANGED <<member, by, news, contact, trusted, declined, crossed, now>>
    BY <1>7 DEF Refuse, Age, Block, Unblock, vars, policy, synapse
  <2>2. \A q \in Reqs : req'[q] \in {req[q], Idle}
    BY <1>1, <1>7, QuietSteps DEF Quiet
  <2>3. Aside
    BY <2>1, <2>2 DEF Aside, Invited
  <2>. QED
    BY <1>3, <2>3, AsideKeepsStrangers
<1>8. CASE Hear
  BY <1>1, <1>3, <1>8, HearKeepsStrangers
<1>9. CASE Restart
  BY <1>1, <1>3, <1>9, RestartKeepsStrangers
<1>10. CASE Tick
  BY <1>1, <1>3, <1>10, TickKeepsStrangers
<1>11. \/ \E q \in Reqs, u \in Users, r \in Rooms :
            (\E s \in Users : Invite(q, s, u, r)) \/ Join(q, u, r) \/ Leave(q, u, r)
       \/ \E q \in Reqs : DecideInvite(q) \/ DecideJoin(q)
       \/ \E q \in Reqs : Persist(q)
       \/ \E q \in Reqs : Refuse(q)
       \/ Hear \/ Restart \/ Age \/ Tick \/ UNCHANGED vars
       \/ \E a, b \in Users : Block(a, b) \/ Unblock(a, b)
  BY DEF Next
<1>. QED
  BY <1>4, <1>5, <1>6, <1>7, <1>8, <1>9, <1>10, <1>11

LEMMA ContactAlways == ASSUME Linearized PROVE Spec => []ContactInv
<1>1. Init => ContactInv
  BY CapacityHolds, StrangersHold DEF ContactInv
<1>2. ContactInv /\ [Next]_vars => ContactInv'
  BY ContactKept
<1>. QED
  BY <1>1, <1>2, PTL DEF Spec

\* Nobody has two open invitations of a sender who is not a trusted contact, however
\* many the sender asks for at a time and however late callbacks are, but for rooms
\* whose answers were lost or crossed (policy.py: contact_allowed).
THEOREM OneRequest == ASSUME Linearized PROVE Spec => []OneOpenRequest
<1>1. ASSUME ContactInv PROVE OneOpenRequest
  <2>1. SUFFICES ASSUME NEW s \in Users, NEW u \in Users, Pair(s, u) \notin trusted
                 PROVE  Cardinality({r \in Rooms : /\ member[r][u] = "invite" /\ by[r][u] = s
                                                   /\ <<r, u>> \notin crossed}) <= 1
    BY DEF OneOpenRequest
  <2>2. {r \in Rooms : member[r][u] = "invite" /\ by[r][u] = s /\ <<r, u>> \notin crossed}
          \subseteq {contact[s][u].room}
    BY <1>1, <2>1 DEF ContactInv, StrangersInv, OpenInv, Invites, Backed, Crossed, Trusts, Open, Asked
  <2>3. IsFiniteSet({contact[s][u].room}) /\ Cardinality({contact[s][u].room}) = 1
    BY FS_Singleton
  <2>. QED
    BY <2>2, <2>3, FS_Subset, FS_CardinalityType
<1>2. ContactInv => OneOpenRequest
  BY <1>1
<1>. QED
  BY <1>2, ContactAlways, PTL

\* Whoever joined on an invitation is the sender's trusted contact once the callback
\* has run, however late, unless an answer was lost or crossed (contact_membership).
THEOREM Accepted == ASSUME Linearized PROVE Spec => []AcceptedIsTrusted
<1>1. ContactInv => AcceptedIsTrusted
  BY MembershipAssumption
     DEF ContactInv, StrangersInv, JoinedInv, Crossed, Trusts, AcceptedIsTrusted, CapacityInv, TypeOK
<1>. QED
  BY <1>1, ContactAlways, PTL

\* A stranger's invitation that was turned down keeps every invitation of that
\* stranger away for a day, also while the refusal is still to be heard, but for
\* rooms whose answers crossed (contact_allowed).
THEOREM RefusedForADay == ASSUME Linearized PROVE Spec => []RefusalStands
<1>1. ASSUME ContactInv PROVE RefusalStands
  <2>1. SUFFICES ASSUME NEW s \in Users, NEW u \in Users, ~Trusts(s, u), declined[s][u] # Never,
                        NEW r \in Rooms, ~Crossed(r, u), Invites(r, s, u)
                 PROVE  FALSE
    BY DEF RefusalStands, Trusts, Crossed, Invites
  <2>2. Open(r, s, u)
    BY <1>1, <2>1 DEF ContactInv, StrangersInv, OpenInv, Backed
  <2>3. Rejected(s, u) \/ Deaf(s, u)
    BY <1>1, <2>1 DEF ContactInv, StrangersInv, DeclinedInv
  <2>. QED
    BY <2>1, <2>2, <2>3 DEF Open, Asked, Rejected, Deaf
<1>2. ContactInv => RefusalStands
  BY <1>1
<1>. QED
  BY <1>2, ContactAlways, PTL
=============================================================================
