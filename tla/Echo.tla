-------------------------------- MODULE Echo --------------------------------
(* services/echo: an account that accepts direct invitations and answers      *)
(* every message with the same message.  One pass of `once` calls the runtime *)
(* several times; between the calls rooms and the inbox change, a call may     *)
(* fail after taking effect, and the process may be killed.  The journal in   *)
(* SQLite is what it resumes from.                                            *)
(*                                                                            *)
(* Every call synchronizes first, so the runtime's rooms are the server's.    *)
(* The rooms are unencrypted DMs of two members and the messages literal text;*)
(* the limit of rooms and other content are left out. The windows of a minute *)
(* and a day are one window.                                                  *)
EXTENDS Naturals, Sequences, FiniteSets

CONSTANTS DMs,          \* rooms, one for each peer
          Posts,        \* messages the peers send
          RoomOf,       \* the room of a message
          EchoCap,      \* replies per window
          PeerCap,      \* replies per window and peer
          AcceptCap,    \* accepted invitations per window
          MaxLosses     \* bound: failed calls, kills, repeated deliveries, withdrawals

\* The journal keys replies and accepted rooms apart.
ASSUME EchoAssumption == /\ RoomOf \in [Posts -> DMs]
                         /\ {EchoCap, PeerCap, AcceptCap} \subseteq Nat \ {0} /\ MaxLosses \in Nat
                         /\ \A e \in Posts : <<e>> \notin DMs

VARIABLES
  member,    \* Echo's membership: [DMs -> "none", "invited", "joined", "left"]
  counted,   \* joined rooms whose member count has reached the runtime
  joining,   \* joins given up by their caller, which the server may still perform
  box,       \* the runtime's inbox, a sequence of messages; cursors are positions
  posted,    \* transactions of the replies the server has accepted
  journal,   \* the journal: [cursor, prepared, done], of transactions and rooms
  used,      \* the counters of the window: [all, accepts, peer]
  pass,      \* the pass under way
  losses     \* what is left of the bound

echoVars == <<member, counted, joining, box, posted, journal, used, pass, losses>>

NoPass == [at |-> "idle", allowed |-> {}, unknown |-> {}, todo |-> {}, room |-> "none", last |-> 0, changed |-> FALSE]
NoneUsed == [all |-> 0, accepts |-> 0, peer |-> [r \in DMs |-> 0]]

EchoInit ==
  /\ member = [r \in DMs |-> "none"] /\ counted = {} /\ joining = {} /\ box = <<>> /\ posted = {}
  /\ journal = [cursor |-> 0, prepared |-> {}, done |-> {}]
  /\ used = NoneUsed /\ pass = NoPass /\ losses = MaxLosses

Lose == losses > 0 /\ losses' = losses - 1
InPass(at) == pass.at = at
Enter(at) == pass' = [pass EXCEPT !.at = at]

\* transaction_id: the hash of the event ID, wherever the event turns up.
TransactionId(i) == <<box[i]>>

Item == journal.cursor + 1
Room == RoomOf[box[Item]]

------------------------------------------------------------------------------
\* once: the rooms, then the invitations.
Joined == {r \in DMs : member[r] = "joined"}

\* A joined room is a conversation of two when its member count says so; one whose
\* count has not arrived may yet be one.
Sorted(p) == [p EXCEPT !.allowed = Joined \cap counted, !.unknown = Joined \ counted]

Conversations ==
  /\ InPass("idle")
  /\ pass' = [Sorted(NoPass) EXCEPT !.at = "requests"]
  /\ UNCHANGED <<member, counted, joining, box, posted, journal, used, losses>>

Requests ==
  /\ InPass("requests")
  /\ pass' = [pass EXCEPT !.at = "invitations", !.todo = {r \in DMs : member[r] = "invited"}]
  /\ UNCHANGED <<member, counted, joining, box, posted, journal, used, losses>>

\* State.reserve for an invitation: charged once, however often it is tried.
ReserveAccept(r) ==
  /\ InPass("invitations") /\ r \in pass.todo
  /\ IF r \in journal.done THEN
       /\ pass' = [pass EXCEPT !.todo = @ \ {r}] /\ UNCHANGED <<journal, used>>
     ELSE IF r \in journal.prepared THEN
       /\ pass' = [pass EXCEPT !.at = "accept", !.room = r] /\ UNCHANGED <<journal, used>>
     ELSE IF used.accepts < AcceptCap THEN
       /\ pass' = [pass EXCEPT !.at = "accept", !.room = r]
       /\ journal' = [journal EXCEPT !.prepared = @ \cup {r}]
       /\ used' = [used EXCEPT !.accepts = @ + 1]
     ELSE pass' = [pass EXCEPT !.todo = {}] /\ UNCHANGED <<journal, used>>
  /\ UNCHANGED <<member, counted, joining, box, posted, losses>>

\* The runtime joins a room it is invited to; a withdrawn invitation is a
\* permanent error and done with.
AcceptInvitation ==
  /\ InPass("accept")
  /\ member' = [member EXCEPT ![pass.room] = IF @ = "left" THEN "left" ELSE "joined"]
  /\ journal' = [journal EXCEPT !.done = @ \cup {pass.room}]
  /\ pass' = [pass EXCEPT !.at = "invitations", !.todo = @ \ {pass.room}, !.changed = @ \/ member[pass.room] # "left"]
  /\ joining' = joining \ {pass.room}
  /\ UNCHANGED <<counted, box, posted, used, losses>>

\* The rooms are read again when one was accepted.
Reload ==
  /\ InPass("invitations") /\ pass.todo = {}
  /\ pass' = [(IF pass.changed THEN Sorted(pass) ELSE pass) EXCEPT !.at = "inbox"]
  /\ UNCHANGED <<member, counted, joining, box, posted, journal, used, losses>>

Inbox ==
  /\ InPass("inbox")
  /\ pass' = [pass EXCEPT !.at = "item", !.last = Len(box)]
  /\ UNCHANGED <<member, counted, joining, box, posted, journal, used, losses>>

------------------------------------------------------------------------------
\* The items of the page, in the order of the cursor.
Advanced(j) == [j EXCEPT !.cursor = @ + 1]
Finished(j, tx) == [j EXCEPT !.cursor = @ + 1, !.done = @ \cup {tx}]

Full == used.all >= EchoCap
PeerFullAlways(r) == TRUE
PeerFull(r) == used.peer[r] >= PeerCap

WaitsNever == FALSE
\* The whole queue waits for the count of a room.
WaitsForCount == InPass("item") /\ Item <= pass.last /\ Room \in pass.unknown
WaitForCount == /\ WaitsForCount /\ pass' = NoPass
                /\ UNCHANGED <<member, counted, joining, box, posted, journal, used, losses>>

\* What needs no reply: a room that was not a joined DM when the rooms were read,
\* or a message that has been done before.
SkipItem ==
  /\ InPass("item") /\ Item <= pass.last /\ ~WaitsForCount
  /\ Room \notin pass.allowed \/ TransactionId(Item) \in journal.done
  /\ journal' = Advanced(journal)
  /\ UNCHANGED <<member, counted, joining, box, posted, used, pass, losses>>

\* State.reserve for a reply. A peer over its share loses the message; a full
\* service waits for the next window.
Reserve ==
  /\ InPass("item") /\ Item <= pass.last
  /\ Room \in pass.allowed /\ TransactionId(Item) \notin journal.done
  /\ IF TransactionId(Item) \in journal.prepared THEN
       Enter("send") /\ UNCHANGED <<journal, used>>
     ELSE IF ~Full /\ ~(used.peer[Room] >= PeerCap) THEN
       /\ Enter("send")
       /\ journal' = [journal EXCEPT !.prepared = @ \cup {TransactionId(Item)}]
       /\ used' = [used EXCEPT !.all = @ + 1, !.peer[Room] = @ + 1]
     ELSE IF PeerFull(Room) THEN
       /\ journal' = Finished(journal, TransactionId(Item)) /\ UNCHANGED <<pass, used>>
     ELSE pass' = NoPass /\ UNCHANGED <<journal, used>>
  /\ UNCHANGED <<member, counted, joining, box, posted, losses>>

\* The runtime sends each transaction once; in a room that was left it cannot.
Replied == IF member[Room] = "joined" THEN posted \cup {TransactionId(Item)} ELSE posted

\* send, and then acknowledge; an error that is permanent cancels the send.
SendReply ==
  /\ InPass("send") /\ posted' = Replied
  /\ Enter(IF member[Room] = "joined" THEN "acknowledge" ELSE "finish")
  /\ UNCHANGED <<member, counted, joining, box, journal, used, losses>>
Acknowledge ==
  /\ InPass("acknowledge") /\ Enter("finish")
  /\ UNCHANGED <<member, counted, joining, box, posted, journal, used, losses>>
Finish ==
  /\ InPass("finish") /\ Enter("item")
  /\ journal' = Finished(journal, TransactionId(Item))
  /\ UNCHANGED <<member, counted, joining, box, posted, used, losses>>

EndPass ==
  /\ InPass("item") /\ Item > pass.last
  /\ pass' = NoPass
  /\ UNCHANGED <<member, counted, joining, box, posted, journal, used, losses>>

\* A call fails or is given up after it took effect, or never does; the loop of
\* run starts another pass. A kill between the steps is the same.
PassFails ==
  /\ ~InPass("idle") /\ Lose
  /\ pass' = NoPass
  /\ \/ UNCHANGED <<member, counted, joining, posted>>
     \/ /\ InPass("send") /\ posted' = Replied /\ UNCHANGED <<member, counted, joining>>
     \/ /\ InPass("accept") /\ member[pass.room] = "invited" /\ UNCHANGED <<counted, posted>>
        /\ \/ member' = [member EXCEPT ![pass.room] = "joined"] /\ UNCHANGED joining
           \/ joining' = joining \cup {pass.room} /\ UNCHANGED member
  /\ UNCHANGED <<box, journal, used>>

------------------------------------------------------------------------------
\* The peers, the server and the runtime's synchronization.
Invite(r) == /\ member[r] = "none" /\ member' = [member EXCEPT ![r] = "invited"]
             /\ UNCHANGED <<counted, joining, box, posted, journal, used, pass, losses>>
Withdraw(r) == /\ member[r] \in {"invited", "joined"} /\ Lose
               /\ member' = [member EXCEPT ![r] = "left"]
               /\ UNCHANGED <<counted, joining, box, posted, journal, used, pass>>
LateJoin(r) == /\ r \in joining /\ member[r] = "invited"
               /\ member' = [member EXCEPT ![r] = "joined"]
               /\ UNCHANGED <<counted, joining, box, posted, journal, used, pass, losses>>
\* Decryption and backfill may emit a message a second time.
Arrive(e) ==
  /\ member[RoomOf[e]] = "joined"
  /\ IF \E i \in 1..Len(box) : box[i] = e THEN Lose ELSE UNCHANGED losses
  /\ box' = Append(box, e)
  /\ UNCHANGED <<member, counted, joining, posted, journal, used, pass>>
CountArrives(r) == /\ r \in Joined \ counted /\ counted' = counted \cup {r}
                   /\ UNCHANGED <<member, joining, box, posted, journal, used, pass, losses>>
NextWindow == /\ used # NoneUsed /\ used' = NoneUsed
              /\ UNCHANGED <<member, counted, joining, box, posted, journal, pass, losses>>

PassStep ==
  \/ Conversations \/ Requests \/ AcceptInvitation \/ Reload \/ Inbox \/ WaitForCount \/ SkipItem \/ Reserve
  \/ SendReply \/ Acknowledge \/ Finish \/ EndPass
  \/ \E r \in DMs : ReserveAccept(r)

EchoNext ==
  \/ PassStep \/ PassFails \/ NextWindow
  \/ \E r \in DMs : Invite(r) \/ Withdraw(r) \/ LateJoin(r) \/ CountArrives(r)
  \/ \E e \in Posts : Arrive(e)

EchoSpec == EchoInit /\ [][EchoNext]_echoVars

------------------------------------------------------------------------------
Replies == {<<e>> : e \in Posts}
Stages == {"idle", "requests", "invitations", "accept", "inbox", "item", "send", "acknowledge", "finish"}

EchoTypeOK ==
  /\ member \in [DMs -> {"none", "invited", "joined", "left"}] /\ joining \subseteq DMs /\ counted \subseteq DMs
  /\ box \in Seq(Posts) /\ posted \subseteq Replies
  /\ journal \in [cursor : 0..Len(box), prepared : SUBSET (Replies \cup DMs), done : SUBSET (Replies \cup DMs)]
  /\ used \in [all : 0..EchoCap, accepts : 0..AcceptCap, peer : [DMs -> 0..PeerCap]]
  /\ pass \in [at : Stages, allowed : SUBSET DMs, unknown : SUBSET DMs, todo : SUBSET DMs, room : DMs \cup {"none"},
               last : 0..Len(box), changed : BOOLEAN]
  /\ losses \in 0..MaxLosses

\* Its conversation has ended, or it was joined behind the back of a pass that had
\* given the join up.
Excused(e) == member[RoomOf[e]] = "left" \/ RoomOf[e] \in joining

\* A message that is done with was answered, or its conversation has ended, or its
\* peer had used up its own share; never because others had used up the service's.
EchoDropsOnlyExcess ==
  [][\A e \in Posts : <<e>> \in journal'.done \ journal.done =>
       \/ <<e>> \in posted
       \/ member[RoomOf[e]] = "left"
       \/ used.peer[RoomOf[e]] >= PeerCap]_echoVars

\* Every message that arrives is done with, or its conversation ends: neither a
\* full window nor a withdrawn room nor a lost call stops the queue for good, and
\* the cursor passes no message of a conversation Echo is in, though the rooms are
\* read before the inbox and a member count may come later than the messages.
Unanswered == {i \in 1..Len(box) : <<box[i]>> \notin journal.done /\ ~Excused(box[i])}
EchoDrains == []<>(Unanswered = {})
=============================================================================
