-------------------------------- MODULE Pilot --------------------------------
(* examples/pilot: a researcher's findings and a reviewer's verdicts, one     *)
(* room, and one short-lived process for each command either operator runs.   *)
(* A process may stop after any step; the next one finds the private journal  *)
(* and what the runtime of the device keeps: its outbox and its inbox.        *)
(*                                                                            *)
(* Only the peer's well-formed events are in the inbox: rows of others and of *)
(* other forms are ignored. Commands that only record or print (read, hint,   *)
(* useful, export) and the limits of a hundred exchanges and pages are left   *)
(* out.                                                                       *)
EXTENDS Naturals, Sequences

CONSTANTS Exchanges,
          Contents,     \* of findings, and the decisions of verdicts
          PageLimit,    \* rows in a page of the inbox
          PilotFaults   \* bound: processes that stop, rows that come unreadable or late

ASSUME PilotAssumption == PageLimit \in Nat \ {0} /\ PilotFaults \in Nat

VARIABLES
  state,     \* state.json of each role: [stage, cursor, outgoing, incoming]
  running,   \* the process of each role: [at, exchange, todo]
  queued,    \* exchanges whose message each role's runtime has yet to deliver
  room,      \* the events of the room; an event is its position
  inbox,     \* the rows of each role's inbox: [event, readable]
  read,      \* events acknowledged as read
  mishaps    \* what is left of the bound

pilotVars == <<state, running, queued, room, inbox, read, mishaps>>

Roles == {"researcher", "reviewer"}
Peer(r) == IF r = "researcher" THEN "reviewer" ELSE "researcher"
NoEvent == 0
NotIntended == [intended |-> FALSE, event |-> NoEvent, acknowledged |-> FALSE]
Mishap == mishaps > 0 /\ mishaps' = mishaps - 1
NoProcess == [at |-> "idle", exchange |-> "none", todo |-> {}]

PilotInit ==
  /\ state = [r \in Roles |-> [stage |-> "none", cursor |-> 0, outgoing |-> [x \in Exchanges |-> NotIntended],
                               incoming |-> [x \in Exchanges |-> NoEvent]]]
  /\ running = [r \in Roles |-> NoProcess] /\ queued = [r \in Roles |-> {}]
  /\ room = <<>> /\ inbox = [r \in Roles |-> <<>>] /\ read = {} /\ mishaps = PilotFaults

At(r, at) == running[r].at = at
Exchange(r) == running[r].exchange
Entry(r) == state[r].outgoing[Exchange(r)]
\* One process at a time holds the lock of the journal.
Free(r) == At(r, "idle") /\ state[r].stage = "connected"

------------------------------------------------------------------------------
\* The journal begins, and is bound to a device, its peer and their room.
StartPilot(r) == /\ state[r].stage = "none"
                 /\ state' = [state EXCEPT ![r].stage = "started"]
                 /\ UNCHANGED <<running, queued, room, inbox, read, mishaps>>
Connect(r) == /\ state[r].stage = "started"
              /\ state' = [state EXCEPT ![r].stage = "connected"]
              /\ UNCHANGED <<running, queued, room, inbox, read, mishaps>>

\* An exchange keeps its first content; a verdict replies to the finding received.
Intended(r, x, c) ==
  [intended |-> TRUE, event |-> NoEvent, acknowledged |-> FALSE, content |-> c,
   reply |-> IF r = "reviewer" THEN state[r].incoming[x] ELSE NoEvent]
SameContent(r, x, c) ==
  LET e == state[r].outgoing[x] IN e.intended => e.content = c
\* finding and verdict: the intent is saved before anything is sent. Repeating an
\* accepted one changes nothing.
Intend(r, x, c) ==
  /\ Free(r) /\ SameContent(r, x, c) /\ state[r].outgoing[x].event = NoEvent
  /\ r = "reviewer" => state[r].incoming[x] # NoEvent
  /\ state' = [state EXCEPT ![r].outgoing[x] = IF @.intended THEN @ ELSE Intended(r, x, c)]
  /\ running' = [running EXCEPT ![r] = [at |-> "send", exchange |-> x, todo |-> {}]]
  /\ UNCHANGED <<queued, room, inbox, read, mishaps>>

\* resume takes up what was not accepted, or accepted and not yet acknowledged.
Unsent(r) == {x \in Exchanges : state[r].outgoing[x].intended /\ state[r].outgoing[x].event = NoEvent}
Unfinished(r) ==
  {x \in Exchanges : /\ state[r].outgoing[x].intended
                     /\ \/ state[r].outgoing[x].event = NoEvent
                        \/ r = "reviewer" /\ ~state[r].outgoing[x].acknowledged}
Resume(r) ==
  /\ Free(r) /\ \E x \in Unfinished(r) : running' = [running EXCEPT ![r] = [at |-> "send", exchange |-> x, todo |-> Unfinished(r) \ {x}]]
  /\ UNCHANGED <<state, queued, room, inbox, read, mishaps>>

\* send_intent: the transaction of an exchange, its answer, the acknowledgement.
Event(r, x) == {i \in 1..Len(room) : room[i].by = r /\ room[i].exchange = x}
Submit(r) ==
  /\ At(r, "send")
  /\ queued' = [queued EXCEPT ![r] = IF Entry(r).event = NoEvent /\ Event(r, Exchange(r)) = {} THEN @ \cup {Exchange(r)} ELSE @]
  /\ running' = [running EXCEPT ![r].at = IF Entry(r).event = NoEvent THEN "sent" ELSE "accepted"]
  /\ UNCHANGED <<state, room, inbox, read, mishaps>>
RecordEvent(r) ==
  /\ At(r, "sent")
  /\ \E i \in Event(r, Exchange(r)) : state' = [state EXCEPT ![r].outgoing[Exchange(r)].event = i]
  /\ running' = [running EXCEPT ![r].at = "accepted"]
  /\ UNCHANGED <<queued, room, inbox, read, mishaps>>
Following(r) ==
  IF running[r].todo = {} THEN {NoProcess}
  ELSE {[at |-> "send", exchange |-> x, todo |-> running[r].todo \ {x}] : x \in running[r].todo}
AcknowledgeRead(r) ==
  /\ At(r, "accepted") /\ r = "reviewer"
  /\ read' = read \cup {Entry(r).reply}
  /\ state' = [state EXCEPT ![r].outgoing[Exchange(r)].acknowledged = TRUE]
  /\ \E p \in Following(r) : running' = [running EXCEPT ![r] = p]
  /\ UNCHANGED <<queued, room, inbox, mishaps>>
FindingAccepted(r) ==
  /\ At(r, "accepted") /\ r = "researcher"
  /\ \E p \in Following(r) : running' = [running EXCEPT ![r] = p]
  /\ UNCHANGED <<state, queued, room, inbox, read, mishaps>>

------------------------------------------------------------------------------
PollableUnsent(r) == TRUE
\* A verdict is only recognised by the recorded event of its finding, so nothing
\* is read while an event is unknown.
Pollable(r) == Unsent(r) = {}
\* A poll that finds nothing new changes nothing.
Poll(r) ==
  /\ Free(r) /\ Pollable(r) /\ state[r].cursor < Len(inbox[r])
  /\ running' = [running EXCEPT ![r].at = "page"]
  /\ UNCHANGED <<state, queued, room, inbox, read, mishaps>>

LastOfPage(r) ==
  IF state[r].cursor + PageLimit < Len(inbox[r]) THEN state[r].cursor + PageLimit ELSE Len(inbox[r])
\* The runtime empties a row it could not read when its event gets a new one.
Page(r) == {inbox[r][i] : i \in (state[r].cursor + 1)..LastOfPage(r)} \ {[event |-> NoEvent, readable |-> TRUE]}
Arrived(r) == {inbox[r][i].event : i \in 1..Len(inbox[r])}
GapOpen(r) ==
  \E i, j \in 1..Len(room) : i < j /\ room[i].by = Peer(r) /\ i \notin Arrived(r) /\ j \in Arrived(r)

\* ingest: a finding, or a verdict in reply to the finding of its exchange.
Correlated(r, i) ==
  LET original == state[r].outgoing[room[i].exchange].event IN
  r = "researcher" => original # NoEvent /\ room[i].reply = original
Ingested(r) == {row.event : row \in {p \in Page(r) : Correlated(r, p.event)}}
Refused(r) ==
  \/ GapOpen(r)
  \/ \E row \in Page(r) : ~row.readable
  \/ \E i \in Ingested(r) : state[r].incoming[room[i].exchange] \notin {NoEvent, i}

\* What was received and the cursor are saved together.
CommitPage(r) ==
  /\ At(r, "page") /\ ~Refused(r)
  /\ state' = [state EXCEPT ![r].cursor = LastOfPage(r),
       ![r].incoming = [x \in Exchanges |->
          IF \E i \in Ingested(r) : room[i].exchange = x THEN CHOOSE i \in Ingested(r) : room[i].exchange = x ELSE @[x]]]
  /\ running' = [running EXCEPT ![r] = IF LastOfPage(r) < Len(inbox[r]) THEN @ ELSE NoProcess]
  /\ UNCHANGED <<queued, room, inbox, read, mishaps>>
RefusePage(r) ==
  /\ At(r, "page") /\ Refused(r)
  /\ running' = [running EXCEPT ![r] = NoProcess]
  /\ UNCHANGED <<state, queued, room, inbox, read, mishaps>>

\* A lost answer, a timeout, a kill: the process ends, the journal remains.
Stop(r) ==
  /\ ~At(r, "idle") /\ Mishap
  /\ running' = [running EXCEPT ![r] = NoProcess]
  /\ \/ UNCHANGED read
     \/ At(r, "accepted") /\ r = "reviewer" /\ read' = read \cup {Entry(r).reply}
  /\ UNCHANGED <<state, queued, room, inbox>>

------------------------------------------------------------------------------
\* The runtimes, which the commands start and which synchronize then: a transaction
\* is delivered once, rows arrive in any order, and some are read only when their
\* key has come.
Deliver(r, x) ==
  /\ x \in queued[r]
  /\ queued' = [queued EXCEPT ![r] = @ \ {x}]
  /\ room' = Append(room, [by |-> r, exchange |-> x, reply |-> state[r].outgoing[x].reply])
  /\ UNCHANGED <<state, running, inbox, read, mishaps>>
RowArrives(r, i, readable) ==
  /\ room[i].by = Peer(r) /\ i \notin Arrived(r)
  /\ IF readable /\ \A j \in 1..(i - 1) : room[j].by = r \/ j \in Arrived(r) THEN UNCHANGED mishaps ELSE Mishap
  /\ inbox' = [inbox EXCEPT ![r] = Append(@, [event |-> i, readable |-> readable])]
  /\ UNCHANGED <<state, running, queued, room, read>>
KeyArrives(r) ==
  /\ \E n \in 1..Len(inbox[r]) :
       /\ ~inbox[r][n].readable
       /\ inbox' = [inbox EXCEPT ![r] = Append([@ EXCEPT ![n] = [event |-> NoEvent, readable |-> TRUE]],
                                               [event |-> inbox[r][n].event, readable |-> TRUE])]
  /\ UNCHANGED <<state, running, queued, room, read, mishaps>>

Commands(r) == StartPilot(r) \/ Connect(r) \/ Resume(r) \/ Poll(r) \/ \E x \in Exchanges, c \in Contents : Intend(r, x, c)
SendStep(r) == Submit(r) \/ RecordEvent(r) \/ AcknowledgeRead(r) \/ FindingAccepted(r)
PageStep(r) == CommitPage(r) \/ RefusePage(r)
RuntimeStep(r) ==
  \/ \E x \in Exchanges : Deliver(r, x)
  \/ \E i \in 1..Len(room), b \in BOOLEAN : RowArrives(r, i, b)
  \/ KeyArrives(r)

PilotNext == \E r \in Roles : Commands(r) \/ SendStep(r) \/ PageStep(r) \/ RuntimeStep(r) \/ Stop(r)

------------------------------------------------------------------------------
PilotTypeOK ==
  \A r \in Roles :
    /\ state[r].cursor \in 0..Len(inbox[r]) /\ \A x \in Exchanges : state[r].incoming[x] \in 0..Len(room)
    /\ queued[r] \subseteq Exchanges /\ read \subseteq 1..Len(room)

\* Every finding reaches its reviewer's journal, and every verdict its researcher's
\* and its finding's read marker, wherever a process stops or an answer is lost, with rows that
\* come late or unreadable, as long as the operators resume and poll as told.
Returned(x) == state["researcher"].incoming[x] # NoEvent /\ state["reviewer"].incoming[x] \in read
RoundTripsComplete ==
  []<>(\A x \in Exchanges :
         /\ state["researcher"].outgoing[x].intended => state["reviewer"].incoming[x] # NoEvent
         /\ state["reviewer"].outgoing[x].intended => Returned(x))
=============================================================================
