------------------------------- MODULE Outbox -------------------------------
(***************************************************************************)
(* Sending: the client library's calls (packages/client-python,            *)
(* packages/client-ts), the runtime process that takes them one at a time  *)
(* from stdin (main.rs) and its durable outbox (send, upload, flush and    *)
(* cancel_send in runtime.rs; enqueue, sent and pending in store.rs).      *)
(*                                                                         *)
(* A call that timed out at the client is still in the pipe.  A request    *)
(* the runtime gave up may still reach the server, which answers a         *)
(* transaction it has seen in the same room with the event it made then.   *)
(* The process may die between any two steps; the outbox survives it.      *)
(*                                                                         *)
(* An event is its position in the server's log; 0 is no event.            *)
(***************************************************************************)
EXTENDS Naturals, Sequences

CONSTANTS
  Keys,       \* idempotency keys
  Rooms,      \* rooms
  Waiting,    \* rooms that refuse sends until their recipient accepts
  Texts,      \* bodies of messages sent as text
  Versions,   \* contents the attached file may have
  MaxCalls,   \* bound: calls between a client and its runtime at once
  MaxFaults,  \* bound: failed or unanswered requests, crashes and edits
  Recycle,    \* TRUE: an application may send again under a key it cancelled
  None        \* no message

VARIABLES
  pending,   \* client: the call each identifier waits for
  pipe,      \* stdin of the runtime
  out,       \* stdout of the runtime
  row,       \* outbox: the room and content of each key
  event,     \* outbox: the event of each key
  before,    \* outbox: pairs of keys in the order of their rowids
  work,      \* runtime: the call it handles, see Idle
  at,        \* runtime: the await it has reached
  cur,       \* runtime: the key being sent
  left,      \* runtime: the keys flush has still to send
  wire,      \* requests the server has not handled yet
  log,       \* server: accepted events, in order
  open,      \* rooms that accept sends
  file,      \* the attached file's content
  recalled,  \* history: keys an application cancelled
  faults     \* bounded by MaxFaults

client  == <<pending, recalled>>
outbox  == <<row, event, before>>
runtime == <<work, at, cur, left>>
server  == <<wire, log, open>>
vars == <<client, pipe, out, outbox, runtime, server, file, faults>>

Bodies  == Texts \cup Versions
Message == [room : Rooms, body : Bodies]
Request == [key : Keys, msg : Message]

ASSUME OutboxAssumption ==
  /\ Waiting \subseteq Rooms
  /\ Texts \cap Versions = {}
  /\ MaxCalls \in Nat \ {0}
  /\ MaxFaults \in Nat
  /\ Recycle \in BOOLEAN
  /\ None \notin Message \cup Request

\* A client numbers its calls; what is told apart here is only that a number
\* is not used by two calls in flight.
Ids  == 1 .. MaxCalls
Call == [op : {"send"}, key : Keys, msg : Message]
          \cup [op : {"upload"}, key : Keys, room : Rooms]
          \cup [op : {"cancel"}, key : Keys]
          \cup [op : {"flush"}]
NoCall == [op |-> "none"]
Idle   == [id |-> 0, call |-> NoCall]

Fault == faults < MaxFaults /\ faults' = faults + 1

(***************************************************************************)
(* Decisions.                                                              *)
(***************************************************************************)
\* Mutant of Unused: a number whose call timed out is given out again.
UnusedForgets == {i \in Ids : pending[i] = NoCall}

\* Identifiers of no call in flight: the sequence never repeats one.
Unused ==
  {i \in Ids : /\ pending[i] = NoCall
               /\ i # work.id
               /\ \A n \in DOMAIN pipe : pipe[n].id # i
               /\ \A n \in DOMAIN out : out[n].id # i}

\* Mutants of Conflict: only the room, or only the content is compared.
ConflictOfRoom(k, m) == row[k] # None /\ row[k].room # m.room
ConflictOfBody(k, m) == row[k] # None /\ row[k].body # m.body

\* enqueue: the key is taken by another room or content.
Conflict(k, m) == row[k] # None /\ row[k] # m

Stored == {k \in Keys : row[k] # None}

\* enqueue: INSERT for a new key, nothing for a pending one.
Insert(k, m) ==
  /\ row' = [row EXCEPT ![k] = m]
  /\ before' = IF row[k] = None THEN before \cup (Stored \X {k}) ELSE before

\* cancel_send: DELETE .. WHERE txn=? AND event_id IS NULL.
Cancellable(k) == row[k] # None /\ event[k] = 0

\* Mutant of Pending: attachments are left out.
PendingTexts == {k \in Stored : event[k] = 0 /\ row[k].body \in Texts}

\* pending: SELECT .. WHERE event_id IS NULL.
Pending == {k \in Stored : event[k] = 0}

-----------------------------------------------------------------------------
Init ==
  /\ pending = [i \in Ids |-> NoCall]
  /\ pipe = <<>>
  /\ out = <<>>
  /\ row = [k \in Keys |-> None]
  /\ event = [k \in Keys |-> 0]
  /\ before = {}
  /\ work = Idle
  /\ at = "idle"
  /\ cur = None
  /\ left = {}
  /\ wire = {}
  /\ log = <<>>
  /\ open = Rooms \ Waiting
  /\ file \in Versions
  /\ recalled = {}
  /\ faults = 0

(***************************************************************************)
(* The application and its client.                                         *)
(***************************************************************************)
Issue(call) ==
  \E i \in Unused :
    /\ pending' = [pending EXCEPT ![i] = call]
    /\ pipe' = Append(pipe, [id |-> i, call |-> call])
    /\ UNCHANGED <<out, outbox, runtime, server, file, faults>>

Reusable(k) == Recycle \/ k \notin recalled

CallSend(k, m) ==
  /\ Reusable(k)
  /\ Issue([op |-> "send", key |-> k, msg |-> m])
  /\ UNCHANGED recalled

CallUpload(k, r) ==
  /\ Reusable(k)
  /\ Issue([op |-> "upload", key |-> k, room |-> r])
  /\ UNCHANGED recalled

CallCancel(k) ==
  /\ Issue([op |-> "cancel", key |-> k])
  /\ recalled' = recalled \cup {k}

CallFlush == Issue([op |-> "flush"]) /\ UNCHANGED recalled

\* The call times out: its number is forgotten, the runtime never learns.
TimeOut(i) ==
  /\ pending[i] # NoCall
  /\ Fault
  /\ pending' = [pending EXCEPT ![i] = NoCall]
  /\ UNCHANGED <<recalled, pipe, out, outbox, runtime, server, file>>

\* A line of output reaches the call with its number, if one still waits.
Hear ==
  /\ out # <<>>
  /\ pending' = [pending EXCEPT ![Head(out).id] = NoCall]
  /\ out' = Tail(out)
  /\ UNCHANGED <<recalled, pipe, outbox, runtime, server, file, faults>>

(***************************************************************************)
(* The runtime.                                                            *)
(***************************************************************************)
\* The next line of stdin becomes the call being handled.
Take ==
  /\ at = "idle"
  /\ pipe # <<>>
  /\ work' = Head(pipe)
  /\ pipe' = Tail(pipe)
  /\ at' = "start"
  /\ UNCHANGED <<client, out, outbox, cur, left, server, file, faults>>

\* The call ends and its answer is written; e is 0 without an event.
Answer(e) ==
  /\ out' = Append(out, [id |-> work.id, event |-> e])
  /\ work' = Idle
  /\ at' = "idle"
  /\ cur' = None
  /\ left' = {}

\* One message is accepted; flush goes on to the next one.
Accepted(k, e) ==
  \/ work.call.op # "flush" /\ Answer(e)
  \/ /\ work.call.op = "flush"
     /\ at' = "flush"
     /\ cur' = None
     /\ left' = left \ {k}
     /\ UNCHANGED <<out, work>>

\* send_content and upload up to their first await: enqueue refuses the key,
\* answers with its event, or leaves a pending row to be sent.
Begin(k, m) ==
  /\ \/ Conflict(k, m) /\ Answer(0) /\ UNCHANGED <<row, before>>
     \/ /\ ~Conflict(k, m)
        /\ event[k] # 0
        /\ Accepted(k, event[k])
        /\ UNCHANGED <<row, before>>
     \/ /\ ~Conflict(k, m)
        /\ event[k] = 0
        /\ Insert(k, m)
        /\ cur' = [key |-> k, msg |-> m]
        /\ at' = "check"
        /\ UNCHANGED <<out, work, left>>
  /\ UNCHANGED <<event, client, pipe, server, file, faults>>

Send ==
  /\ at = "start"
  /\ work.call.op = "send"
  /\ Begin(work.call.key, work.call.msg)

\* The descriptor holds the digest of the file as it is now.
Upload ==
  /\ at = "start"
  /\ work.call.op = "upload"
  /\ Begin(work.call.key, [room |-> work.call.room, body |-> file])

\* The oldest of the keys flush has left (ORDER BY rowid).
First == {k \in left : \A j \in left : <<j, k>> \notin before}

\* A file that cannot be read ends the call before enqueue.
Unreadable ==
  /\ Fault
  /\ \/ at = "start" /\ work.call.op = "upload"
     \/ at = "flush" /\ \E k \in First : row[k].body \in Versions
  /\ Answer(0)
  /\ UNCHANGED <<client, pipe, outbox, server, file>>

CancelSend ==
  /\ at = "start"
  /\ work.call.op = "cancel"
  /\ LET gone == {k \in {work.call.key} : Cancellable(k)} IN
       /\ row' = [k \in Keys |-> IF k \in gone THEN None ELSE row[k]]
       /\ event' = [k \in Keys |-> IF k \in gone THEN 0 ELSE event[k]]
       /\ before' = {p \in before : p[1] \notin gone /\ p[2] \notin gone}
  /\ Answer(0)
  /\ UNCHANGED <<client, pipe, server, file, faults>>

\* flush reads the pending rows once ...
Flush ==
  /\ at = "start"
  /\ work.call.op = "flush"
  /\ left' = Pending
  /\ at' = "flush"
  /\ UNCHANGED <<client, pipe, out, outbox, work, cur, server, file, faults>>

\* ... and sends them one by one, attachments through upload.
FlushNext ==
  /\ at = "flush"
  /\ \E k \in First :
       Begin(k, [row[k] EXCEPT !.body = IF @ \in Versions THEN file ELSE @])

FlushDone ==
  /\ at = "flush"
  /\ left = {}
  /\ Answer(0)
  /\ UNCHANGED <<client, pipe, outbox, server, file, faults>>

\* room and check_encrypted_members let the message pass ...
Transmit ==
  /\ at = "check"
  /\ cur.msg.room \in open
  /\ wire' = wire \cup {cur}
  /\ at' = "wire"
  /\ UNCHANGED <<client, pipe, out, outbox, work, cur, left, log, open, file,
                 faults>>

\* ... or refuse it: an encrypted DM whose recipient has not accepted.
Refuse ==
  /\ at = "check"
  /\ cur.msg.room \notin open
  /\ Answer(0)
  /\ UNCHANGED <<client, pipe, outbox, server, file, faults>>

\* The event the server made for this transaction in this room, or 0.
EventOf(k, r) ==
  LET made == {n \in DOMAIN log : log[n].key = k /\ log[n].msg.room = r}
  IN IF made = {} THEN 0 ELSE CHOOSE n \in made : TRUE

\* sent: UPDATE .. SET event_id=? WHERE txn=?.
Sent(k, e) ==
  event' = [event EXCEPT ![k] = IF row[k] = None THEN @ ELSE e]

\* The response: the event is saved before the caller hears of it.
Receive ==
  /\ at = "wire"
  /\ cur \notin wire
  /\ LET e == EventOf(cur.key, cur.msg.room) IN
       /\ e # 0
       /\ Sent(cur.key, e)
       /\ Accepted(cur.key, e)
  /\ UNCHANGED <<client, pipe, row, before, server, file, faults>>

\* A request for the room, its members or the send fails or stays unanswered.
SendFails ==
  /\ at \in {"check", "wire"}
  /\ Fault
  /\ Answer(0)
  /\ UNCHANGED <<client, pipe, outbox, server, file>>

\* The process dies; its client fails every call and starts another process.
Crash ==
  /\ Fault
  /\ pending' = [i \in Ids |-> NoCall]
  /\ pipe' = <<>>
  /\ out' = <<>>
  /\ work' = Idle
  /\ at' = "idle"
  /\ cur' = None
  /\ left' = {}
  /\ UNCHANGED <<recalled, outbox, server, file>>

(***************************************************************************)
(* The server and the surroundings.                                        *)
(***************************************************************************)
\* A request reaches the server: a new event, unless the transaction is known.
Accept(req) ==
  /\ req \in wire
  /\ wire' = wire \ {req}
  /\ log' = IF EventOf(req.key, req.msg.room) = 0
              THEN Append(log, req) ELSE log
  /\ UNCHANGED <<client, pipe, out, outbox, runtime, open, file, faults>>

\* The recipient accepts the request.
Join(r) ==
  /\ r \notin open
  /\ open' = open \cup {r}
  /\ UNCHANGED <<client, pipe, out, outbox, runtime, wire, log, file, faults>>

\* Somebody rewrites the attached file.
Edit(v) ==
  /\ v # file
  /\ Fault
  /\ file' = v
  /\ UNCHANGED <<client, pipe, out, outbox, runtime, server>>

Runtime ==
  \/ Take \/ Send \/ Upload \/ CancelSend \/ Flush \/ FlushNext \/ FlushDone
  \/ Transmit \/ Refuse \/ Receive

Next ==
  \/ \E k \in Keys, m \in [room : Rooms, body : Texts] : CallSend(k, m)
  \/ \E k \in Keys, r \in Rooms : CallUpload(k, r)
  \/ \E k \in Keys : CallCancel(k)
  \/ CallFlush
  \/ \E i \in Ids : TimeOut(i)
  \/ Hear
  \/ Runtime
  \/ Unreadable
  \/ SendFails
  \/ Crash
  \/ \E req \in wire : Accept(req)
  \/ \E r \in Rooms : Join(r)
  \/ \E v \in Versions : Edit(v)

Spec == Init /\ [][Next]_vars

\* The runtime handles what it is given, its client reads what it writes, the
\* server answers the request a call waits for, and the application calls
\* flush again and again, as a timed out call tells it to.
Fairness ==
  /\ WF_vars(Runtime)
  /\ WF_vars(Hear)
  /\ WF_vars(Accept(cur))
  /\ SF_vars(CallFlush)
FairSpec == Spec /\ Fairness

-----------------------------------------------------------------------------
TypeOK ==
  /\ pending \in [Ids -> Call \cup {NoCall}]
  /\ pipe \in Seq([id : Ids, call : Call])
  /\ out \in Seq([id : Ids, event : 0 .. Len(log)])
  /\ row \in [Keys -> Message \cup {None}]
  /\ event \in [Keys -> 0 .. Len(log)]
  /\ before \subseteq Keys \X Keys
  /\ \A k \in Keys : <<k, k>> \notin before
  /\ work \in [id : Ids, call : Call] \cup {Idle}
  /\ at \in {"idle", "start", "flush", "check", "wire"}
  /\ cur \in Request \cup {None}
  /\ left \subseteq Keys
  /\ wire \subseteq Request
  /\ log \in Seq(Request)
  /\ open \subseteq Rooms
  /\ file \in Versions
  /\ recalled \subseteq Keys
  /\ faults \in 0 .. MaxFaults

(* The event an outbox row was accepted as holds that row's message: a key *)
(* never stands for a message other than the one the server stored (Store  *)
(* ::enqueue with the server's transaction of the same key).               *)
NeverReplaced ==
  \A k \in Keys : event[k] # 0 => log[event[k]] = [key |-> k, msg |-> row[k]]

(* However often a message is sent again, after lost answers, crashes and  *)
(* concurrent calls, the server stores it at most once.                    *)
StoredOnce ==
  \A i, j \in DOMAIN log : log[i].key = log[j].key => i = j

(* A message reaches the network only after it is in the durable outbox,   *)
(* so nothing the server has can be unknown to the sender after a crash.   *)
PersistedFirst ==
  \A req \in wire \cup {log[n] : n \in DOMAIN log} :
    row[req.key] = req.msg \/ req.key \in recalled

(* An answer that a caller takes for its own names an event of the key and *)
(* room it asked for, also when earlier calls timed out and their answers  *)
(* arrive late.                                                            *)
AnswersMatch ==
  \A n \in DOMAIN out :
    LET call == pending[out[n].id] IN
    out[n].event # 0 /\ call.op \in {"send", "upload"} =>
      /\ log[out[n].event].key = call.key
      /\ call.op = "send" => log[out[n].event].msg = call.msg
      /\ call.op = "upload" => log[out[n].event].msg.room = call.room

(* An accepted message stays accepted as the same event: neither a later   *)
(* cancel_send nor a repeated send takes it back.                          *)
AcceptedIsFinal ==
  [][\A k \in Keys : event[k] # 0 => event'[k] = event[k] /\ row'[k] = row[k]]_vars

\* A pending attachment whose file was rewritten since.
Outdated == \E k \in Keys : /\ row[k] # None /\ event[k] = 0
                            /\ row[k].body \in Versions \ {file}

(* With flush called again and again, every recipient having accepted its  *)
(* invitation and no pending attachment rewritten, each pending message is *)
(* accepted, or somebody cancels it.                                       *)
ResumedOnceOpen ==
  \A k \in Keys : (row[k] # None /\ open = Rooms)
                    ~> (event[k] # 0 \/ row[k] = None \/ Outdated)

(* With flush called again and again every pending message of a room that  *)
(* accepts it is accepted, or somebody cancels it, whatever is pending for *)
(* other rooms.                                                            *)
Resumed ==
  \A k \in Keys :
    (row[k] # None /\ row[k].room \notin Waiting) ~> (event[k] # 0 \/ row[k] = None)

=============================================================================
