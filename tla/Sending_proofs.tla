--------------------------- MODULE Sending_proofs --------------------------
(***************************************************************************)
(* Proofs about Outbox and about Echo, which answers what is sent to it,   *)
(* for every set of keys, rooms, bodies and messages and every bound.      *)
(*                                                                         *)
(* TypeInv is inductive by itself.  The other theorems rest on OutboxInv:  *)
(* every request on the wire or in the server's log is its key's row, or   *)
(* that key is gone for good (GoneInv), which holds because no send of a   *)
(* key can be in the pipe behind its cancellation (CancelInv).  It needs   *)
(* an application that does not send again under a key it cancelled.       *)
(* AnswersMatch needs CallsInv: which call each answer in the pipe is for. *)
(* EchoInv ties the stage of Echo's pass to the item it works on.          *)
(***************************************************************************)
EXTENDS Outbox, Echo, SequenceTheorems, TLAPS

\* A call that sends under key k, and one that cancels it.
Uses(c, k)    == c.op \in {"send", "upload"} /\ c.key = k
Cancels(c, k) == c.op = "cancel" /\ c.key = k

\* What the server has or may still receive.
SentRequests == wire \cup {log[n] : n \in DOMAIN log}

\* No call that is left sends under the cancelled key k.
Gone(k) ==
  /\ row[k] = None
  /\ k \in recalled
  /\ ~Uses(work.call, k)
  /\ \A n \in DOMAIN pipe : ~Uses(pipe[n].call, k)

\* The runtime is at an await exactly while it handles a call, and the keys
\* flush has left have their rows.
StageInv ==
  /\ at = "idle" <=> work = Idle
  /\ cur # None <=> at \in {"check", "wire"}
  /\ left # {} => at \in {"flush", "check", "wire"} /\ work.call.op = "flush"
  /\ at \in {"check", "wire"} => work.call.op \in {"send", "upload", "flush"}
  /\ at = "flush" => work.call.op = "flush"
  /\ \A k \in left : row[k] # None

\* The key being sent has its row, not accepted yet.
RowInv == cur # None => row[cur.key] = cur.msg /\ event[cur.key] = 0

\* Behind the cancellation of a key no call sends under it.
CancelInv ==
  \A k \in Keys :
    /\ Cancels(work.call, k) =>
         k \in recalled /\ \A m \in DOMAIN pipe : ~Uses(pipe[m].call, k)
    /\ \A n \in DOMAIN pipe : Cancels(pipe[n].call, k) =>
         k \in recalled /\ \A m \in DOMAIN pipe : m > n => ~Uses(pipe[m].call, k)

\* Every request is its key's row, unless the key is gone.
RequestInv ==
  /\ \A req \in SentRequests : row[req.key] = req.msg \/ Gone(req.key)
  /\ \A q, req \in SentRequests : q.key = req.key => q.msg = req.msg

TypeInv == TypeOK /\ StageInv
CoreInv == RowInv /\ CancelInv /\ RequestInv /\ NeverReplaced /\ StoredOnce
OutboxInv == TypeInv /\ CoreInv

-----------------------------------------------------------------------------
(***************************************************************************)
(* Types.                                                                  *)
(***************************************************************************)
\* The call being handled is one the client made.
LEMMA WorkType ==
  ASSUME TypeInv, at # "idle"
  PROVE  work.id \in Ids /\ work.call \in Call
BY DEF TypeInv, TypeOK, StageInv

\* What the operations of a call name.
LEMMA CallFields ==
  ASSUME NEW c \in Call
  PROVE  /\ c.op = "send" => c.key \in Keys /\ c.msg \in Message
         /\ c.op = "upload" => c.key \in Keys /\ c.room \in Rooms
         /\ c.op = "cancel" => c.key \in Keys
         /\ c.op \in {"send", "upload", "cancel", "flush"}
BY DEF Call

\* The event of a transaction is an event of the log, or 0.
LEMMA EventOfType ==
  ASSUME TypeOK, NEW k, NEW r
  PROVE  /\ EventOf(k, r) \in 0 .. Len(log)
         /\ EventOf(k, r) # 0 =>
              /\ EventOf(k, r) \in DOMAIN log
              /\ log[EventOf(k, r)].key = k /\ log[EventOf(k, r)].msg.room = r
         /\ EventOf(k, r) = 0 =>
              \A n \in DOMAIN log : ~(log[n].key = k /\ log[n].msg.room = r)
<1>. DEFINE made == {n \in DOMAIN log : log[n].key = k /\ log[n].msg.room = r}
<1>1. log \in Seq(Request) /\ Len(log) \in Nat /\ DOMAIN log = 1 .. Len(log)
  BY DEF TypeOK
<1>2. CASE made = {}
  <2>1. EventOf(k, r) = 0
    BY <1>2 DEF EventOf
  <2>. QED
    BY <1>1, <1>2, <2>1
<1>3. CASE made # {}
  <2>1. EventOf(k, r) = CHOOSE n \in made : TRUE
    BY <1>3 DEF EventOf
  <2>2. EventOf(k, r) \in made
    BY <1>3, <2>1
  <2>. QED
    BY <1>1, <2>2
<1>. QED
  BY <1>2, <1>3

\* The length of the log is a number, and so is the absent event below it.
LEMMA LenType == TypeOK => Len(log) \in Nat /\ 0 \in 0 .. Len(log)
BY DEF TypeOK

\* An answer leaves the runtime idle and is one the client can read.
LEMMA AnswerType ==
  ASSUME TypeInv, at # "idle", NEW e \in 0 .. Len(log), Answer(e), UNCHANGED log
  PROVE  /\ out' \in Seq([id : Ids, event : 0 .. Len(log')])
         /\ work' = Idle /\ at' = "idle" /\ cur' = None /\ left' = {}
<1>1. [id |-> work.id, event |-> e] \in [id : Ids, event : 0 .. Len(log)]
  BY WorkType
<1>2. out \in Seq([id : Ids, event : 0 .. Len(log)])
  BY DEF TypeInv, TypeOK
<1>3. out' \in Seq([id : Ids, event : 0 .. Len(log)])
  BY <1>1, <1>2 DEF Answer
<1>. QED
  BY <1>3 DEF Answer

\* enqueue with a key and a message keeps every type.
LEMMA BeginType ==
  ASSUME TypeInv, at \in {"start", "flush"}, work.call.op \in {"send", "upload", "flush"},
         NEW k \in Keys, NEW m \in Message, Begin(k, m)
  PROVE  TypeInv'
<1>. USE OutboxAssumption
<1>1. UNCHANGED <<event, client, pipe, server, file, faults>>
  BY DEF Begin
<1>2. event[k] \in 0 .. Len(log) /\ Len(log) \in Nat /\ 0 \in 0 .. Len(log)
  BY LenType DEF TypeInv, TypeOK
<1>3. CASE Conflict(k, m) /\ Answer(0) /\ UNCHANGED <<row, before>>
  <2>1. /\ out' \in Seq([id : Ids, event : 0 .. Len(log')])
        /\ work' = Idle /\ at' = "idle" /\ cur' = None /\ left' = {}
    BY <1>1, <1>2, <1>3, AnswerType DEF server
  <2>. QED
    BY <1>1, <1>3, <2>1 DEF TypeInv, TypeOK, StageInv, client, server, Idle
<1>4. CASE event[k] # 0 /\ Accepted(k, event[k]) /\ UNCHANGED <<row, before>>
  <2>1. CASE Answer(event[k])
    <3>1. /\ out' \in Seq([id : Ids, event : 0 .. Len(log')])
          /\ work' = Idle /\ at' = "idle" /\ cur' = None /\ left' = {}
      BY <1>1, <1>2, <2>1, AnswerType DEF server
    <3>. QED
      BY <1>1, <1>4, <3>1 DEF TypeInv, TypeOK, StageInv, client, server
  <2>2. CASE /\ work.call.op = "flush" /\ at' = "flush" /\ cur' = None
             /\ left' = left \ {k} /\ UNCHANGED <<out, work>>
    BY <1>1, <1>4, <2>2 DEF TypeInv, TypeOK, StageInv, client, server, Idle, NoCall
  <2>. QED
    BY <1>4, <2>1, <2>2 DEF Accepted
<1>5. CASE /\ Insert(k, m) /\ cur' = [key |-> k, msg |-> m] /\ at' = "check"
           /\ UNCHANGED <<out, work, left>>
  <2>1. row' \in [Keys -> Message \cup {None}]
    BY <1>5 DEF TypeInv, TypeOK, Insert
  <2>2. before' \subseteq Keys \X Keys /\ \A j \in Keys : <<j, j>> \notin before'
    BY <1>5 DEF TypeInv, TypeOK, Insert, Stored
  <2>3. cur' \in Request /\ cur' # None
    BY <1>5 DEF Request
  <2>4. \A j \in left' : row'[j] # None
    BY <1>5 DEF TypeInv, TypeOK, StageInv, Insert
  <2>. QED
    BY <1>1, <1>5, <2>1, <2>2, <2>3, <2>4 DEF TypeInv, TypeOK, StageInv, client, server
<1>. QED
  BY <1>3, <1>4, <1>5 DEF Begin

\* What the server has or may receive is a request of some key.
LEMMA RequestType ==
  ASSUME TypeOK
  PROVE  \A req \in SentRequests : req \in Request /\ req.key \in Keys /\ req.msg \in Message
<1>1. \A n \in DOMAIN log : log[n] \in Request
  BY DEF TypeOK
<1>2. \A req \in SentRequests : req \in Request
  BY <1>1 DEF SentRequests, TypeOK
<1>. QED
  BY <1>2 DEF Request

\* The initial state is well typed.
THEOREM TypeInit == Init => TypeInv
<1>. SUFFICES ASSUME Init PROVE TypeInv
  OBVIOUS
<1>. USE OutboxAssumption
<1>1. log = <<>> /\ Len(log) = 0
  BY DEF Init
<1>2. pending \in [Ids -> Call \cup {NoCall}] /\ event \in [Keys -> 0 .. Len(log)]
  BY <1>1 DEF Init
<1>3. TypeOK
  BY <1>1, <1>2 DEF Init, TypeOK
<1>4. StageInv
  BY DEF Init, StageInv, Idle, NoCall
<1>. QED
  BY <1>3, <1>4 DEF TypeInv

\* A call issued by the application keeps every type.
LEMMA IssueType ==
  ASSUME TypeInv, NEW c \in Call, Issue(c), recalled' \subseteq Keys
  PROVE  TypeInv'
<1>1. PICK i \in Unused :
        /\ pending' = [pending EXCEPT ![i] = c]
        /\ pipe' = Append(pipe, [id |-> i, call |-> c])
        /\ UNCHANGED <<out, outbox, runtime, server, file, faults>>
  BY DEF Issue
<1>2. i \in Ids
  BY DEF Unused
<1>3. [id |-> i, call |-> c] \in [id : Ids, call : Call]
  BY <1>2
<1>4. pipe' \in Seq([id : Ids, call : Call])
  BY <1>1, <1>3 DEF TypeInv, TypeOK
<1>5. pending' \in [Ids -> Call \cup {NoCall}]
  BY <1>1, <1>2 DEF TypeInv, TypeOK
<1>. QED
  BY <1>1, <1>4, <1>5 DEF TypeInv, TypeOK, StageInv, outbox, runtime, server

\* Every step keeps every type.
LEMMA TypeStep == TypeInv /\ [Next]_vars => TypeInv'
<1>. SUFFICES ASSUME TypeInv, [Next]_vars PROVE TypeInv'
  OBVIOUS
<1>. USE OutboxAssumption
<1>1. ASSUME NEW k \in Keys, NEW m \in [room : Rooms, body : Texts], CallSend(k, m)
      PROVE  TypeInv'
  <2>1. [op |-> "send", key |-> k, msg |-> m] \in Call
    BY DEF Call, Message, Bodies
  <2>. QED
    BY <1>1, <2>1, IssueType DEF CallSend, TypeInv, TypeOK
<1>2. ASSUME NEW k \in Keys, NEW r \in Rooms, CallUpload(k, r) PROVE TypeInv'
  <2>1. [op |-> "upload", key |-> k, room |-> r] \in Call
    BY DEF Call
  <2>. QED
    BY <1>2, <2>1, IssueType DEF CallUpload, TypeInv, TypeOK
<1>3. ASSUME NEW k \in Keys, CallCancel(k) PROVE TypeInv'
  <2>1. [op |-> "cancel", key |-> k] \in Call
    BY DEF Call
  <2>. QED
    BY <1>3, <2>1, IssueType DEF CallCancel, TypeInv, TypeOK
<1>4. CASE CallFlush
  <2>1. [op |-> "flush"] \in Call
    BY DEF Call
  <2>. QED
    BY <1>4, <2>1, IssueType DEF CallFlush, TypeInv, TypeOK
<1>5. ASSUME NEW i \in Ids, TimeOut(i) PROVE TypeInv'
  <2>1. pending' \in [Ids -> Call \cup {NoCall}]
    BY <1>5 DEF TimeOut, TypeInv, TypeOK
  <2>. QED
    BY <1>5, <2>1 DEF TimeOut, Fault, TypeInv, TypeOK, StageInv, outbox, runtime, server
<1>6. CASE Hear
  <2>1. pending' \in [Ids -> Call \cup {NoCall}]
    BY <1>6 DEF Hear, TypeInv, TypeOK
  <2>2. out' \in Seq([id : Ids, event : 0 .. Len(log)])
    BY <1>6 DEF Hear, TypeInv, TypeOK
  <2>. QED
    BY <1>6, <2>1, <2>2 DEF Hear, TypeInv, TypeOK, StageInv, outbox, runtime, server
<1>7. CASE Take
  <2>1. work' \in [id : Ids, call : Call] /\ pipe' \in Seq([id : Ids, call : Call])
    BY <1>7, HeadTailProperties DEF Take, TypeInv, TypeOK
  <2>2. work' # Idle
    BY <2>1 DEF Idle, Ids
  <2>. QED
    BY <1>7, <2>1, <2>2 DEF Take, TypeInv, TypeOK, StageInv, client, outbox, server
<1>8. CASE Send
  <2>1. work.call.key \in Keys /\ work.call.msg \in Message
    BY <1>8, WorkType, CallFields DEF Send
  <2>. QED
    BY <1>8, <2>1, BeginType DEF Send
<1>9. CASE Upload
  <2>1. work.call.key \in Keys /\ work.call.room \in Rooms
    BY <1>9, WorkType, CallFields DEF Upload
  <2>2. [room |-> work.call.room, body |-> file] \in Message
    BY <2>1 DEF TypeInv, TypeOK, Message, Bodies
  <2>. QED
    BY <1>9, <2>1, <2>2, BeginType DEF Upload
<1>10. CASE CancelSend
  <2>. DEFINE gone == {k \in {work.call.key} : Cancellable(k)}
  <2>1. /\ row' = [k \in Keys |-> IF k \in gone THEN None ELSE row[k]]
        /\ event' = [k \in Keys |-> IF k \in gone THEN 0 ELSE event[k]]
        /\ before' = {p \in before : p[1] \notin gone /\ p[2] \notin gone}
        /\ Answer(0) /\ UNCHANGED <<client, pipe, server, file, faults>>
        /\ at = "start"
    BY <1>10 DEF CancelSend
  <2>2. 0 \in 0 .. Len(log) /\ at # "idle" /\ UNCHANGED log
    BY <2>1, LenType DEF TypeInv, server
  <2>3. /\ out' \in Seq([id : Ids, event : 0 .. Len(log')])
        /\ work' = Idle /\ at' = "idle" /\ cur' = None /\ left' = {}
    BY <2>1, <2>2, AnswerType
  <2>4. row' \in [Keys -> Message \cup {None}] /\ event' \in [Keys -> 0 .. Len(log')]
    BY <2>1, <2>2 DEF TypeInv, TypeOK
  <2>5. before' \subseteq Keys \X Keys /\ \A k \in Keys : <<k, k>> \notin before'
    BY <2>1 DEF TypeInv, TypeOK
  <2>. HIDE DEF gone
  <2>. QED
    BY <2>1, <2>3, <2>4, <2>5 DEF TypeInv, TypeOK, StageInv, client, server, Idle
<1>11. CASE Flush
  <2>1. left' \subseteq Keys /\ cur = None /\ \A k \in left' : row[k] # None
    BY <1>11 DEF Flush, Pending, Stored, TypeInv, StageInv
  <2>. QED
    BY <1>11, <2>1 DEF Flush, TypeInv, TypeOK, StageInv, client, outbox, server, Idle, NoCall
<1>12. CASE FlushNext
  <2>1. PICK k \in First :
          Begin(k, [row[k] EXCEPT !.body = IF @ \in Versions THEN file ELSE @])
    BY <1>12 DEF FlushNext
  <2>2. at = "flush" /\ work.call.op = "flush" /\ k \in Keys /\ k \in left
    BY <1>12, <2>1 DEF FlushNext, First, TypeInv, TypeOK, StageInv
  <2>3. row[k] \in Message
    BY <2>2 DEF Stored, TypeInv, TypeOK, StageInv
  <2>4. [row[k] EXCEPT !.body = IF @ \in Versions THEN file ELSE @] \in Message
    BY <2>3 DEF Message, Bodies, TypeInv, TypeOK
  <2>. QED
    BY <2>1, <2>2, <2>4, BeginType
<1>13. CASE FlushDone
  <2>1. at # "idle" /\ 0 \in 0 .. Len(log) /\ Answer(0) /\ UNCHANGED log
    BY <1>13, LenType DEF FlushDone, TypeInv, server
  <2>2. /\ out' \in Seq([id : Ids, event : 0 .. Len(log')])
        /\ work' = Idle /\ at' = "idle" /\ cur' = None /\ left' = {}
    BY <2>1, AnswerType
  <2>. QED
    BY <1>13, <2>2 DEF FlushDone, TypeInv, TypeOK, StageInv, client, outbox, server, Idle
<1>14. CASE Transmit
  <2>1. wire' \subseteq Request /\ cur # None
    BY <1>14 DEF Transmit, TypeInv, TypeOK, StageInv
  <2>. QED
    BY <1>14, <2>1 DEF Transmit, TypeInv, TypeOK, StageInv, client, outbox
<1>15. CASE Refuse
  <2>1. at # "idle" /\ 0 \in 0 .. Len(log) /\ Answer(0) /\ UNCHANGED log
    BY <1>15, LenType DEF Refuse, TypeInv, server
  <2>2. /\ out' \in Seq([id : Ids, event : 0 .. Len(log')])
        /\ work' = Idle /\ at' = "idle" /\ cur' = None /\ left' = {}
    BY <2>1, AnswerType
  <2>. QED
    BY <1>15, <2>2 DEF Refuse, TypeInv, TypeOK, StageInv, client, outbox, server, Idle
<1>16. CASE Receive
  <2>. DEFINE e == EventOf(cur.key, cur.msg.room)
  <2>1. /\ at = "wire" /\ Sent(cur.key, e) /\ Accepted(cur.key, e)
        /\ UNCHANGED <<client, pipe, row, before, server, file, faults>>
    BY <1>16 DEF Receive
  <2>2. e \in 0 .. Len(log)
    BY EventOfType DEF TypeInv
  <2>3. event' \in [Keys -> 0 .. Len(log')]
    BY <2>1, <2>2 DEF Sent, TypeInv, TypeOK, server
  <2>. HIDE DEF e
  <2>4. CASE Answer(e)
    <3>1. /\ out' \in Seq([id : Ids, event : 0 .. Len(log')])
          /\ work' = Idle /\ at' = "idle" /\ cur' = None /\ left' = {}
      BY <2>1, <2>2, <2>4, AnswerType DEF server
    <3>. QED
      BY <2>1, <2>3, <3>1 DEF TypeInv, TypeOK, StageInv, client, server, Idle
  <2>5. CASE /\ work.call.op = "flush" /\ at' = "flush" /\ cur' = None
             /\ left' = left \ {cur.key} /\ UNCHANGED <<out, work>>
    BY <2>1, <2>3, <2>5 DEF TypeInv, TypeOK, StageInv, client, server, Idle, NoCall
  <2>. QED
    BY <2>1, <2>4, <2>5 DEF Accepted
<1>17. CASE Unreadable \/ SendFails
  <2>1. /\ at # "idle" /\ Answer(0) /\ Fault
        /\ UNCHANGED <<client, pipe, outbox, server, file>>
    BY <1>17 DEF Unreadable, SendFails
  <2>2. 0 \in 0 .. Len(log) /\ UNCHANGED log
    BY <2>1, LenType DEF TypeInv, server
  <2>3. /\ out' \in Seq([id : Ids, event : 0 .. Len(log')])
        /\ work' = Idle /\ at' = "idle" /\ cur' = None /\ left' = {}
    BY <2>1, <2>2, AnswerType
  <2>. QED
    BY <2>1, <2>3 DEF Fault, TypeInv, TypeOK, StageInv, client, outbox, server, Idle
<1>18. CASE Crash
  <2>1. pending' \in [Ids -> Call \cup {NoCall}] /\ pipe' = <<>> /\ out' = <<>>
    BY <1>18 DEF Crash
  <2>. QED
    BY <1>18, <2>1 DEF Crash, Fault, TypeInv, TypeOK, StageInv, outbox, server
<1>19. ASSUME NEW req \in wire, Accept(req) PROVE TypeInv'
  <2>1. log' \in Seq(Request) /\ Len(log') \in Nat /\ Len(log) <= Len(log')
    BY <1>19 DEF Accept, TypeInv, TypeOK
  <2>2. event' \in [Keys -> 0 .. Len(log')]
    BY <1>19, <2>1, LenType DEF Accept, TypeInv, TypeOK, outbox
  <2>3. out' \in Seq([id : Ids, event : 0 .. Len(log')])
    <3>1. out \in Seq([id : Ids, event : 0 .. Len(log)]) /\ Len(log) \in Nat /\ out' = out
      BY <1>19, LenType DEF Accept, TypeInv, TypeOK
    <3>2. [id : Ids, event : 0 .. Len(log)] \subseteq [id : Ids, event : 0 .. Len(log')]
      BY <2>1, <3>1
    <3>. QED
      BY <3>1, <3>2, SeqMonotonic
  <2>. QED
    BY <1>19, <2>1, <2>2, <2>3 DEF Accept, TypeInv, TypeOK, StageInv, client, outbox, runtime
<1>20. ASSUME NEW r \in Rooms, Join(r) PROVE TypeInv'
  BY <1>20 DEF Join, TypeInv, TypeOK, StageInv, client, outbox, runtime
<1>21. ASSUME NEW v \in Versions, Edit(v) PROVE TypeInv'
  BY <1>21 DEF Edit, Fault, TypeInv, TypeOK, StageInv, client, outbox, runtime, server
<1>22. CASE UNCHANGED vars
  BY <1>22 DEF vars, TypeInv, TypeOK, StageInv, client, outbox, runtime, server
<1>. QED
  BY <1>1, <1>2, <1>3, <1>4, <1>5, <1>6, <1>7, <1>8, <1>9, <1>10, <1>11, <1>12,
     <1>13, <1>14, <1>15, <1>16, <1>17, <1>18, <1>19, <1>20, <1>21, <1>22
     DEF Next, Runtime

\* Every variable of the outbox, its client and the server keeps its type.
THEOREM TypeCorrect == Spec => []TypeOK
<1>1. TypeInv => TypeOK
  BY DEF TypeInv
<1>. QED
  BY <1>1, TypeInit, TypeStep, PTL DEF Spec

-----------------------------------------------------------------------------
(***************************************************************************)
(* The outbox and the server agree.                                        *)
(***************************************************************************)
\* A step that only ends the sending of a message.
LEMMA EndStep ==
  ASSUME OutboxInv, cur' = None, work' = Idle \/ work' = work,
         UNCHANGED <<row, event, wire, log, pipe, recalled>>
  PROVE  CoreInv'
<1>1. \A k : Uses(work'.call, k) => Uses(work.call, k)
  BY DEF Uses, Idle, NoCall
<1>2. \A k : Cancels(work'.call, k) => Cancels(work.call, k)
  BY DEF Cancels, Idle, NoCall
<1>3. RowInv' /\ NeverReplaced' /\ StoredOnce'
  BY DEF OutboxInv, CoreInv, RowInv, NeverReplaced, StoredOnce
<1>4. CancelInv'
  BY <1>2 DEF OutboxInv, CoreInv, CancelInv
<1>5. \A k : Gone(k) => Gone(k)'
  BY <1>1 DEF Gone
<1>6. RequestInv'
  BY <1>5 DEF OutboxInv, CoreInv, RequestInv, SentRequests
<1>. QED
  BY <1>3, <1>4, <1>6 DEF CoreInv

\* A call that uses no cancelled key joins the pipe.
LEMMA IssueStep ==
  ASSUME OutboxInv, NEW c \in Call, Issue(c), recalled \subseteq recalled',
         \A k \in Keys : Uses(c, k) => k \notin recalled',
         \A k \in Keys : Cancels(c, k) => k \in recalled'
  PROVE  CoreInv'
<1>1. PICK i \in Unused :
        /\ pipe' = Append(pipe, [id |-> i, call |-> c])
        /\ UNCHANGED <<outbox, runtime, server>>
  BY DEF Issue
<1>2. i \in Ids /\ [id |-> i, call |-> c] \in [id : Ids, call : Call]
  BY DEF Unused
<1>3. pipe \in Seq([id : Ids, call : Call])
  BY DEF OutboxInv, TypeInv, TypeOK
<1>4. /\ Len(pipe) \in Nat /\ Len(pipe') = Len(pipe) + 1
      /\ DOMAIN pipe = 1 .. Len(pipe) /\ DOMAIN pipe' = 1 .. Len(pipe')
      /\ \A n \in DOMAIN pipe : pipe'[n] = pipe[n]
      /\ pipe'[Len(pipe')].call = c
  BY <1>1, <1>2, <1>3, AppendProperties, LenProperties
<1>5. UNCHANGED <<row, event, cur, work, wire, log>>
  BY <1>1 DEF outbox, runtime, server
<1>6. RowInv' /\ NeverReplaced' /\ StoredOnce'
  BY <1>5 DEF OutboxInv, CoreInv, RowInv, NeverReplaced, StoredOnce
<1>7. CancelInv'
  <2>. SUFFICES ASSUME NEW k \in Keys
       PROVE /\ Cancels(work'.call, k) =>
                  k \in recalled' /\ \A m \in DOMAIN pipe' : ~Uses(pipe'[m].call, k)
             /\ \A n \in DOMAIN pipe' : Cancels(pipe'[n].call, k) =>
                  k \in recalled' /\ \A m \in DOMAIN pipe' : m > n => ~Uses(pipe'[m].call, k)
    BY DEF CancelInv
  <2>1. Cancels(work'.call, k) =>
          k \in recalled' /\ \A m \in DOMAIN pipe' : ~Uses(pipe'[m].call, k)
    BY <1>4, <1>5 DEF OutboxInv, CoreInv, CancelInv
  <2>2. ASSUME NEW n \in DOMAIN pipe', Cancels(pipe'[n].call, k)
        PROVE  k \in recalled' /\ \A m \in DOMAIN pipe' : m > n => ~Uses(pipe'[m].call, k)
    <3>1. CASE n = Len(pipe')
      BY <1>4, <2>2, <3>1
    <3>2. CASE n # Len(pipe')
      <4>1. n \in DOMAIN pipe /\ Cancels(pipe[n].call, k)
        BY <1>4, <2>2, <3>2
      <4>2. k \in recalled /\ \A m \in DOMAIN pipe : m > n => ~Uses(pipe[m].call, k)
        BY <4>1 DEF OutboxInv, CoreInv, CancelInv
      <4>. QED
        BY <1>4, <4>2
    <3>. QED
      BY <3>1, <3>2
  <2>. QED
    BY <2>1, <2>2
<1>8. \A k \in Keys : Gone(k) => Gone(k)'
  BY <1>4, <1>5 DEF Gone
<1>9. RequestInv'
  BY <1>5, <1>8, RequestType DEF OutboxInv, TypeInv, CoreInv, RequestInv, SentRequests
<1>. QED
  BY <1>6, <1>7, <1>9 DEF CoreInv

\* The first call leaves the pipe.
LEMMA TakeStep == OutboxInv /\ Take => CoreInv'
<1>. SUFFICES ASSUME OutboxInv, Take PROVE CoreInv'
  OBVIOUS
<1>1. /\ work = Idle /\ work' = Head(pipe) /\ pipe' = Tail(pipe) /\ pipe # <<>>
      /\ UNCHANGED <<row, event, cur, wire, log, recalled>>
  BY DEF Take, OutboxInv, TypeInv, StageInv, client, outbox, server
<1>2. pipe \in Seq([id : Ids, call : Call])
  BY DEF OutboxInv, TypeInv, TypeOK
<1>3. /\ Len(pipe) \in Nat /\ Len(pipe') = Len(pipe) - 1 /\ 1 \in DOMAIN pipe
      /\ DOMAIN pipe = 1 .. Len(pipe) /\ DOMAIN pipe' = 1 .. Len(pipe')
      /\ \A n \in DOMAIN pipe' : n + 1 \in DOMAIN pipe /\ pipe'[n] = pipe[n + 1]
      /\ work' = pipe[1]
  BY <1>1, <1>2, HeadTailProperties, LenProperties, EmptySeq
<1>4. RowInv' /\ NeverReplaced' /\ StoredOnce'
  BY <1>1 DEF OutboxInv, CoreInv, RowInv, NeverReplaced, StoredOnce
<1>5. CancelInv'
  <2>. SUFFICES ASSUME NEW k \in Keys
       PROVE /\ Cancels(work'.call, k) =>
                  k \in recalled' /\ \A m \in DOMAIN pipe' : ~Uses(pipe'[m].call, k)
             /\ \A n \in DOMAIN pipe' : Cancels(pipe'[n].call, k) =>
                  k \in recalled' /\ \A m \in DOMAIN pipe' : m > n => ~Uses(pipe'[m].call, k)
    BY DEF CancelInv
  <2>1. \A n \in DOMAIN pipe : Cancels(pipe[n].call, k) =>
          k \in recalled /\ \A m \in DOMAIN pipe : m > n => ~Uses(pipe[m].call, k)
    BY DEF OutboxInv, CoreInv, CancelInv
  <2>. QED
    BY <1>1, <1>3, <2>1
<1>6. \A k \in Keys : Gone(k) => Gone(k)'
  BY <1>1, <1>3 DEF Gone
<1>7. RequestInv'
  BY <1>1, <1>6, RequestType DEF OutboxInv, TypeInv, CoreInv, RequestInv, SentRequests
<1>. QED
  BY <1>4, <1>5, <1>7 DEF CoreInv

\* enqueue, for a key the handled call sends under or flush found pending.
LEMMA BeginStep ==
  ASSUME OutboxInv, at \in {"start", "flush"}, NEW k \in Keys, NEW m \in Message,
         Uses(work.call, k) \/ row[k] # None, Begin(k, m)
  PROVE  CoreInv'
<1>. USE OutboxAssumption
<1>1. UNCHANGED <<event, wire, log, pipe, recalled>>
  BY DEF Begin, client, server
<1>2. CASE UNCHANGED <<row, before>> /\ (Answer(0) \/ Accepted(k, event[k]))
  <2>1. cur' = None /\ (work' = Idle \/ work' = work)
    BY <1>2 DEF Answer, Accepted
  <2>. QED
    BY <1>1, <1>2, <2>1, EndStep
<1>3. CASE /\ ~Conflict(k, m) /\ event[k] = 0 /\ Insert(k, m)
           /\ cur' = [key |-> k, msg |-> m] /\ UNCHANGED <<work, left>>
  <2>1. /\ row \in [Keys -> Message \cup {None}] /\ row' = [row EXCEPT ![k] = m]
        /\ row[k] \in {None, m} /\ None \notin Message
    BY <1>3 DEF Conflict, Insert, OutboxInv, TypeInv, TypeOK
  <2>2. RowInv'
    BY <1>1, <1>3, <2>1 DEF RowInv
  <2>3. NeverReplaced'
    BY <1>1, <1>3, <2>1 DEF NeverReplaced, OutboxInv, CoreInv
  <2>4. StoredOnce' /\ CancelInv'
    BY <1>1, <1>3 DEF StoredOnce, CancelInv, OutboxInv, CoreInv
  <2>5. ASSUME NEW req \in SentRequests PROVE row'[req.key] = req.msg \/ Gone(req.key)'
    <3>1. req.key \in Keys /\ req.msg \in Message
      BY RequestType DEF OutboxInv, TypeInv
    <3>2. row[req.key] = req.msg \/ Gone(req.key)
      BY DEF OutboxInv, CoreInv, RequestInv
    <3>3. CASE req.key = k
      BY <2>1, <3>1, <3>2, <3>3 DEF Gone
    <3>4. CASE req.key # k
      <4>1. row'[req.key] = row[req.key]
        BY <2>1, <3>1, <3>4
      <4>. QED
        BY <1>1, <1>3, <3>2, <4>1 DEF Gone
    <3>. QED
      BY <3>3, <3>4
  <2>6. SentRequests' = SentRequests
    BY <1>1 DEF SentRequests
  <2>7. RequestInv'
    BY <2>5, <2>6 DEF RequestInv, OutboxInv, CoreInv
  <2>. QED
    BY <2>2, <2>3, <2>4, <2>7 DEF CoreInv
<1>. QED
  BY <1>2, <1>3 DEF Begin

\* cancel_send: nothing that is left sends under the deleted key.
LEMMA CancelStep == OutboxInv /\ CancelSend => CoreInv'
<1>. SUFFICES ASSUME OutboxInv, CancelSend PROVE CoreInv'
  OBVIOUS
<1>. DEFINE c == work.call.key
            gone == {k \in {c} : Cancellable(k)}
<1>1. /\ row' = [k \in Keys |-> IF k \in gone THEN None ELSE row[k]]
      /\ event' = [k \in Keys |-> IF k \in gone THEN 0 ELSE event[k]]
      /\ cur' = None /\ work' = Idle /\ work.call.op = "cancel" /\ at = "start"
      /\ UNCHANGED <<wire, log, pipe, recalled>>
  BY DEF CancelSend, Answer, client, server
<1>2. c \in Keys
  BY <1>1, WorkType, CallFields DEF OutboxInv
<1>3. /\ c \in recalled
      /\ \A m \in DOMAIN pipe : ~Uses(pipe[m].call, c)
  BY <1>1, <1>2 DEF OutboxInv, CoreInv, CancelInv, Cancels
<1>4. \A k : ~Uses(work'.call, k) /\ ~Cancels(work'.call, k)
  BY <1>1 DEF Uses, Cancels, Idle, NoCall
<1>5. RowInv' /\ StoredOnce'
  BY <1>1 DEF RowInv, StoredOnce, OutboxInv, CoreInv
<1>6. CancelInv'
  BY <1>1, <1>4 DEF CancelInv, OutboxInv, CoreInv
<1>7. NeverReplaced'
  <2>1. \A k \in Keys : event'[k] # 0 => event'[k] = event[k] /\ row'[k] = row[k]
    BY <1>1
  <2>. QED
    BY <1>1, <2>1 DEF NeverReplaced, OutboxInv, CoreInv
<1>8. \A k \in Keys : Gone(k) => Gone(k)'
  BY <1>1, <1>4 DEF Gone
<1>9. \A k \in Keys : row'[k] = row[k] \/ Gone(k)'
  <2>. SUFFICES ASSUME NEW k \in Keys, row'[k] # row[k] PROVE Gone(k)'
    OBVIOUS
  <2>1. k = c /\ row'[k] = None
    BY <1>1
  <2>. QED
    BY <1>1, <1>3, <1>4, <2>1 DEF Gone
<1>10. SentRequests' = SentRequests
  BY <1>1 DEF SentRequests
<1>11. RequestInv'
  <2>1. \A req \in SentRequests : req.key \in Keys
    BY RequestType DEF OutboxInv, TypeInv
  <2>. QED
    BY <1>8, <1>9, <1>10, <2>1 DEF RequestInv, OutboxInv, CoreInv
<1>. QED
  BY <1>5, <1>6, <1>7, <1>11 DEF CoreInv

\* A request for the row of its key goes on the wire.
LEMMA TransmitStep == OutboxInv /\ Transmit => CoreInv'
<1>. SUFFICES ASSUME OutboxInv, Transmit PROVE CoreInv'
  OBVIOUS
<1>. USE OutboxAssumption
<1>1. /\ cur # None /\ wire' = wire \cup {cur}
      /\ UNCHANGED <<row, event, cur, work, log, pipe, recalled>>
  BY DEF Transmit, OutboxInv, TypeInv, StageInv, client, outbox
<1>2. cur.msg \in Message /\ row[cur.key] = cur.msg /\ cur.msg # None
  BY <1>1 DEF OutboxInv, TypeInv, TypeOK, CoreInv, RowInv, Request
<1>3. RowInv' /\ StoredOnce' /\ CancelInv' /\ NeverReplaced'
  BY <1>1 DEF RowInv, StoredOnce, CancelInv, NeverReplaced, OutboxInv, CoreInv
<1>4. SentRequests' = SentRequests \cup {cur}
  BY <1>1 DEF SentRequests
<1>5. \A k : Gone(k)' <=> Gone(k)
  BY <1>1 DEF Gone
<1>6. \A req \in SentRequests : req.key = cur.key => req.msg = cur.msg
  BY <1>2 DEF OutboxInv, CoreInv, RequestInv, Gone
<1>7. RequestInv'
  BY <1>1, <1>2, <1>4, <1>5, <1>6 DEF RequestInv, OutboxInv, CoreInv
<1>. QED
  BY <1>3, <1>7 DEF CoreInv

\* The answered transaction is the one that was sent.
LEMMA ReceiveStep == OutboxInv /\ Receive => CoreInv'
<1>. SUFFICES ASSUME OutboxInv, Receive PROVE CoreInv'
  OBVIOUS
<1>. USE OutboxAssumption
<1>. DEFINE e == EventOf(cur.key, cur.msg.room)
<1>1. /\ at = "wire" /\ e # 0 /\ Sent(cur.key, e) /\ Accepted(cur.key, e)
      /\ UNCHANGED <<row, wire, log, pipe, recalled>>
  BY DEF Receive, client, server
<1>2. cur # None /\ cur.key \in Keys /\ row[cur.key] = cur.msg /\ cur.msg # None
  BY <1>1 DEF OutboxInv, TypeInv, TypeOK, StageInv, CoreInv, RowInv, Request
<1>3. e \in DOMAIN log /\ log[e].key = cur.key /\ log[e] \in Request
  BY <1>1, EventOfType DEF OutboxInv, TypeInv, TypeOK
<1>4. log[e].msg = row[cur.key]
  <2>1. log[e] \in SentRequests
    BY <1>3 DEF SentRequests
  <2>. QED
    BY <1>2, <1>3, <2>1 DEF OutboxInv, CoreInv, RequestInv, Gone
<1>5. log[e] = [key |-> cur.key, msg |-> row[cur.key]]
  BY <1>3, <1>4 DEF Request
<1>6. event' = [event EXCEPT ![cur.key] = e] /\ event \in [Keys -> 0 .. Len(log)]
  BY <1>1, <1>2 DEF Sent, OutboxInv, TypeInv, TypeOK
<1>7. cur' = None /\ (work' = Idle \/ work' = work)
  BY <1>1 DEF Accepted, Answer
<1>. HIDE DEF e
<1>8. NeverReplaced'
  <2>. SUFFICES ASSUME NEW k \in Keys, event'[k] # 0
       PROVE  log[event'[k]] = [key |-> k, msg |-> row[k]]
    BY <1>1 DEF NeverReplaced
  <2>1. CASE k = cur.key
    BY <1>2, <1>5, <1>6, <2>1
  <2>2. CASE k # cur.key
    BY <1>6, <2>2 DEF NeverReplaced, OutboxInv, CoreInv
  <2>. QED
    BY <2>1, <2>2
<1>9. RowInv' /\ StoredOnce'
  BY <1>1, <1>7 DEF RowInv, StoredOnce, OutboxInv, CoreInv
<1>10. \A k : /\ Uses(work'.call, k) => Uses(work.call, k)
              /\ Cancels(work'.call, k) => Cancels(work.call, k)
  BY <1>7 DEF Uses, Cancels, Idle, NoCall
<1>11. CancelInv'
  BY <1>1, <1>10 DEF CancelInv, OutboxInv, CoreInv
<1>12. \A k : Gone(k) => Gone(k)'
  BY <1>1, <1>10 DEF Gone
<1>13. RequestInv'
  BY <1>1, <1>12 DEF RequestInv, SentRequests, OutboxInv, CoreInv
<1>. QED
  BY <1>8, <1>9, <1>11, <1>13 DEF CoreInv

\* The death of the process leaves no call.
LEMMA CrashStep == OutboxInv /\ Crash => CoreInv'
<1>. SUFFICES ASSUME OutboxInv, Crash PROVE CoreInv'
  OBVIOUS
<1>1. /\ cur' = None /\ work' = Idle /\ pipe' = <<>> /\ DOMAIN pipe' = {}
      /\ UNCHANGED <<row, event, wire, log, recalled>>
  BY DEF Crash, outbox, server
<1>2. \A k : ~Uses(work'.call, k) /\ ~Cancels(work'.call, k)
  BY <1>1 DEF Uses, Cancels, Idle, NoCall
<1>3. RowInv' /\ StoredOnce' /\ NeverReplaced' /\ CancelInv'
  BY <1>1, <1>2 DEF RowInv, StoredOnce, NeverReplaced, CancelInv, OutboxInv, CoreInv
<1>4. \A k : Gone(k) => Gone(k)'
  BY <1>1, <1>2 DEF Gone
<1>5. RequestInv'
  BY <1>1, <1>4 DEF RequestInv, SentRequests, OutboxInv, CoreInv
<1>. QED
  BY <1>3, <1>5 DEF CoreInv

\* The server stores a request whose transaction it does not know.
LEMMA AcceptStep ==
  ASSUME OutboxInv, NEW req \in wire, Accept(req)
  PROVE  CoreInv'
<1>1. /\ wire' = wire \ {req}
      /\ log' = IF EventOf(req.key, req.msg.room) = 0 THEN Append(log, req) ELSE log
      /\ UNCHANGED <<row, event, cur, work, pipe, recalled>>
  BY DEF Accept, client, outbox, runtime
<1>2. log \in Seq(Request) /\ req \in Request /\ req \in SentRequests
  BY DEF OutboxInv, TypeInv, TypeOK, SentRequests
<1>3. RowInv' /\ CancelInv'
  BY <1>1 DEF RowInv, CancelInv, OutboxInv, CoreInv
<1>4. \A k : Gone(k) => Gone(k)'
  BY <1>1 DEF Gone
<1>5. CASE log' = log
  <2>1. SentRequests' \subseteq SentRequests
    BY <1>1, <1>5 DEF SentRequests
  <2>2. RequestInv'
    BY <1>1, <1>4, <2>1 DEF RequestInv, OutboxInv, CoreInv
  <2>3. StoredOnce' /\ NeverReplaced'
    BY <1>1, <1>5 DEF StoredOnce, NeverReplaced, OutboxInv, CoreInv
  <2>. QED
    BY <1>3, <2>2, <2>3 DEF CoreInv
<1>6. CASE EventOf(req.key, req.msg.room) = 0 /\ log' = Append(log, req)
  <2>1. /\ Len(log) \in Nat /\ Len(log') = Len(log) + 1
        /\ DOMAIN log = 1 .. Len(log) /\ DOMAIN log' = 1 .. Len(log')
        /\ \A n \in DOMAIN log : log'[n] = log[n]
        /\ log'[Len(log')] = req
    BY <1>2, <1>6, AppendProperties, LenProperties
  <2>2. SentRequests' \subseteq SentRequests
    <3>1. \A n \in DOMAIN log' : log'[n] \in SentRequests
      BY <1>2, <2>1 DEF SentRequests
    <3>. QED
      BY <1>1, <3>1 DEF SentRequests
  <2>3. RequestInv'
    BY <1>1, <1>4, <2>2 DEF RequestInv, OutboxInv, CoreInv
  <2>4. \A n \in DOMAIN log : log[n].key # req.key
    <3>. SUFFICES ASSUME NEW n \in DOMAIN log, log[n].key = req.key PROVE FALSE
      OBVIOUS
    <3>1. log[n] \in SentRequests
      BY DEF SentRequests
    <3>2. log[n].msg = req.msg
      BY <1>2, <3>1 DEF RequestInv, OutboxInv, CoreInv
    <3>. QED
      BY <1>6, <3>2, EventOfType DEF OutboxInv, TypeInv
  <2>5. StoredOnce'
    <3>1. \A i, j \in DOMAIN log : log[i].key = log[j].key => i = j
      BY DEF StoredOnce, OutboxInv, CoreInv
    <3>. QED
      BY <2>1, <2>4, <3>1 DEF StoredOnce
  <2>6. NeverReplaced'
    <3>1. \A k \in Keys : event[k] \in 0 .. Len(log)
      BY DEF OutboxInv, TypeInv, TypeOK
    <3>. QED
      BY <1>1, <2>1, <3>1 DEF NeverReplaced, OutboxInv, CoreInv
  <2>. QED
    BY <1>3, <2>3, <2>5, <2>6 DEF CoreInv
<1>. QED
  BY <1>1, <1>5, <1>6

\* Nothing is sent, stored or queued at the start.
LEMMA CoreInit == Init => CoreInv
<1>. SUFFICES ASSUME Init PROVE CoreInv
  OBVIOUS
<1>1. /\ cur = None /\ pipe = <<>> /\ DOMAIN pipe = {} /\ wire = {}
      /\ log = <<>> /\ DOMAIN log = {} /\ event = [k \in Keys |-> 0]
      /\ work = Idle
  BY DEF Init
<1>2. \A k : ~Cancels(work.call, k)
  BY <1>1 DEF Cancels, Idle, NoCall
<1>3. SentRequests = {}
  BY <1>1 DEF SentRequests
<1>. QED
  BY <1>1, <1>2, <1>3
     DEF CoreInv, RowInv, CancelInv, RequestInv, NeverReplaced, StoredOnce

\* Every step of an application that reuses no cancelled key.
LEMMA CoreStep ==
  ASSUME ~Recycle, OutboxInv, [Next]_vars
  PROVE  CoreInv'
<1>1. ASSUME NEW k \in Keys, NEW m \in [room : Rooms, body : Texts], CallSend(k, m)
      PROVE  CoreInv'
  <2>. DEFINE c == [op |-> "send", key |-> k, msg |-> m]
  <2>1. c \in Call /\ Issue(c) /\ recalled' = recalled /\ k \notin recalled
    BY <1>1 DEF CallSend, Reusable, Call, Message, Bodies
  <2>2. \A j : (Uses(c, j) => j = k) /\ ~Cancels(c, j)
    BY DEF Uses, Cancels
  <2>. HIDE DEF c
  <2>. QED
    BY <2>1, <2>2, IssueStep
<1>2. ASSUME NEW k \in Keys, NEW r \in Rooms, CallUpload(k, r) PROVE CoreInv'
  <2>. DEFINE c == [op |-> "upload", key |-> k, room |-> r]
  <2>1. c \in Call /\ Issue(c) /\ recalled' = recalled /\ k \notin recalled
    BY <1>2 DEF CallUpload, Reusable, Call
  <2>2. \A j : (Uses(c, j) => j = k) /\ ~Cancels(c, j)
    BY DEF Uses, Cancels
  <2>. HIDE DEF c
  <2>. QED
    BY <2>1, <2>2, IssueStep
<1>3. ASSUME NEW k \in Keys, CallCancel(k) PROVE CoreInv'
  <2>. DEFINE c == [op |-> "cancel", key |-> k]
  <2>1. c \in Call /\ Issue(c) /\ recalled' = recalled \cup {k}
    BY <1>3 DEF CallCancel, Call
  <2>2. \A j : ~Uses(c, j) /\ (Cancels(c, j) => j = k)
    BY DEF Uses, Cancels
  <2>. HIDE DEF c
  <2>. QED
    BY <2>1, <2>2, IssueStep
<1>4. CASE CallFlush
  <2>. DEFINE c == [op |-> "flush"]
  <2>1. c \in Call /\ Issue(c) /\ recalled' = recalled
    BY <1>4 DEF CallFlush, Call
  <2>2. \A j : ~Uses(c, j) /\ ~Cancels(c, j)
    BY DEF Uses, Cancels
  <2>. HIDE DEF c
  <2>. QED
    BY <2>1, <2>2, IssueStep
<1>5. CASE \/ \E i \in Ids : TimeOut(i)
           \/ Hear
           \/ \E r \in Rooms : Join(r)
           \/ \E v \in Versions : Edit(v)
           \/ Flush
           \/ UNCHANGED vars
  <2>1. UNCHANGED <<row, event, cur, work, wire, log, pipe, recalled>>
    BY <1>5 DEF TimeOut, Hear, Join, Edit, Flush, vars, client, outbox, runtime, server
  <2>2. RowInv' /\ NeverReplaced' /\ StoredOnce' /\ CancelInv'
    BY <2>1 DEF RowInv, NeverReplaced, StoredOnce, CancelInv, OutboxInv, CoreInv
  <2>3. \A k : Gone(k) => Gone(k)'
    BY <2>1 DEF Gone
  <2>4. RequestInv'
    BY <2>1, <2>3 DEF RequestInv, SentRequests, OutboxInv, CoreInv
  <2>. QED
    BY <2>2, <2>4 DEF CoreInv
<1>6. CASE Take
  BY <1>6, TakeStep
<1>7. CASE Send
  <2>1. work.call.key \in Keys /\ work.call.msg \in Message
    BY <1>7, WorkType, CallFields DEF Send, OutboxInv
  <2>2. Uses(work.call, work.call.key)
    BY <1>7 DEF Send, Uses
  <2>. QED
    BY <1>7, <2>1, <2>2, BeginStep DEF Send
<1>8. CASE Upload
  <2>1. work.call.key \in Keys /\ [room |-> work.call.room, body |-> file] \in Message
    BY <1>8, WorkType, CallFields DEF Upload, OutboxInv, TypeInv, TypeOK, Message, Bodies
  <2>2. Uses(work.call, work.call.key)
    BY <1>8 DEF Upload, Uses
  <2>. QED
    BY <1>8, <2>1, <2>2, BeginStep DEF Upload
<1>9. CASE FlushNext
  <2>1. PICK k \in First :
          Begin(k, [row[k] EXCEPT !.body = IF @ \in Versions THEN file ELSE @])
    BY <1>9 DEF FlushNext
  <2>2. at = "flush" /\ k \in Keys /\ row[k] # None
    BY <1>9, <2>1 DEF FlushNext, First, OutboxInv, TypeInv, TypeOK, StageInv
  <2>3. [row[k] EXCEPT !.body = IF @ \in Versions THEN file ELSE @] \in Message
    BY <2>2 DEF Message, Bodies, OutboxInv, TypeInv, TypeOK
  <2>. QED
    BY <2>1, <2>2, <2>3, BeginStep
<1>10. CASE FlushDone \/ Refuse \/ Unreadable \/ SendFails
  <2>1. /\ cur' = None /\ work' = Idle
        /\ UNCHANGED <<row, event, wire, log, pipe, recalled>>
    BY <1>10 DEF FlushDone, Refuse, Unreadable, SendFails, Answer, client, outbox, server
  <2>. QED
    BY <2>1, EndStep
<1>11. CASE CancelSend
  BY <1>11, CancelStep
<1>12. CASE Transmit
  BY <1>12, TransmitStep
<1>13. CASE Receive
  BY <1>13, ReceiveStep
<1>14. CASE Crash
  BY <1>14, CrashStep
<1>15. ASSUME NEW req \in wire, Accept(req) PROVE CoreInv'
  BY <1>15, AcceptStep
<1>. QED
  BY <1>1, <1>2, <1>3, <1>4, <1>5, <1>6, <1>7, <1>8, <1>9, <1>10, <1>11, <1>12,
     <1>13, <1>14, <1>15 DEF Next, Runtime

\* The invariant of an application that reuses no cancelled key.
THEOREM OutboxInvariant ==
  ASSUME ~Recycle
  PROVE  Spec => []OutboxInv
<1>1. Init => OutboxInv
  BY TypeInit, CoreInit DEF OutboxInv
<1>2. OutboxInv /\ [Next]_vars => OutboxInv'
  BY TypeStep, CoreStep DEF OutboxInv
<1>. QED
  BY <1>1, <1>2, PTL DEF Spec

\* The event an outbox row was accepted as holds that row's message.
THEOREM MessageNeverReplaced ==
  ASSUME ~Recycle
  PROVE  Spec => []NeverReplaced
<1>1. OutboxInv => NeverReplaced
  BY DEF OutboxInv, CoreInv
<1>. QED
  BY <1>1, OutboxInvariant, PTL

\* However often a message is sent again, the server stores it at most once.
THEOREM MessageStoredOnce ==
  ASSUME ~Recycle
  PROVE  Spec => []StoredOnce
<1>1. OutboxInv => StoredOnce
  BY DEF OutboxInv, CoreInv
<1>. QED
  BY <1>1, OutboxInvariant, PTL

\* What the server has, or may still receive, was persisted before.
THEOREM MessagePersistedFirst ==
  ASSUME ~Recycle
  PROVE  Spec => []PersistedFirst
<1>1. OutboxInv => PersistedFirst
  BY DEF OutboxInv, CoreInv, RequestInv, SentRequests, Gone, PersistedFirst
<1>. QED
  BY <1>1, OutboxInvariant, PTL

\* An accepted row changes neither its event nor its message.
THEOREM AcceptanceIsFinal ==
  ASSUME ~Recycle
  PROVE  Spec => AcceptedIsFinal
<1>. DEFINE Final == \A k \in Keys :
                       event[k] # 0 => event'[k] = event[k] /\ row'[k] = row[k]
<1>1. OutboxInv /\ [Next]_vars => [Final]_vars
  <2>. SUFFICES ASSUME OutboxInv, [Next]_vars, NEW k \in Keys, event[k] # 0
                PROVE  event'[k] = event[k] /\ row'[k] = row[k]
    OBVIOUS
  <2>1. event \in [Keys -> 0 .. Len(log)] /\ row \in [Keys -> Message \cup {None}]
    BY DEF OutboxInv, TypeInv, TypeOK
  <2>2. ASSUME NEW j, NEW m, Begin(j, m) PROVE event'[k] = event[k] /\ row'[k] = row[k]
    BY <2>1, <2>2 DEF Begin, Insert
  <2>3. CASE CancelSend
    <3>1. Cancellable(k) <=> FALSE
      BY DEF Cancellable
    <3>. QED
      BY <2>1, <2>3, <3>1 DEF CancelSend
  <2>4. CASE Receive
    <3>1. cur # None /\ event[cur.key] = 0
      BY <2>4 DEF Receive, OutboxInv, TypeInv, StageInv, CoreInv, RowInv
    <3>. QED
      BY <2>1, <2>4, <3>1 DEF Receive, Sent
  <2>5. CASE UNCHANGED <<row, event>>
    BY <2>5
  <2>. QED
    BY <2>2, <2>3, <2>4, <2>5
       DEF Next, Runtime, vars, CallSend, CallUpload, CallCancel, CallFlush, Issue, TimeOut,
           Hear, Take, Send, Upload, Unreadable, Flush, FlushNext, FlushDone, Transmit,
           Refuse, SendFails, Crash, Accept, Join, Edit, outbox
<1>. QED
  BY <1>1, OutboxInvariant, PTL DEF Spec, AcceptedIsFinal


-----------------------------------------------------------------------------
(***************************************************************************)
(* Answers.                                                                *)
(***************************************************************************)
\* What a caller that waits with c may take from an answer with event e.
Names(e, c) ==
  e # 0 /\ c.op \in {"send", "upload"} =>
    /\ log[e].key = c.key
    /\ c.op = "send" => log[e].msg = c.msg
    /\ c.op = "upload" => log[e].msg.room = c.room

\* Who waits with the number of a call in the pipe or at work made that call.
LineInv == \A n \in DOMAIN pipe : pending[pipe[n].id] \in {pipe[n].call, NoCall}
WorkInv == at # "idle" => pending[work.id] \in {work.call, NoCall}

\* A call sends what it names.
SendingInv == cur # None =>
  /\ work.call.op = "send" => cur = [key |-> work.call.key, msg |-> work.call.msg]
  /\ work.call.op = "upload" => cur.key = work.call.key /\ cur.msg.room = work.call.room

Tells(n) == Names(out[n].event, pending[out[n].id])
HeardInv == \A n \in DOMAIN out : Tells(n)
CallsInv == LineInv /\ WorkInv /\ SendingInv /\ HeardInv
AnswerInv == OutboxInv /\ CallsInv

\* The call at work is answered by an event it names.
LEMMA AnswerStep ==
  ASSUME AnswerInv, at # "idle", NEW e \in 0 .. Len(log), Names(e, work.call), Answer(e),
         UNCHANGED <<pending, pipe, log>>
  PROVE  CallsInv'
<1>1. /\ out \in Seq([id : Ids, event : 0 .. Len(log)]) /\ work.id \in Ids
      /\ pending[work.id] \in {work.call, NoCall}
  BY WorkType DEF AnswerInv, CallsInv, WorkInv, OutboxInv, TypeInv, TypeOK
<1>2. out' = Append(out, [id |-> work.id, event |-> e]) /\ at' = "idle" /\ cur' = None
  BY DEF Answer
<1>3. /\ Len(out) \in Nat /\ DOMAIN out = 1 .. Len(out) /\ DOMAIN out' = 1 .. Len(out) + 1
      /\ \A n \in DOMAIN out : out'[n] = out[n]
      /\ out'[Len(out) + 1] = [id |-> work.id, event |-> e]
  BY <1>1, <1>2, AppendProperties, LenProperties
<1>4. Names(e, pending[work.id])
  BY <1>1 DEF Names, NoCall
<1>5. HeardInv'
  BY <1>3, <1>4 DEF AnswerInv, CallsInv, HeardInv, Tells, Names
<1>. QED
  BY <1>2, <1>5 DEF AnswerInv, CallsInv, LineInv, WorkInv, SendingInv

\* A step that answers nobody.
LEMMA SilentStep ==
  ASSUME AnswerInv, UNCHANGED <<pending, pipe, out, log>>,
         at' = "idle" \/ (at # "idle" /\ work' = work), SendingInv'
  PROVE  CallsInv'
<1>1. LineInv' /\ HeardInv'
  BY DEF AnswerInv, CallsInv, LineInv, HeardInv, Tells, Names
<1>2. WorkInv'
  BY DEF AnswerInv, CallsInv, WorkInv
<1>. QED
  BY <1>1, <1>2 DEF CallsInv

\* A call that is made takes a number nobody waits with and no line has.
LEMMA CallStep ==
  ASSUME AnswerInv, NEW c \in Call, Issue(c)
  PROVE  CallsInv'
<1>1. PICK i \in Unused :
        /\ pending' = [pending EXCEPT ![i] = c]
        /\ pipe' = Append(pipe, [id |-> i, call |-> c])
        /\ UNCHANGED <<out, log, at, work, cur>>
  BY DEF Issue, runtime, server
<1>2. i \in Ids /\ i # work.id /\ (\A n \in DOMAIN pipe : pipe[n].id # i) /\ (\A n \in DOMAIN out : out[n].id # i)
  BY DEF Unused
<1>3. pipe \in Seq([id : Ids, call : Call]) /\ pending \in [Ids -> Call \cup {NoCall}]
  BY DEF AnswerInv, OutboxInv, TypeInv, TypeOK
<1>4. [id |-> i, call |-> c] \in [id : Ids, call : Call]
  BY <1>2
<1>5. /\ DOMAIN pipe = 1 .. Len(pipe) /\ DOMAIN pipe' = 1 .. Len(pipe) + 1 /\ Len(pipe) \in Nat
      /\ \A n \in DOMAIN pipe : pipe'[n] = pipe[n]
      /\ pipe'[Len(pipe) + 1] = [id |-> i, call |-> c]
  BY <1>1, <1>3, <1>4, AppendProperties, LenProperties
<1>6. \A j : j # i => pending'[j] = pending[j]
  BY <1>1, <1>2, <1>3
<1>7. pending'[i] = c
  BY <1>1, <1>2, <1>3
<1>8. LineInv'
  BY <1>2, <1>5, <1>6, <1>7 DEF AnswerInv, CallsInv, LineInv
<1>9. WorkInv' /\ SendingInv'
  BY <1>1, <1>2, <1>6 DEF AnswerInv, CallsInv, WorkInv, SendingInv
<1>10. HeardInv'
  BY <1>1, <1>2, <1>6 DEF AnswerInv, CallsInv, HeardInv, Tells, Names
<1>. QED
  BY <1>8, <1>9, <1>10 DEF CallsInv

\* Whoever stops waiting is told nothing.
LEMMA ForgetStep ==
  ASSUME AnswerInv, NEW i \in Ids, pending' = [pending EXCEPT ![i] = NoCall], UNCHANGED <<pipe, log, at, work, cur>>,
         \A n \in DOMAIN out' : \E m \in DOMAIN out : out'[n] = out[m]
  PROVE  CallsInv'
<1>1. \A j \in Ids : pending'[j] \in {pending[j], NoCall}
  BY DEF AnswerInv, OutboxInv, TypeInv, TypeOK
<1>2. \A n \in DOMAIN pipe : pipe[n].id \in Ids
  <2>1. pipe \in Seq([id : Ids, call : Call])
    BY DEF AnswerInv, OutboxInv, TypeInv, TypeOK
  <2>2. \A n \in DOMAIN pipe : pipe[n] \in [id : Ids, call : Call]
    BY <2>1, LenProperties, ElementOfSeq
  <2>. QED
    BY <2>2
<1>3. \A n \in DOMAIN out : out[n].id \in Ids
  <2>1. out \in Seq([id : Ids, event : 0 .. Len(log)])
    BY DEF AnswerInv, OutboxInv, TypeInv, TypeOK
  <2>2. \A n \in DOMAIN out : out[n] \in [id : Ids, event : 0 .. Len(log)]
    BY <2>1, LenProperties, ElementOfSeq
  <2>. QED
    BY <2>2
<1>4. LineInv'
  BY <1>1, <1>2 DEF AnswerInv, CallsInv, LineInv
<1>5. WorkInv' /\ SendingInv'
  BY <1>1, WorkType DEF AnswerInv, OutboxInv, CallsInv, WorkInv, SendingInv
<1>6. \A e : Names(e, NoCall)
  BY DEF Names, NoCall
<1>7. HeardInv'
  <2>1. SUFFICES ASSUME NEW n \in DOMAIN out' PROVE Tells(n)'
    BY DEF HeardInv
  <2>2. PICK m \in DOMAIN out : out'[n] = out[m]
    OBVIOUS
  <2>3. Tells(m) /\ pending'[out[m].id] \in {pending[out[m].id], NoCall}
    BY <1>1, <1>3 DEF AnswerInv, CallsInv, HeardInv
  <2>4. Names(out[m].event, pending'[out[m].id])
    BY <1>6, <2>3 DEF Tells
  <2>. QED
    BY <2>2, <2>4 DEF Tells, Names
<1>. QED
  BY <1>4, <1>5, <1>7 DEF CallsInv

\* enqueue for the handled call: what it is answered with is in the log as the row
\* of its key, and what it goes on to send is what it names.
LEMMA BeginAnswers ==
  ASSUME AnswerInv, at \in {"start", "flush"}, NEW k \in Keys, NEW m \in Message, Begin(k, m),
         work.call.op = "flush" \/ (work.call.op = "send" /\ k = work.call.key /\ m = work.call.msg)
         \/ (work.call.op = "upload" /\ k = work.call.key /\ m.room = work.call.room)
  PROVE  CallsInv'
<1>1. UNCHANGED <<pending, pipe, log>> /\ at # "idle" /\ 0 \in 0 .. Len(log) /\ Names(0, work.call)
  BY LenType DEF Begin, client, server, Names, AnswerInv, OutboxInv, TypeInv
<1>2. CASE Conflict(k, m) /\ Answer(0)
  BY <1>1, <1>2, AnswerStep
<1>3. CASE ~Conflict(k, m) /\ event[k] # 0 /\ Accepted(k, event[k])
  <2>1. event[k] \in 0 .. Len(log) /\ log[event[k]] = [key |-> k, msg |-> row[k]]
    BY <1>3 DEF AnswerInv, OutboxInv, CoreInv, NeverReplaced, TypeInv, TypeOK
  <2>2. row[k] = m
    <3>1. event[k] \in DOMAIN log /\ log[event[k]] \in Request
      BY <1>3, <2>1 DEF AnswerInv, OutboxInv, TypeInv, TypeOK
    <3>2. row[k] \in Message
      BY <2>1, <3>1 DEF Request
    <3>. QED
      BY <1>3, <3>2, OutboxAssumption DEF Conflict
  <2>3. CASE work.call.op # "flush" /\ Answer(event[k])
    <3>1. Names(event[k], work.call)
      BY <2>1, <2>2, <2>3 DEF Names
    <3>. QED
      BY <1>1, <2>1, <2>3, <3>1, AnswerStep
  <2>4. CASE at' = "flush" /\ cur' = None /\ UNCHANGED <<out, work>>
    BY <1>1, <2>4, SilentStep DEF SendingInv
  <2>. QED
    BY <1>3, <2>3, <2>4 DEF Accepted
<1>4. CASE cur' = [key |-> k, msg |-> m] /\ at' = "check" /\ UNCHANGED <<out, work, left>>
  <2>1. SendingInv'
    BY <1>4 DEF SendingInv
  <2>. QED
    BY <1>1, <1>4, <2>1, SilentStep
<1>. QED
  BY <1>2, <1>3, <1>4 DEF Begin

\* The response names the message that was sent.
LEMMA ReceiveAnswers == AnswerInv /\ Receive => CallsInv'
<1>. SUFFICES ASSUME AnswerInv, Receive PROVE CallsInv'
  OBVIOUS
<1>. DEFINE e == EventOf(cur.key, cur.msg.room)
<1>1. /\ at = "wire" /\ e # 0 /\ Accepted(cur.key, e)
      /\ UNCHANGED <<pending, pipe, log>>
  BY DEF Receive, client, server
<1>2. /\ cur # None /\ cur.key \in Keys /\ row[cur.key] = cur.msg /\ cur.msg # None
      /\ work.call.op \in {"send", "upload", "flush"}
  BY <1>1, OutboxAssumption DEF AnswerInv, OutboxInv, TypeInv, TypeOK, StageInv, CoreInv, RowInv, Request
<1>3. e \in DOMAIN log /\ log[e].key = cur.key /\ e \in 0 .. Len(log)
  BY <1>1, EventOfType DEF AnswerInv, OutboxInv, TypeInv
<1>4. log[e].msg = cur.msg
  <2>1. log[e] \in SentRequests
    BY <1>3 DEF SentRequests
  <2>. QED
    BY <1>2, <1>3, <2>1 DEF AnswerInv, OutboxInv, CoreInv, RequestInv, Gone
<1>. HIDE DEF e
<1>5. CASE Answer(e)
  <2>1. Names(e, work.call)
    BY <1>2, <1>3, <1>4 DEF Names, AnswerInv, CallsInv, SendingInv
  <2>. QED
    BY <1>1, <1>3, <1>5, <2>1, AnswerStep
<1>6. CASE at' = "flush" /\ cur' = None /\ UNCHANGED <<out, work>>
  BY <1>1, <1>6, SilentStep DEF SendingInv
<1>. QED
  BY <1>1, <1>5, <1>6 DEF Accepted

\* Every step keeps answers to the calls they are for.
LEMMA CallsStep ==
  ASSUME AnswerInv, [Next]_vars
  PROVE  CallsInv'
<1>. USE DEF AnswerInv
<1>1. TypeInv /\ StageInv /\ TypeOK
  BY DEF OutboxInv, TypeInv
<1>2. CASE \/ \E k \in Keys, m \in [room : Rooms, body : Texts] : CallSend(k, m)
           \/ \E k \in Keys, r \in Rooms : CallUpload(k, r)
           \/ \E k \in Keys : CallCancel(k)
           \/ CallFlush
  <2>1. \A k \in Keys, m \in [room : Rooms, body : Texts] : [op |-> "send", key |-> k, msg |-> m] \in Call
    BY DEF Call, Message, Bodies
  <2>2. \A k \in Keys, r \in Rooms : [op |-> "upload", key |-> k, room |-> r] \in Call
    BY DEF Call
  <2>3. (\A k \in Keys : [op |-> "cancel", key |-> k] \in Call) /\ [op |-> "flush"] \in Call
    BY DEF Call
  <2>4. \E c \in Call : Issue(c)
    BY <1>2, <2>1, <2>2, <2>3 DEF CallSend, CallUpload, CallCancel, CallFlush
  <2>. QED
    BY <2>4, CallStep
<1>3. ASSUME NEW i \in Ids, TimeOut(i) PROVE CallsInv'
  BY <1>3, ForgetStep DEF TimeOut, outbox, runtime, server
<1>4. CASE Hear
  <2>1. out \in Seq([id : Ids, event : 0 .. Len(log)]) /\ out # <<>> /\ out' = Tail(out)
    BY <1>1, <1>4 DEF TypeOK, Hear
  <2>2. Head(out) \in [id : Ids, event : 0 .. Len(log)]
    BY <2>1, HeadTailProperties
  <2>3. /\ DOMAIN out = 1 .. Len(out) /\ Len(out) \in Nat
        /\ out' \in Seq([id : Ids, event : 0 .. Len(log)]) /\ Len(out') = Len(out) - 1
        /\ \A n \in 1 .. Len(out') : out'[n] = out[n + 1]
    BY <2>1, HeadTailProperties, LenProperties
  <2>4. DOMAIN out' = 1 .. Len(out')
    BY <2>3, LenProperties
  <2>5. \A n \in DOMAIN out' : \E m \in DOMAIN out : out'[n] = out[m]
    <3>1. \A n \in DOMAIN out' : n + 1 \in DOMAIN out /\ out'[n] = out[n + 1]
      BY <2>3, <2>4
    <3>. QED
      BY <3>1
  <2>. QED
    BY <1>4, <2>2, <2>5, ForgetStep DEF Hear, outbox, runtime, server
<1>5. CASE Take
  <2>1. pipe \in Seq([id : Ids, call : Call]) /\ pipe # <<>> /\ work' = Head(pipe) /\ pipe' = Tail(pipe)
    BY <1>1, <1>5 DEF TypeOK, Take
  <2>2. /\ DOMAIN pipe = 1 .. Len(pipe) /\ Len(pipe) \in Nat /\ 1 \in DOMAIN pipe
        /\ DOMAIN pipe' = 1 .. Len(pipe) - 1 /\ work' = pipe[1]
        /\ \A n \in DOMAIN pipe' : pipe'[n] = pipe[n + 1]
    BY <2>1, HeadTailProperties, LenProperties, EmptySeq
  <2>3. UNCHANGED <<pending, out, log, cur>> /\ cur = None
    BY <1>1, <1>5 DEF Take, client, server, StageInv
  <2>4. LineInv'
    BY <2>2, <2>3 DEF CallsInv, LineInv
  <2>5. WorkInv'
    BY <2>2, <2>3 DEF CallsInv, LineInv, WorkInv
  <2>6. SendingInv' /\ HeardInv'
    BY <2>3 DEF CallsInv, SendingInv, HeardInv, Tells, Names
  <2>. QED
    BY <2>4, <2>5, <2>6 DEF CallsInv
<1>6. CASE Send
  <2>1. work.call.key \in Keys /\ work.call.msg \in Message
    BY <1>1, <1>6, WorkType, CallFields DEF Send
  <2>. QED
    BY <1>6, <2>1, BeginAnswers DEF Send
<1>7. CASE Upload
  <2>1. work.call.key \in Keys /\ [room |-> work.call.room, body |-> file] \in Message
    BY <1>1, <1>7, WorkType, CallFields DEF Upload, TypeOK, Message, Bodies
  <2>. QED
    BY <1>7, <2>1, BeginAnswers DEF Upload
<1>8. CASE FlushNext
  <2>1. PICK k \in First : Begin(k, [row[k] EXCEPT !.body = IF @ \in Versions THEN file ELSE @])
    BY <1>8 DEF FlushNext
  <2>2. at = "flush" /\ k \in Keys /\ row[k] # None /\ work.call.op = "flush"
    BY <1>1, <1>8, <2>1 DEF FlushNext, First, TypeOK, StageInv
  <2>3. [row[k] EXCEPT !.body = IF @ \in Versions THEN file ELSE @] \in Message
    BY <1>1, <2>2 DEF Message, Bodies, TypeOK
  <2>. QED
    BY <2>1, <2>2, <2>3, BeginAnswers
<1>9. CASE FlushDone \/ Refuse \/ Unreadable \/ SendFails \/ CancelSend
  <2>1. at # "idle" /\ Answer(0) /\ UNCHANGED <<pending, pipe, log>>
    BY <1>9 DEF FlushDone, Refuse, Unreadable, SendFails, CancelSend, client, server
  <2>2. 0 \in 0 .. Len(log) /\ Names(0, work.call)
    BY <1>1, LenType DEF Names
  <2>. QED
    BY <2>1, <2>2, AnswerStep
<1>10. CASE Flush \/ Transmit
  <2>1. UNCHANGED <<pending, pipe, out, log, work, cur>> /\ at # "idle"
    BY <1>10 DEF Flush, Transmit, client, server, outbox
  <2>2. SendingInv'
    BY <2>1 DEF CallsInv, SendingInv
  <2>. QED
    BY <2>1, <2>2, SilentStep
<1>11. CASE Receive
  BY <1>11, ReceiveAnswers
<1>12. CASE Crash
  <2>1. pipe' = <<>> /\ out' = <<>> /\ at' = "idle" /\ cur' = None
    BY <1>12 DEF Crash
  <2>. QED
    BY <2>1 DEF CallsInv, LineInv, WorkInv, SendingInv, HeardInv
<1>13. ASSUME NEW req \in wire, Accept(req) PROVE CallsInv'
  <2>1. /\ UNCHANGED <<pending, pipe, out, at, work, cur>>
        /\ log' = log \/ log' = Append(log, req)
    BY <1>13 DEF Accept, client, runtime
  <2>2. log \in Seq(Request) /\ req \in Request /\ out \in Seq([id : Ids, event : 0 .. Len(log)])
    BY <1>1 DEF TypeOK
  <2>3. \A n \in DOMAIN log : log'[n] = log[n]
    BY <2>1, <2>2, AppendProperties
  <2>4. \A n \in DOMAIN out : out[n].event # 0 => out[n].event \in DOMAIN log
    <3>1. \A n \in DOMAIN out : out[n] \in [id : Ids, event : 0 .. Len(log)]
      BY <2>2, LenProperties, ElementOfSeq
    <3>2. DOMAIN log = 1 .. Len(log) /\ Len(log) \in Nat
      BY <2>2, LenProperties
    <3>. QED
      BY <3>1, <3>2
  <2>5. HeardInv'
    BY <2>1, <2>3, <2>4 DEF CallsInv, HeardInv, Tells, Names
  <2>. QED
    BY <2>1, <2>5 DEF CallsInv, LineInv, WorkInv, SendingInv
<1>14. CASE \/ \E r \in Rooms : Join(r)
            \/ \E v \in Versions : Edit(v)
            \/ UNCHANGED vars
  <2>1. UNCHANGED <<pending, pipe, out, log, at, work, cur>>
    BY <1>14 DEF Join, Edit, vars, client, runtime, server
  <2>. QED
    BY <2>1 DEF CallsInv, LineInv, WorkInv, SendingInv, HeardInv, Tells, Names
<1>. QED
  BY <1>2, <1>3, <1>4, <1>5, <1>6, <1>7, <1>8, <1>9, <1>10, <1>11, <1>12, <1>13, <1>14
     DEF Next, Runtime

\* An answer a caller takes for its own names an event of the key, and of the message
\* or room, it asked for, though calls time out, answers are late and processes die
\* (client.py: the sequence of call numbers; outbox.rs: enqueue).
THEOREM AnswersAreForTheirCalls ==
  ASSUME ~Recycle
  PROVE  Spec => []AnswersMatch
<1>1. Init => CallsInv
  BY DEF Init, CallsInv, LineInv, WorkInv, SendingInv, HeardInv
<1>2. Init => AnswerInv
  BY <1>1, TypeInit, CoreInit DEF AnswerInv, OutboxInv
<1>3. AnswerInv /\ [Next]_vars => AnswerInv'
  BY TypeStep, CoreStep, CallsStep DEF AnswerInv, OutboxInv
<1>4. AnswerInv => AnswersMatch
  BY DEF AnswerInv, CallsInv, HeardInv, Tells, Names, AnswersMatch
<1>. QED
  BY <1>2, <1>3, <1>4, PTL DEF Spec
-----------------------------------------------------------------------------
(***************************************************************************)
(* Echo: what its journal says is done was answered, or had a reason.      *)
(***************************************************************************)
\* What a step of a pass works on is there.
PlaceInv ==
  /\ pass.at \in {"send", "acknowledge", "finish"} => Item <= Len(box)
  /\ pass.at = "accept" => pass.room \in DMs

\* Messages come from rooms Echo has joined; it may have been put out since.
BoxInv == \A i \in 1..Len(box) : member[RoomOf[box[i]]] \in {"joined", "left"}

\* A pass that is through with sending has sent, or could not.
RepliedInv ==
  /\ pass.at = "acknowledge" => TransactionId(Item) \in posted
  /\ pass.at = "finish" => TransactionId(Item) \in posted \/ member[Room] = "left"

EchoInv == EchoTypeOK /\ PlaceInv /\ BoxInv /\ RepliedInv

\* The inbox and the replies only grow, and nobody comes back to a room that
\* was left, or to the invitation after it was accepted.
LEMMA EchoGrows ==
  ASSUME EchoTypeOK, PlaceInv, [EchoNext]_echoVars
  PROVE  /\ Len(box) \in Nat /\ Len(box') \in Nat /\ Len(box) <= Len(box') /\ box' \in Seq(Posts)
         /\ \A i \in 1..Len(box) : box'[i] = box[i] /\ box[i] \in Posts
         /\ \A r \in DMs : /\ member[r] = "left" => member'[r] = "left"
                           /\ member[r] \in {"joined", "left"} => member'[r] \in {"joined", "left"}
         /\ posted \subseteq posted'
<1>1. box \in Seq(Posts) /\ Len(box) \in Nat /\ \A i \in 1..Len(box) : box[i] \in Posts
  BY DEF EchoTypeOK
<1>2. /\ Len(box') \in Nat /\ Len(box) <= Len(box') /\ box' \in Seq(Posts)
      /\ \A i \in 1..Len(box) : box'[i] = box[i]
  <2>1. ASSUME NEW e \in Posts, Arrive(e)
        PROVE  /\ Len(box') \in Nat /\ Len(box) <= Len(box') /\ box' \in Seq(Posts)
               /\ \A i \in 1..Len(box) : box'[i] = box[i]
    <3>1. box' = Append(box, e)
      BY <2>1 DEF Arrive
    <3>. QED
      BY <1>1, <3>1
  <2>2. CASE box' = box
    BY <1>1, <2>2
  <2>. QED
    BY <2>1, <2>2 DEF EchoNext, PassStep, echoVars, Conversations, Requests, ReserveAccept, AcceptInvitation, Reload,
       Inbox, WaitForCount, SkipItem, Reserve, SendReply, Acknowledge, Finish, EndPass, PassFails, Invite, Withdraw,
       LateJoin, CountArrives, NextWindow
<1>3. ASSUME NEW r \in DMs
      PROVE  /\ member[r] = "left" => member'[r] = "left"
             /\ member[r] \in {"joined", "left"} => member'[r] \in {"joined", "left"}
  <2>0. member \in [DMs -> {"none", "invited", "joined", "left"}]
    BY DEF EchoTypeOK
  <2>1. CASE AcceptInvitation
    BY <2>0, <2>1 DEF AcceptInvitation, InPass, PlaceInv
  <2>2. ASSUME NEW q \in DMs, Invite(q) \/ Withdraw(q) \/ LateJoin(q)
        PROVE  /\ member[r] = "left" => member'[r] = "left"
               /\ member[r] \in {"joined", "left"} => member'[r] \in {"joined", "left"}
    BY <2>0, <2>2 DEF Invite, Withdraw, LateJoin
  <2>3. CASE PassFails
    BY <2>0, <2>3 DEF PassFails, InPass, PlaceInv
  <2>4. CASE member' = member
    BY <2>4
  <2>. QED
    BY <2>1, <2>2, <2>3, <2>4 DEF EchoNext, PassStep, echoVars, Conversations, Requests, ReserveAccept, Reload, Inbox,
       WaitForCount, SkipItem, Reserve, SendReply, Acknowledge, Finish, EndPass, Arrive, CountArrives, NextWindow
<1>4. posted \subseteq posted'
  BY DEF EchoNext, PassStep, echoVars, Conversations, Requests, ReserveAccept, AcceptInvitation, Reload, Inbox,
     WaitForCount, SkipItem, Reserve, SendReply, Acknowledge, Finish, EndPass, PassFails, Replied, Invite, Withdraw,
     LateJoin, CountArrives, NextWindow, Arrive
<1>. QED
  BY <1>1, <1>2, <1>3, <1>4

\* Nothing is there at first.
LEMMA EchoInitHolds == EchoInit => EchoInv
<1>. SUFFICES ASSUME EchoInit PROVE EchoInv
  OBVIOUS
<1>1. /\ box = <<>> /\ Len(box) = 0 /\ journal = [cursor |-> 0, prepared |-> {}, done |-> {}]
      /\ used = [all |-> 0, accepts |-> 0, peer |-> [r \in DMs |-> 0]]
      /\ pass = [at |-> "idle", allowed |-> {}, unknown |-> {}, todo |-> {}, room |-> "none", last |-> 0, changed |-> FALSE]
      /\ member = [r \in DMs |-> "none"] /\ counted = {} /\ joining = {} /\ posted = {} /\ losses = MaxLosses
  BY DEF EchoInit, NoneUsed, NoPass
<1>2. box \in Seq(Posts) /\ MaxLosses \in Nat /\ EchoCap \in Nat /\ PeerCap \in Nat /\ AcceptCap \in Nat
  BY <1>1, EchoAssumption
<1>. HIDE DEF EchoInit
<1>3. EchoTypeOK
  BY <1>1, <1>2 DEF EchoTypeOK, Stages
<1>. QED
  BY <1>1, <1>3 DEF EchoInv, PlaceInv, BoxInv, RepliedInv

\* The transaction and the room of the item at hand.
LEMMA ItemTyped ==
  ASSUME EchoTypeOK, Item <= Len(box)
  PROVE  /\ Item \in 1..Len(box) /\ box[Item] \in Posts
         /\ Room \in DMs /\ TransactionId(Item) \in Replies
<1>1. journal.cursor \in 0..Len(box) /\ box \in Seq(Posts) /\ Len(box) \in Nat
  BY DEF EchoTypeOK
<1>2. Item \in 1..Len(box)
  BY <1>1 DEF Item
<1>. QED
  BY <1>1, <1>2, EchoAssumption DEF Room, TransactionId, Replies

\* Passing an item that is there keeps the cursor within the inbox.
LEMMA FinishedTyped ==
  ASSUME EchoTypeOK, Item <= Len(box), NEW tx \in Replies
  PROVE  Finished(journal, tx) \in [cursor : 0..Len(box), prepared : SUBSET (Replies \cup DMs), done : SUBSET (Replies \cup DMs)]
<1>1. journal \in [cursor : 0..Len(box), prepared : SUBSET (Replies \cup DMs), done : SUBSET (Replies \cup DMs)]
  BY DEF EchoTypeOK
<1>2. journal.cursor + 1 \in 0..Len(box)
  BY ItemTyped DEF Item
<1>. QED
  BY <1>1, <1>2 DEF Finished

\* A pass keeps its shape.
EchoPass == [at : Stages, allowed : SUBSET DMs, unknown : SUBSET DMs, todo : SUBSET DMs, room : DMs \cup {"none"},
             last : 0..Len(box), changed : BOOLEAN]

\* Each step keeps the type of every variable.
LEMMA EchoTypeStep ==
  ASSUME EchoTypeOK, PlaceInv, [EchoNext]_echoVars
  PROVE  EchoTypeOK'
<1>0. /\ pass \in EchoPass /\ Len(box) \in Nat /\ losses \in 0..MaxLosses /\ MaxLosses \in Nat
      /\ EchoCap \in Nat /\ PeerCap \in Nat /\ AcceptCap \in Nat
      /\ member \in [DMs -> {"none", "invited", "joined", "left"}]
      /\ journal \in [cursor : 0..Len(box), prepared : SUBSET (Replies \cup DMs), done : SUBSET (Replies \cup DMs)]
  BY EchoAssumption DEF EchoTypeOK, EchoPass
<1>n. NoPass \in EchoPass
  BY <1>0 DEF NoPass, EchoPass, Stages
<1>a. ASSUME NEW stage \in Stages PROVE [pass EXCEPT !.at = stage] \in EchoPass
  BY <1>0 DEF EchoPass
<1>l. Lose => losses' \in 0..MaxLosses
  BY <1>0 DEF Lose
<1>1. CASE Conversations
  <2>1. pass' \in EchoPass
    BY <1>1, <1>n DEF Conversations, Sorted, Joined, EchoPass, Stages, EchoTypeOK
  <2>. QED
    BY <1>1, <2>1 DEF Conversations, EchoTypeOK, EchoPass
<1>2. CASE Requests
  <2>1. pass' \in EchoPass
    BY <1>2, <1>0 DEF Requests, EchoPass, Stages
  <2>. QED
    BY <1>2, <2>1 DEF Requests, EchoTypeOK, EchoPass
<1>3. ASSUME NEW r \in DMs, ReserveAccept(r) PROVE EchoTypeOK'
  <2>0. /\ [pass EXCEPT !.todo = @ \ {r}] \in EchoPass /\ [pass EXCEPT !.todo = {}] \in EchoPass
        /\ [pass EXCEPT !.at = "accept", !.room = r] \in EchoPass
    BY <1>0 DEF EchoPass, Stages
  <2>1. pass' \in EchoPass
    BY <1>3, <2>0 DEF ReserveAccept
  <2>2. journal' \in [cursor : 0..Len(box), prepared : SUBSET (Replies \cup DMs), done : SUBSET (Replies \cup DMs)]
    BY <1>3, <1>0 DEF ReserveAccept
  <2>3. used' \in [all : 0..EchoCap, accepts : 0..AcceptCap, peer : [DMs -> 0..PeerCap]]
    BY <1>3, <1>0 DEF ReserveAccept, EchoTypeOK
  <2>. QED
    BY <1>3, <2>1, <2>2, <2>3 DEF ReserveAccept, EchoTypeOK, EchoPass
<1>4. CASE AcceptInvitation
  <2>0. pass.room \in DMs
    BY <1>4 DEF AcceptInvitation, InPass, PlaceInv
  <2>1. pass' \in EchoPass
    BY <1>4, <1>0 DEF AcceptInvitation, EchoPass, Stages
  <2>2. journal' \in [cursor : 0..Len(box), prepared : SUBSET (Replies \cup DMs), done : SUBSET (Replies \cup DMs)]
    BY <1>4, <1>0, <2>0 DEF AcceptInvitation
  <2>3. member' \in [DMs -> {"none", "invited", "joined", "left"}]
    BY <1>4, <1>0 DEF AcceptInvitation
  <2>. QED
    BY <1>4, <2>1, <2>2, <2>3 DEF AcceptInvitation, EchoTypeOK, EchoPass
<1>5. CASE Reload
  <2>1. pass' \in EchoPass
    BY <1>5, <1>0 DEF Reload, Sorted, Joined, EchoPass, Stages, EchoTypeOK
  <2>. QED
    BY <1>5, <2>1 DEF Reload, EchoTypeOK, EchoPass
<1>6. CASE Inbox
  <2>0. Len(box) \in 0..Len(box) /\ "item" \in Stages
    BY <1>0 DEF Stages
  <2>1. pass' \in EchoPass
    BY <1>6, <1>0, <2>0 DEF Inbox, EchoPass
  <2>. QED
    BY <1>6, <2>1 DEF Inbox, EchoTypeOK, EchoPass
<1>7. CASE WaitForCount \/ EndPass
  BY <1>7, <1>n DEF WaitForCount, EndPass, EchoTypeOK, EchoPass
<1>8. CASE SkipItem
  <2>1. Item <= Len(box)
    BY <1>8, <1>0 DEF SkipItem, Item, EchoPass
  <2>2. journal' \in [cursor : 0..Len(box), prepared : SUBSET (Replies \cup DMs), done : SUBSET (Replies \cup DMs)]
    BY <1>8, <1>0, <2>1 DEF SkipItem, Advanced, Item
  <2>. QED
    BY <1>8, <2>2 DEF SkipItem, EchoTypeOK
<1>9. CASE Reserve
  <2>1. Item <= Len(box)
    BY <1>9, <1>0 DEF Reserve, Item, EchoPass
  <2>2. Room \in DMs /\ TransactionId(Item) \in Replies
    BY <2>1, ItemTyped
  <2>3. pass' \in EchoPass
    BY <1>9, <1>0, <1>n, <1>a DEF Reserve, Enter, Stages
  <2>4. journal' \in [cursor : 0..Len(box), prepared : SUBSET (Replies \cup DMs), done : SUBSET (Replies \cup DMs)]
    <3>1. CASE journal' = Finished(journal, TransactionId(Item))
      BY <2>1, <2>2, <3>1, FinishedTyped
    <3>2. CASE journal' = [journal EXCEPT !.prepared = @ \cup {TransactionId(Item)}]
      BY <1>0, <2>2, <3>2
    <3>3. CASE journal' = journal
      BY <1>0, <3>3
    <3>. QED
      BY <1>9, <3>1, <3>2, <3>3 DEF Reserve
  <2>5. used' \in [all : 0..EchoCap, accepts : 0..AcceptCap, peer : [DMs -> 0..PeerCap]]
    <3>1. used \in [all : 0..EchoCap, accepts : 0..AcceptCap, peer : [DMs -> 0..PeerCap]]
      BY DEF EchoTypeOK
    <3>2. CASE ~Full /\ ~(used.peer[Room] >= PeerCap) /\ used' = [used EXCEPT !.all = @ + 1, !.peer[Room] = @ + 1]
      <4>1. used.all \in 0..EchoCap /\ used.all + 1 \in 0..EchoCap
        BY <1>0, <3>1, <3>2 DEF Full
      <4>2. used.peer \in [DMs -> 0..PeerCap] /\ used.peer[Room] + 1 \in 0..PeerCap
        BY <1>0, <2>2, <3>1, <3>2
      <4>3. [used.peer EXCEPT ![Room] = @ + 1] \in [DMs -> 0..PeerCap]
        BY <2>2, <4>2
      <4>. QED
        BY <3>1, <3>2, <4>1, <4>3
    <3>3. CASE used' = used
      BY <3>1, <3>3
    <3>. QED
      BY <1>9, <3>2, <3>3 DEF Reserve
  <2>. QED
    BY <1>9, <2>3, <2>4, <2>5 DEF Reserve, EchoTypeOK, EchoPass
<1>10. CASE SendReply
  <2>1. pass' \in EchoPass
    BY <1>10, <1>a DEF SendReply, Enter, Stages
  <2>2. posted' \subseteq Replies
    BY <1>10, ItemTyped DEF SendReply, Replied, InPass, PlaceInv, EchoTypeOK
  <2>. QED
    BY <1>10, <2>1, <2>2 DEF SendReply, EchoTypeOK, EchoPass
<1>11. CASE Acknowledge
  <2>1. pass' \in EchoPass
    BY <1>11, <1>a DEF Acknowledge, Enter, Stages
  <2>. QED
    BY <1>11, <2>1 DEF Acknowledge, EchoTypeOK, EchoPass
<1>12. CASE Finish
  <2>1. pass' \in EchoPass
    BY <1>12, <1>a DEF Finish, Enter, Stages
  <2>2. journal' \in [cursor : 0..Len(box), prepared : SUBSET (Replies \cup DMs), done : SUBSET (Replies \cup DMs)]
    <3>1. Item <= Len(box) /\ journal' = Finished(journal, TransactionId(Item))
      BY <1>12 DEF Finish, InPass, PlaceInv
    <3>. QED
      BY <3>1, ItemTyped, FinishedTyped
  <2>. QED
    BY <1>12, <2>1, <2>2 DEF Finish, EchoTypeOK, EchoPass
<1>13. CASE PassFails
  <2>1. posted' \subseteq Replies
    BY <1>13, ItemTyped DEF PassFails, Replied, InPass, PlaceInv, EchoTypeOK
  <2>2. member' \in [DMs -> {"none", "invited", "joined", "left"}] /\ joining' \subseteq DMs /\ counted' = counted
    BY <1>13, <1>0 DEF PassFails, InPass, PlaceInv, EchoTypeOK
  <2>. QED
    BY <1>13, <1>n, <1>l, <2>1, <2>2 DEF PassFails, EchoTypeOK, EchoPass
<1>14. ASSUME NEW r \in DMs, Invite(r) \/ Withdraw(r) \/ LateJoin(r) \/ CountArrives(r) PROVE EchoTypeOK'
  <2>1. member' \in [DMs -> {"none", "invited", "joined", "left"}] /\ losses' \in 0..MaxLosses /\ counted' \subseteq DMs
    BY <1>14, <1>0, <1>l DEF Invite, Withdraw, LateJoin, CountArrives, EchoTypeOK
  <2>. QED
    BY <1>14, <2>1 DEF Invite, Withdraw, LateJoin, CountArrives, EchoTypeOK
<1>15. ASSUME NEW e \in Posts, Arrive(e) PROVE EchoTypeOK'
  <2>1. 0..Len(box) \subseteq 0..Len(box') /\ box' \in Seq(Posts)
    BY EchoGrows
  <2>2. losses' \in 0..MaxLosses
    BY <1>15, <1>0, <1>l DEF Arrive
  <2>3. /\ journal \in [cursor : 0..Len(box'), prepared : SUBSET (Replies \cup DMs), done : SUBSET (Replies \cup DMs)]
        /\ pass \in [at : Stages, allowed : SUBSET DMs, unknown : SUBSET DMs, todo : SUBSET DMs, room : DMs \cup {"none"},
                     last : 0..Len(box'), changed : BOOLEAN]
    BY <1>0, <2>1 DEF EchoPass
  <2>. QED
    BY <1>15, <2>1, <2>2, <2>3 DEF Arrive, EchoTypeOK
<1>16. CASE NextWindow
  BY <1>16, <1>0 DEF NextWindow, NoneUsed, EchoTypeOK
<1>17. CASE UNCHANGED echoVars
  BY <1>17 DEF echoVars, EchoTypeOK
<1>. QED
  BY <1>1, <1>2, <1>3, <1>4, <1>5, <1>6, <1>7, <1>8, <1>9, <1>10, <1>11, <1>12, <1>13, <1>14, <1>15, <1>16, <1>17
     DEF EchoNext, PassStep

\* The steps of a pass that matter here: which stage follows which.
LEMMA StageSteps ==
  ASSUME EchoTypeOK, [EchoNext]_echoVars
  PROVE  \/ pass' = pass /\ (pass.at \in {"send", "acknowledge", "finish"} => journal' = journal)
         \/ pass'.at = "accept" /\ pass'.room \in DMs
         \/ pass'.at = "send" /\ journal'.cursor = journal.cursor /\ pass.at = "item" /\ Item <= pass.last
         \/ SendReply \/ Acknowledge
         \/ pass'.at \notin {"accept", "send", "acknowledge", "finish"}
<1>0. pass \in EchoPass
  BY DEF EchoTypeOK, EchoPass
<1>1. CASE Conversations \/ Requests \/ Reload \/ Inbox
  BY <1>0, <1>1 DEF Conversations, Requests, Reload, Inbox, Sorted, NoPass, EchoPass
<1>2. ASSUME NEW r \in DMs, ReserveAccept(r)
      PROVE  \/ pass'.at = "accept" /\ pass'.room \in DMs
             \/ pass'.at \notin {"accept", "send", "acknowledge", "finish"}
  BY <1>0, <1>2 DEF ReserveAccept, InPass, EchoPass
<1>3. CASE AcceptInvitation
  BY <1>0, <1>3 DEF AcceptInvitation, EchoPass
<1>4. CASE WaitForCount \/ EndPass \/ PassFails
  BY <1>4 DEF WaitForCount, EndPass, PassFails, NoPass
<1>5. CASE Reserve
  <2>1. InPass("item") /\ Item <= pass.last
    BY <1>5 DEF Reserve
  <2>2. CASE Enter("send") /\ journal'.cursor = journal.cursor
    BY <1>0, <2>1, <2>2 DEF Enter, InPass, EchoPass
  <2>3. CASE pass' = pass \/ pass' = NoPass
    BY <2>1, <2>3 DEF InPass, NoPass
  <2>4. [journal EXCEPT !.prepared = @ \cup {TransactionId(Item)}].cursor = journal.cursor
    BY DEF EchoTypeOK
  <2>. QED
    BY <1>5, <2>2, <2>3, <2>4 DEF Reserve
<1>6. CASE Finish
  BY <1>0, <1>6 DEF Finish, Enter, EchoPass
<1>7. CASE SkipItem
  BY <1>7 DEF SkipItem, InPass
<1>8. CASE pass' = pass /\ journal' = journal
  BY <1>8
<1>. QED
  BY <1>1, <1>2, <1>3, <1>4, <1>5, <1>6, <1>7, <1>8 DEF EchoNext, PassStep, echoVars, NextWindow, Invite, Withdraw,
     LateJoin, CountArrives, Arrive

\* The three facts about the item at hand.
LEMMA EchoStep == EchoInv /\ [EchoNext]_echoVars => EchoInv'
<1>. SUFFICES ASSUME EchoInv, [EchoNext]_echoVars PROVE EchoInv'
  OBVIOUS
<1>0. EchoTypeOK /\ PlaceInv /\ BoxInv /\ RepliedInv /\ EchoTypeOK'
  BY EchoTypeStep DEF EchoInv
<1>1. /\ Len(box) \in Nat /\ Len(box') \in Nat /\ Len(box) <= Len(box')
      /\ \A i \in 1..Len(box) : box'[i] = box[i] /\ box[i] \in Posts
      /\ posted \subseteq posted'
  BY <1>0, EchoGrows
<1>2. \A r \in DMs : /\ member[r] = "left" => member'[r] = "left"
                     /\ member[r] \in {"joined", "left"} => member'[r] \in {"joined", "left"}
  BY <1>0, EchoGrows
<1>3. BoxInv'
  <2>1. ASSUME NEW i \in 1..Len(box) PROVE member'[RoomOf[box'[i]]] \in {"joined", "left"}
    BY <1>0, <1>1, <1>2, EchoAssumption DEF BoxInv
  <2>2. ASSUME NEW e \in Posts, Arrive(e) PROVE BoxInv'
    <3>1. box' = Append(box, e) /\ member' = member /\ member[RoomOf[e]] = "joined"
      BY <2>2 DEF Arrive
    <3>2. Len(box') = Len(box) + 1 /\ box'[Len(box) + 1] = e
      BY <1>0, <3>1 DEF EchoTypeOK
    <3>. QED
      BY <1>1, <2>1, <3>1, <3>2 DEF BoxInv
  <2>3. CASE box' = box
    BY <2>1, <2>3 DEF BoxInv
  <2>. QED
    BY <2>2, <2>3 DEF EchoNext, PassStep, echoVars, Conversations, Requests, ReserveAccept, AcceptInvitation, Reload,
       Inbox, WaitForCount, SkipItem, Reserve, SendReply, Acknowledge, Finish, EndPass, PassFails, Invite, Withdraw,
       LateJoin, CountArrives, NextWindow
<1>4. PlaceInv' /\ RepliedInv'
  <2>1. CASE pass' = pass /\ (pass.at \in {"send", "acknowledge", "finish"} => journal' = journal)
    <3>1. pass.at \in {"send", "acknowledge", "finish"} =>
            /\ Item' = Item /\ Item \in 1..Len(box) /\ box'[Item] = box[Item] /\ Room \in DMs
      BY <1>0, <1>1, <2>1, ItemTyped DEF PlaceInv, Item
    <3>2. pass.at \in {"send", "acknowledge", "finish"} => TransactionId(Item)' = TransactionId(Item) /\ Room' = Room
      BY <3>1 DEF TransactionId, Room
    <3>3. PlaceInv'
      BY <1>0, <1>1, <2>1, <3>1 DEF PlaceInv
    <3>. QED
      BY <1>0, <1>1, <1>2, <2>1, <3>1, <3>2, <3>3 DEF RepliedInv
  <2>2. CASE pass'.at = "accept" /\ pass'.room \in DMs
    BY <2>2 DEF PlaceInv, RepliedInv
  <2>3. CASE pass'.at = "send" /\ journal'.cursor = journal.cursor /\ pass.at = "item" /\ Item <= pass.last
    <3>1. Item' = Item /\ pass.last \in 0..Len(box) /\ journal.cursor \in Nat
      BY <1>0, <2>3 DEF Item, EchoTypeOK
    <3>2. Item' <= Len(box')
      BY <1>1, <2>3, <3>1 DEF Item
    <3>. QED
      BY <2>3, <3>2 DEF PlaceInv, RepliedInv
  <2>4. CASE SendReply
    <3>1. /\ Item <= Len(box) /\ box' = box /\ member' = member /\ journal' = journal
          /\ posted' = Replied /\ pass'.at = IF member[Room] = "joined" THEN "acknowledge" ELSE "finish"
      BY <1>0, <2>4 DEF SendReply, InPass, Enter, PlaceInv, EchoTypeOK
    <3>2. member[Room] \in {"joined", "left"}
      BY <1>0, <3>1, ItemTyped DEF BoxInv, Room
    <3>3. Item' = Item /\ TransactionId(Item)' = TransactionId(Item) /\ Room' = Room
      BY <3>1 DEF Item, TransactionId, Room
    <3>. QED
      BY <3>1, <3>2, <3>3 DEF PlaceInv, RepliedInv, Replied
  <2>5. CASE Acknowledge
    <3>1. /\ Item <= Len(box) /\ box' = box /\ member' = member /\ journal' = journal /\ posted' = posted
          /\ pass'.at = "finish" /\ TransactionId(Item) \in posted
      BY <1>0, <2>5 DEF Acknowledge, InPass, Enter, PlaceInv, RepliedInv, EchoTypeOK
    <3>2. Item' = Item /\ TransactionId(Item)' = TransactionId(Item) /\ Room' = Room
      BY <3>1 DEF Item, TransactionId, Room
    <3>. QED
      BY <3>1, <3>2 DEF PlaceInv, RepliedInv
  <2>6. CASE pass'.at \notin {"accept", "send", "acknowledge", "finish"}
    BY <2>6 DEF PlaceInv, RepliedInv
  <2>. QED
    BY <1>0, <2>1, <2>2, <2>3, <2>4, <2>5, <2>6, StageSteps
<1>. QED
  BY <1>0, <1>3, <1>4 DEF EchoInv

\* Echo's rooms, inbox, journal and counters keep their types, and the counters
\* their caps, for any peers, messages, caps and losses.
THEOREM EchoTypeCorrect == EchoSpec => []EchoTypeOK
<1>1. EchoInv => EchoTypeOK
  BY DEF EchoInv
<1>. QED
  BY <1>1, EchoInitHolds, EchoStep, PTL DEF EchoSpec

\* Echo marks a message as done only when the server has its answer, the
\* conversation is over, or its own peer is over its share: calls that fail after
\* they took effect, kills, repeated deliveries and withdrawn rooms included.
THEOREM EchoAnswers == EchoSpec => EchoDropsOnlyExcess
<1>. DEFINE Reason(e) == \/ <<e>> \in posted
                         \/ member[RoomOf[e]] = "left"
                         \/ used.peer[RoomOf[e]] >= PeerCap
            Reasons == \A e \in Posts : <<e>> \in journal'.done \ journal.done => Reason(e)
<1>1. ASSUME EchoInv, EchoNext PROVE Reasons
  <2>0. /\ EchoTypeOK /\ PlaceInv /\ RepliedInv
        /\ journal \in [cursor : 0..Len(box), prepared : SUBSET (Replies \cup DMs), done : SUBSET (Replies \cup DMs)]
    BY <1>1 DEF EchoInv, EchoTypeOK
  <2>1. CASE AcceptInvitation
    <3>1. pass.room \in DMs /\ journal'.done = journal.done \cup {pass.room}
      BY <2>0, <2>1 DEF AcceptInvitation, InPass, PlaceInv
    <3>. QED
      BY <3>1, EchoAssumption
  <2>2. ASSUME NEW e \in Posts, <<e>> \in journal'.done \ journal.done,
               journal'.done = journal.done \cup {TransactionId(Item)}
        PROVE  box[Item] = e /\ Room = RoomOf[e] /\ TransactionId(Item) = <<e>>
    BY <2>2 DEF TransactionId, Room
  <2>3. CASE Reserve
    <3>1. \/ journal'.done = journal.done
          \/ journal'.done = journal.done \cup {TransactionId(Item)} /\ used.peer[Room] >= PeerCap
      BY <2>0, <2>3 DEF Reserve, Finished, PeerFull
    <3>. QED
      BY <2>2, <3>1
  <2>4. CASE Finish
    <3>1. journal'.done = journal.done \cup {TransactionId(Item)} /\ (TransactionId(Item) \in posted \/ member[Room] = "left")
      BY <2>0, <2>4 DEF Finish, Finished, InPass, RepliedInv
    <3>. QED
      BY <2>2, <3>1
  <2>5. ASSUME NEW r \in DMs, ReserveAccept(r) PROVE journal'.done = journal.done
    BY <2>0, <2>5 DEF ReserveAccept
  <2>6. CASE SkipItem
    BY <2>0, <2>6 DEF SkipItem, Advanced
  <2>7. CASE journal' = journal
    BY <2>7
  <2>. QED
    BY <1>1, <2>1, <2>3, <2>4, <2>5, <2>6, <2>7 DEF EchoNext, PassStep, Conversations, Requests, Reload, Inbox,
       WaitForCount, SendReply, Acknowledge, EndPass, PassFails, Invite, Withdraw, LateJoin, CountArrives, NextWindow,
       Arrive
<1>2. EchoInv /\ [EchoNext]_echoVars => [Reasons]_echoVars
  BY <1>1
<1>. QED
  BY <1>2, EchoInitHolds, EchoStep, PTL DEF EchoSpec, EchoDropsOnlyExcess

=============================================================================
