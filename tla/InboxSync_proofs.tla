-------------------------- MODULE InboxSync_proofs --------------------------
(***************************************************************************)
(* Proofs about InboxSync for every set of rooms and every bound.          *)
(*                                                                         *)
(* TypeOK and Bounds are inductive by themselves.  NothingLost needs       *)
(* CallInv: the cursor a call will commit is the one it read, or the end   *)
(* of a reply that starts there.  KeysNotDiscarded needs RecoveryInv: the  *)
(* inbox cursor passes the SDK's token only under the phase marker.        *)
(***************************************************************************)
EXTENDS InboxSync, TLAPS

\* Facts every step needs about a reply drawn from Replies.
LEMMA RepliesType ==
  ASSUME NEW since \in Token, NEW next \in Token, NEW rep \in Replies(since, next)
  PROVE  /\ rep.since = since /\ rep.next = next
         /\ rep \in Reply
         /\ \A r \in Rooms : since <= rep.cut[r] /\ rep.cut[r] <= next
<1>1. PICK c \in [Rooms -> since .. next] :
        rep = [next |-> next, since |-> since, cut |-> c]
  BY DEF Replies
<1>2. c \in [Rooms -> Token] /\ \A r \in Rooms : c[r] \in since .. next
  BY <1>1, ConstantsAssumption DEF Token
<1>. QED
  BY <1>1, <1>2, ConstantsAssumption DEF Token, Reply

\* What is numbered is an integer, whichever rows a batch writes.
LEMMA InsertType ==
  ASSUME TypeOK, NEW evs \in SUBSET (1 .. MaxPos), NEW open \in SUBSET evs,
         Insert(evs, open)
  PROVE  /\ held' \subseteq 1 .. MaxPos /\ plain' \subseteq held'
         /\ seq' \in [1 .. MaxPos -> Nat] /\ lastSeq' \in Nat
BY DEF TypeOK, Insert, Number, Written

\* The end of the stream is a position within the bound.
LEMMA EndType == TypeOK => End \in Token
<1>. SUFFICES ASSUME TypeOK PROVE End \in Token
  OBVIOUS
<1>1. stream \in Seq(Item) /\ End <= MaxPos
  BY DEF TypeOK
<1>2. Len(stream) \in Nat
  BY <1>1
<1>. QED
  BY <1>1, <1>2, ConstantsAssumption DEF End, Token

\* The events of a room, and of a reply, are positions of the stream.
LEMMA EventsType ==
  ASSUME TypeOK
  PROVE  /\ AllEvents \subseteq 1 .. MaxPos
         /\ \A r, a, b : Events(r, a, b) \subseteq AllEvents
         /\ \A rep : Timeline(rep) \subseteq AllEvents
         /\ \A p \in 1 .. End : stream[p] \in Item /\ stream[p].room \in Rooms
<1>1. End \in Token
  BY EndType
<1>2. AllEvents \subseteq 1 .. MaxPos
  BY <1>1, ConstantsAssumption DEF AllEvents, Token
<1>3. \A r, a, b : Events(r, a, b) \subseteq AllEvents
  BY DEF Events
<1>4. \A rep : Timeline(rep) \subseteq AllEvents
  BY <1>3 DEF Timeline
<1>5. \A p \in 1 .. End : stream[p] \in Item
  BY DEF TypeOK, End
<1>6. \A i \in Item : i.room \in Rooms
  BY DEF Item
<1>. QED
  BY <1>2, <1>3, <1>4, <1>5, <1>6

\* The initial state is well typed.
THEOREM TypeInit == Init => TypeOK
<1>. SUFFICES ASSUME Init PROVE TypeOK
  OBVIOUS
<1>1. stream \in Seq(Item) /\ End = 0
  BY DEF Init, End
<1>2. 0 \in Token /\ NoReply \in Reply
  BY ConstantsAssumption DEF Token, Reply, NoReply
<1>3. /\ seq \in [1 .. MaxPos -> Nat]
      /\ gap \in [Rooms -> Token \cup {NoGap}]
  BY DEF Init
<1>4. End <= MaxPos /\ faults \in 0 .. MaxFaults
  BY <1>1, ConstantsAssumption DEF Init
<1>5. pc \in PCs /\ origin = NoPhase /\ rcursor = NoCursor
  BY DEF Init, PCs
<1>. QED
  BY <1>1, <1>2, <1>3, <1>4, <1>5 DEF Init, TypeOK

\* Each step keeps the type of every variable.
LEMMA TypeStep == TypeOK /\ [Next]_vars => TypeOK'
<1>. SUFFICES ASSUME TypeOK, [Next]_vars PROVE TypeOK'
  OBVIOUS
<1>. USE ConstantsAssumption
<1>1. CASE Arrive
  BY <1>1 DEF Arrive, TypeOK, End, sdk, inbox, rows, locals
<1>2. CASE Begin
  BY <1>2 DEF Begin, TypeOK, server, inbox, rows, End, PCs, NoCursor, NoPhase
<1>3. CASE RawSync
  <2>1. PICK next \in RawTokens :
          /\ next >= cursor /\ Late(next)
          /\ \E rep \in Replies(cursor, next) : Serve(rep)
    BY <1>3 DEF RawSync
  <2>2. next \in Token
    BY <2>1 DEF RawTokens, TypeOK, Token, End
  <2>3. PICK rep \in Replies(cursor, next) : Serve(rep)
    BY <2>1
  <2>6. rep \in Reply /\ rep.next = next
    BY <2>2, RepliesType DEF TypeOK
  <2>4. reply' \in Reply /\ served' \in Token /\ acked' \in Token
    BY <1>3, <2>2, <2>3, <2>6 DEF Serve, RawSync, Acknowledge, TypeOK
  <2>5. faults' \in 0 .. MaxFaults
    BY <2>1 DEF Late, TypeOK
  <2>. QED
    BY <1>3, <2>4, <2>5 DEF RawSync, TypeOK, sdk, inbox, rows, End, PCs
<1>4. CASE CommitRecovery
  <2>1. Timeline(reply) \subseteq 1 .. MaxPos
    BY EventsType
  <2>2. /\ held' \subseteq 1 .. MaxPos /\ plain' \subseteq held'
        /\ seq' \in [1 .. MaxPos -> Nat] /\ lastSeq' \in Nat
    BY <1>4, <2>1, InsertType DEF CommitRecovery, InClear
  <2>3. gap' \in [Rooms -> Token \cup {NoGap}]
    BY <1>4 DEF CommitRecovery, GapsOf, TypeOK, Reply
  <2>4. NoReply \in Reply /\ reply.next \in Token
    BY DEF NoReply, Reply, Token, TypeOK
  <2>. QED
    BY <1>4, <2>2, <2>3, <2>4
       DEF CommitRecovery, TypeOK, server, sdk, End, PCs
<1>5. CASE SdkSync
  <2>1. PICK next \in SdkTokens :
          Late(next) /\ \E rep \in Replies(sdkTok, next) : Serve(rep)
    BY <1>5 DEF SdkSync
  <2>2. next \in Token
    BY <2>1 DEF SdkTokens, TypeOK, Token, End
  <2>3. PICK rep \in Replies(sdkTok, next) : Serve(rep)
    BY <2>1
  <2>6. rep \in Reply /\ rep.next = next
    BY <2>2, RepliesType DEF TypeOK
  <2>4. reply' \in Reply /\ served' \in Token /\ acked' \in Token
    BY <1>5, <2>2, <2>3, <2>6 DEF Serve, SdkSync, Acknowledge, TypeOK
  <2>5. faults' \in 0 .. MaxFaults
    BY <2>1 DEF Late, TypeOK
  <2>. QED
    BY <1>5, <2>4, <2>5 DEF SdkSync, TypeOK, sdk, inbox, rows, End, PCs
<1>6. CASE SdkPersist
  <2>1. reply.next \in Token
    BY DEF TypeOK, Reply
  <2>2. sdkKeys' \subseteq 1 .. MaxPos
    <3>1. End \in Token
      BY EndType
    <3>2. 1 .. End \subseteq 1 .. MaxPos
      BY <3>1 DEF Token
    <3>. QED
      BY <1>6, <3>2 DEF SdkPersist, TypeOK
  <2>. QED
    BY <1>6, <2>1, <2>2
       DEF SdkPersist, TypeOK, server, inbox, rows, locals, End, PCs
<1>7. CASE CommitSync
  <2>1. Timeline(reply) \subseteq 1 .. MaxPos
    BY EventsType
  <2>2. /\ held' \subseteq 1 .. MaxPos /\ plain' \subseteq held'
        /\ seq' \in [1 .. MaxPos -> Nat] /\ lastSeq' \in Nat
    BY <1>7, <2>1, InsertType DEF CommitSync, Decrypted
  <2>3. gap' \in [Rooms -> Token \cup {NoGap}]
    BY <1>7 DEF CommitSync, GapsOf, TypeOK, Reply
  <2>4. cursor' \in Token
    BY <1>7 DEF CommitSync, CommitCursor, TypeOK, Reply
  <2>. QED
    BY <1>7, <2>2, <2>3, <2>4
       DEF CommitSync, TypeOK, server, sdk, locals, End, PCs
<1>8. CASE SelectGaps
  BY <1>8 DEF SelectGaps, Selection, TypeOK, server, sdk, inbox, rows, End, PCs
<1>9. ASSUME NEW r \in Rooms, HistoryPage(r) PROVE TypeOK'
  <2>1. CommitCursor \in Token
    BY DEF CommitCursor, TypeOK, Reply
  <2>2. CASE Events(r, 0, gap[r]) = {} /\ gap' = [gap EXCEPT ![r] = NoGap]
             /\ UNCHANGED rows
    BY <1>9, <2>1, <2>2
       DEF HistoryPage, TypeOK, server, sdk, rows, End, PCs
  <2>3. ASSUME NEW e \in Events(r, 0, gap[r]),
               Insert(Events(r, e - 1, gap[r]),
                      Decrypted(Events(r, e - 1, gap[r]))),
               \/ gap' = [gap EXCEPT ![r] = e - 1]
               \/ gap' = [gap EXCEPT ![r] = NoGap]
        PROVE  TypeOK'
    <3>1. e \in 1 .. MaxPos /\ Events(r, e - 1, gap[r]) \subseteq 1 .. MaxPos
      BY EventsType
    <3>2. /\ held' \subseteq 1 .. MaxPos /\ plain' \subseteq held'
          /\ seq' \in [1 .. MaxPos -> Nat] /\ lastSeq' \in Nat
      BY <2>3, <3>1, InsertType DEF Decrypted
    <3>3. gap' \in [Rooms -> Token \cup {NoGap}]
      BY <2>3, <3>1 DEF TypeOK, Token
    <3>. QED
      BY <1>9, <2>1, <3>2, <3>3 DEF HistoryPage, TypeOK, server, sdk, End, PCs
  <2>. QED
    BY <1>9, <2>2, <2>3 DEF HistoryPage
<1>10. ASSUME NEW r \in Rooms, HistoryFails(r) PROVE TypeOK'
  BY <1>10 DEF HistoryFails, TypeOK, server, sdk, inbox, rows, End
<1>11. CASE SelectEncrypted
  BY <1>11 DEF SelectEncrypted, Oldest, TypeOK, server, sdk, inbox, rows, End,
               PCs
<1>12. ASSUME NEW p \in 1 .. MaxPos, RetryDecrypt(p) PROVE TypeOK'
  <2>1. CommitCursor \in Token
    BY DEF CommitCursor, TypeOK, Reply
  <2>2. /\ held' \subseteq 1 .. MaxPos /\ plain' \subseteq held'
        /\ seq' \in [1 .. MaxPos -> Nat] /\ lastSeq' \in Nat
        /\ cursor' \in Token
    <3>1. CASE Readable(p)
      BY <1>12, <2>1, <3>1, InsertType DEF RetryDecrypt
    <3>2. CASE ~Readable(p)
      BY <1>12, <3>2 DEF RetryDecrypt, TypeOK, rows
    <3>. QED BY <3>1, <3>2
  <2>. QED
    BY <1>12, <2>2 DEF RetryDecrypt, TypeOK, server, sdk, End
<1>13. CASE Finish
  BY <1>13 DEF Finish, ResetLocals, TypeOK, server, sdk, inbox, rows, End, PCs,
               NoReply, Reply, Token, NoPhase, NoCursor
<1>14. CASE Interrupt
  BY <1>14 DEF Interrupt, ResetLocals, TypeOK, server, sdk, inbox, rows, End,
               PCs, NoReply, Reply, Token, NoPhase, NoCursor
<1>15. CASE LoseSdkState
  <2>1. sdkToken' \in Token /\ damaged' \in BOOLEAN
    BY <1>15 DEF LoseSdkState, Token
  <2>2. sdkKeys' \subseteq 1 .. MaxPos /\ crypto' \in BOOLEAN
    BY <1>15 DEF LoseSdkState, TypeOK
  <2>. QED
    BY <1>15, <2>1, <2>2
       DEF LoseSdkState, TypeOK, server, inbox, rows, locals, End
<1>16. CASE UNCHANGED vars
  BY <1>16 DEF vars, TypeOK, server, sdk, inbox, rows, locals, End
<1>. QED
  BY <1>1, <1>2, <1>3, <1>4, <1>5, <1>6, <1>7, <1>8, <1>9, <1>10, <1>11,
     <1>12, <1>13, <1>14, <1>15, <1>16 DEF Next, SyncStep

\* Every variable keeps its type under any interleaving of the server, the
\* SDK, the inbox and interruptions.
THEOREM TypeCorrect == Spec => []TypeOK
BY TypeInit, TypeStep, PTL DEF Spec

-----------------------------------------------------------------------------
(***************************************************************************)
(* The cursor a call commits, and NothingLost.                             *)
(***************************************************************************)
\* What SyncRequest's two kinds put in `reply'.
LEMMA RequestReply ==
  ASSUME TypeOK, NEW since \in Token, NEW next \in Token, since <= next,
         NEW rep \in Replies(since, next), Serve(rep)
  PROVE  /\ reply'.since = since /\ reply'.next = next
         /\ \A r \in Rooms : since <= reply'.cut[r]
         /\ served <= served' /\ next <= served'
         /\ served' = served \/ served' = next
BY RepliesType, ConstantsAssumption DEF Serve, TypeOK, Token

\* The position RawSync and SdkSync choose, and the reply that ends there.
LEMMA RawReply ==
  ASSUME TypeOK, Bounds, RawSync
  PROVE  \E next \in Token :
           /\ next # 0 /\ cursor <= next /\ next <= End
           /\ Fresh => served <= next
           /\ reply'.since = cursor /\ reply'.next = next
           /\ \A r \in Rooms : cursor <= reply'.cut[r]
           /\ next <= served' /\ served <= served' /\ served' <= End
<1>1. PICK next \in RawTokens :
        next # 0 /\ next >= cursor /\ \E rep \in Replies(cursor, next) : Serve(rep)
  BY DEF RawSync
<1>2. End \in Token
  BY EndType
<1>3. next \in Token /\ next <= End /\ (Fresh => served <= next)
  BY <1>1, <1>2, ConstantsAssumption DEF RawTokens, TypeOK, Token
<1>4. PICK rep \in Replies(cursor, next) : Serve(rep)
  BY <1>1
<1>5. cursor \in Token /\ served \in Token /\ cursor <= next
  BY <1>1, <1>3 DEF TypeOK, Token
<1>. QED
  BY <1>1, <1>2, <1>3, <1>4, <1>5, RequestReply DEF Bounds

\* The same for the SDK's own request.
LEMMA SdkReply ==
  ASSUME TypeOK, Bounds, SdkSync
  PROVE  \E next \in Token :
           /\ sdkTok <= next /\ next <= End
           /\ Fresh /\ rcursor # NoCursor => next = sdkTok \/ served <= next
           /\ reply'.since = sdkTok /\ reply'.next = next
           /\ \A r \in Rooms : sdkTok <= reply'.cut[r]
           /\ next <= served' /\ served <= served' /\ served' <= End
<1>1. PICK next \in SdkTokens :
        \E rep \in Replies(sdkTok, next) : Serve(rep)
  BY DEF SdkSync
<1>2. End \in Token
  BY EndType
<1>3. sdkTok \in Token /\ served \in Token /\ sdkTok <= served /\ served <= End
  BY DEF TypeOK, Bounds
<1>4. /\ next \in Token /\ next <= End /\ sdkTok <= next
      /\ Fresh /\ rcursor # NoCursor => next = sdkTok \/ served <= next
  BY <1>1, <1>2, <1>3, ConstantsAssumption DEF SdkTokens, Token
<1>5. PICK rep \in Replies(sdkTok, next) : Serve(rep)
  BY <1>1
<1>. QED
  BY <1>2, <1>3, <1>4, <1>5, RequestReply DEF Bounds

\* A fresh installation owes nothing and no call is under way.
THEOREM CallInit == Init => Bounds /\ CallInv
<1>. SUFFICES ASSUME Init PROVE Bounds /\ CallInv
  OBVIOUS
<1>1. End = 0
  BY DEF Init, End
<1>. QED
  BY <1>1 DEF Init, Bounds, CallInv, NoReply

\* The stream only grows, and only at its end.
LEMMA StreamGrows ==
  ASSUME TypeOK, [Next]_vars
  PROVE  /\ End \in Token /\ End' \in Nat /\ End <= End'
         /\ \A p \in 1 .. End : stream'[p] = stream[p]
<1>1. End \in Token
  BY EndType
<1>2. CASE Arrive
  <2>1. PICK i \in Item : stream' = Append(stream, i)
    BY <1>2 DEF Arrive
  <2>2. stream \in Seq(Item)
    BY DEF TypeOK
  <2>. QED
    BY <1>1, <2>1, <2>2 DEF End, Token
<1>3. CASE ~Arrive
  <2>1. stream' = stream
    BY <1>3 DEF Next, SyncStep, vars, server, Begin, RawSync, CommitRecovery,
                SdkSync, SdkPersist, CommitSync, SelectGaps, SelectEncrypted,
                Finish, HistoryPage, RetryDecrypt, HistoryFails, Interrupt,
                LoseSdkState
  <2>. QED
    BY <1>1, <2>1 DEF End, Token
<1>. QED
  BY <1>2, <1>3

\* Every step keeps the tokens in bounds and the call's view of the cursor.
LEMMA CallStep ==
  TypeOK /\ Bounds /\ CallInv /\ [Next]_vars => Bounds' /\ CallInv'
<1>. SUFFICES ASSUME TypeOK, Bounds, CallInv, [Next]_vars
              PROVE  Bounds' /\ CallInv'
  OBVIOUS
<1>0. /\ cursor \in Token /\ acked \in Token /\ served \in Token
      /\ sdkToken \in Token /\ sdkTok \in Token /\ reply \in Reply
      /\ reply.next \in Token /\ reply.since \in Token
      /\ \A r \in Rooms : reply.cut[r] \in Token
      /\ End \in Nat /\ End' \in Nat /\ End <= End'
      /\ rcursor \in Token \cup {NoCursor} /\ phase \in Token \cup {NoPhase}
      /\ Token \subseteq Nat
  <2>1. End \in Token /\ End' \in Nat /\ End <= End'
    BY StreamGrows
  <2>2. reply \in Reply /\ Token \subseteq Nat
    BY ConstantsAssumption DEF TypeOK, Token
  <2>3. /\ reply.next \in Token /\ reply.since \in Token
        /\ \A r \in Rooms : reply.cut[r] \in Token
    BY <2>2 DEF Reply
  <2>. QED
    BY <2>1, <2>2, <2>3 DEF TypeOK
<1>. USE <1>0 DEF Bounds, CallInv
<1>1. CASE Arrive
  BY <1>1 DEF Arrive, sdk, inbox, locals, CommitCursor
<1>2. CASE Begin
  BY <1>2 DEF Begin, server, inbox, FinishSdkFirst, NeedsRaw, NoPhase, NoCursor
<1>3. CASE RawSync
  <2>1. acked' = acked \/ acked' = cursor
    BY <1>3 DEF RawSync, Acknowledge
  <2>2. stream' = stream
    BY <1>3 DEF RawSync
  <2>3. PICK next \in Token :
          /\ next # 0 /\ cursor <= next /\ next <= End
          /\ reply'.since = cursor /\ reply'.next = next
          /\ \A r \in Rooms : cursor <= reply'.cut[r]
          /\ next <= served' /\ served <= served' /\ served' <= End
    BY RawReply, <1>3
  <2>4. served' \in Nat /\ End' = End
    BY <2>2, TypeStep DEF TypeOK, Token, End
  <2>5. Bounds'
    BY <1>3, <2>1, <2>3, <2>4 DEF RawSync, sdk, inbox
  <2>6. CallInv'
    BY <1>3, <2>3 DEF RawSync, sdk, inbox
  <2>. QED
    BY <2>5, <2>6
<1>4. CASE CommitRecovery
  BY <1>4 DEF CommitRecovery, server, sdk, NoReply, NoCursor, Token
<1>5. CASE SdkSync
  <2>1. acked' = acked \/ acked' = sdkTok
    BY <1>5 DEF SdkSync, Acknowledge
  <2>2. stream' = stream
    BY <1>5 DEF SdkSync
  <2>3. PICK next \in Token :
          /\ sdkTok <= next /\ next <= End
          /\ reply'.since = sdkTok /\ reply'.next = next
          /\ \A r \in Rooms : sdkTok <= reply'.cut[r]
          /\ next <= served' /\ served <= served' /\ served' <= End
    BY SdkReply, <1>5
  <2>4. served' \in Nat /\ End' = End
    BY <2>2, TypeStep DEF TypeOK, Token, End
  <2>5. Bounds'
    BY <1>5, <2>1, <2>3, <2>4 DEF SdkSync, sdk, inbox
  <2>6. CallInv'
    BY <1>5, <2>3 DEF SdkSync, sdk, inbox
  <2>. QED
    BY <2>5, <2>6
<1>6. CASE SdkPersist
  <2>0. /\ stream' = stream /\ acked' = acked /\ served' = served
        /\ cursor' = cursor /\ sdkToken' = reply.next
        /\ sdkTok' = sdkTok /\ reply' = reply
    BY <1>6 DEF SdkPersist, server, inbox, locals
  <2>1. Bounds'
    BY <2>0 DEF End
  <2>2. /\ phase' = phase /\ cursor' = cursor /\ rcursor' = rcursor
        /\ sdkTok' = sdkTok /\ reply' = reply
        /\ pc = "sdkReply" /\ pc' = "commit"
    BY <1>6 DEF SdkPersist, inbox, locals
  <2>3. /\ phase # NoPhase => cursor # 0
        /\ IF rcursor = NoCursor THEN cursor = sdkTok ELSE cursor = rcursor
        /\ reply.since = sdkTok /\ reply.since <= reply.next
        /\ \A r \in Rooms : reply.since <= reply.cut[r]
    BY <2>2
  <2>4. CallInv'
    BY <2>2, <2>3
  <2>. QED
    BY <2>1, <2>4
<1>7. CASE CommitSync
  <2>1. /\ UNCHANGED <<server, sdk, locals>>
        /\ pc = "commit" /\ pc' = "blocks" /\ cursor' = CommitCursor
        /\ phase' = phase \/ phase' = NoPhase
    BY <1>7 DEF CommitSync
  <2>2. cursor <= CommitCursor /\ CommitCursor <= served
    BY <2>1 DEF CommitCursor
  <2>3. Bounds'
    BY <2>1, <2>2 DEF server, sdk, locals, End
  <2>4. CommitCursor' = CommitCursor
    BY <2>1 DEF locals, CommitCursor
  <2>5. CallInv'
    BY <2>1, <2>2, <2>4 DEF locals
  <2>. QED
    BY <2>3, <2>5
<1>8. CASE SelectGaps
  BY <1>8 DEF SelectGaps, server, sdk, inbox, CommitCursor
<1>9. ASSUME NEW r \in Rooms, HistoryPage(r) PROVE Bounds' /\ CallInv'
  BY <1>9 DEF HistoryPage, server, sdk, CommitCursor
<1>10. ASSUME NEW r \in Rooms, HistoryFails(r) PROVE Bounds' /\ CallInv'
  BY <1>10 DEF HistoryFails, server, sdk, inbox, CommitCursor
<1>11. CASE SelectEncrypted
  BY <1>11 DEF SelectEncrypted, server, sdk, inbox, CommitCursor
<1>12. ASSUME NEW p \in 1 .. MaxPos, RetryDecrypt(p) PROVE Bounds' /\ CallInv'
  BY <1>12 DEF RetryDecrypt, server, sdk, CommitCursor
<1>13. CASE Finish
  BY <1>13 DEF Finish, ResetLocals, server, sdk, inbox, NoReply, Token
<1>14. CASE Interrupt
  BY <1>14 DEF Interrupt, ResetLocals, server, sdk, inbox, NoReply, Token
<1>15. CASE LoseSdkState
  BY <1>15 DEF LoseSdkState, server, inbox, locals, CommitCursor
<1>16. CASE UNCHANGED vars
  BY <1>16 DEF vars, server, sdk, inbox, locals, CommitCursor
<1>. QED
  BY <1>1, <1>2, <1>3, <1>4, <1>5, <1>6, <1>7, <1>8, <1>9, <1>10, <1>11,
     <1>12, <1>13, <1>14, <1>15, <1>16 DEF Next, SyncStep

\* A reply that starts at the cursor accounts for every event up to its end:
\* in its timeline, behind the gap it moves, or as before.
LEMMA ReplyCovers ==
  ASSUME TypeOK, NothingLost, reply.since = cursor,
         \A r \in Rooms : cursor <= reply.cut[r],
         NEW p \in AllEvents, p <= reply.next
  PROVE  p \in Timeline(reply) \cup held \/ p <= GapsOf(reply)[stream[p].room]
<1>. DEFINE r == stream[p].room
<1>0. p \in 1 .. End /\ End \in Nat
  BY EndType DEF AllEvents, Token
<1>1. r \in Rooms /\ p \in Nat /\ cursor \in Nat
  BY <1>0, EventsType DEF TypeOK, Token
<1>2. reply.cut[r] \in Nat /\ gap[r] \in Int /\ cursor <= reply.cut[r]
  BY <1>1 DEF TypeOK, Reply, Token, NoGap
<1>3. GapsOf(reply)[r] = IF Limited(reply, r) THEN reply.cut[r] ELSE gap[r]
  BY <1>1 DEF GapsOf
<1>4. CASE reply.cut[r] < p
  BY <1>1, <1>4 DEF Timeline, Events
<1>5. CASE p <= cursor
  BY <1>1, <1>2, <1>3, <1>5 DEF NothingLost
<1>6. CASE cursor < p /\ p <= reply.cut[r]
  <2>1. p \in Events(r, reply.since, reply.cut[r])
    BY <1>6 DEF Events
  <2>. QED
    BY <1>3, <1>6, <2>1 DEF Limited
<1>. QED
  BY <1>1, <1>2, <1>4, <1>5, <1>6

\* Storing more events with the same cursor and gaps keeps NothingLost.
LEMMA MoreHeld ==
  ASSUME TypeOK, NothingLost, UNCHANGED <<stream, cursor, gap>>, held \subseteq held'
  PROVE  NothingLost'
BY DEF NothingLost, AllEvents, IsEvent, End

\* No step moves the cursor past an event the inbox does not account for.
LEMMA LostStep ==
  TypeOK /\ Bounds /\ CallInv /\ NothingLost /\ [Next]_vars => NothingLost'
<1>. SUFFICES ASSUME TypeOK, Bounds, CallInv, NothingLost, [Next]_vars
              PROVE  NothingLost'
  OBVIOUS
<1>1. CASE Arrive
  <2>1. UNCHANGED <<cursor, held, gap>> /\ cursor <= End /\ cursor \in Nat
    BY <1>1, StreamGrows DEF Arrive, inbox, rows, Bounds, TypeOK, Token
  <2>2. \A p \in AllEvents' : p <= cursor => p \in AllEvents /\ stream'[p] = stream[p]
    BY <2>1, StreamGrows DEF AllEvents, IsEvent, Token
  <2>. QED
    BY <2>1, <2>2 DEF NothingLost
<1>2. CASE CommitRecovery
  <2>1. reply.since = cursor /\ \A r \in Rooms : cursor <= reply.cut[r]
    BY <1>2 DEF CommitRecovery, CallInv
  <2>2. /\ held' = held \cup Timeline(reply) /\ gap' = GapsOf(reply)
        /\ cursor' = reply.next /\ UNCHANGED stream
    BY <1>2 DEF CommitRecovery, Insert, server
  <2>. QED
    BY <2>1, <2>2, ReplyCovers DEF NothingLost, AllEvents, IsEvent, End
<1>3. CASE CommitSync
  <2>1. held' = held \cup Timeline(reply) /\ UNCHANGED stream
    BY <1>3 DEF CommitSync, Insert, server
  <2>2. CASE rcursor = NoCursor
    <3>1. reply.since = cursor /\ \A r \in Rooms : cursor <= reply.cut[r]
      BY <1>3, <2>2 DEF CommitSync, CallInv
    <3>2. gap' = GapsOf(reply) /\ cursor' = reply.next
      BY <1>3, <2>2 DEF CommitSync, CommitCursor
    <3>. QED
      BY <2>1, <3>1, <3>2, ReplyCovers DEF NothingLost, AllEvents, IsEvent, End
  <2>3. CASE rcursor # NoCursor
    <3>1. UNCHANGED <<gap, cursor>>
      BY <1>3, <2>3 DEF CommitSync, CommitCursor, CallInv
    <3>. QED
      BY <2>1, <3>1, MoreHeld
  <2>. QED
    BY <2>2, <2>3
<1>4. ASSUME NEW r \in Rooms, HistoryPage(r) PROVE NothingLost'
  <2>1. UNCHANGED <<stream, cursor>>
    BY <1>4 DEF HistoryPage, server, CallInv
  <2>2. CASE Events(r, 0, gap[r]) = {} /\ gap' = [gap EXCEPT ![r] = NoGap]
             /\ UNCHANGED rows
    <3>1. SUFFICES ASSUME NEW p \in AllEvents, p <= cursor, p \notin held
                   PROVE  p <= gap'[stream[p].room]
      BY <2>1, <2>2 DEF NothingLost, AllEvents, IsEvent, End, rows
    <3>2. p <= gap[stream[p].room] /\ 0 < p
      BY <3>1 DEF NothingLost, AllEvents
    <3>3. stream[p].room # r
      BY <2>2, <3>2 DEF Events
    <3>. QED
      BY <2>2, <3>2, <3>3 DEF TypeOK
  <2>3. ASSUME NEW e \in Events(r, 0, gap[r]),
               held' = held \cup Events(r, e - 1, gap[r]),
               \/ gap' = [gap EXCEPT ![r] = e - 1]
               \/ /\ Events(r, 0, e - 1) = {}
                  /\ gap' = [gap EXCEPT ![r] = NoGap]
        PROVE  NothingLost'
    <3>1. SUFFICES ASSUME NEW p \in AllEvents, p <= cursor, p \notin held'
                   PROVE  p <= gap'[stream[p].room]
      BY <2>1 DEF NothingLost, AllEvents, IsEvent, End
    <3>2. p <= gap[stream[p].room] /\ 0 < p /\ p \in Nat /\ e \in Nat
      BY <2>3, <3>1, EventsType, EndType DEF NothingLost, AllEvents, Token
    <3>3. CASE stream[p].room # r
      <4>1. gap' = [gap EXCEPT ![r] = gap'[r]]
        BY <2>3 DEF TypeOK
      <4>2. stream[p].room \in Rooms
        BY EventsType DEF AllEvents
      <4>. QED
        BY <3>2, <3>3, <4>1, <4>2 DEF TypeOK
    <3>4. CASE stream[p].room = r
      <4>1. p <= e - 1
        BY <2>3, <3>1, <3>2, <3>4 DEF Events
      <4>2. p \in Events(r, 0, e - 1)
        BY <3>2, <3>4, <4>1 DEF Events
      <4>. QED
        BY <2>3, <3>4, <4>1, <4>2 DEF TypeOK
    <3>. QED
      BY <3>3, <3>4
  <2>. QED
    BY <1>4, <2>2, <2>3 DEF HistoryPage, Insert
<1>5. ASSUME NEW p \in 1 .. MaxPos, RetryDecrypt(p) PROVE NothingLost'
  <2>1. UNCHANGED <<stream, cursor, gap>>
    BY <1>5 DEF RetryDecrypt, server, CallInv
  <2>2. held \subseteq held'
    BY <1>5 DEF RetryDecrypt, Insert, rows
  <2>. QED
    BY <2>1, <2>2, MoreHeld
<1>6. CASE UNCHANGED <<stream, cursor, held, gap>>
  BY <1>6, MoreHeld
<1>. QED
  BY <1>1, <1>2, <1>3, <1>4, <1>5, <1>6
     DEF Next, SyncStep, vars, server, inbox, rows, Begin, RawSync, SdkSync,
         SdkPersist, SelectGaps, SelectEncrypted, Finish, HistoryFails,
         Interrupt, LoseSdkState

\* Every event the inbox cursor has passed is held, or behind a gap that the
\* next synchronizations page through: for any number of rooms, any limits
\* the server applies, any interruptions and any age of its replies.
THEOREM InboxLosesNothing == Spec => []NothingLost
<1>1. Init => NothingLost
  BY DEF Init, NothingLost, AllEvents, End
<1>. QED
  BY <1>1, TypeInit, TypeStep, CallInit, CallStep, LostStep, PTL DEF Spec

-----------------------------------------------------------------------------
(***************************************************************************)
(* KeysNotDiscarded, for an intact SDK store and recovery replies that are *)
(* either fresh or not advanced at all.                                    *)
(***************************************************************************)
\* Keys the SDK has, and positions acknowledged, are positions of the stream.
LEMMA OldKeys ==
  ASSUME TypeOK, Bounds, [Next]_vars, sdkKeys \subseteq sdkKeys',
         NEW bound \in Token, bound <= End,
         \A k \in 1 .. End : IsKey(k) /\ k <= bound => k \in sdkKeys
  PROVE  \A k \in 1 .. End' : IsKey(k)' /\ k <= bound => k \in sdkKeys'
<1>. SUFFICES ASSUME NEW k \in 1 .. End', IsKey(k)', k <= bound
              PROVE  k \in sdkKeys'
  OBVIOUS
<1>1. k \in 1 .. End
  BY StreamGrows DEF Token
<1>2. IsKey(k)
  BY <1>1, StreamGrows DEF IsKey
<1>. QED
  BY <1>1, <1>2

\* The SDK's request acknowledges only what the SDK has processed, and the
\* raw request is sent only from behind the SDK's token.
LEMMA KeyStep ==
  ASSUME Fresh, ~CanLoseState,
         TypeOK, Bounds, CallInv, RecoveryInv, KeysStored, [Next]_vars
  PROVE  /\ KeysStored'
         /\ \A k \in 1 .. End' : IsKey(k)' /\ k <= sdkToken' => k \in sdkKeys'
<1>0. /\ acked \in Token /\ sdkToken \in Token /\ reply.next \in Token
      /\ cursor \in Token /\ sdkTok \in Token /\ served \in Token
      /\ End \in Token /\ Token \subseteq Nat
      /\ acked <= End /\ sdkToken <= End /\ reply.next <= End
  <2>1. /\ acked \in Token /\ sdkToken \in Token /\ reply.next \in Token
        /\ cursor \in Token /\ sdkTok \in Token /\ served \in Token
    BY DEF TypeOK, Reply
  <2>2. End \in Token /\ Token \subseteq Nat
    BY EndType DEF Token
  <2>3. /\ acked \in Nat /\ sdkToken \in Nat /\ reply.next \in Nat
        /\ served \in Nat /\ End \in Nat
    BY <2>1, <2>2
  <2>4. acked <= End /\ sdkToken <= End /\ reply.next <= End
    BY <2>3 DEF Bounds
  <2>. QED
    BY <2>1, <2>2, <2>4
<1>1. CASE RawSync
  <2>1. acked' = acked \/ (acked' <= sdkToken /\ acked' \in Token)
    BY <1>1, <1>0 DEF RawSync, Acknowledge, RecoveryInv
  <2>2. UNCHANGED <<stream, sdkKeys, sdkToken>>
    BY <1>1 DEF RawSync, sdk
  <2>3. \A k \in 1 .. End : IsKey(k) /\ k <= acked' => k \in sdkKeys
    <3>1. End \in Nat /\ sdkToken \in Nat /\ acked' \in Nat
      BY <1>0, <2>1
    <3>. QED
      BY <2>1, <3>1 DEF KeysStored, RecoveryInv
  <2>. QED
    BY <2>2, <2>3 DEF KeysStored, RecoveryInv, IsKey, End
<1>2. CASE SdkSync
  <2>1. acked' = acked \/ acked' = sdkToken
    BY <1>2 DEF SdkSync, Acknowledge, RecoveryInv
  <2>2. UNCHANGED <<stream, sdkKeys, sdkToken>>
    BY <1>2 DEF SdkSync, sdk
  <2>. QED
    BY <1>0, <2>1, <2>2 DEF KeysStored, RecoveryInv, IsKey, End
<1>3. CASE SdkPersist
  <2>1. UNCHANGED <<stream, acked>> /\ sdkToken' = reply.next
    BY <1>3 DEF SdkPersist, server
  <2>2. sdkKeys' = sdkKeys \cup
          {k \in 1 .. End : IsKey(k) /\ acked < k /\ k <= reply.next}
    BY <1>3 DEF SdkPersist
  <2>3. \A k \in 1 .. End : IsKey(k) /\ k <= reply.next => k \in sdkKeys'
    BY <1>0, <2>2 DEF KeysStored
  <2>. QED
    BY <2>1, <2>2, <2>3 DEF KeysStored, IsKey, End
<1>4. CASE UNCHANGED <<acked, sdkToken, sdkKeys>>
  <2>1. \A k \in 1 .. End' : IsKey(k)' /\ k <= acked => k \in sdkKeys'
    BY <1>0, <1>4, OldKeys DEF KeysStored
  <2>2. \A k \in 1 .. End' : IsKey(k)' /\ k <= sdkToken => k \in sdkKeys'
    BY <1>0, <1>4, OldKeys DEF RecoveryInv
  <2>. QED
    BY <1>4, <2>1, <2>2 DEF KeysStored
<1>. QED
  BY <1>1, <1>2, <1>3, <1>4
     DEF Next, SyncStep, vars, server, sdk, Arrive, Begin, CommitRecovery,
         CommitSync, SelectGaps, SelectEncrypted, Finish, HistoryPage,
         HistoryFails, RetryDecrypt, Interrupt, LoseSdkState

\* The part of RecoveryInv that relates the tokens of the two stores.
LEMMA RecoveryStep ==
  ASSUME Fresh, ~CanLoseState,
         TypeOK, Bounds, CallInv, RecoveryInv, KeysStored, [Next]_vars
  PROVE  RecoveryInv'
<1>0. /\ cursor \in Nat /\ served \in Nat /\ sdkToken \in Nat
      /\ sdkTok \in Nat /\ reply.next \in Nat
      /\ rcursor \in Int /\ phase \in Int /\ origin \in Int
      /\ cursor <= served
  BY DEF TypeOK, Reply, Token, NoCursor, NoPhase, Bounds
<1>k. \A k \in 1 .. End' : IsKey(k)' /\ k <= sdkToken' => k \in sdkKeys'
  BY KeyStep
<1>. USE <1>0, <1>k DEF RecoveryInv
<1>1. CASE Arrive
  BY <1>1 DEF Arrive, sdk, inbox, locals
<1>2. CASE Begin
  BY <1>2 DEF Begin, inbox, FinishSdkFirst, NeedsRaw, NoPhase, NoCursor
<1>3. CASE RawSync
  BY <1>3 DEF RawSync, sdk, inbox
<1>4. CASE CommitRecovery
  BY <1>4 DEF CommitRecovery, sdk
<1>5. CASE SdkSync
  <2>1. PICK next \in Token :
          /\ sdkTok <= next /\ reply'.next = next
          /\ rcursor # NoCursor => next = sdkTok \/ served <= next
    BY SdkReply, <1>5
  <2>2. next \in Nat /\ (next = sdkTok \/ cursor <= next)
    BY <1>5, <2>1 DEF SdkSync, CallInv, Token
  <2>. QED
    BY <1>5, <2>1, <2>2 DEF SdkSync, sdk, inbox
<1>6. CASE SdkPersist
  BY <1>6 DEF SdkPersist, inbox, locals
<1>7. CASE CommitSync
  <2>1. reply.since = sdkTok /\ reply.since <= reply.next
    BY <1>7 DEF CommitSync, CallInv
  <2>2. cursor' <= sdkToken \/ phase' = sdkToken
    <3>1. CASE rcursor = NoCursor
      BY <1>7, <3>1 DEF CommitSync, CommitCursor
    <3>2. CASE rcursor # NoCursor
      <4>1. cursor = rcursor /\ origin = sdkTok /\ cursor' = cursor
        BY <1>7, <3>2 DEF CommitSync, CommitCursor, CallInv
      <4>2. CASE CaughtUp
        BY <1>7, <2>1, <4>1, <4>2 DEF CommitSync, CaughtUp, NoPhase
      <4>3. CASE ~CaughtUp
        BY <1>7, <4>1, <4>3 DEF CommitSync
      <4>. QED
        BY <4>2, <4>3
    <3>. QED
      BY <3>1, <3>2
  <2>. QED
    BY <1>7, <2>2 DEF CommitSync, sdk, locals
<1>8. CASE SelectGaps
  BY <1>8 DEF SelectGaps, sdk, inbox
<1>9. ASSUME NEW r \in Rooms, HistoryPage(r) PROVE RecoveryInv'
  BY <1>9 DEF HistoryPage, sdk, CallInv
<1>10. ASSUME NEW r \in Rooms, HistoryFails(r) PROVE RecoveryInv'
  BY <1>10 DEF HistoryFails, sdk, inbox
<1>11. CASE SelectEncrypted
  BY <1>11 DEF SelectEncrypted, sdk, inbox
<1>12. ASSUME NEW p \in 1 .. MaxPos, RetryDecrypt(p) PROVE RecoveryInv'
  BY <1>12 DEF RetryDecrypt, sdk, CallInv
<1>13. CASE Finish
  BY <1>13 DEF Finish, ResetLocals, sdk, inbox
<1>14. CASE Interrupt
  BY <1>14 DEF Interrupt, ResetLocals, sdk, inbox
<1>15. CASE UNCHANGED vars
  BY <1>15 DEF vars, sdk, inbox, locals
<1>. QED
  BY <1>1, <1>2, <1>3, <1>4, <1>5, <1>6, <1>7, <1>8, <1>9, <1>10, <1>11,
     <1>12, <1>13, <1>14, <1>15 DEF Next, SyncStep, LoseSdkState

\* However sync() is interrupted, no request it makes lets the server delete
\* a room key that the SDK has not stored.
THEOREM NoKeyDiscarded ==
  ASSUME Fresh, ~CanLoseState
  PROVE  Spec => []KeysNotDiscarded
<1>1. Init => RecoveryInv /\ KeysStored
  BY DEF Init, RecoveryInv, KeysStored, End, NoPhase
<1>2. TypeOK /\ Bounds /\ CallInv /\ RecoveryInv /\ KeysStored
        /\ [Next]_vars => RecoveryInv' /\ KeysStored'
  BY KeyStep, RecoveryStep
<1>3. KeysStored => KeysNotDiscarded
  BY DEF KeysNotDiscarded
<1>. QED
  BY <1>1, <1>2, <1>3, TypeInit, TypeStep, CallInit, CallStep, PTL DEF Spec

-----------------------------------------------------------------------------
(***************************************************************************)
(* InboxSync implements DurableInbox: what the stream gains is an arrival, *)
(* and every other step, a crash included, commits or changes nothing.     *)
(***************************************************************************)
\* The inbox holds events that reached the server, and the retry loop only
\* fetches rows of the inbox again.
HeldInv == held \subseteq AllEvents /\ (pc = "retry" => todo \subseteq held)

\* The events of the stream stay, in their rooms, and new ones follow them.
LEMMA EventsGrow ==
  ASSUME TypeOK, [Next]_vars
  PROVE  /\ AllEvents \subseteq AllEvents'
         /\ \A p \in AllEvents : p \in Nat /\ p <= End /\ stream'[p] = stream[p]
         /\ \A p \in AllEvents' \ AllEvents : p \in Nat /\ p > End
<1>1. /\ End \in Nat /\ End' \in Nat /\ End <= End'
      /\ \A p \in 1 .. End : stream'[p] = stream[p]
  BY StreamGrows DEF Token
<1>2. \A p \in 1 .. End : p \in 1 .. End' /\ (IsEvent(p)' <=> IsEvent(p))
  BY <1>1 DEF IsEvent
<1>. QED
  BY <1>1, <1>2 DEF AllEvents

\* What a step other than an arrival does to the cursor and the rows.
LEMMA CommitOnly ==
  ASSUME TypeOK, Bounds, CallInv, HeldInv, [Next]_vars, ~Arrive
  PROVE  /\ stream' = stream /\ cursor <= cursor'
         /\ held \subseteq held' /\ held' \subseteq AllEvents
<1>0. /\ cursor \in Nat /\ reply.next \in Nat /\ held \subseteq AllEvents
      /\ Timeline(reply) \subseteq AllEvents
      /\ \A r, a, b : Events(r, a, b) \subseteq AllEvents
  BY EventsType DEF TypeOK, Reply, Token, HeldInv
<1>1. CASE CommitRecovery
  <2>1. reply.since = cursor /\ reply.since <= reply.next
    BY <1>1 DEF CommitRecovery, CallInv
  <2>. QED
    BY <1>0, <1>1, <2>1 DEF CommitRecovery, Insert, server
<1>2. CASE CommitSync
  <2>1. cursor <= CommitCursor
    BY <1>0, <1>2 DEF CommitSync, CallInv, CommitCursor
  <2>. QED
    BY <1>0, <1>2, <2>1 DEF CommitSync, Insert, server
<1>3. ASSUME NEW r \in Rooms, HistoryPage(r)
      PROVE  /\ stream' = stream /\ cursor <= cursor'
             /\ held \subseteq held' /\ held' \subseteq AllEvents
  <2>1. stream' = stream /\ cursor' = cursor
    BY <1>3 DEF HistoryPage, server, CallInv
  <2>2. held' = held \/ \E e : held' = held \cup Events(r, e - 1, gap[r])
    BY <1>3 DEF HistoryPage, Insert, rows
  <2>. QED
    BY <1>0, <2>1, <2>2
<1>4. ASSUME NEW p \in 1 .. MaxPos, RetryDecrypt(p)
      PROVE  /\ stream' = stream /\ cursor <= cursor'
             /\ held \subseteq held' /\ held' \subseteq AllEvents
  <2>1. stream' = stream /\ cursor' = cursor
    BY <1>4 DEF RetryDecrypt, server, CallInv
  <2>2. p \in held
    BY <1>4 DEF RetryDecrypt, HeldInv
  <2>3. held' = held
    BY <1>4, <2>2 DEF RetryDecrypt, Insert, rows
  <2>. QED
    BY <1>0, <2>1, <2>3
<1>5. CASE UNCHANGED <<stream, cursor, held>>
  BY <1>0, <1>5
<1>. QED
  BY <1>1, <1>2, <1>3, <1>4, <1>5
     DEF Next, SyncStep, vars, server, inbox, rows, Begin, RawSync, SdkSync,
         SdkPersist, SelectGaps, SelectEncrypted, Finish, HistoryFails,
         Interrupt, LoseSdkState

\* HeldInv is inductive.
LEMMA HeldStep ==
  TypeOK /\ Bounds /\ CallInv /\ HeldInv /\ [Next]_vars => HeldInv'
<1>. SUFFICES ASSUME TypeOK, Bounds, CallInv, HeldInv, [Next]_vars
              PROVE  HeldInv'
  OBVIOUS
<1>1. held' \subseteq AllEvents' /\ held \subseteq held'
  <2>1. CASE Arrive
    BY <2>1, EventsGrow DEF Arrive, inbox, rows, HeldInv
  <2>2. CASE ~Arrive
    BY <2>2, CommitOnly, EventsGrow
  <2>. QED
    BY <2>1, <2>2
<1>2. pc' = "retry" => todo' \subseteq held'
  <2>1. CASE SelectEncrypted
    BY <1>1, <2>1 DEF SelectEncrypted, Oldest
  <2>2. CASE ~SelectEncrypted
    <3>1. pc' = "retry" => pc = "retry" /\ todo' \subseteq todo
      BY <2>2 DEF Next, SyncStep, vars, locals, Arrive, Begin, RawSync,
           CommitRecovery, SdkSync, SdkPersist, CommitSync, SelectGaps, Finish,
           HistoryPage, RetryDecrypt, HistoryFails, Interrupt, LoseSdkState,
           ResetLocals
    <3>. QED
      BY <1>1, <3>1 DEF HeldInv
  <2>. QED
    BY <2>1, <2>2
<1>. QED
  BY <1>1, <1>2 DEF HeldInv

\* A fresh installation is an empty inbox that owes nothing.
LEMMA InboxInit == Init => HeldInv /\ Inbox!Init
<1>. SUFFICES ASSUME Init PROVE HeldInv /\ Inbox!Init
  OBVIOUS
<1>1. AllEvents = {}
  BY DEF Init, AllEvents, End
<1>. QED
  BY <1>1 DEF Init, HeldInv, Inbox!Init, owed

\* An arrival is one in DurableInbox: later than the cursor, owing nothing.
LEMMA InboxArrives ==
  ASSUME TypeOK, Bounds, HeldInv, Arrive
  PROVE  Inbox!Arrive
<1>1. UNCHANGED <<cursor, held, gap>> /\ [Next]_vars
  BY DEF Arrive, inbox, rows, Next
<1>2. cursor <= End /\ cursor \in Nat /\ End \in Nat
  BY StreamGrows, <1>1 DEF Bounds, TypeOK, Token
<1>3. \A p \in AllEvents' \ AllEvents : p > cursor
  BY <1>1, <1>2, EventsGrow
<1>4. owed' = owed
  BY <1>1, <1>2, <1>3, EventsGrow DEF owed
<1>. QED
  BY <1>1, <1>3, <1>4, EventsGrow DEF Inbox!Arrive

\* Any other step is a commit: NothingLost afterwards says that what was owed
\* or is newly passed is held or still owed.
LEMMA InboxCommits ==
  ASSUME TypeOK, Bounds, CallInv, NothingLost, HeldInv, [Next]_vars, ~Arrive
  PROVE  Inbox!Commit
<1>1. /\ stream' = stream /\ cursor <= cursor'
      /\ held \subseteq held' /\ held' \subseteq AllEvents
  BY CommitOnly
<1>2. AllEvents' = AllEvents
  BY <1>1 DEF AllEvents, IsEvent, End
<1>3. NothingLost' /\ TypeOK'
  BY LostStep, TypeStep
<1>4. cursor \in Nat /\ cursor' \in Nat /\ \A p \in AllEvents : p \in Nat
  <2>1. cursor \in Token /\ cursor' \in Token
    BY <1>3 DEF TypeOK
  <2>. QED
    BY <2>1, EventsGrow DEF Token
<1>5. owed' \subseteq AllEvents /\ owed' \cap held' = {}
  BY <1>2 DEF owed
<1>6. ASSUME NEW p \in AllEvents, p <= cursor' PROVE p \in held' \cup owed'
  BY <1>1, <1>2, <1>3, <1>6 DEF NothingLost, owed
<1>7. owed \cup {p \in AllEvents : cursor < p /\ p <= cursor'}
        \subseteq held' \cup owed'
  BY <1>1, <1>4, <1>6 DEF owed
<1>. QED
  BY <1>1, <1>2, <1>4, <1>5, <1>7 DEF Inbox!Commit

\* The runtime's synchronization implements the abstract inbox: whatever
\* interrupts it, in whatever order the two stores and the server advance,
\* its readers see an inbox whose cursor never goes back, whose rows are never
\* lost and that owes every event it has passed until it holds it.
THEOREM Implements == Spec => ImplementsDurableInbox
<1>1. Init => NothingLost
  BY DEF Init, NothingLost, AllEvents, End
<1>2. TypeOK /\ Bounds /\ CallInv /\ NothingLost /\ HeldInv /\ [Next]_vars
        => [Inbox!Next]_(Inbox!absVars)
  BY InboxArrives, InboxCommits DEF Inbox!Next
<1>. QED
  BY <1>1, <1>2, InboxInit, TypeInit, TypeStep, CallInit, CallStep, LostStep,
     HeldStep, PTL DEF Spec, ImplementsDurableInbox, Inbox!Spec

-----------------------------------------------------------------------------
(***************************************************************************)
(* The order of the rows.                                                  *)
(***************************************************************************)
\* A batch numbers what it writes after every earlier row, and a row that it
\* makes readable is among what it writes.
LEMMA InsertReappears ==
  ASSUME TypeOK, NEW evs \in SUBSET (1 .. MaxPos), NEW open \in SUBSET evs,
         Insert(evs, open)
  PROVE  /\ plain \subseteq plain'
         /\ \A p \in held : p \in plain' \ plain => seq'[p] > lastSeq
<1>1. plain' = plain \cup open /\ lastSeq \in Nat
  BY DEF Insert, TypeOK
<1>2. ASSUME NEW p \in open \ plain PROVE seq'[p] > lastSeq
  <2>1. p \in 1 .. MaxPos /\ p \in Written(evs, open)
    BY DEF Written
  <2>2. seq'[p] = lastSeq + 1
    BY <2>1 DEF Insert, Number
  <2>. QED
    BY <1>1, <2>2
<1>3. plain' \ plain = open \ plain
  BY <1>1
<1>. QED
  BY <1>1, <1>2, <1>3

\* Ciphertext that becomes readable comes back at the end of the inbox, and
\* nothing readable is replaced: a reader that has passed the ciphertext sees
\* the message, for any number of rows and however keys and events race.
THEOREM ReadableReappears == Spec => UpgradeReappears
<1>. DEFINE Reappears == /\ plain \subseteq plain'
                         /\ \A p \in held : p \in plain' \ plain => seq'[p] > lastSeq
<1>1. ASSUME TypeOK, Next PROVE Reappears
  <2>1. CASE CommitRecovery
    BY <1>1, <2>1, InsertReappears, EventsType DEF CommitRecovery, InClear
  <2>2. CASE CommitSync
    BY <1>1, <2>2, InsertReappears, EventsType DEF CommitSync, Decrypted
  <2>3. ASSUME NEW r \in Rooms, HistoryPage(r) PROVE Reappears
    <3>1. CASE UNCHANGED rows
      BY <3>1 DEF rows
    <3>2. ASSUME NEW e \in Events(r, 0, gap[r]),
                 Insert(Events(r, e - 1, gap[r]),
                        Decrypted(Events(r, e - 1, gap[r])))
          PROVE  Reappears
      BY <1>1, <3>2, InsertReappears, EventsType DEF Decrypted
    <3>. QED
      BY <2>3, <3>1, <3>2 DEF HistoryPage
  <2>4. ASSUME NEW p \in 1 .. MaxPos, RetryDecrypt(p) PROVE Reappears
    <3>1. CASE Readable(p)
      BY <1>1, <2>4, <3>1, InsertReappears DEF RetryDecrypt
    <3>2. CASE ~Readable(p)
      BY <2>4, <3>2 DEF RetryDecrypt, rows
    <3>. QED
      BY <3>1, <3>2
  <2>5. CASE plain' = plain
    BY <2>5
  <2>. QED
    BY <1>1, <2>1, <2>2, <2>3, <2>4, <2>5
       DEF Next, SyncStep, inbox, rows, Arrive, Begin, RawSync, SdkSync,
           SdkPersist, SelectGaps, SelectEncrypted, Finish, HistoryFails,
           Interrupt, LoseSdkState
<1>2. TypeOK /\ [Next]_vars => [Reappears]_vars
  BY <1>1
<1>. QED
  BY <1>2, TypeInit, TypeStep, PTL DEF Spec, UpgradeReappears

=============================================================================
