----------------------------- MODULE InboxSync -----------------------------
(***************************************************************************)
(* The native runtime's synchronization: Runtime::sync in                  *)
(* crates/zavliq-runtime/src/runtime.rs and the transactions it commits    *)
(* through Store::commit_batch in store.rs.                                *)
(*                                                                         *)
(* Three durable states advance separately: the homeserver (which deletes  *)
(* queued to-device room keys up to any `since` token it is given), the    *)
(* Matrix SDK's own store (token and room keys, persisted inside           *)
(* sync_once before it returns) and the inbox (cursor, events, gaps and    *)
(* the recovery phase, one SQLite transaction per commit).  A command line *)
(* on stdin, a failed request or the death of the process may stop sync()  *)
(* between any two of its awaits.                                          *)
(*                                                                         *)
(* A token is a position of the server's stream; 0 is the absent token.    *)
(***************************************************************************)
EXTENDS Integers, Sequences, FiniteSets

CONSTANTS
  Rooms,        \* the joined rooms
  MaxPos,       \* bound: length of the server's stream
  MaxFaults,    \* bound: interruptions, failed pages and late replies
  GapLimit,     \* gaps resumed by one sync (5 in the code)
  RetryLimit,   \* undecrypted events retried by one sync (10 in the code)
  Fresh,        \* TRUE: a recovery request is answered from a server state
                \* no older than any answered before, or not advanced at all
  CanLoseState  \* TRUE: the SDK's directory may be lost (a partial restore)

ASSUME ConstantsAssumption ==
  /\ MaxPos \in Nat
  /\ MaxFaults \in Nat
  /\ GapLimit \in Nat \ {0}
  /\ RetryLimit \in Nat \ {0}
  /\ Fresh \in BOOLEAN
  /\ CanLoseState \in BOOLEAN

VARIABLES
  stream,     \* server: timeline events and to-device room keys, in order
  acked,      \* server: to-device messages up to here are deleted
  served,     \* server: the newest next_batch it has put in a reply
  sdkToken,   \* SDK store: SyncToken
  sdkKeys,    \* SDK store: positions of the room keys it has processed
  crypto,     \* SDK store: matrix-sdk-crypto.sqlite3 is present
  cursor,     \* inbox: metadata 'sync'
  phase,      \* inbox: metadata 'recovery_sdk_token', or NoPhase
  held,       \* inbox: events with a row
  plain,      \* inbox: events whose row is not ciphertext
  seq,        \* inbox: the batch that wrote each event's row, 0 if none
  lastSeq,    \* inbox: the last batch that wrote one (sqlite_sequence)
  gap,        \* inbox: prev_batch of each room's gap, or NoGap
  pc,         \* sync(): the await it has reached
  sdkTok,     \* sync(): sdk_token
  origin,     \* sync(): recovery_origin
  rcursor,    \* sync(): recovery_cursor, or NoCursor
  reply,      \* sync(): the response not yet committed
  todo,       \* sync(): gap rooms, then events, left in its two loops
  faults,     \* bounded by MaxFaults
  damaged     \* history: the SDK's directory was lost

server  == <<stream, acked, served>>
sdk     == <<sdkToken, sdkKeys, crypto>>
rows    == <<held, plain, seq, lastSeq>>
inbox   == <<cursor, phase, rows, gap>>
locals  == <<sdkTok, origin, rcursor, reply, todo>>
vars    == <<server, sdk, inbox, pc, locals, faults, damaged>>

NoPhase  == -1
NoGap    == -1
NoCursor == -1

Token == 0 .. MaxPos
Item  == [room : Rooms, kind : {"plain", "cipher", "key"}]
Reply == [next : Token, since : Token, cut : [Rooms -> Token]]
NoReply == [next |-> 0, since |-> 0, cut |-> [r \in Rooms |-> 0]]

PCs == {"idle", "raw", "rawReply", "sdk", "sdkReply", "commit", "blocks",
        "history", "retry"}

(***************************************************************************)
(* What the server's stream holds.                                         *)
(***************************************************************************)
End == Len(stream)
IsEvent(p) == stream[p].kind # "key"
IsKey(p)   == stream[p].kind = "key"

AllEvents == {p \in 1 .. End : IsEvent(p)}
Events(r, a, b) == {p \in AllEvents : stream[p].room = r /\ a < p /\ p <= b}

\* Where the server may begin a room's timeline in a reply covering (a, b]:
\* at the start, or (limited) just before one of its later events.
Cuts(r, a, b) ==
  {a} \cup {c \in a .. b : /\ Events(r, a, c) # {}
                           /\ c + 1 \in Events(r, a, b)}

Replies(since, next) ==
  {[next |-> next, since |-> since, cut |-> c] :
     c \in {f \in [Rooms -> since .. next] :
              \A r \in Rooms : f[r] \in Cuts(r, since, next)}}

Limited(rep, r) == Events(r, rep.since, rep.cut[r]) # {}
Timeline(rep)   == UNION {Events(r, rep.cut[r], rep.next) : r \in Rooms}

\* A reply older than the stream's end uses up a fault, so that replies are
\* eventually current.
Late(next) ==
  /\ next < End => faults < MaxFaults
  /\ faults' = IF next < End THEN faults + 1 ELSE faults

\* Giving `since` to the server deletes the to-device messages before it.
Acknowledge(since) == acked' = IF since > acked THEN since ELSE acked

Serve(rep) ==
  /\ reply' = rep
  /\ served' = IF rep.next > served THEN rep.next ELSE served

(***************************************************************************)
(* Store::commit_batch.                                                    *)
(***************************************************************************)
\* The SDK can read an event that was sent in clear or whose room's key it has.
Readable(p) ==
  \/ stream[p].kind = "plain"
  \/ \E k \in sdkKeys : IsKey(k) /\ stream[k].room = stream[p].room

InClear(evs) == {p \in evs : stream[p].kind = "plain"}
Decrypted(evs) == {p \in evs : Readable(p)}

\* The rows a batch writes: new events, and ciphertext that is now readable.
Written(evs, open) == (evs \ held) \cup (open \ plain)

\* AUTOINCREMENT: what a batch writes is ordered after every earlier row.
Number(written) ==
  /\ seq' = [p \in 1 .. MaxPos |->
               IF p \in written THEN lastSeq + 1 ELSE seq[p]]
  /\ lastSeq' = IF written = {} THEN lastSeq ELSE lastSeq + 1

\* Mutant of Insert: a decrypted row keeps its old sequence number.
InsertInPlace(evs, open) ==
  /\ held'  = held \cup evs
  /\ plain' = plain \cup open
  /\ Number(evs \ held)

\* INSERT .. ON CONFLICT DO UPDATE: ciphertext is upgraded, never restored.
Insert(evs, open) ==
  /\ held'  = held \cup evs
  /\ plain' = plain \cup open
  /\ Number(Written(evs, open))

\* Mutant of GapsOf: an existing gap is kept (INSERT OR IGNORE).
GapsKeepOld(rep) ==
  [r \in Rooms |-> IF Limited(rep, r) /\ gap[r] = NoGap
                     THEN rep.cut[r] ELSE gap[r]]

\* Each limited room's gap is moved to the newer prev_batch.
GapsOf(rep) ==
  [r \in Rooms |-> IF Limited(rep, r) THEN rep.cut[r] ELSE gap[r]]

(***************************************************************************)
(* Decisions of sync().                                                    *)
(***************************************************************************)
\* client() and sync() refuse a device whose inbox survived its SDK store.
SyncStateIncomplete ==
  /\ cursor # 0
  /\ \/ ~crypto
     \/ sdkToken = 0 /\ phase # 0

\* Mutant of FinishSdkFirst: a restart always recovers from the inbox cursor.
FinishSdkNever == FALSE

FinishSdkFirst == phase # NoPhase /\ phase = sdkToken

NeedsRaw == cursor # sdkToken /\ ~FinishSdkFirst

\* The next_batch values the server may answer each kind of request with.
RawTokens == (IF Fresh THEN served ELSE cursor) .. End
SdkTokens ==
  IF rcursor # NoCursor /\ Fresh
    THEN {sdkTok} \cup served .. End     \* full_state bypasses cached replies
    ELSE sdkTok .. End

\* Mutant of CommitCursor: the SDK's reply always sets the cursor.
CommitCursorFromSdk == reply.next

CommitCursor == IF rcursor = NoCursor THEN reply.next ELSE rcursor

\* Mutant of CaughtUp: the marker is kept whenever there was one.
CaughtUpNever == origin = NoPhase

CaughtUp ==
  \/ origin = NoPhase
  \/ origin # reply.next
  \/ rcursor = origin

\* Mutant of Oldest: only what the last batch wrote is retried.
OldestOfBatch(S, n) == {p \in S : n > 0 /\ seq[p] = lastSeq}

\* SELECT .. FROM events .. LIMIT n reads the table in the order of its rows.
Older(p, q) == seq[p] < seq[q] \/ (seq[p] = seq[q] /\ p < q)
Oldest(S, n) == {p \in S : Cardinality({q \in S : Older(q, p)}) < n}

\* Up to n rows of the gaps, whose order of insertion is not modelled.
Selection(S, n) ==
  {T \in SUBSET S : \/ Cardinality(T) = n
                    \/ Cardinality(S) <= n /\ T = S}

ResetLocals ==
  /\ pc' = "idle"
  /\ sdkTok' = 0 /\ origin' = NoPhase /\ rcursor' = NoCursor
  /\ reply' = NoReply /\ todo' = {}

-----------------------------------------------------------------------------
Init ==
  /\ stream = <<>> /\ acked = 0 /\ served = 0
  /\ sdkToken = 0 /\ sdkKeys = {} /\ crypto = FALSE
  /\ cursor = 0 /\ phase = NoPhase
  /\ held = {} /\ plain = {}
  /\ seq = [p \in 1 .. MaxPos |-> 0] /\ lastSeq = 0
  /\ gap = [r \in Rooms |-> NoGap]
  /\ pc = "idle" /\ sdkTok = 0 /\ origin = NoPhase /\ rcursor = NoCursor
  /\ reply = NoReply /\ todo = {}
  /\ faults = 0 /\ damaged = FALSE

\* A message or a room key reaches the homeserver.
Arrive ==
  /\ End < MaxPos
  /\ \E i \in Item : stream' = Append(stream, i)
  /\ UNCHANGED <<acked, served, sdk, inbox, pc, locals, faults, damaged>>

\* sync() opens the client and reads its three durable tokens.
Begin ==
  /\ pc = "idle"
  /\ ~SyncStateIncomplete
  /\ crypto' = TRUE
  /\ sdkTok' = sdkToken
  /\ origin' = phase
  /\ rcursor' = IF FinishSdkFirst /\ cursor # 0 THEN cursor ELSE NoCursor
  /\ pc' = IF NeedsRaw THEN "raw" ELSE "sdk"
  /\ UNCHANGED <<server, sdkToken, sdkKeys, inbox, reply, todo, faults,
                 damaged>>

\* GET /sync?since=<inbox cursor>: the server acknowledges and answers.
RawSync ==
  /\ pc = "raw"
  /\ \E next \in RawTokens :
       /\ next # 0 /\ next >= cursor
       /\ Late(next)
       /\ \E rep \in Replies(cursor, next) : Serve(rep)
  /\ Acknowledge(cursor)
  /\ pc' = "rawReply"
  /\ UNCHANGED <<stream, sdk, inbox, sdkTok, origin, rcursor, todo, damaged>>

\* Store::commit_recovery: the raw events stay ciphertext, and the phase
\* records the SDK token that still has to catch up.
CommitRecovery ==
  /\ pc = "rawReply"
  /\ Insert(Timeline(reply), InClear(Timeline(reply)))
  /\ gap' = GapsOf(reply)
  /\ cursor' = reply.next
  /\ phase' = sdkTok
  /\ origin' = sdkTok
  /\ rcursor' = reply.next
  /\ reply' = NoReply
  /\ pc' = "sdk"
  /\ UNCHANGED <<server, sdk, sdkTok, todo, faults, damaged>>

\* client.sync_once: the SDK's request follows the SDK's own token.
SdkSync ==
  /\ pc = "sdk"
  /\ \E next \in SdkTokens :
       /\ next # 0
       /\ Late(next)
       /\ \E rep \in Replies(sdkTok, next) : Serve(rep)
  /\ Acknowledge(sdkTok)
  /\ pc' = "sdkReply"
  /\ UNCHANGED <<stream, sdk, inbox, sdkTok, origin, rcursor, todo, damaged>>

\* sync_once persists the token and the room keys of the reply that the
\* server still had; it has not returned yet.
SdkPersist ==
  /\ pc = "sdkReply"
  /\ sdkToken' = reply.next
  /\ sdkKeys' = sdkKeys \cup
       {k \in 1 .. End : IsKey(k) /\ acked < k /\ k <= reply.next}
  /\ pc' = "commit"
  /\ UNCHANGED <<server, crypto, inbox, locals, faults, damaged>>

\* Store::complete_sync or commit_sync.  A gap is recorded only outside
\* recovery: the raw reply already recorded a newer one.
CommitSync ==
  /\ pc = "commit"
  /\ Insert(Timeline(reply), Decrypted(Timeline(reply)))
  /\ gap' = IF rcursor = NoCursor THEN GapsOf(reply) ELSE gap
  /\ cursor' = CommitCursor
  /\ phase' = IF CaughtUp THEN NoPhase ELSE phase
  /\ pc' = "blocks"
  /\ UNCHANGED <<server, sdk, locals, faults, damaged>>

\* refresh_blocks succeeded; SELECT .. FROM gaps LIMIT 5.
SelectGaps ==
  /\ pc = "blocks"
  /\ todo' \in Selection({r \in Rooms : gap[r] # NoGap}, GapLimit)
  /\ pc' = "history"
  /\ UNCHANGED <<server, sdk, inbox, sdkTok, origin, rcursor, reply, faults,
                 damaged>>

\* One backward page from the gap's token down to c, and Store::commit_history.
HistoryPage(r) ==
  /\ pc = "history"
  /\ r \in todo
  /\ LET page == Events(r, 0, gap[r]) IN
       \/ /\ page = {}
          /\ gap' = [gap EXCEPT ![r] = NoGap]
          /\ UNCHANGED rows
       \/ \E e \in page :
            LET chunk == Events(r, e - 1, gap[r]) IN
            /\ Insert(chunk, Decrypted(chunk))
            /\ \/ gap' = [gap EXCEPT ![r] = e - 1]
               \/ /\ Events(r, 0, e - 1) = {}     \* no `end` token
                  /\ gap' = [gap EXCEPT ![r] = NoGap]
  /\ cursor' = CommitCursor
  /\ todo' = todo \ {r}
  /\ UNCHANGED <<server, sdk, phase, pc, sdkTok, origin, rcursor, reply,
                 faults, damaged>>

\* The SDK does not know the room or the page request fails: the gap stays.
HistoryFails(r) ==
  /\ pc = "history"
  /\ r \in todo
  /\ faults < MaxFaults
  /\ faults' = faults + 1
  /\ todo' = todo \ {r}
  /\ UNCHANGED <<server, sdk, inbox, pc, sdkTok, origin, rcursor, reply,
                 damaged>>

\* SELECT .. FROM events WHERE algorithm IS NOT NULL LIMIT 10.
SelectEncrypted ==
  /\ pc = "history"
  /\ todo = {}
  /\ todo' = Oldest(held \ plain, RetryLimit)
  /\ pc' = "retry"
  /\ UNCHANGED <<server, sdk, inbox, sdkTok, origin, rcursor, reply, faults,
                 damaged>>

\* room.event re-fetches the event; Store::commit_sync if the SDK decrypts it.
RetryDecrypt(p) ==
  /\ pc = "retry"
  /\ p \in todo
  /\ IF Readable(p)
       THEN Insert({p}, {p}) /\ cursor' = CommitCursor
       ELSE UNCHANGED <<rows, cursor>>
  /\ todo' = todo \ {p}
  /\ UNCHANGED <<server, sdk, phase, gap, pc, sdkTok, origin, rcursor, reply,
                 faults, damaged>>

Finish ==
  /\ pc = "retry"
  /\ todo = {}
  /\ ResetLocals
  /\ UNCHANGED <<server, sdk, inbox, faults, damaged>>

\* A line on stdin cancels the future, a request fails, or the process dies:
\* what was committed stays, the rest of this call is gone.
Interrupt ==
  /\ pc # "idle"
  /\ faults < MaxFaults
  /\ faults' = faults + 1
  /\ ResetLocals
  /\ UNCHANGED <<server, sdk, inbox, damaged>>

\* The inbox is restored without the SDK's directory, or without its token.
LoseSdkState ==
  /\ CanLoseState
  /\ pc = "idle" /\ cursor # 0 /\ ~damaged
  /\ sdkToken' = 0
  /\ \/ crypto' = FALSE /\ sdkKeys' = {}
     \/ UNCHANGED <<crypto, sdkKeys>>
  /\ damaged' = TRUE
  /\ UNCHANGED <<server, inbox, pc, locals, faults>>

SyncStep ==
  \/ Begin \/ RawSync \/ CommitRecovery \/ SdkSync \/ SdkPersist
  \/ CommitSync \/ SelectGaps \/ SelectEncrypted \/ Finish
  \/ \E r \in Rooms : HistoryPage(r)
  \/ \E p \in 1 .. MaxPos : RetryDecrypt(p)

Next ==
  \/ Arrive
  \/ SyncStep
  \/ \E r \in Rooms : HistoryFails(r)
  \/ Interrupt
  \/ LoseSdkState

Spec == Init /\ [][Next]_vars

\* The RPC loop starts a sync on every tick and awaits each of its steps.
FairSpec == Spec /\ WF_vars(SyncStep)

-----------------------------------------------------------------------------
TypeOK ==
  /\ stream \in Seq(Item) /\ End <= MaxPos
  /\ acked \in Token /\ served \in Token
  /\ sdkToken \in Token /\ sdkKeys \subseteq 1 .. MaxPos /\ crypto \in BOOLEAN
  /\ cursor \in Token
  /\ phase \in Token \cup {NoPhase}
  /\ held \subseteq 1 .. MaxPos /\ plain \subseteq held
  /\ seq \in [1 .. MaxPos -> Nat] /\ lastSeq \in Nat
  /\ gap \in [Rooms -> Token \cup {NoGap}]
  /\ pc \in PCs
  /\ sdkTok \in Token
  /\ origin \in Token \cup {NoPhase}
  /\ rcursor \in Token \cup {NoCursor}
  /\ reply \in Reply
  /\ todo \subseteq Rooms \cup 1 .. MaxPos
  /\ faults \in 0 .. MaxFaults
  /\ damaged \in BOOLEAN

\* Every event the inbox cursor has passed is in the inbox or lies behind a
\* recorded gap of its room: an interruption between the SDK's commit and the
\* inbox's, a limited reply or a newer gap never loses one (sync, commit_batch).
NothingLost ==
  \A p \in AllEvents :
    p <= cursor => p \in held \/ p <= gap[stream[p].room]

\* The SDK has every room key that the server has deleted.
KeysStored == \A k \in 1 .. End : IsKey(k) /\ k <= acked => k \in sdkKeys

\* While the SDK's directory is intact, the server never deletes a room key
\* that the SDK has not processed: a raw recovery request must not acknowledge
\* what the SDK still has to fetch (sync's recovery phase; the comment
\* "Reusing a raw /sync token acknowledges queued to-device messages").
KeysNotDiscarded == ~damaged => KeysStored

(***************************************************************************)
(* The inductive invariants behind them, proved in InboxSync_proofs.       *)
(***************************************************************************)
\* No token is ahead of what the server has answered.
Bounds ==
  /\ served <= End /\ acked <= served
  /\ cursor <= served /\ sdkToken <= served
  /\ sdkTok <= served /\ reply.next <= served

\* What one call of sync() knows of the cursor it is going to commit.
CallInv ==
  /\ phase # NoPhase => cursor # 0
  /\ pc = "rawReply" => reply.since = cursor /\ reply.next # 0
  /\ pc \in {"sdk", "sdkReply", "commit"} =>
       IF rcursor = NoCursor THEN cursor = sdkTok ELSE cursor = rcursor
  /\ pc \in {"sdkReply", "commit"} => reply.since = sdkTok
  /\ pc \in {"blocks", "history", "retry"} => cursor = CommitCursor
  /\ pc \in {"rawReply", "sdkReply", "commit"} =>
       /\ reply.since <= reply.next
       /\ \A r \in Rooms : reply.since <= reply.cut[r]

\* With fresh recovery replies and an intact SDK store, the cursor is ahead
\* of the SDK only while the phase names the token the SDK is still at.
RecoveryInv ==
  /\ \A k \in 1 .. End : IsKey(k) /\ k <= sdkToken => k \in sdkKeys
  /\ cursor <= sdkToken \/ phase = sdkToken
  /\ pc \in {"raw", "rawReply", "sdk", "sdkReply"} => sdkTok = sdkToken
  /\ pc = "raw" => cursor <= sdkToken
  /\ pc = "commit" => sdkToken = reply.next
  /\ pc \in {"sdkReply", "commit"} =>
       reply.next = sdkTok \/ cursor <= reply.next
  /\ pc \in {"sdk", "sdkReply", "commit"} /\ rcursor # NoCursor =>
       origin = sdkTok

\* A row that becomes readable is numbered after every row written before, so
\* a reader whose own cursor has already passed the ciphertext sees it again.
\* Ciphertext fetched again never overwrites it.
UpgradeReappears ==
  [][/\ plain \subseteq plain'
     /\ \A p \in held : p \in plain' \ plain => seq'[p] > lastSeq]_vars

\* The inbox catches up again and again: however sync() is interrupted, every
\* event that has reached the server comes to be in the inbox and a recovery
\* that was begun is completed, its marker removed; a device never refuses its
\* own state unless it has lost the SDK's (SYNC_STATE_INCOMPLETE).
EventuallyDelivered == []<>(damaged \/ (AllEvents \subseteq held /\ phase = NoPhase))

\* Events whose room key has reached the SDK come to be readable in the
\* inbox (the comment at the retry loop: "Keys can arrive after their
\* encrypted event; retry local undecryptable entries so a later thread read
\* can return the decrypted content").
LateKeyUpgrades == []<>(damaged \/ \A p \in held : Readable(p) => p \in plain)

\* The events the cursor has passed that only a gap accounts for.
owed == {p \in AllEvents : /\ p <= cursor
                           /\ p <= gap[stream[p].room]
                           /\ p \notin held}

Inbox == INSTANCE DurableInbox WITH arrived <- AllEvents, owed <- owed

\* Each step of synchronization is a step of DurableInbox or a stutter.
ImplementsDurableInbox == Inbox!Spec

=============================================================================
