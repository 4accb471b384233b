------------------------------ MODULE Pairing ------------------------------
(***************************************************************************)
(* Device pairing: the routes and the cleanup timer of                     *)
(* services/control/src/pairing.ts and the requesting device's             *)
(* pairing_start and pairing_complete in                                   *)
(* crates/zavliq-runtime/src/runtime.rs.                                   *)
(*                                                                         *)
(* approve and ack of one pairing run one at a time (serial in app.ts).    *)
(* approve works on the row it read before it awaited the homeserver; the  *)
(* cleanup works on the rows it read before it awaited each revocation and *)
(* takes no part in the serialization.  The device keeps the pending       *)
(* session and the activated identity in files; a crash or a lost response *)
(* may separate any two of its steps.                                      *)
(***************************************************************************)
EXTENDS Naturals, FiniteSets

CONSTANTS
  Pairings,    \* pairing requests
  Dirs,        \* private data directories of requesting devices
  Calls,       \* approve requests being handled at once
  Passes,      \* cleanup passes; one outlasting the interval meets the next
  GuessLimit,  \* wrong codes that lock a request (5 in the code)
  MaxFaults,   \* bound: lost responses, failed requests and crashes
  None         \* no pairing

ASSUME PairingAssumption ==
  /\ GuessLimit \in Nat \ {0}
  /\ MaxFaults \in Nat
  /\ None \notin Pairings

VARIABLES
  status,   \* control: pairings.status, "none" before and "purged" after the row
  attempts, \* control: pairings.attempts
  age,      \* control: the row's age, see Ages
  device,   \* Synapse: the device with the row's device_id
  call,     \* control: each approve request and the row it read
  pass,     \* control: each cleanup pass and the rows it read
  saved,    \* device: pairing.json
  staged,   \* device: pairing.json holds the approved session
  active,   \* device: the pairing whose session is in identity.json
  step,     \* device: what pairing_complete is doing
  faults    \* bounded by MaxFaults

vars == <<status, attempts, age, device, call, pass, saved, staged, active,
          step, faults>>

Statuses == {"none", "pending", "approved", "consumed", "expired", "purged"}

\* 0: within its five minutes; 1: past expires_at; 2: older than a day;
\* 3: older than seven days.
Ages == 0 .. 3

NoCall == [at |-> "idle", p |-> None, right |-> FALSE, status |-> "none",
           attempts |-> 0]
NoPass == [at |-> None, todo |-> {}, approved |-> {}]
Steps  == {"idle", "polled", "ack", "acked"}

Row(p)  == status[p] \notin {"none", "purged"}
Busy(p) == \E c \in Calls : call[c].p = p

Fault == faults < MaxFaults /\ faults' = faults + 1

(***************************************************************************)
(* Decisions.                                                              *)
(***************************************************************************)
\* Mutant of Serial: approve does not wait for its turn.
SerialNever(p) == TRUE

\* serial(`pairing:${id}`): one approve or ack of a pairing at a time.
Serial(p) == ~Busy(p)

\* find: the row exists and is not past expires_at.
Found(p) == Row(p) /\ age[p] = 0

\* Mutants of Acknowledgeable: expiry is ignored; a replay after it is refused.
AckIgnoresExpiry(p) == status[p] \in {"approved", "consumed"}
AckNoReplay(p) == Found(p) /\ status[p] \in {"approved", "consumed"}

\* ack: find with allowConsumed, and no longer pending.
Acknowledgeable(p) ==
  \/ status[p] = "consumed"
  \/ Found(p) /\ status[p] # "pending"

\* What ack writes into the row.
AckStatus == "consumed"

\* Mutant of Expirable: only requests nobody approved are cleaned up.
ExpirablePending == {p \in Pairings : age[p] > 0 /\ status[p] = "pending"}

\* SELECT .. WHERE expires_at<? AND status NOT IN ('consumed','expired').
Expirable ==
  {p \in Pairings : age[p] > 0 /\ status[p] \in {"pending", "approved"}}

\* pairing_start replaces an expired request only if it holds no session.
Replaceable(d) == saved[d] # None => ~staged[d] /\ age[saved[d]] > 0

-----------------------------------------------------------------------------
Init ==
  /\ status = [p \in Pairings |-> "none"]
  /\ attempts = [p \in Pairings |-> 0]
  /\ age = [p \in Pairings |-> 0]
  /\ device = [p \in Pairings |-> "none"]
  /\ call = [c \in Calls |-> NoCall]
  /\ pass = [x \in Passes |-> NoPass]
  /\ saved = [d \in Dirs |-> None]
  /\ staged = [d \in Dirs |-> FALSE]
  /\ active = [d \in Dirs |-> None]
  /\ step = [d \in Dirs |-> "idle"]
  /\ faults = 0

server == <<status, attempts, age, device, call, pass>>
client == <<saved, staged, active, step>>

\* Time passes.  Requests time out after 20 seconds, so no handler is still at
\* work on a row a day later.
Tick(p) ==
  /\ Row(p) /\ age[p] < 3
  /\ age[p] > 0 => /\ ~Busy(p)
                   /\ \A x \in Passes : p # pass[x].at /\ p \notin pass[x].todo
  /\ age' = [age EXCEPT ![p] = @ + 1]
  /\ UNCHANGED <<status, attempts, device, call, pass, client, faults>>

(***************************************************************************)
(* approve.                                                                *)
(***************************************************************************)
\* The request gets its turn, reads the row and awaits whoami.
ApproveFind(c, p, right) ==
  /\ call[c] = NoCall
  /\ Serial(p)
  /\ Found(p)
  /\ call' = [call EXCEPT ![c] = [at |-> "found", p |-> p, right |-> right,
                                  status |-> status[p],
                                  attempts |-> attempts[p]]]
  /\ UNCHANGED <<status, attempts, age, device, pass, client, faults>>

\* The caller owns the address: count a wrong code, answer a repeated request,
\* or go on to mint the device.
ApproveDecide(c) ==
  /\ call[c].at = "found"
  /\ LET row == call[c] IN
       \/ /\ row.attempts >= GuessLimit
          /\ call' = [call EXCEPT ![c] = NoCall]
          /\ UNCHANGED attempts
       \/ /\ row.attempts < GuessLimit /\ ~row.right
          /\ attempts' = [attempts EXCEPT ![row.p] = @ + 1]
          /\ call' = [call EXCEPT ![c] = NoCall]
       \/ /\ row.attempts < GuessLimit /\ row.right
          /\ call' = [call EXCEPT ![c] =
                        IF row.status = "pending"
                          THEN [row EXCEPT !.at = "minting"] ELSE NoCall]
          /\ UNCHANGED attempts
  /\ UNCHANGED <<status, age, device, pass, client, faults>>

\* Synapse logs the row's device in; the response is on its way.
ApproveMint(c) ==
  /\ call[c].at = "minting"
  /\ device' = [device EXCEPT ![call[c].p] = "live"]
  /\ call' = [call EXCEPT ![c].at = "minted"]
  /\ UNCHANGED <<status, attempts, age, pass, client, faults>>

\* UPDATE pairings SET status='approved', whatever the row says by now.
ApproveSave(c) ==
  /\ call[c].at = "minted"
  /\ status' = [status EXCEPT ![call[c].p] = "approved"]
  /\ call' = [call EXCEPT ![c] = NoCall]
  /\ UNCHANGED <<attempts, age, device, pass, client, faults>>

\* A request to the homeserver fails or its response is lost.
ApproveFails(c) ==
  /\ call[c] # NoCall
  /\ Fault
  /\ call' = [call EXCEPT ![c] = NoCall]
  /\ UNCHANGED <<status, attempts, age, device, pass, client>>

(***************************************************************************)
(* expire.                                                                 *)
(***************************************************************************)
\* Rows of the pass up to the next approved one are updated at once; at that
\* one the pass awaits the revocation.  The order of the rows is arbitrary.
Sweep(x, st, rows, approved) ==
  IF rows \cap approved = {}
    THEN /\ status' = [p \in Pairings |-> IF p \in rows THEN "expired" ELSE st[p]]
         /\ pass' = [pass EXCEPT ![x] = NoPass]
    ELSE \E a \in rows \cap approved, before \in SUBSET (rows \ approved) :
           /\ status' = [p \in Pairings |->
                           IF p \in before THEN "expired" ELSE st[p]]
           /\ pass' = [pass EXCEPT ![x] =
                         [at |-> a, todo |-> rows \ (before \cup {a}),
                          approved |-> approved]]

\* The timer fires: one SELECT, then the rows one after the other.
ExpireBegin(x) ==
  /\ pass[x] = NoPass
  /\ Expirable # {}
  /\ Sweep(x, status, Expirable,
           {p \in Expirable : status[p] = "approved"})
  /\ UNCHANGED <<attempts, age, device, call, client, faults>>

\* The device is deleted: mark its row and go on with the rows read earlier.
ExpireRevoked(x) ==
  /\ pass[x].at # None
  /\ device' = [device EXCEPT ![pass[x].at] = "revoked"]
  /\ Sweep(x, [status EXCEPT ![pass[x].at] = "expired"], pass[x].todo,
           pass[x].approved)
  /\ UNCHANGED <<attempts, age, call, client, faults>>

\* The request fails, before or after Synapse obeyed it: the row is left for
\* the next minute.
ExpireFails(x) ==
  /\ pass[x].at # None
  /\ Fault
  /\ device' \in {device, [device EXCEPT ![pass[x].at] = "revoked"]}
  /\ Sweep(x, status, pass[x].todo, pass[x].approved)
  /\ UNCHANGED <<attempts, age, call, client>>

\* The end of a pass deletes expired rows after a day and consumed ones after
\* seven days.
Purge ==
  LET old == {p \in Pairings : \/ status[p] = "expired" /\ age[p] >= 2
                               \/ status[p] = "consumed" /\ age[p] >= 3} IN
  /\ old # {}
  /\ status' = [p \in Pairings |-> IF p \in old THEN "purged" ELSE status[p]]
  /\ UNCHANGED <<attempts, age, device, call, pass, client, faults>>

\* The control service restarts.
ControlCrash ==
  /\ Fault
  /\ call' = [c \in Calls |-> NoCall]
  /\ pass' = [x \in Passes |-> NoPass]
  /\ <<call, pass>> # <<call', pass'>>
  /\ UNCHANGED <<status, attempts, age, device, client>>

(***************************************************************************)
(* The requesting device.                                                  *)
(***************************************************************************)
\* pairing_start: a new request, saved before it is shown; or its response is
\* lost, with or without a row at the server.
Start(d) ==
  /\ step[d] = "idle" /\ active[d] = None
  /\ Replaceable(d)
  /\ staged' = [staged EXCEPT ![d] = FALSE]
  /\ \/ \E p \in Pairings :
          /\ status[p] = "none"
          /\ status' = [status EXCEPT ![p] = "pending"]
          /\ \/ saved' = [saved EXCEPT ![d] = p] /\ UNCHANGED faults
             \/ saved' = [saved EXCEPT ![d] = None] /\ Fault
     \/ saved[d] # None /\ saved' = [saved EXCEPT ![d] = None] /\ Fault
        /\ UNCHANGED status
  /\ UNCHANGED <<attempts, age, device, call, pass, active, step>>

\* pairing_complete without a session: poll returns the approved credentials.
Poll(d) ==
  /\ step[d] = "idle" /\ active[d] = None
  /\ saved[d] # None /\ ~staged[d]
  /\ Found(saved[d]) /\ status[saved[d]] = "approved"
  /\ step' = [step EXCEPT ![d] = "polled"]
  /\ UNCHANGED <<server, saved, staged, active, faults>>

\* save_pairing: the session is on disk before it is acknowledged.
Stage(d) ==
  /\ step[d] = "polled"
  /\ staged' = [staged EXCEPT ![d] = TRUE]
  /\ step' = [step EXCEPT ![d] = "ack"]
  /\ UNCHANGED <<server, saved, active, faults>>

\* pairing_complete with a session goes straight to the acknowledgement.
Resume(d) ==
  /\ step[d] = "idle" /\ active[d] = None
  /\ saved[d] # None /\ staged[d]
  /\ step' = [step EXCEPT ![d] = "ack"]
  /\ UNCHANGED <<server, saved, staged, active, faults>>

\* POST ack, handled when it is its turn; the response may be lost.
Acknowledge(d) ==
  /\ step[d] = "ack"
  /\ Serial(saved[d])
  /\ Acknowledgeable(saved[d])
  /\ status' = [status EXCEPT ![saved[d]] = AckStatus]
  /\ \/ step' = [step EXCEPT ![d] = "acked"] /\ UNCHANGED faults
     \/ step' = [step EXCEPT ![d] = "idle"] /\ Fault
  /\ UNCHANGED <<attempts, age, device, call, pass, saved, staged, active>>

\* ack answers 404, 409 or 410.
AckRefused(d) ==
  /\ step[d] = "ack"
  /\ Serial(saved[d])
  /\ ~Acknowledgeable(saved[d])
  /\ step' = [step EXCEPT ![d] = "idle"]
  /\ UNCHANGED <<server, saved, staged, active, faults>>

\* save_identity: only now is the session used.
Activate(d) ==
  /\ step[d] = "acked"
  /\ active' = [active EXCEPT ![d] = saved[d]]
  /\ step' = [step EXCEPT ![d] = "idle"]
  /\ UNCHANGED <<server, saved, staged, faults>>

\* clear_pairing, in the same call or, after a crash, in the next one.
Clear(d) ==
  /\ active[d] # None /\ saved[d] # None
  /\ saved' = [saved EXCEPT ![d] = None]
  /\ staged' = [staged EXCEPT ![d] = FALSE]
  /\ UNCHANGED <<server, active, step, faults>>

\* The runtime dies or its request fails: only the files survive.
DeviceCrash(d) ==
  /\ step[d] # "idle"
  /\ Fault
  /\ step' = [step EXCEPT ![d] = "idle"]
  /\ UNCHANGED <<server, saved, staged, active>>

ControlStep ==
  \/ \E c \in Calls : ApproveDecide(c) \/ ApproveMint(c) \/ ApproveSave(c)
  \/ \E x \in Passes : ExpireBegin(x) \/ ExpireRevoked(x)

DeviceStep(d) ==
  Stage(d) \/ Resume(d) \/ Acknowledge(d) \/ AckRefused(d) \/ Activate(d)

Next ==
  \/ \E p \in Pairings : Tick(p)
  \/ \E c \in Calls, p \in Pairings, right \in BOOLEAN : ApproveFind(c, p, right)
  \/ \E c \in Calls : ApproveFails(c)
  \/ \E x \in Passes : ExpireFails(x)
  \/ ControlStep
  \/ Purge
  \/ ControlCrash
  \/ \E d \in Dirs : \/ Start(d) \/ Poll(d) \/ Clear(d) \/ DeviceCrash(d)
                     \/ DeviceStep(d)

Spec == Init /\ [][Next]_vars

\* Node's event loop runs every handler and fires the timer; the owner of the
\* device runs pairing_complete until it succeeds.
FairSpec ==
  /\ Spec
  /\ \A c \in Calls :
       WF_vars(ApproveDecide(c) \/ ApproveMint(c) \/ ApproveSave(c))
  /\ \A x \in Passes : WF_vars(ExpireBegin(x) \/ ExpireRevoked(x))
  /\ \A d \in Dirs : SF_vars(Acknowledge(d)) /\ WF_vars(DeviceStep(d))

-----------------------------------------------------------------------------
TypeOK ==
  /\ status \in [Pairings -> Statuses]
  /\ attempts \in [Pairings -> Nat]
  /\ age \in [Pairings -> Ages]
  /\ device \in [Pairings -> {"none", "live", "revoked"}]
  /\ call \in [Calls -> [at : {"idle", "found", "minting", "minted"},
                         p : Pairings \cup {None}, right : BOOLEAN,
                         status : Statuses, attempts : Nat]]
  /\ pass \in [Passes -> [at : Pairings \cup {None}, todo : SUBSET Pairings,
                          approved : SUBSET Pairings]]
  /\ saved \in [Dirs -> Pairings \cup {None}]
  /\ staged \in [Dirs -> BOOLEAN]
  /\ active \in [Dirs -> Pairings \cup {None}]
  /\ step \in [Dirs -> Steps]
  /\ faults \in 0 .. MaxFaults

\* "Five incorrect codes lock the request" also when they are tried at once
\* (services/control/README.md, approve's snapshot of attempts).
GuessesBounded == \A p \in Pairings : attempts[p] <= GuessLimit

\* A device that acknowledged in time is never revoked, however an approval, the
\* acknowledgement and a cleanup pass interleave, and whoever claimed it still
\* has its session on disk: a lost response to the acknowledgement never leaves
\* a live device nobody holds (ack's find, expire; pairing_start's "Pending
\* credentials must go through acknowledgement").
ClaimIsHeld ==
  \A p \in Pairings : status[p] = "consumed" =>
    /\ device[p] = "live"
    /\ \E d \in Dirs : active[d] = p \/ (saved[d] = p /\ staged[d])

\* An expired row's device is revoked or was never created (docs/protocol.md:
\* "unclaimed devices are revoked"), unless an approval is still at work on it.
UnclaimedRevoked ==
  \A p \in Pairings :
    status[p] = "expired" /\ ~Busy(p) => device[p] # "live"

\* Every approval is claimed or taken back once its time is over (expire, its
\* retry "next minute").
ApprovalsEnd ==
  \A p \in Pairings :
    (status[p] = "approved" /\ age[p] > 0) ~>
      status[p] \in {"consumed", "expired", "purged"}

\* A device whose acknowledgement reached the server becomes active, even if
\* the response was lost and the request has expired since, as long as the
\* server keeps the proof (find's allowConsumed).
AckedIsActivated ==
  \A d \in Dirs, p \in Pairings :
    (saved[d] = p /\ status[p] = "consumed") ~>
      (active[d] = p \/ status[p] = "purged")
=============================================================================
