--------------------------- MODULE Pairing_proofs ---------------------------
(* That guesses are limited and that a claimed device lives and is held, for  *)
(* any number of pairings, devices, approvals at once, overlapping cleanup    *)
(* passes and faults.                                                         *)
EXTENDS Pairing, TLAPS

\* approve works on a row alone, and the attempts it read are the row's.
CallInv ==
  /\ \A c \in Calls : call[c] # NoCall => call[c].p \in Pairings
  /\ \A c, e \in Calls : call[c].p \in Pairings /\ call[e].p = call[c].p => c = e
  /\ \A c \in Calls : call[c].at = "found" => call[c].attempts = attempts[call[c].p]

\* What a cleanup pass has read is over its time and was not claimed in time.
PassInv ==
  \A x \in Passes : \A p \in Pairings :
    (p = pass[x].at \/ p \in pass[x].todo) => age[p] > 0 /\ status[p] # "consumed"

\* An approval under way is of a row nobody has claimed.
MintInv ==
  \A c \in Calls :
    /\ (call[c].at = "found" /\ call[c].status = "pending") \/ call[c].at \in {"minting", "minted"}
         => status[call[c].p] # "consumed"
    /\ call[c].at = "minted" /\ age[call[c].p] = 0 => device[call[c].p] = "live"

\* A row within its time is not expired, and approved only with its device.
RowInv ==
  \A p \in Pairings : age[p] = 0 => status[p] # "expired" /\ (status[p] = "approved" => device[p] = "live")

\* The device acknowledges what is on its disk, and starts nothing once it is
\* active.
DeviceInv ==
  \A d \in Dirs :
    /\ step[d] # "idle" => saved[d] # None /\ active[d] = None
    /\ step[d] \in {"ack", "acked"} => staged[d]
    /\ active[d] # None /\ saved[d] # None => active[d] = saved[d]

PairingInv ==
  TypeOK /\ CallInv /\ GuessesBounded /\ PassInv /\ MintInv /\ RowInv /\ DeviceInv /\ ClaimIsHeld

\* Nothing is there at first.
LEMMA PairingInvHolds == Init => PairingInv
<1>. SUFFICES ASSUME Init PROVE PairingInv
  OBVIOUS
<1>. USE PairingAssumption DEF Init, NoCall, NoPass
<1>1. TypeOK
  BY DEF TypeOK, Statuses, Ages, Steps
<1>2. CallInv /\ GuessesBounded /\ PassInv
  BY DEF CallInv, GuessesBounded, PassInv
<1>3. MintInv /\ RowInv /\ DeviceInv /\ ClaimIsHeld
  BY DEF MintInv, RowInv, DeviceInv, ClaimIsHeld
<1>. QED
  BY <1>1, <1>2, <1>3 DEF PairingInv

\* A pass goes through rows it has read, marking some of them and stopping at an
\* approved one.
PassType == [Passes -> [at : Pairings \cup {None}, todo : SUBSET Pairings, approved : SUBSET Pairings]]
Swept(x, st, rows) ==
  /\ status' \in [Pairings -> Statuses] /\ pass' \in PassType
  /\ \A p \in Pairings : status'[p] = st[p] \/ (p \in rows /\ status'[p] = "expired")
  /\ \A y \in Passes : y # x => pass'[y] = pass[y]
  /\ pass'[x].at \in rows \cup {None} /\ pass'[x].todo \subseteq rows

LEMMA Sweeps ==
  ASSUME NEW x \in Passes, NEW st \in [Pairings -> Statuses],
         NEW rows \in SUBSET Pairings, NEW approved \in SUBSET Pairings,
         pass \in PassType, Sweep(x, st, rows, approved)
  PROVE  Swept(x, st, rows)
<1>. USE DEF Swept, PassType
<1>1. CASE rows \cap approved = {}
  <2>1. status' = [p \in Pairings |-> IF p \in rows THEN "expired" ELSE st[p]]
    BY <1>1 DEF Sweep
  <2>2. pass' = [pass EXCEPT ![x] = NoPass]
    BY <1>1 DEF Sweep
  <2>. QED
    BY <2>1, <2>2 DEF NoPass, Statuses
<1>2. CASE rows \cap approved # {}
  <2>1. PICK a \in rows \cap approved, before \in SUBSET (rows \ approved) :
          /\ status' = [p \in Pairings |-> IF p \in before THEN "expired" ELSE st[p]]
          /\ pass' = [pass EXCEPT ![x] = [at |-> a, todo |-> rows \ (before \cup {a}), approved |-> approved]]
    BY <1>2 DEF Sweep
  <2>. QED
    BY <2>1 DEF Statuses
<1>. QED
  BY <1>1, <1>2

\* A step of a cleanup pass: rows of the pass may be marked, the device of the row
\* it waited for may be revoked.
PassMoves(x) ==
  /\ status' \in [Pairings -> Statuses]
  /\ pass' \in PassType
  /\ device' \in [Pairings -> {"none", "live", "revoked"}]
  /\ \A p \in Pairings : \/ status'[p] = status[p]
                         \/ age[p] > 0 /\ status[p] # "consumed" /\ status'[p] = "expired"
  /\ \A p \in Pairings : device'[p] = device[p] \/ (age[p] > 0 /\ status[p] # "consumed")
  /\ \A y \in Passes : y # x => pass'[y] = pass[y]
  /\ \A p \in Pairings : (p = pass'[x].at \/ p \in pass'[x].todo) => age[p] > 0 /\ status[p] # "consumed"
  /\ UNCHANGED <<attempts, age, call, client>> /\ faults' \in 0..MaxFaults

LEMMA ExpireMoves ==
  ASSUME PairingAssumption, PairingInv, NEW x \in Passes, ExpireBegin(x) \/ ExpireRevoked(x) \/ ExpireFails(x)
  PROVE  PassMoves(x)
<1>. USE DEF PairingInv, TypeOK
<1>0. pass \in PassType
  BY DEF PassType
<1>1. CASE ExpireBegin(x)
  <2>. DEFINE rows == Expirable
              approved == {p \in Expirable : status[p] = "approved"}
  <2>1. rows \in SUBSET Pairings /\ approved \in SUBSET Pairings /\ \A p \in rows : age[p] > 0 /\ status[p] # "consumed"
    BY DEF Expirable
  <2>2. Sweep(x, status, rows, approved) /\ UNCHANGED <<attempts, age, device, call, client, faults>>
    BY <1>1 DEF ExpireBegin
  <2>. HIDE DEF rows, approved
  <2>3. Swept(x, status, rows)
    BY <1>0, <2>1, <2>2, Sweeps
  <2>. QED
    BY <2>1, <2>2, <2>3, PairingAssumption DEF Swept, PassMoves
<1>2. CASE ExpireRevoked(x)
  <2>. DEFINE a == pass[x].at
              st == [status EXCEPT ![a] = "expired"]
  <2>1. a \in Pairings /\ age[a] > 0 /\ status[a] # "consumed"
    BY <1>2 DEF ExpireRevoked, PassInv
  <2>2. st \in [Pairings -> Statuses] /\ st[a] = "expired" /\ \A p \in Pairings : p # a => st[p] = status[p]
    BY <2>1 DEF Statuses
  <2>3. pass[x].todo \in SUBSET Pairings /\ pass[x].approved \in SUBSET Pairings
    OBVIOUS
  <2>4. \A p \in pass[x].todo : age[p] > 0 /\ status[p] # "consumed"
    BY <2>3 DEF PassInv
  <2>5. /\ device' = [device EXCEPT ![a] = "revoked"] /\ Sweep(x, st, pass[x].todo, pass[x].approved)
        /\ UNCHANGED <<attempts, age, call, client, faults>>
    BY <1>2 DEF ExpireRevoked
  <2>6. device' \in [Pairings -> {"none", "live", "revoked"}] /\ \A p \in Pairings : p # a => device'[p] = device[p]
    BY <2>5
  <2>. HIDE DEF a, st
  <2>7. Swept(x, st, pass[x].todo)
    BY <1>0, <2>2, <2>3, <2>5, Sweeps
  <2>. QED
    BY <2>1, <2>2, <2>3, <2>4, <2>5, <2>6, <2>7, PairingAssumption DEF Swept, PassMoves
<1>3. CASE ExpireFails(x)
  <2>. DEFINE a == pass[x].at
  <2>1. a \in Pairings /\ age[a] > 0 /\ status[a] # "consumed"
    BY <1>3 DEF ExpireFails, PassInv
  <2>2. pass[x].todo \in SUBSET Pairings /\ pass[x].approved \in SUBSET Pairings
    OBVIOUS
  <2>3. \A p \in pass[x].todo : age[p] > 0 /\ status[p] # "consumed"
    BY <2>2 DEF PassInv
  <2>4. /\ device' \in {device, [device EXCEPT ![a] = "revoked"]} /\ Sweep(x, status, pass[x].todo, pass[x].approved)
        /\ UNCHANGED <<attempts, age, call, client>> /\ faults' \in 0..MaxFaults
    BY <1>3, PairingAssumption DEF ExpireFails, Fault
  <2>5. device' \in [Pairings -> {"none", "live", "revoked"}] /\ \A p \in Pairings : p # a => device'[p] = device[p]
    BY <2>4
  <2>. HIDE DEF a
  <2>6. Swept(x, status, pass[x].todo)
    BY <1>0, <2>2, <2>4, Sweeps
  <2>. QED
    BY <2>1, <2>2, <2>3, <2>4, <2>5, <2>6, PairingAssumption DEF Swept, PassMoves
<1>. QED
  BY <1>1, <1>2, <1>3

\* The cleanup disturbs nothing that is within its time or claimed.
LEMMA PassSteps ==
  ASSUME PairingAssumption, PairingInv, NEW x \in Passes, PassMoves(x)
  PROVE  PairingInv'
<1>. USE DEF PairingInv, PassMoves, PassType, client
<1>1. TypeOK'
  BY DEF TypeOK
<1>2. CallInv' /\ GuessesBounded'
  BY DEF CallInv, GuessesBounded
<1>3. PassInv'
  BY DEF PassInv
<1>4. MintInv'
  BY DEF MintInv, CallInv, TypeOK, NoCall
<1>5. RowInv'
  BY DEF RowInv
<1>6. DeviceInv'
  BY DEF DeviceInv
<1>7. ClaimIsHeld'
  BY DEF ClaimIsHeld
<1>. QED
  BY <1>1, <1>2, <1>3, <1>4, <1>5, <1>6, <1>7
CallType == [at : {"idle", "found", "minting", "minted"}, p : Pairings \cup {None}, right : BOOLEAN,
             status : Statuses, attempts : Nat]

\* approve: one call of a row at a time works on what it read.
LEMMA ApproveSteps ==
  ASSUME PairingAssumption, PairingInv, NEW c \in Calls, NEW p \in Pairings, NEW right \in BOOLEAN,
         ApproveFind(c, p, right) \/ ApproveDecide(c) \/ ApproveMint(c) \/ ApproveSave(c) \/ ApproveFails(c)
  PROVE  PairingInv'
<1>. USE PairingAssumption DEF PairingInv, server, client
<1>1. CASE ApproveFind(c, p, right)
  <2>. USE <1>1 DEF ApproveFind, Serial, Busy, Found, Row
  <2>1. TypeOK'
    <3>1. call'[c] \in CallType
      BY DEF TypeOK, CallType
    <3>. QED
      BY <3>1 DEF TypeOK, CallType
  <2>2. CallInv'
    BY DEF CallInv, TypeOK, NoCall
  <2>3. GuessesBounded'
    BY DEF GuessesBounded, CallInv, TypeOK
  <2>4. PassInv'
    BY DEF PassInv, TypeOK
  <2>5. MintInv'
    BY DEF MintInv, CallInv, TypeOK, NoCall
  <2>6. RowInv'
    BY DEF RowInv, TypeOK
  <2>7. ClaimIsHeld'
    BY DEF ClaimIsHeld, TypeOK
  <2>8. DeviceInv'
    BY DEF DeviceInv
  <2>. QED
    BY <2>1, <2>2, <2>3, <2>4, <2>5, <2>6, <2>7, <2>8
<1>2. CASE ApproveDecide(c)
  <2>. DEFINE minting == [call[c] EXCEPT !.at = "minting"]
  <2>1. call[c] \in CallType /\ call[c].p \in Pairings /\ call[c].at = "found"
    BY <1>2 DEF ApproveDecide, CallInv, NoCall, TypeOK, CallType
  <2>2. minting \in CallType /\ minting.at = "minting" /\ minting.p = call[c].p
    BY <2>1 DEF CallType
  <2>3. /\ \/ call' = [call EXCEPT ![c] = NoCall] /\ UNCHANGED attempts
           \/ /\ call[c].attempts < GuessLimit
              /\ call' = [call EXCEPT ![c] = NoCall] /\ attempts' = [attempts EXCEPT ![call[c].p] = @ + 1]
           \/ /\ call[c].status = "pending"
              /\ call' = [call EXCEPT ![c] = minting] /\ UNCHANGED attempts
        /\ UNCHANGED <<status, age, device, pass, client, faults>>
    BY <1>2 DEF ApproveDecide
  <2>. HIDE DEF minting
  <2>4. TypeOK'
    <3>1. NoCall \in CallType /\ call \in [Calls -> CallType]
      BY DEF NoCall, CallType, Statuses, TypeOK
    <3>2. call' \in [Calls -> CallType]
      BY <2>2, <2>3, <3>1
    <3>. QED
      BY <2>1, <2>3, <3>2 DEF TypeOK, CallType
  <2>5. CallInv'
    <3>1. \A e \in Calls : call'[e] = call[e] \/ (e = c /\ call'[e] \in {NoCall, minting})
      BY <2>3 DEF TypeOK
    <3>2. \A e \in Calls : call'[e] # NoCall => call'[e].p = call[e].p /\ call[e].p \in Pairings
      BY <2>1, <2>2, <3>1 DEF CallInv
    <3>3. ASSUME NEW e \in Calls, call'[e].at = "found" PROVE call'[e].attempts = attempts'[call'[e].p]
      <4>1. e # c /\ call'[e] = call[e] /\ call[e].p \in Pairings
        BY <2>2, <2>3, <3>1, <3>2, <3>3 DEF NoCall, TypeOK
      <4>2. attempts'[call[e].p] = attempts[call[e].p]
        BY <2>1, <2>3, <4>1 DEF CallInv, TypeOK
      <4>. QED
        BY <3>3, <4>1, <4>2 DEF CallInv
    <3>4. \A e, f \in Calls : call'[e].p \in Pairings /\ call'[f].p = call'[e].p => e = f
      BY <3>1, <3>2 DEF CallInv, NoCall
    <3>. QED
      BY <3>2, <3>3, <3>4 DEF CallInv
  <2>6. GuessesBounded'
    BY <2>1, <2>3 DEF GuessesBounded, CallInv, TypeOK
  <2>7. MintInv'
    BY <2>1, <2>2, <2>3 DEF MintInv, CallInv, TypeOK, NoCall
  <2>8. PassInv' /\ RowInv' /\ DeviceInv' /\ ClaimIsHeld'
    BY <2>1, <2>3 DEF PassInv, RowInv, DeviceInv, ClaimIsHeld, TypeOK
  <2>. QED
    BY <2>4, <2>5, <2>6, <2>7, <2>8
<1>3. CASE ApproveMint(c)
  <2>. DEFINE minted == [call[c] EXCEPT !.at = "minted"]
  <2>1. call[c] \in CallType /\ call[c].p \in Pairings /\ call[c].at = "minting"
    BY <1>3 DEF ApproveMint, CallInv, NoCall, TypeOK, CallType
  <2>2. minted \in CallType /\ minted.at = "minted" /\ minted.p = call[c].p
    BY <2>1 DEF CallType
  <2>3. /\ call' = [call EXCEPT ![c] = minted] /\ device' = [device EXCEPT ![call[c].p] = "live"]
        /\ UNCHANGED <<status, attempts, age, pass, client, faults>>
    BY <1>3 DEF ApproveMint
  <2>. HIDE DEF minted
  <2>4. TypeOK'
    <3>1. NoCall \in CallType /\ call \in [Calls -> CallType]
      BY DEF NoCall, CallType, Statuses, TypeOK
    <3>2. call' \in [Calls -> CallType]
      BY <2>2, <2>3, <3>1
    <3>. QED
      BY <2>1, <2>3, <3>2 DEF TypeOK, CallType
  <2>5. CallInv'
    BY <2>1, <2>2, <2>3 DEF CallInv, TypeOK, NoCall
  <2>6. GuessesBounded'
    BY <2>1, <2>3 DEF GuessesBounded, CallInv, TypeOK
  <2>7. MintInv'
    BY <2>1, <2>2, <2>3 DEF MintInv, CallInv, TypeOK, NoCall
  <2>8. PassInv' /\ RowInv' /\ DeviceInv' /\ ClaimIsHeld'
    BY <2>1, <2>3 DEF PassInv, RowInv, DeviceInv, ClaimIsHeld, TypeOK
  <2>. QED
    BY <2>4, <2>5, <2>6, <2>7, <2>8
<1>4. CASE ApproveSave(c)
  <2>. USE <1>4 DEF ApproveSave
  <2>1. TypeOK'
    BY DEF TypeOK, Statuses, Ages, Steps, NoCall
  <2>2. CallInv'
    BY DEF CallInv, TypeOK, NoCall
  <2>3. GuessesBounded'
    BY DEF GuessesBounded, CallInv, TypeOK
  <2>4. PassInv'
    BY DEF PassInv, TypeOK
  <2>5. MintInv'
    BY DEF MintInv, CallInv, TypeOK, NoCall
  <2>6. RowInv'
    BY DEF RowInv, TypeOK, MintInv, CallInv, NoCall
  <2>7. ClaimIsHeld'
    BY DEF ClaimIsHeld, TypeOK
  <2>8. DeviceInv'
    BY DEF DeviceInv
  <2>. QED
    BY <2>1, <2>2, <2>3, <2>4, <2>5, <2>6, <2>7, <2>8
<1>5. CASE ApproveFails(c)
  <2>. USE <1>5 DEF ApproveFails, Fault
  <2>1. TypeOK'
    BY DEF TypeOK, Statuses, Ages, Steps, NoCall
  <2>2. CallInv'
    BY DEF CallInv, TypeOK, NoCall
  <2>3. GuessesBounded'
    BY DEF GuessesBounded, CallInv, TypeOK
  <2>4. PassInv'
    BY DEF PassInv, TypeOK
  <2>5. MintInv'
    BY DEF MintInv, CallInv, TypeOK, NoCall
  <2>6. RowInv'
    BY DEF RowInv, TypeOK
  <2>7. ClaimIsHeld'
    BY DEF ClaimIsHeld, TypeOK
  <2>8. DeviceInv'
    BY DEF DeviceInv
  <2>. QED
    BY <2>1, <2>2, <2>3, <2>4, <2>5, <2>6, <2>7, <2>8
<1>. QED
  BY <1>1, <1>2, <1>3, <1>4, <1>5

\* The requesting device, up to its acknowledgement and after it.
LEMMA DeviceSteps ==
  ASSUME PairingAssumption, PairingInv, NEW d \in Dirs,
         Start(d) \/ Poll(d) \/ Stage(d) \/ Resume(d) \/ AckRefused(d) \/ Activate(d) \/ Clear(d) \/ DeviceCrash(d)
  PROVE  PairingInv'
<1>. USE PairingAssumption DEF PairingInv, server, client
<1>1. CASE Start(d)
  <2>. USE <1>1 DEF Start, Replaceable, Fault
  <2>1. TypeOK'
    BY DEF TypeOK, Statuses, Ages, Steps
  <2>2. CallInv'
    BY DEF CallInv, TypeOK
  <2>3. GuessesBounded'
    BY DEF GuessesBounded, CallInv, TypeOK
  <2>4. PassInv'
    BY DEF PassInv, TypeOK
  <2>5. MintInv'
    BY DEF MintInv, CallInv, TypeOK, NoCall
  <2>6. RowInv'
    BY DEF RowInv, TypeOK
  <2>7. DeviceInv'
    BY DEF DeviceInv, TypeOK
  <2>8. ClaimIsHeld'
    BY DEF ClaimIsHeld, TypeOK
  <2>. QED
    BY <2>1, <2>2, <2>3, <2>4, <2>5, <2>6, <2>7, <2>8
<1>2. CASE Poll(d)
  <2>. USE <1>2 DEF Poll
  <2>1. TypeOK'
    BY DEF TypeOK, Statuses, Ages, Steps
  <2>2. CallInv' /\ GuessesBounded' /\ PassInv' /\ MintInv' /\ RowInv'
    BY DEF CallInv, GuessesBounded, PassInv, MintInv, RowInv
  <2>3. DeviceInv'
    BY DEF DeviceInv, TypeOK
  <2>4. ClaimIsHeld'
    BY DEF ClaimIsHeld, TypeOK
  <2>. QED
    BY <2>1, <2>2, <2>3, <2>4
<1>3. CASE Stage(d)
  <2>. USE <1>3 DEF Stage
  <2>1. TypeOK'
    BY DEF TypeOK, Statuses, Ages, Steps
  <2>2. CallInv' /\ GuessesBounded' /\ PassInv' /\ MintInv' /\ RowInv'
    BY DEF CallInv, GuessesBounded, PassInv, MintInv, RowInv
  <2>3. DeviceInv'
    BY DEF DeviceInv, TypeOK
  <2>4. ClaimIsHeld'
    BY DEF ClaimIsHeld, TypeOK
  <2>. QED
    BY <2>1, <2>2, <2>3, <2>4
<1>4. CASE Resume(d)
  <2>. USE <1>4 DEF Resume
  <2>1. TypeOK'
    BY DEF TypeOK, Statuses, Ages, Steps
  <2>2. CallInv' /\ GuessesBounded' /\ PassInv' /\ MintInv' /\ RowInv'
    BY DEF CallInv, GuessesBounded, PassInv, MintInv, RowInv
  <2>3. DeviceInv'
    BY DEF DeviceInv, TypeOK
  <2>4. ClaimIsHeld'
    BY DEF ClaimIsHeld, TypeOK
  <2>. QED
    BY <2>1, <2>2, <2>3, <2>4
<1>5. CASE AckRefused(d)
  <2>. USE <1>5 DEF AckRefused
  <2>1. TypeOK'
    BY DEF TypeOK, Statuses, Ages, Steps
  <2>2. CallInv' /\ GuessesBounded' /\ PassInv' /\ MintInv' /\ RowInv'
    BY DEF CallInv, GuessesBounded, PassInv, MintInv, RowInv
  <2>3. DeviceInv'
    BY DEF DeviceInv, TypeOK
  <2>4. ClaimIsHeld'
    BY DEF ClaimIsHeld, TypeOK
  <2>. QED
    BY <2>1, <2>2, <2>3, <2>4
<1>6. CASE Activate(d)
  <2>. USE <1>6 DEF Activate
  <2>1. TypeOK'
    BY DEF TypeOK, Statuses, Ages, Steps
  <2>2. CallInv' /\ GuessesBounded' /\ PassInv' /\ MintInv' /\ RowInv'
    BY DEF CallInv, GuessesBounded, PassInv, MintInv, RowInv
  <2>3. DeviceInv'
    BY DEF DeviceInv, TypeOK
  <2>4. ClaimIsHeld'
    <3>. SUFFICES ASSUME NEW p \in Pairings, status[p] = "consumed"
                  PROVE  device[p] = "live" /\ \E e \in Dirs : active'[e] = p \/ (saved'[e] = p /\ staged'[e])
      BY DEF ClaimIsHeld
    <3>1. device[p] = "live"
      BY DEF ClaimIsHeld
    <3>2. PICK e \in Dirs : active[e] = p \/ (saved[e] = p /\ staged[e])
      BY DEF ClaimIsHeld
    <3>3. active'[e] = p \/ (saved'[e] = p /\ staged'[e])
      BY <3>2 DEF DeviceInv, TypeOK
    <3>. QED
      BY <3>1, <3>3
  <2>. QED
    BY <2>1, <2>2, <2>3, <2>4
<1>7. CASE Clear(d)
  <2>. USE <1>7 DEF Clear
  <2>1. TypeOK'
    BY DEF TypeOK, Statuses, Ages, Steps
  <2>2. CallInv' /\ GuessesBounded' /\ PassInv' /\ MintInv' /\ RowInv'
    BY DEF CallInv, GuessesBounded, PassInv, MintInv, RowInv
  <2>3. DeviceInv'
    BY DEF DeviceInv, TypeOK
  <2>4. ClaimIsHeld'
    <3>. SUFFICES ASSUME NEW p \in Pairings, status[p] = "consumed"
                  PROVE  device[p] = "live" /\ \E e \in Dirs : active'[e] = p \/ (saved'[e] = p /\ staged'[e])
      BY DEF ClaimIsHeld
    <3>1. device[p] = "live"
      BY DEF ClaimIsHeld
    <3>2. PICK e \in Dirs : active[e] = p \/ (saved[e] = p /\ staged[e])
      BY DEF ClaimIsHeld
    <3>3. active'[e] = p \/ (saved'[e] = p /\ staged'[e])
      BY <3>2 DEF DeviceInv, TypeOK
    <3>. QED
      BY <3>1, <3>3
  <2>. QED
    BY <2>1, <2>2, <2>3, <2>4
<1>8. CASE DeviceCrash(d)
  <2>. USE <1>8 DEF DeviceCrash, Fault
  <2>1. TypeOK'
    BY DEF TypeOK, Statuses, Ages, Steps
  <2>2. CallInv' /\ GuessesBounded' /\ PassInv' /\ MintInv' /\ RowInv'
    BY DEF CallInv, GuessesBounded, PassInv, MintInv, RowInv
  <2>3. DeviceInv'
    BY DEF DeviceInv, TypeOK
  <2>4. ClaimIsHeld'
    BY DEF ClaimIsHeld, TypeOK
  <2>. QED
    BY <2>1, <2>2, <2>3, <2>4
<1>. QED
  BY <1>1, <1>2, <1>3, <1>4, <1>5, <1>6, <1>7, <1>8

\* An acknowledgement claims a live device that is on disk.
LEMMA AcknowledgeStep ==
  ASSUME PairingAssumption, PairingInv, NEW d \in Dirs, Acknowledge(d)
  PROVE  PairingInv'
<1>. USE PairingAssumption DEF PairingInv, server, client
<1>. USE DEF Acknowledge, Acknowledgeable, Serial, Busy, Found, Row, AckStatus
<1>1. TypeOK'
  <2>1. saved[d] \in Pairings
    BY DEF DeviceInv, TypeOK, Steps
  <2>2. status' \in [Pairings -> Statuses] /\ step' \in [Dirs -> Steps] /\ faults' \in 0..MaxFaults
    BY <2>1 DEF TypeOK, Statuses, Steps, Fault
  <2>. QED
    BY <2>2 DEF TypeOK
<1>2. CallInv'
  BY DEF CallInv, TypeOK
<1>3. GuessesBounded'
  BY DEF GuessesBounded, CallInv, TypeOK
<1>4. PassInv'
  BY DEF PassInv, TypeOK, DeviceInv
<1>5. MintInv'
  BY DEF MintInv, CallInv, TypeOK, NoCall
<1>6. RowInv'
  BY DEF RowInv, TypeOK
<1>7. DeviceInv'
  BY DEF DeviceInv, TypeOK
<1>8. ClaimIsHeld'
  <2>1. saved[d] \in Pairings /\ staged[d] /\ device[saved[d]] = "live"
    BY DEF DeviceInv, TypeOK, RowInv, ClaimIsHeld, Statuses
  <2>2. \A p \in Pairings : p # saved[d] => status'[p] = status[p]
    BY DEF TypeOK
  <2>. QED
    BY <2>1, <2>2 DEF ClaimIsHeld
<1>. QED
  BY <1>1, <1>2, <1>3, <1>4, <1>5, <1>6, <1>7, <1>8

\* Time, the deletion of old rows and restarts.
LEMMA ServerSteps ==
  ASSUME PairingAssumption, PairingInv, (\E p \in Pairings : Tick(p)) \/ Purge \/ ControlCrash
  PROVE  PairingInv'
<1>. USE PairingAssumption DEF PairingInv, server, client
<1>1. CASE \E p \in Pairings : Tick(p)
  <2>0. PICK p \in Pairings : Tick(p)
    BY <1>1
  <2>. USE <2>0 DEF Tick, Row, Busy
  <2>1. TypeOK'
    BY DEF TypeOK, Statuses, Ages, Steps
  <2>2. CallInv'
    BY DEF CallInv, TypeOK
  <2>3. GuessesBounded'
    BY DEF GuessesBounded, CallInv, TypeOK
  <2>4. PassInv'
    BY DEF PassInv, TypeOK
  <2>5. MintInv'
    <3>. SUFFICES ASSUME NEW c \in Calls
                  PROVE  /\ (call[c].at = "found" /\ call[c].status = "pending") \/ call[c].at \in {"minting", "minted"}
                              => status[call[c].p] # "consumed"
                         /\ call[c].at = "minted" /\ age'[call[c].p] = 0 => device[call[c].p] = "live"
      BY DEF MintInv
    <3>1. call[c].at = "minted" => call[c].p \in Pairings
      BY DEF CallInv, NoCall
    <3>. QED
      BY <3>1 DEF MintInv, TypeOK, Ages
  <2>6. RowInv'
    BY DEF RowInv, TypeOK, Statuses, Ages, Steps
  <2>7. DeviceInv'
    BY DEF DeviceInv, TypeOK
  <2>8. ClaimIsHeld'
    BY DEF ClaimIsHeld, TypeOK
  <2>. QED
    BY <2>1, <2>2, <2>3, <2>4, <2>5, <2>6, <2>7, <2>8
<1>2. CASE Purge
  <2>. USE <1>2 DEF Purge
  <2>1. TypeOK'
    BY DEF TypeOK, Statuses, Ages, Steps
  <2>2. CallInv'
    BY DEF CallInv, TypeOK
  <2>3. GuessesBounded'
    BY DEF GuessesBounded, CallInv, TypeOK
  <2>4. PassInv'
    BY DEF PassInv, TypeOK
  <2>5. MintInv'
    BY DEF MintInv, CallInv, TypeOK, NoCall
  <2>6. RowInv'
    BY DEF RowInv, TypeOK
  <2>7. DeviceInv'
    BY DEF DeviceInv, TypeOK
  <2>8. ClaimIsHeld'
    BY DEF ClaimIsHeld, TypeOK
  <2>. QED
    BY <2>1, <2>2, <2>3, <2>4, <2>5, <2>6, <2>7, <2>8
<1>3. CASE ControlCrash
  <2>. USE <1>3 DEF ControlCrash, Fault, NoCall, NoPass
  <2>1. TypeOK'
    BY DEF TypeOK, Statuses, Ages, Steps
  <2>2. CallInv'
    BY DEF CallInv, TypeOK
  <2>3. GuessesBounded'
    BY DEF GuessesBounded, CallInv, TypeOK
  <2>4. PassInv'
    BY DEF PassInv, TypeOK
  <2>5. MintInv'
    BY DEF MintInv, CallInv, TypeOK, NoCall
  <2>6. RowInv'
    BY DEF RowInv, TypeOK
  <2>7. DeviceInv'
    BY DEF DeviceInv, TypeOK
  <2>8. ClaimIsHeld'
    BY DEF ClaimIsHeld, TypeOK
  <2>. QED
    BY <2>1, <2>2, <2>3, <2>4, <2>5, <2>6, <2>7, <2>8
<1>. QED
  BY <1>1, <1>2, <1>3

------------------------------------------------------------------------------
\* Every step keeps the invariant.
LEMMA PairingInvKept == PairingAssumption /\ PairingInv /\ [Next]_vars => PairingInv'
<1>. SUFFICES ASSUME PairingAssumption, PairingInv, [Next]_vars PROVE PairingInv'
  OBVIOUS
<1>1. CASE UNCHANGED vars
  BY <1>1 DEF vars, PairingInv, TypeOK, CallInv, GuessesBounded, PassInv, MintInv, RowInv, DeviceInv, ClaimIsHeld
<1>2. ASSUME NEW x \in Passes, ExpireBegin(x) \/ ExpireRevoked(x) \/ ExpireFails(x) PROVE PairingInv'
  BY <1>2, ExpireMoves, PassSteps
<1>3. ASSUME NEW c \in Calls, ApproveDecide(c) \/ ApproveMint(c) \/ ApproveSave(c) \/ ApproveFails(c) PROVE PairingInv'
  <2>1. call[c] # NoCall
    BY <1>3 DEF NoCall, ApproveDecide, ApproveMint, ApproveSave, ApproveFails
  <2>2. call[c].p \in Pairings
    BY <2>1 DEF PairingInv, CallInv
  <2>. QED
    BY <1>3, <2>2, ApproveSteps
<1>4. ASSUME NEW c \in Calls, NEW p \in Pairings, NEW right \in BOOLEAN, ApproveFind(c, p, right) PROVE PairingInv'
  BY <1>4, ApproveSteps
<1>5. ASSUME NEW d \in Dirs, Start(d) \/ Poll(d) \/ Clear(d) \/ DeviceCrash(d) \/ DeviceStep(d) PROVE PairingInv'
  BY <1>5, DeviceSteps, AcknowledgeStep DEF DeviceStep
<1>6. CASE (\E p \in Pairings : Tick(p)) \/ Purge \/ ControlCrash
  BY <1>6, ServerSteps
<1>. QED
  BY <1>1, <1>2, <1>3, <1>4, <1>5, <1>6 DEF Next, ControlStep

\* Every variable of pairing keeps its type.
THEOREM TypeCorrect == Spec => []TypeOK
<1>1. PairingInv => TypeOK
  BY DEF PairingInv
<1>. QED
  BY <1>1, PairingInvHolds, PairingInvKept, PairingAssumption, PTL DEF Spec

\* A request is locked by GuessLimit wrong codes, however many are tried at once.
\* (approve works on the attempts it read before it awaited the homeserver.)
THEOREM GuessesStayBounded == Spec => []GuessesBounded
<1>1. PairingInv => GuessesBounded
  BY DEF PairingInv
<1>. QED
  BY <1>1, PairingInvHolds, PairingInvKept, PairingAssumption, PTL DEF Spec

\* Whatever the cleanup, late approvals, lost answers and crashes do: a device
\* acknowledged in time is live, and its session is on somebody's disk.
THEOREM ClaimStaysHeld == Spec => []ClaimIsHeld
<1>1. PairingInv => ClaimIsHeld
  BY DEF PairingInv
<1>. QED
  BY <1>1, PairingInvHolds, PairingInvKept, PairingAssumption, PTL DEF Spec
=============================================================================
