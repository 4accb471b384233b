----------------------------- MODULE Enrollment -----------------------------
(***************************************************************************)
(* Accounts: POST /v1/agents, POST /v1/agents/recover and DELETE           *)
(* /v1/devices of services/control/src/app.ts with the tables enrollments, *)
(* recoveries and admissions of store.ts.                                  *)
(*                                                                         *)
(* A handler works in the turns of one Node process; at an await other     *)
(* handlers run, the process may die, and a request to Synapse may have    *)
(* been done though its answer is lost.  Handlers of one key (a handle, or *)
(* a handle with a recovery ID) run one after the other.                   *)
(*                                                                         *)
(* A key stands for the device its row names: both are made together, once *)
(* and for all.  A request that is refused before it wrote anything is not *)
(* a step.                                                                 *)
(***************************************************************************)
EXTENDS Naturals, FiniteSets

CONSTANTS
  Handles,        \* handles
  Proofs,         \* registration secrets
  RecoveryIds,    \* recovery IDs of a handle's owner
  Calls,          \* handlers at work at the same time
  PerDay,         \* handles admitted in a day
  RecoveryLimit,  \* recovery devices of a handle in a day (5)
  Operator,       \* the password of accounts made on the server itself
  OperatorRaces,  \* TRUE: also for a handle that is being enrolled
  MaxFaults,      \* bound: failed requests, lost answers and crashes
  MaxDays,        \* bound: days that pass
  None            \* no proof, no recovery ID, no row

ASSUME EnrollmentAssumption ==
  /\ PerDay \in Nat \ {0}
  /\ RecoveryLimit \in Nat \ {0}
  /\ MaxFaults \in Nat /\ MaxDays \in Nat
  /\ OperatorRaces \in BOOLEAN
  /\ {None, Operator} \cap Proofs = {} /\ None # Operator
  /\ None \notin RecoveryIds

VARIABLES
  account,  \* Synapse: the password of each handle's account, or None
  logins,   \* Synapse: how often each key's device has logged in
  alive,    \* Synapse: the devices that are signed in
  proof,    \* enrollments: the proof of each handle's row, or None
  phase,    \* enrollments: its phase
  rec,      \* recoveries: the keys that have a row
  saved,    \* both tables: which login's credentials are kept, 0 for none
  recent,   \* rows of recoveries and admissions younger than a day
  call,     \* the handlers
  given,    \* history: credentials the service has answered with
  days,     \* bounded by MaxDays
  faults    \* bounded by MaxFaults

matrix == <<account, logins, alive>>
tables == <<proof, phase, rec, saved, recent>>
enrollVars == <<matrix, tables, call, given, days, faults>>

\* <<h, None>> is h's enrollment, <<h, k>> the recovery k of h.
Keys == Handles \X (RecoveryIds \cup {None})
Enrolls(key) == key[2] = None
DevicesOf(h) == {key \in Keys : key[1] = h}

Idle == [at |-> "idle"]
Handler == [at : {"whoami", "exists", "put", "login", "save"}, key : Keys, proof : Proofs]
Revocation == [at : {"delete"}, key : Keys]

Credential == [key : Keys, login : Nat]

(***************************************************************************)
(* Decisions.                                                              *)
(***************************************************************************)
Working(key) == \E c \in Calls : call[c].at \notin {"idle", "delete"} /\ call[c].key = key

\* Mutant of Turn: handlers of one key overlap.
TurnAlways(key) == TRUE

\* serial
Turn(key) == ~Working(key)

\* Mutant of Collides: an account found after a lost answer is not ours either.
CollidesLater(h, exists) == phase[h] \in {"reserved", "creating"} /\ exists

\* An account that was there before the enrollment first created one.
Collides(h, exists) == phase[h] = "reserved" /\ exists

UserExists(h) == account[h] # None

\* Mutant of Answers: a session that is gone is made again.
AnswersLiving(key) == saved[key] # 0 /\ key \in alive

\* The answer is the credentials kept, if there are any.
Answers(key) == saved[key] # 0

\* Mutant of Admissible: only recoveries that succeeded are counted.
AdmissibleSaved(h) ==
  Cardinality({key \in DevicesOf(h) \cap rec \cap recent : saved[key] # 0}) < RecoveryLimit

\* The owner has asked for fewer devices than the limit within a day.
Admissible(h) == Cardinality(DevicesOf(h) \cap rec \cap recent) < RecoveryLimit

Fault == faults < MaxFaults /\ faults' = faults + 1

(***************************************************************************)
(* POST /v1/agents and POST /v1/agents/recover.                            *)
(***************************************************************************)
EnrollInit ==
  /\ account = [h \in Handles |-> None]
  /\ logins = [key \in Keys |-> 0]
  /\ alive = {}
  /\ proof = [h \in Handles |-> None]
  /\ phase = [h \in Handles |-> "reserved"]
  /\ rec = {}
  /\ saved = [key \in Keys |-> 0]
  /\ recent = {}
  /\ call = [c \in Calls |-> Idle]
  /\ given = {}
  /\ days = 0
  /\ faults = 0

\* Up to the first await: the kept credentials are verified, or work begins.
Start(c, key, p, first) ==
  call' = [call EXCEPT ![c] =
             [at |-> IF Answers(key) THEN "whoami" ELSE first, key |-> key, proof |-> p]]

\* reserve: a handle's first proof takes it, if the day's limit allows.
Enroll(c, h, p) ==
  /\ call[c] = Idle
  /\ Turn(<<h, None>>)
  /\ \/ proof[h] = p /\ UNCHANGED <<proof, recent>>
     \/ /\ proof[h] = None
        /\ Cardinality({key \in recent : Enrolls(key)}) < PerDay
        /\ proof' = [proof EXCEPT ![h] = p]
        /\ recent' = recent \cup {<<h, None>>}
  /\ Start(c, <<h, None>>, p, "exists")
  /\ UNCHANGED <<matrix, phase, rec, saved, given, days, faults>>

\* assertProof, then the recovery's row.
Recover(c, h, p, k) ==
  /\ call[c] = Idle
  /\ proof[h] = p
  /\ Turn(<<h, k>>)
  /\ \/ <<h, k>> \in rec /\ UNCHANGED <<rec, recent>>
     \/ /\ <<h, k>> \notin rec
        /\ Admissible(h)
        /\ rec' = rec \cup {<<h, k>>}
        /\ recent' = recent \cup {<<h, k>>}
  /\ Start(c, <<h, k>>, p, "login")
  /\ UNCHANGED <<matrix, proof, phase, saved, given, days, faults>>

Ends(c) == call' = [call EXCEPT ![c] = Idle]
Answer(c) == /\ given' = given \cup {[key |-> call[c].key, login |-> saved'[call[c].key]]}
             /\ Ends(c)

\* whoami: credentials that were revoked are never replaced.
Verify(c) ==
  /\ call[c].at = "whoami"
  /\ UNCHANGED saved
  /\ IF call[c].key \in alive /\ logins[call[c].key] = saved[call[c].key]
     THEN Answer(c)
     ELSE Ends(c) /\ UNCHANGED given
  /\ UNCHANGED <<matrix, proof, phase, rec, recent, days, faults>>

\* userExists, and what follows from it.
LookUp(c) ==
  /\ call[c].at = "exists"
  /\ LET h == call[c].key[1]
         exists == UserExists(h)
     IN  \/ /\ Collides(h, exists)
            /\ phase' = [phase EXCEPT ![h] = "collision"]
            /\ Ends(c)
         \/ /\ phase[h] = "collision"
            /\ Ends(c)
            /\ UNCHANGED phase
         \/ /\ ~Collides(h, exists) /\ phase[h] # "collision"
            /\ ~exists
            /\ phase' = [phase EXCEPT ![h] = "creating"]
            /\ call' = [call EXCEPT ![c].at = "put"]
         \/ /\ ~Collides(h, exists) /\ phase[h] # "collision"
            /\ exists
            /\ call' = [call EXCEPT ![c].at = "login"]
            /\ UNCHANGED phase
  /\ UNCHANGED <<matrix, proof, rec, saved, recent, given, days, faults>>

\* PUT /_synapse/admin/v2/users: makes the account or sets its password.
Put(c) ==
  /\ call[c].at = "put"
  /\ account' = [account EXCEPT ![call[c].key[1]] = call[c].proof]
  /\ \/ call' = [call EXCEPT ![c].at = "login"] /\ UNCHANGED faults
     \/ Ends(c) /\ Fault
  /\ UNCHANGED <<logins, alive, tables, given, days>>

\* POST /login with the device of the row.
Login(c) ==
  /\ call[c].at = "login"
  /\ IF account[call[c].key[1]] = call[c].proof
     THEN /\ logins' = [logins EXCEPT ![call[c].key] = @ + 1]
          /\ alive' = alive \cup {call[c].key}
          /\ \/ call' = [call EXCEPT ![c].at = "save"] /\ UNCHANGED faults
             \/ Ends(c) /\ Fault
     ELSE Ends(c) /\ UNCHANGED <<logins, alive, faults>>
  /\ UNCHANGED <<account, tables, given, days>>

\* Store::complete, or the UPDATE of the recovery; then the answer.
Save(c) ==
  /\ call[c].at = "save"
  /\ saved' = [saved EXCEPT ![call[c].key] = logins[call[c].key]]
  /\ phase' = IF Enrolls(call[c].key)
                THEN [phase EXCEPT ![call[c].key[1]] = "complete"] ELSE phase
  /\ Answer(c)
  /\ UNCHANGED <<matrix, proof, rec, recent, days, faults>>

\* A request to Synapse fails without effect.
RequestFails(c) ==
  /\ call[c].at \notin {"idle", "save"}
  /\ Fault
  /\ Ends(c)
  /\ UNCHANGED <<matrix, tables, given, days>>

\* The process restarts.
Die ==
  /\ Fault
  /\ call' = [c \in Calls |-> Idle]
  /\ UNCHANGED <<matrix, tables, given, days>>

(***************************************************************************)
(* DELETE /v1/devices/:deviceId, operators, time.                          *)
(***************************************************************************)
\* whoami names the account of the caller's token ...
AskRevoke(c, own, key) ==
  /\ call[c] = Idle
  /\ own \in alive /\ own[1] = key[1]
  /\ \E g \in given : g.key = own /\ g.login = logins[own]
  /\ call' = [call EXCEPT ![c] = [at |-> "delete", key |-> key]]
  /\ UNCHANGED <<matrix, tables, given, days, faults>>

\* ... and the device is deleted with the service's own rights.
Revoke(c) ==
  /\ call[c].at = "delete"
  /\ alive' = alive \ {call[c].key}
  /\ Ends(c)
  /\ UNCHANGED <<account, logins, tables, given, days, faults>>

\* An operator makes an account on the server, before anybody enrolls its
\* handle, or at any time.
Operate(h) ==
  /\ account[h] = None
  /\ OperatorRaces \/ proof[h] = None \/ phase[h] = "reserved"
  /\ account' = [account EXCEPT ![h] = Operator]
  /\ UNCHANGED <<logins, alive, tables, call, given, days, faults>>

\* The limits' windows move on.
DayPasses ==
  /\ days < MaxDays
  /\ days' = days + 1
  /\ recent' = {}
  /\ UNCHANGED <<matrix, proof, phase, rec, saved, call, given, faults>>

HandlerStep(c) == Verify(c) \/ LookUp(c) \/ Put(c) \/ Login(c) \/ Save(c) \/ Revoke(c)

EnrollNext ==
  \/ \E c \in Calls, h \in Handles, p \in Proofs :
       Enroll(c, h, p) \/ \E k \in RecoveryIds : Recover(c, h, p, k)
  \/ \E c \in Calls :
       Verify(c) \/ LookUp(c) \/ Put(c) \/ Login(c) \/ Save(c) \/ Revoke(c) \/ RequestFails(c)
  \/ \E c \in Calls, own, key \in Keys : AskRevoke(c, own, key)
  \/ Die
  \/ \E h \in Handles : Operate(h)
  \/ DayPasses

EnrollSpec == EnrollInit /\ [][EnrollNext]_enrollVars

\* The owner of h asks again for the device of a key that has a row.
Retry(h, k) == \E c \in Calls, p \in Proofs :
  \/ k = None /\ proof[h] = p /\ Enroll(c, h, p)
  \/ <<h, k>> \in rec /\ Recover(c, h, p, k)

\* Handlers go on, and owners retry until they are answered.
EnrollFairness ==
  /\ \A c \in Calls : WF_enrollVars(HandlerStep(c))
  /\ \A h \in Handles, k \in RecoveryIds \cup {None} : SF_enrollVars(Retry(h, k))

(***************************************************************************)
(* Properties.                                                             *)
(***************************************************************************)
\* The types; a device logs in again only for a login that was lost.
EnrollTypeOK ==
  /\ account \in [Handles -> Proofs \cup {None, Operator}]
  /\ logins \in [Keys -> 0 .. MaxFaults + 1]
  /\ alive \subseteq Keys
  /\ proof \in [Handles -> Proofs \cup {None}]
  /\ phase \in [Handles -> {"reserved", "creating", "collision", "complete"}]
  /\ rec \subseteq Keys
  /\ saved \in [Keys -> Nat]
  /\ recent \subseteq Keys
  /\ call \in [Calls -> Handler \cup Revocation \cup {Idle}]
  /\ given \subseteq Credential
  /\ days \in 0 .. MaxDays
  /\ faults \in 0 .. MaxFaults

\* Whoever repeats a request with the same key gets the same token of the same
\* device, however requests overlap, fail half way and are retried ("Repeating
\* the same handle and secret returns the exact original token and device").
SameCredentials == \A x, y \in given : x.key = y.key => x = y

\* Why: nothing is saved twice, as a handler that would save found nothing kept
\* and is alone with its key. Proved inductive in Control_proofs.
CredentialInv ==
  /\ \A g \in given : g.login = saved[g.key] /\ g.login # 0
  /\ \A c \in Calls :
       /\ call[c].at \in {"exists", "put", "login", "save"} => saved[call[c].key] = 0
       /\ call[c].at = "whoami" => saved[call[c].key] # 0
       /\ call[c].at = "save" => logins[call[c].key] # 0
  /\ \A c, d \in Calls :
       /\ call[c].at \notin {"idle", "delete"} /\ call[d].at \notin {"idle", "delete"}
       /\ call[c].key = call[d].key
       => c = d

\* A device whose credentials were kept and that was revoked never signs in
\* again, whatever is retried or was at work ("A revoked session is not
\* silently recreated").
StaysRevoked ==
  [][\A key \in Keys : saved[key] # 0 /\ key \notin alive => key \notin alive']_enrollVars

\* Over any number of days, no handle has more recovery devices sign in than that
\* many days' limits together, also if requests with different IDs are at work at
\* once, fail and are retried days later ("Five recovery devices per identity per
\* day are allowed").  A single day may see more: the limit is on new rows, and a
\* row of an earlier day that did not come to a login is not counted again.
RecoveryBudget ==
  \A h \in Handles :
    Cardinality({key \in DevicesOf(h) \cap rec : logins[key] > 0}) <= RecoveryLimit * (days + 1)

\* Every enrollment and every recovery that has a row is answered with its
\* credentials in the end, at whatever phase it was broken off, unless the
\* handle's account is somebody else's.
Served ==
  []<>(\A key \in rec \cup {<<h, None>> : h \in {x \in Handles : proof[x] # None}} :
         account[key[1]] = Operator \/ \E g \in given : g.key = key)
=============================================================================
