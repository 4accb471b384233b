---------------------------- MODULE Control_proofs ----------------------------
(***************************************************************************)
(* What the control service and Synapse's policy keep to.  Accounts:       *)
(* repeating a request never yields other credentials nor signs a revoked  *)
(* device in again, and recoveries keep to their budget, for any number of *)
(* handles, recovery IDs, handlers, faults and days, with operators who    *)
(* make accounts at any time.  Uploads: no byte Synapse holds, or may yet  *)
(* store, is ever uncharged, and given the laws of finite sums no owner    *)
(* exceeds the quota, for any number of uploads, owners, cleanup passes,   *)
(* lost answers and restarts.  Rooms: a room stays what it was created as, *)
(* for any number of members and any message limit.                        *)
(***************************************************************************)
EXTENDS Enrollment, Media, RoomRules, FiniteSetTheorems, SequenceTheorems, TLAPS

-----------------------------------------------------------------------------
(***************************************************************************)
(* Accounts.                                                               *)
(***************************************************************************)
\* The types CredentialInv needs.
EnrollTypes ==
  /\ logins \in [Keys -> Nat]
  /\ saved \in [Keys -> Nat]
  /\ call \in [Calls -> Handler \cup Revocation \cup {Idle}]
  /\ given \subseteq Credential

\* A handler that has a key has one of Keys, and its stage says what it is.
LEMMA CallKinds ==
  ASSUME EnrollTypes, NEW c \in Calls
  PROVE  /\ call[c].at \in {"idle", "delete", "whoami", "exists", "put", "login", "save"}
         /\ call[c].at # "idle" => call[c].key \in Keys
         /\ call[c].at \notin {"idle", "delete"} => call[c] \in Handler
         /\ call[c].at = "delete" => call[c] \in Revocation
  BY DEF EnrollTypes, Handler, Revocation, Idle

\* A new handler of a key that had none.
LEMMA StartKept ==
  ASSUME EnrollTypes, CredentialInv,
         NEW c \in Calls, NEW key \in Keys, NEW p \in Proofs, NEW first \in {"exists", "login"},
         Turn(key), Start(c, key, p, first), UNCHANGED <<logins, saved, given>>
  PROVE  EnrollTypes' /\ CredentialInv'
<1>1. PICK at \in {"whoami", first} :
        /\ call' = [call EXCEPT ![c] = [at |-> at, key |-> key, proof |-> p]]
        /\ at = "whoami" <=> saved[key] # 0
  BY DEF Start, Answers
<1>2. [at |-> at, key |-> key, proof |-> p] \in Handler
  BY <1>1 DEF Handler
<1>3. EnrollTypes'
  BY <1>1, <1>2 DEF EnrollTypes
<1>4. \A d \in Calls : call[d].at \notin {"idle", "delete"} => call[d].key # key
  BY DEF Turn, Working
<1>5. \A d \in Calls : call'[d] = IF d = c THEN [at |-> at, key |-> key, proof |-> p]
                                  ELSE call[d]
  BY <1>1 DEF EnrollTypes
<1>6. CredentialInv'
  BY <1>1, <1>4, <1>5 DEF CredentialInv
<1> QED
  BY <1>3, <1>6

\* Handlers that end, or die, and leave the tables as they are.
LEMMA EndsKept ==
  ASSUME EnrollTypes, CredentialInv, NEW cs \in SUBSET Calls,
         call' = [c \in Calls |-> IF c \in cs THEN Idle ELSE call[c]],
         UNCHANGED <<saved, given>>, logins' \in [Keys -> Nat],
         \A key \in Keys : logins[key] # 0 => logins'[key] # 0
  PROVE  EnrollTypes' /\ CredentialInv'
<1>1. EnrollTypes'
  BY DEF EnrollTypes
<1>2. \A d \in Calls : call'[d] = Idle \/ call'[d] = call[d]
  OBVIOUS
<1>3. \A d \in Calls : call[d].at = "save" => call[d].key \in Keys
  BY CallKinds
<1>4. CredentialInv'
  BY <1>2, <1>3 DEF CredentialInv, Idle
<1> QED
  BY <1>1, <1>4

LEMMA OneEndsKept ==
  ASSUME EnrollTypes, CredentialInv, NEW c \in Calls, Ends(c),
         UNCHANGED <<saved, given>>, logins' \in [Keys -> Nat],
         \A key \in Keys : logins[key] # 0 => logins'[key] # 0
  PROVE  EnrollTypes' /\ CredentialInv'
<1>1. call' = [d \in Calls |-> IF d \in {c} THEN Idle ELSE call[d]]
  BY DEF Ends, EnrollTypes
<1> QED
  BY <1>1, EndsKept

\* A handler that goes on to its next await.
LEMMA MoveKept ==
  ASSUME EnrollTypes, CredentialInv, NEW c \in Calls, NEW at \in {"put", "login", "save"},
         call[c].at \in {"exists", "put", "login"},
         call' = [call EXCEPT ![c].at = at],
         UNCHANGED <<saved, given>>, logins' \in [Keys -> Nat],
         \A key \in Keys : logins[key] # 0 => logins'[key] # 0,
         at = "save" => logins'[call[c].key] # 0
  PROVE  EnrollTypes' /\ CredentialInv'
<1>1. call[c] \in Handler
  BY CallKinds
<1>2. \A d \in Calls : call'[d] = IF d = c THEN [call[c] EXCEPT !.at = at] ELSE call[d]
  BY DEF EnrollTypes
<1>3. /\ [call[c] EXCEPT !.at = at] \in Handler
      /\ [call[c] EXCEPT !.at = at].at = at
      /\ [call[c] EXCEPT !.at = at].key = call[c].key
  BY <1>1 DEF Handler
<1>4. EnrollTypes'
  BY <1>2, <1>3 DEF EnrollTypes
<1>5. \A d \in Calls : call[d].at = "save" => call[d].key \in Keys
  BY CallKinds
<1>6. CredentialInv'
  BY <1>1, <1>2, <1>3, <1>5 DEF CredentialInv
<1> QED
  BY <1>4, <1>6

\* Every step keeps the types and CredentialInv.
LEMMA CredentialsKept ==
  EnrollTypes /\ CredentialInv /\ [EnrollNext]_enrollVars => EnrollTypes' /\ CredentialInv'
<1> SUFFICES ASSUME EnrollTypes, CredentialInv, [EnrollNext]_enrollVars
             PROVE  EnrollTypes' /\ CredentialInv'
  OBVIOUS
<1> USE DEF matrix, tables
<1>1. ASSUME NEW c \in Calls, NEW h \in Handles, NEW p \in Proofs, Enroll(c, h, p)
      PROVE  EnrollTypes' /\ CredentialInv'
  <2>1. <<h, None>> \in Keys
    BY DEF Keys
  <2> QED
    BY <1>1, <2>1, StartKept DEF Enroll
<1>2. ASSUME NEW c \in Calls, NEW h \in Handles, NEW p \in Proofs, NEW k \in RecoveryIds,
             Recover(c, h, p, k)
      PROVE  EnrollTypes' /\ CredentialInv'
  <2>1. <<h, k>> \in Keys
    BY DEF Keys
  <2> QED
    BY <1>2, <2>1, StartKept DEF Recover
<1>3. ASSUME NEW c \in Calls, Verify(c) PROVE EnrollTypes' /\ CredentialInv'
  <2>1. call' = [d \in Calls |-> IF d \in {c} THEN Idle ELSE call[d]]
    BY <1>3 DEF Verify, Answer, Ends, EnrollTypes
  <2>2. CASE UNCHANGED given
    <3>1. Ends(c) /\ UNCHANGED <<saved, logins>>
      BY <1>3 DEF Verify, Answer
    <3> QED
      BY <2>2, <3>1, OneEndsKept DEF EnrollTypes
  <2>3. CASE given' = given \cup {[key |-> call[c].key, login |-> saved[call[c].key]]}
    <3>1. call[c].key \in Keys /\ saved[call[c].key] # 0
      BY <1>3, CallKinds DEF Verify, CredentialInv
    <3>2. EnrollTypes'
      BY <1>3, <2>1, <2>3, <3>1 DEF Verify, EnrollTypes, Credential
    <3>3. \A d \in Calls : call'[d] = Idle \/ call'[d] = call[d]
      BY <2>1
    <3>4. UNCHANGED <<saved, logins>>
      BY <1>3 DEF Verify
    <3>5. CredentialInv'
      BY <2>3, <3>1, <3>3, <3>4 DEF CredentialInv, Idle
    <3> QED
      BY <3>2, <3>5
  <2> QED
    BY <1>3, <2>2, <2>3 DEF Verify, Answer
<1>4. ASSUME NEW c \in Calls, LookUp(c) PROVE EnrollTypes' /\ CredentialInv'
  <2>1. CASE Ends(c)
    BY <1>4, <2>1, OneEndsKept DEF LookUp, EnrollTypes
  <2>2. CASE call' = [call EXCEPT ![c].at = "put"]
    BY <1>4, <2>2, MoveKept DEF LookUp, EnrollTypes
  <2>3. CASE call' = [call EXCEPT ![c].at = "login"]
    BY <1>4, <2>3, MoveKept DEF LookUp, EnrollTypes
  <2> QED
    BY <1>4, <2>1, <2>2, <2>3, Zenon DEF LookUp
<1>5. ASSUME NEW c \in Calls, Put(c) PROVE EnrollTypes' /\ CredentialInv'
  <2>1. CASE Ends(c)
    BY <1>5, <2>1, OneEndsKept DEF Put, EnrollTypes
  <2>2. CASE call' = [call EXCEPT ![c].at = "login"]
    BY <1>5, <2>2, MoveKept DEF Put, EnrollTypes
  <2> QED
    BY <1>5, <2>1, <2>2, Zenon DEF Put
<1>6. ASSUME NEW c \in Calls, Login(c) PROVE EnrollTypes' /\ CredentialInv'
  <2>1. call[c].key \in Keys
    BY <1>6, CallKinds DEF Login
  <2>2. /\ logins' \in [Keys -> Nat]
        /\ \A key \in Keys : logins[key] # 0 => logins'[key] # 0
        /\ logins' = logins \/ logins'[call[c].key] # 0
    BY <1>6, <2>1 DEF Login, EnrollTypes
  <2>3. CASE Ends(c)
    BY <1>6, <2>2, <2>3, OneEndsKept DEF Login
  <2>4. CASE /\ call' = [call EXCEPT ![c].at = "save"]
             /\ logins' = [logins EXCEPT ![call[c].key] = @ + 1]
    <3>1. logins'[call[c].key] # 0
      BY <2>1, <2>4 DEF EnrollTypes
    <3> QED
      BY <1>6, <2>2, <2>4, <3>1, MoveKept DEF Login
  <2> QED
    BY <1>6, <2>3, <2>4, Zenon DEF Login
<1>7. ASSUME NEW c \in Calls, Save(c) PROVE EnrollTypes' /\ CredentialInv'
  <2> DEFINE key == call[c].key
  <2>1. /\ call[c].at = "save" /\ key \in Keys
        /\ saved[key] = 0 /\ logins[key] # 0
    BY <1>7, CallKinds DEF Save, CredentialInv
  <2>2. /\ saved' = [saved EXCEPT ![key] = logins[key]]
        /\ saved'[key] = logins[key]
        /\ given' = given \cup {[key |-> key, login |-> logins[key]]}
        /\ logins' = logins
    BY <1>7, <2>1 DEF Save, Answer, EnrollTypes
  <2>3. \A d \in Calls : call'[d] = IF d = c THEN Idle ELSE call[d]
    BY <1>7 DEF Save, Answer, Ends, EnrollTypes
  <2>4. EnrollTypes'
    BY <1>7, <2>1, <2>2 DEF Save, Answer, Ends, EnrollTypes, Credential
  \* Nothing was given for the key yet: whatever is given was kept.
  <2>5. \A g \in given : g.key # key
    BY <2>1 DEF CredentialInv
  <2>6. \A g \in given' : g.login = saved'[g.key] /\ g.login # 0
    BY <2>1, <2>2, <2>5 DEF CredentialInv, EnrollTypes, Credential
  <2>7. \A d \in Calls : d # c /\ call[d].at \notin {"idle", "delete"} =>
                          call[d].key \in Keys /\ call[d].key # key
    BY <2>1, CallKinds DEF CredentialInv
  <2>8. \A d \in Calls : d # c /\ call[d].at \notin {"idle", "delete"} =>
                          saved'[call[d].key] = saved[call[d].key]
    BY <2>2, <2>7 DEF EnrollTypes
  <2>9. CredentialInv'
    BY <2>2, <2>3, <2>6, <2>8 DEF CredentialInv, Idle
  <2> QED
    BY <2>4, <2>9
<1>8. ASSUME NEW c \in Calls, Revoke(c) \/ RequestFails(c)
      PROVE  EnrollTypes' /\ CredentialInv'
  BY <1>8, OneEndsKept DEF Revoke, RequestFails, EnrollTypes
<1>9. CASE Die
  <2>1. call' = [c \in Calls |-> IF c \in Calls THEN Idle ELSE call[c]]
    BY <1>9 DEF Die
  <2> QED
    BY <1>9, <2>1, EndsKept DEF Die, EnrollTypes
<1>10. ASSUME NEW c \in Calls, NEW own \in Keys, NEW key \in Keys, AskRevoke(c, own, key)
       PROVE  EnrollTypes' /\ CredentialInv'
  <2>1. [at |-> "delete", key |-> key] \in Revocation
    BY DEF Revocation
  <2>2. \A d \in Calls : call'[d] = IF d = c THEN [at |-> "delete", key |-> key] ELSE call[d]
    BY <1>10 DEF AskRevoke, EnrollTypes
  <2>3. EnrollTypes'
    BY <1>10, <2>1 DEF AskRevoke, EnrollTypes
  <2>4. UNCHANGED <<saved, logins, given>>
    BY <1>10 DEF AskRevoke
  <2>5. CredentialInv'
    BY <2>2, <2>4 DEF CredentialInv
  <2> QED
    BY <2>3, <2>5
<1>11. ASSUME UNCHANGED <<logins, saved, call, given>> PROVE EnrollTypes' /\ CredentialInv'
  BY <1>11 DEF EnrollTypes, CredentialInv
<1>12. CASE (\E h \in Handles : Operate(h)) \/ DayPasses \/ UNCHANGED enrollVars
  BY <1>11, <1>12 DEF Operate, DayPasses, enrollVars
<1> QED
  BY <1>1, <1>2, <1>3, <1>4, <1>5, <1>6, <1>7, <1>8, <1>9, <1>10, <1>12 DEF EnrollNext

\* Whoever repeats a request with the same key gets the same token of the same
\* device (Store::complete and the recoveries' UPDATE happen once per row).
THEOREM SameCredentialsForEver == EnrollSpec => []SameCredentials
<1>1. EnrollInit => EnrollTypes /\ CredentialInv
  BY DEF EnrollInit, EnrollTypes, CredentialInv, Idle
<1>2. EnrollTypes /\ CredentialInv /\ [EnrollNext]_enrollVars => (EnrollTypes /\ CredentialInv)'
  BY CredentialsKept
<1>3. EnrollTypes /\ CredentialInv => SameCredentials
  BY DEF EnrollTypes, CredentialInv, SameCredentials, Credential
<1> QED
  BY <1>1, <1>2, <1>3, PTL DEF EnrollSpec

\* A revoked device does not sign in again: only a login signs in, and one is
\* under way only for a key whose credentials are not kept (app.ts: "A revoked
\* session is not silently recreated").
THEOREM RevokedForEver == EnrollSpec => StaysRevoked
<1>. DEFINE Stays == \A key \in Keys : saved[key] # 0 /\ key \notin alive => key \notin alive'
<1>1. EnrollInit => EnrollTypes /\ CredentialInv
  BY DEF EnrollInit, EnrollTypes, CredentialInv, Idle
<1>2. EnrollTypes /\ CredentialInv /\ [EnrollNext]_enrollVars => (EnrollTypes /\ CredentialInv)'
  BY CredentialsKept
<1>3. EnrollTypes /\ CredentialInv /\ [EnrollNext]_enrollVars => [Stays]_enrollVars
  <2>1. SUFFICES ASSUME CredentialInv, [EnrollNext]_enrollVars,
                        NEW key \in Keys, saved[key] # 0, key \notin alive
                 PROVE  key \notin alive'
    OBVIOUS
  <2>2. ASSUME NEW c \in Calls, Login(c) PROVE key \notin alive'
    <3>1. saved[call[c].key] = 0
      BY <2>1, <2>2 DEF Login, CredentialInv
    <3>. QED
      BY <2>1, <2>2, <3>1 DEF Login
  <2>3. ASSUME NEW c \in Calls, Revoke(c) PROVE key \notin alive'
    BY <2>1, <2>3 DEF Revoke
  <2>4. ASSUME UNCHANGED alive PROVE key \notin alive'
    BY <2>1, <2>4
  <2>. QED
    BY <2>1, <2>2, <2>3, <2>4
       DEF EnrollNext, enrollVars, matrix, Enroll, Recover, Verify, LookUp, Put, Save, RequestFails,
           AskRevoke, Die, Operate, DayPasses
<1>. QED
  BY <1>1, <1>2, <1>3, PTL DEF EnrollSpec, StaysRevoked

\* The recoveries of a handle within a day, and those before; a retry makes no row.
Recoveries(h) == DevicesOf(h) \cap rec \cap recent
Older(h) == (DevicesOf(h) \cap rec) \ recent
BudgetInv ==
  /\ rec \subseteq Handles \X RecoveryIds /\ days \in Nat
  /\ \A h \in Handles : IsFiniteSet(Recoveries(h)) /\ Cardinality(Recoveries(h)) <= RecoveryLimit
  /\ \A h \in Handles : IsFiniteSet(Older(h)) /\ Cardinality(Older(h)) <= RecoveryLimit * days

LEMMA OneMoreDay ==
  ASSUME NEW n \in Nat, NEW d \in Nat
  PROVE  n * d \in Nat /\ n * (d + 1) = n * d + n
  OBVIOUS

\* The day's recoveries and those before stay within one day's limit more.
LEMMA BothFit ==
  ASSUME NEW S, NEW T, IsFiniteSet(S), IsFiniteSet(T), NEW d \in Nat,
         Cardinality(S) <= RecoveryLimit, Cardinality(T) <= RecoveryLimit * d
  PROVE  IsFiniteSet(S \cup T) /\ Cardinality(S \cup T) <= RecoveryLimit * (d + 1)
<1>1. /\ IsFiniteSet(S \cup T)
      /\ Cardinality(S \cup T) = Cardinality(S) + Cardinality(T) - Cardinality(S \cap T)
  BY FS_Union
<1>2. Cardinality(S) \in Nat /\ Cardinality(T) \in Nat /\ Cardinality(S \cap T) \in Nat
  BY FS_CardinalityType, FS_Intersection
<1>3. RecoveryLimit * d \in Nat /\ RecoveryLimit * (d + 1) = RecoveryLimit * d + RecoveryLimit /\ RecoveryLimit \in Nat
  BY OneMoreDay, EnrollmentAssumption
<1>. QED
  BY <1>1, <1>2, <1>3

LEMMA BudgetKept == BudgetInv /\ [EnrollNext]_enrollVars => BudgetInv'
<1>. SUFFICES ASSUME BudgetInv, [EnrollNext]_enrollVars PROVE BudgetInv'
  OBVIOUS
<1>1. ASSUME NEW c \in Calls, NEW h \in Handles, NEW p \in Proofs, Enroll(c, h, p) PROVE BudgetInv'
  <2>1. <<h, None>> \notin rec
    BY EnrollmentAssumption DEF BudgetInv
  <2>2. \A x \in Handles : Recoveries(x)' = Recoveries(x) /\ Older(x)' = Older(x)
    BY <1>1, <2>1 DEF Enroll, Recoveries, Older
  <2>. QED
    BY <1>1, <2>2 DEF Enroll, BudgetInv
<1>2. ASSUME NEW c \in Calls, NEW h \in Handles, NEW p \in Proofs, NEW k \in RecoveryIds, Recover(c, h, p, k)
      PROVE  BudgetInv'
  <2>. days' = days
    BY <1>2 DEF Recover
  <2>1. CASE UNCHANGED <<rec, recent>>
    BY <2>1 DEF BudgetInv, Recoveries, Older
  <2>2. CASE Admissible(h) /\ <<h, k>> \notin rec /\ rec' = rec \cup {<<h, k>>} /\ recent' = recent \cup {<<h, k>>}
    <3>1. \A x \in Handles : /\ Recoveries(x)' = IF x = h THEN Recoveries(x) \cup {<<h, k>>} ELSE Recoveries(x)
                             /\ Older(x)' = Older(x)
      BY <2>2 DEF Recoveries, Older, DevicesOf, Keys
    <3>2. IsFiniteSet(Recoveries(h)) /\ Cardinality(Recoveries(h)) < RecoveryLimit
      BY <2>2 DEF Admissible, Recoveries, BudgetInv
    <3>3. /\ IsFiniteSet(Recoveries(h) \cup {<<h, k>>})
          /\ \/ Cardinality(Recoveries(h) \cup {<<h, k>>}) = Cardinality(Recoveries(h))
             \/ Cardinality(Recoveries(h) \cup {<<h, k>>}) = Cardinality(Recoveries(h)) + 1
      BY <3>2, FS_AddElement
    <3>4. /\ IsFiniteSet(Recoveries(h) \cup {<<h, k>>})
          /\ Cardinality(Recoveries(h) \cup {<<h, k>>}) <= RecoveryLimit
      BY <3>2, <3>3, FS_CardinalityType, EnrollmentAssumption
    <3>5. rec' \subseteq Handles \X RecoveryIds
      BY <2>2 DEF BudgetInv
    <3>. QED
      BY <3>1, <3>4, <3>5 DEF BudgetInv
  <2>. QED
    BY <1>2, <2>1, <2>2 DEF Recover
<1>3. CASE DayPasses
  <2>1. /\ days' = days + 1 /\ UNCHANGED rec
        /\ \A h \in Handles : Recoveries(h)' = {} /\ Older(h)' = Recoveries(h) \cup Older(h)
    BY <1>3 DEF DayPasses, Recoveries, Older
  <2>2. IsFiniteSet({}) /\ Cardinality({}) = 0
    BY FS_EmptySet
  <2>3. ASSUME NEW h \in Handles
        PROVE  /\ IsFiniteSet(Recoveries(h) \cup Older(h))
               /\ Cardinality(Recoveries(h) \cup Older(h)) <= RecoveryLimit * (days + 1)
    BY BothFit DEF BudgetInv
  <2>. QED
    BY <2>1, <2>2, <2>3, EnrollmentAssumption DEF BudgetInv
<1>4. CASE UNCHANGED <<rec, recent, days>>
  BY <1>4 DEF BudgetInv, Recoveries, Older
<1>. QED
  BY <1>1, <1>2, <1>3, <1>4
     DEF EnrollNext, enrollVars, tables, Verify, LookUp, Put, Login, Save, Revoke, RequestFails, AskRevoke, Die, Operate

\* Over any number of days, no handle has more recovery devices sign in than that
\* many days' limits together, however requests overlap, fail and are retried.
THEOREM RecoveriesStayInBudget == EnrollSpec => []RecoveryBudget
<1>1. EnrollInit => BudgetInv
  <2>. SUFFICES ASSUME EnrollInit PROVE BudgetInv
    OBVIOUS
  <2>1. /\ rec = {} /\ days = 0
        /\ \A h \in Handles : Recoveries(h) = {} /\ Older(h) = {}
    BY DEF EnrollInit, Recoveries, Older
  <2>2. RecoveryLimit * 0 = 0
    BY EnrollmentAssumption
  <2>. QED
    BY <2>1, <2>2, FS_EmptySet, EnrollmentAssumption DEF BudgetInv
<1>2. BudgetInv => RecoveryBudget
  <2>1. SUFFICES ASSUME BudgetInv, NEW h \in Handles
                 PROVE  Cardinality({key \in DevicesOf(h) \cap rec : logins[key] > 0}) <= RecoveryLimit * (days + 1)
    BY DEF RecoveryBudget
  <2>. DEFINE signed == {key \in DevicesOf(h) \cap rec : logins[key] > 0}
              both == Recoveries(h) \cup Older(h)
  <2>2. signed \subseteq both
    BY DEF Recoveries, Older
  <2>3. IsFiniteSet(both) /\ Cardinality(both) <= RecoveryLimit * (days + 1)
    BY <2>1, BothFit DEF BudgetInv
  <2>4. IsFiniteSet(signed) /\ Cardinality(signed) <= Cardinality(both)
    BY <2>2, <2>3, FS_Subset
  <2>5. RecoveryLimit * (days + 1) \in Nat
    BY <2>1, OneMoreDay, EnrollmentAssumption DEF BudgetInv
  <2>. HIDE DEF signed, both
  <2>6. Cardinality(signed) \in Nat /\ Cardinality(both) \in Nat
    BY <2>3, <2>4, FS_CardinalityType
  <2>7. Cardinality(signed) <= RecoveryLimit * (days + 1)
    BY <2>3, <2>4, <2>5, <2>6
  <2>. QED
    BY <2>7 DEF signed
<1>. QED
  BY <1>1, <1>2, BudgetKept, PTL DEF EnrollSpec

\* A device logs in once more only for a login whose answer was lost.
Saving(key) == \E c \in Calls : call[c].at = "save" /\ call[c].key = key
LoginInv ==
  \A key \in Keys : /\ logins[key] <= faults + 1
                    /\ saved[key] = 0 /\ ~Saving(key) => logins[key] <= faults

OtherTypes ==
  /\ account \in [Handles -> Proofs \cup {None, Operator}] /\ alive \subseteq Keys
  /\ proof \in [Handles -> Proofs \cup {None}]
  /\ phase \in [Handles -> {"reserved", "creating", "collision", "complete"}]
  /\ rec \subseteq Keys /\ recent \subseteq Keys /\ days \in 0 .. MaxDays /\ faults \in 0 .. MaxFaults

AccountInv == EnrollTypes /\ CredentialInv /\ OtherTypes /\ LoginInv

LEMMA OtherTypesKept == AccountInv /\ [EnrollNext]_enrollVars => OtherTypes'
<1>. SUFFICES ASSUME AccountInv, [EnrollNext]_enrollVars PROVE OtherTypes'
  OBVIOUS
<1>. USE EnrollmentAssumption DEF AccountInv, OtherTypes, matrix, tables
<1>1. ASSUME NEW c \in Calls, NEW h \in Handles, NEW p \in Proofs, Enroll(c, h, p) PROVE OtherTypes'
  BY <1>1 DEF Enroll, Keys
<1>2. ASSUME NEW c \in Calls, NEW h \in Handles, NEW p \in Proofs, NEW k \in RecoveryIds, Recover(c, h, p, k)
      PROVE  OtherTypes'
  BY <1>2 DEF Recover, Keys
<1>3. ASSUME NEW c \in Calls, Verify(c) \/ LookUp(c) \/ Save(c) PROVE OtherTypes'
  BY <1>3 DEF Verify, LookUp, Save
<1>4. ASSUME NEW c \in Calls, Put(c) PROVE OtherTypes'
  <2>1. call[c].proof \in Proofs /\ call[c].key[1] \in Handles
    BY <1>4, CallKinds DEF Put, Handler, Keys
  <2>2. account' = [account EXCEPT ![call[c].key[1]] = call[c].proof]
    BY <1>4 DEF Put
  <2>3. account' \in [Handles -> Proofs \cup {None, Operator}]
    BY <2>1, <2>2
  <2>4. faults' \in 0 .. MaxFaults
    BY <1>4 DEF Put, Fault
  <2>5. UNCHANGED <<alive, proof, phase, rec, recent, days>>
    BY <1>4 DEF Put
  <2>. QED
    BY <2>3, <2>4, <2>5
<1>5. ASSUME NEW c \in Calls, Login(c) PROVE OtherTypes'
  <2>1. call[c].key \in Keys
    BY <1>5, CallKinds DEF Login
  <2>. QED
    BY <1>5, <2>1 DEF Login, Fault
<1>6. ASSUME NEW c \in Calls, Revoke(c) \/ RequestFails(c) PROVE OtherTypes'
  BY <1>6 DEF Revoke, RequestFails, Fault
<1>7. CASE Die \/ DayPasses \/ (\E h \in Handles : Operate(h))
  BY <1>7 DEF Die, DayPasses, Operate, Fault
<1>8. CASE UNCHANGED enrollVars \/ (\E c \in Calls, own, key \in Keys : AskRevoke(c, own, key))
  BY <1>8 DEF enrollVars, AskRevoke
<1>. QED
  BY <1>1, <1>2, <1>3, <1>4, <1>5, <1>6, <1>7, <1>8 DEF EnrollNext

\* A handler begins.
Begins(c) == /\ call[c] = Idle /\ UNCHANGED <<logins, saved, faults>>
             /\ \E x : call' = [call EXCEPT ![c] = x]

\* A handler that ends after a fault, or before it has logged in, keeps the bound.
LEMMA LoginsKept == AccountInv /\ [EnrollNext]_enrollVars => LoginInv'
<1>. SUFFICES ASSUME AccountInv, [EnrollNext]_enrollVars PROVE LoginInv'
  OBVIOUS
<1>. USE DEF AccountInv, LoginInv, matrix, tables
<1>1. logins \in [Keys -> Nat] /\ saved \in [Keys -> Nat] /\ faults \in Nat
      /\ call \in [Calls -> Handler \cup Revocation \cup {Idle}]
  BY EnrollmentAssumption DEF EnrollTypes, OtherTypes
<1>2. ASSUME NEW c \in Calls, Login(c) PROVE LoginInv'
  <2>. DEFINE mine == call[c].key
  <2>1. mine \in Keys /\ call[c] \in Handler /\ call[c].at = "login"
    BY <1>2, CallKinds DEF Login
  <2>2. saved[mine] = 0 /\ ~Saving(mine) /\ saved' = saved
    BY <1>2, <2>1 DEF Login, CredentialInv, Saving
  <2>. HIDE DEF mine
  <2>3. CASE call' = [call EXCEPT ![c].at = "save"] /\ logins' = [logins EXCEPT ![mine] = @ + 1] /\ faults' = faults
    <3>1. call'[c].at = "save" /\ call'[c].key = mine
      BY <1>1, <2>1, <2>3 DEF Handler, mine
    <3>2. \A d \in Calls : d # c => call'[d] = call[d]
      BY <1>1, <2>3
    <3>3. \A key \in Keys : Saving(key)' <=> Saving(key) \/ key = mine
      BY <2>1, <3>1, <3>2 DEF Saving
    <3>. QED
      BY <1>1, <2>1, <2>2, <2>3, <3>3
  <2>4. CASE Ends(c) /\ faults' = faults + 1 /\ logins' = [logins EXCEPT ![mine] = @ + 1]
    BY <1>1, <2>1, <2>2, <2>4
  <2>5. CASE Ends(c) /\ UNCHANGED <<logins, faults>>
    <3>1. \A key : Saving(key) => Saving(key)'
      BY <1>1, <2>1, <2>5 DEF Ends, Saving
    <3>. QED
      BY <2>2, <2>5, <3>1
  <2>. QED
    BY <1>2, <2>3, <2>4, <2>5 DEF Login, Fault, mine
<1>3. ASSUME NEW c \in Calls, Save(c) PROVE LoginInv'
  <2>1. call[c].key \in Keys /\ call[c].at = "save" /\ logins[call[c].key] # 0
    BY <1>3, CallKinds DEF Save, CredentialInv
  <2>2. saved' = [saved EXCEPT ![call[c].key] = logins[call[c].key]] /\ UNCHANGED <<logins, faults>>
    BY <1>3 DEF Save
  <2>3. \A key \in Keys : Saving(key) => Saving(key)' \/ key = call[c].key
    BY <1>1, <1>3 DEF Save, Answer, Ends, Saving
  <2>. QED
    BY <1>1, <2>1, <2>2, <2>3
<1>4. ASSUME UNCHANGED <<logins, saved>>, faults' = faults + 1 PROVE LoginInv'
  BY <1>1, <1>4
<1>5. ASSUME UNCHANGED <<logins, saved, faults>>, \A d \in Calls : call[d].at = "save" => call'[d] = call[d]
      PROVE  LoginInv'
  <2>1. \A key : Saving(key) => Saving(key)'
    BY <1>5 DEF Saving
  <2>. QED
    BY <1>5, <2>1
<1>6. ASSUME NEW c \in Calls, call[c].at # "save", UNCHANGED <<logins, saved, faults>>,
             \A d \in Calls : d # c => call'[d] = call[d]
      PROVE  LoginInv'
  BY <1>5, <1>6
<1>7. ASSUME NEW c \in Calls, (\E h \in Handles, p \in Proofs : Enroll(c, h, p) \/ \E k \in RecoveryIds : Recover(c, h, p, k))
                                \/ (\E own \in Keys, key \in Keys : AskRevoke(c, own, key))
      PROVE  LoginInv'
  <2>1. Begins(c)
    <3>1. ASSUME NEW h \in Handles, NEW p \in Proofs, Enroll(c, h, p) PROVE Begins(c)
      BY <3>1 DEF Enroll, Start, Begins
    <3>2. ASSUME NEW h \in Handles, NEW p \in Proofs, NEW k \in RecoveryIds, Recover(c, h, p, k) PROVE Begins(c)
      BY <3>2 DEF Recover, Start, Begins
    <3>3. ASSUME NEW own \in Keys, NEW key \in Keys, AskRevoke(c, own, key) PROVE Begins(c)
      BY <3>3 DEF AskRevoke, Begins
    <3>. QED
      BY <1>7, <3>1, <3>2, <3>3
  <2>2. call[c].at # "save" /\ \A d \in Calls : d # c => call'[d] = call[d]
    BY <1>1, <2>1 DEF Begins, Idle
  <2>. QED
    BY <1>6, <2>1, <2>2 DEF Begins
<1>8. ASSUME NEW c \in Calls, Verify(c) \/ LookUp(c) \/ Revoke(c) PROVE LoginInv'
  <2>1. call[c].at # "save" /\ UNCHANGED <<logins, saved, faults>> /\ \A d \in Calls : d # c => call'[d] = call[d]
    BY <1>1, <1>8 DEF Verify, LookUp, Revoke, Answer, Ends
  <2>. QED
    BY <1>6, <2>1
<1>9. ASSUME NEW c \in Calls, Put(c) PROVE LoginInv'
  <2>1. CASE faults' = faults + 1
    BY <1>4, <1>9, <2>1 DEF Put
  <2>2. CASE faults' = faults
    <3>1. call[c].at # "save" /\ UNCHANGED <<logins, saved, faults>> /\ \A d \in Calls : d # c => call'[d] = call[d]
      BY <1>1, <1>9, <2>2 DEF Put, Ends
    <3>. QED
      BY <1>6, <3>1
  <2>. QED
    BY <1>9, <2>1, <2>2 DEF Put, Fault
<1>10. CASE Die \/ \E c \in Calls : RequestFails(c)
  BY <1>4, <1>10 DEF Die, RequestFails, Fault
<1>11. CASE (\E h \in Handles : Operate(h)) \/ DayPasses \/ UNCHANGED enrollVars
  BY <1>5, <1>11 DEF Operate, DayPasses, enrollVars
<1>. QED
  BY <1>2, <1>3, <1>7, <1>8, <1>9, <1>10, <1>11 DEF EnrollNext

\* Every variable of the accounts keeps its type, and a device has logged in at most
\* once more than logins were lost.
THEOREM AccountsTypeCorrect == EnrollSpec => []EnrollTypeOK
<1>1. EnrollInit => AccountInv
  BY EnrollmentAssumption
     DEF EnrollInit, AccountInv, EnrollTypes, CredentialInv, OtherTypes, LoginInv, Idle, Saving
<1>2. AccountInv /\ [EnrollNext]_enrollVars => AccountInv'
  BY CredentialsKept, OtherTypesKept, LoginsKept DEF AccountInv
<1>3. AccountInv => EnrollTypeOK
  <2>1. SUFFICES ASSUME AccountInv PROVE EnrollTypeOK
    OBVIOUS
  <2>2. faults \in Nat /\ faults <= MaxFaults /\ MaxFaults \in Nat
    BY <2>1, EnrollmentAssumption DEF AccountInv, OtherTypes
  <2>3. logins \in [Keys -> Nat]
    BY <2>1 DEF AccountInv, EnrollTypes
  <2>4. \A key \in Keys : logins[key] \in 0 .. MaxFaults + 1
    <3>1. TAKE key \in Keys
    <3>2. logins[key] \in Nat /\ logins[key] <= faults + 1
      BY <2>1, <2>3 DEF AccountInv, LoginInv
    <3>. QED
      BY <2>2, <3>2
  <2>5. logins \in [Keys -> 0 .. MaxFaults + 1]
    BY <2>3, <2>4
  <2>. QED
    BY <2>1, <2>5 DEF AccountInv, EnrollTypes, OtherTypes, EnrollTypeOK
<1>. QED
  BY <1>1, <1>2, <1>3, PTL DEF EnrollSpec

-----------------------------------------------------------------------------
(***************************************************************************)
(* Uploads.                                                                *)
(***************************************************************************)
\* The types ChargeInv needs.
MediaTypes ==
  /\ row \in [Files -> {"none", "reserved", "known"}]
  /\ upload \in [Files -> {"new", "forwarded", "stored", "over"}]
  /\ wire \subseteq Files /\ stored \subseteq Files /\ old \subseteq Files
  /\ left \in [Passes -> SUBSET Files]

\* Every step of the gateway, its timer and Synapse keeps the types.
LEMMA MediaTypesKept == MediaTypes /\ [MediaNext]_mediaVars => MediaTypes'
<1> SUFFICES ASSUME MediaTypes, [MediaNext]_mediaVars PROVE MediaTypes'
  OBVIOUS
<1> USE DEF MediaTypes
<1>1. ASSUME NEW f \in Files, ReserveMedia(f) PROVE MediaTypes'
  BY <1>1 DEF ReserveMedia
<1>2. ASSUME NEW f \in Files, Receive(f) PROVE MediaTypes'
  BY <1>2 DEF Receive
<1>3. ASSUME NEW f \in Files, FinishMedia(f) PROVE MediaTypes'
  BY <1>3 DEF FinishMedia
<1>4. ASSUME NEW f \in Files, NEW refused \in BOOLEAN, UploadFails(f, refused)
      PROVE MediaTypes'
  BY <1>4 DEF UploadFails, Loses
<1>5. ASSUME NEW f \in Files, Vanish(f) PROVE MediaTypes'
  BY <1>5 DEF Vanish
<1>6. ASSUME NEW f \in Files, GrowOld(f) PROVE MediaTypes'
  BY <1>6 DEF GrowOld
<1>7. ASSUME NEW f \in Files, Prune(f) PROVE MediaTypes'
  BY <1>7 DEF Prune
<1>8. CASE Restart
  BY <1>8 DEF Restart, Loses
<1>9. ASSUME NEW x \in Passes, StartCleanup(x) PROVE MediaTypes'
  BY <1>9 DEF StartCleanup, Due
<1>10. ASSUME NEW x \in Passes, NEW f \in Files, CleanUp(x, f) PROVE MediaTypes'
  BY <1>10 DEF CleanUp, Loses
<1>11. CASE UNCHANGED mediaVars
  BY <1>11 DEF mediaVars
<1> QED
  BY <1>1, <1>2, <1>3, <1>4, <1>5, <1>6, <1>7, <1>8, <1>9, <1>10, <1>11 DEF MediaNext

\* A step keeps ChargeInv: a reservation precedes the request, a refusal is the
\* only failure that releases, and a cleanup releases what is gone for good.
LEMMA ChargeKept == MediaTypes /\ ChargeInv /\ [MediaNext]_mediaVars => ChargeInv'
<1> SUFFICES ASSUME MediaTypes, ChargeInv, [MediaNext]_mediaVars PROVE ChargeInv'
  OBVIOUS
<1> USE DEF MediaTypes, ChargeInv, StoredIsCharged, Rows
<1>1. ASSUME NEW f \in Files, ReserveMedia(f) PROVE ChargeInv'
  BY <1>1 DEF ReserveMedia
<1>2. ASSUME NEW f \in Files, Receive(f) PROVE ChargeInv'
  <2>1. f \in Rows /\ f \notin old
    BY <1>2 DEF Receive
  <2> QED
    BY <1>2, <2>1 DEF Receive
<1>3. ASSUME NEW f \in Files, FinishMedia(f) PROVE ChargeInv'
  BY <1>3 DEF FinishMedia
<1>4. ASSUME NEW f \in Files, NEW refused \in BOOLEAN, UploadFails(f, refused)
      PROVE ChargeInv'
  <2>1. CASE refused
    \* Nothing was stored, and nothing is on the wire.
    <3>1. /\ f \notin stored \cup wire
          /\ wire' = wire /\ row' = [row EXCEPT ![f] = "none"]
      BY <1>4, <2>1 DEF UploadFails, Keeps
    <3> QED
      BY <1>4, <3>1 DEF UploadFails
  <2>2. CASE ~refused
    \* The row stays, so what may still arrive is charged.
    <3>1. /\ wire' \subseteq wire \cup {f} /\ row' = row
          /\ f \in Rows /\ f \notin old
      BY <1>4, <2>2 DEF UploadFails, Keeps
    <3> QED
      BY <1>4, <3>1 DEF UploadFails
  <2> QED
    BY <2>1, <2>2
<1>5. ASSUME NEW f \in Files, Vanish(f) PROVE ChargeInv'
  BY <1>5 DEF Vanish
<1>6. ASSUME NEW f \in Files, GrowOld(f) PROVE ChargeInv'
  BY <1>6 DEF GrowOld
<1>7. ASSUME NEW f \in Files, Prune(f) PROVE ChargeInv'
  BY <1>7 DEF Prune
<1>8. CASE Restart
  <2>1. PICK late \in SUBSET {f \in Files : upload[f] = "forwarded"} : wire' = wire \cup late
    BY <1>8 DEF Restart
  <2>2. late \subseteq Rows /\ late \cap old = {}
    BY <2>1
  <2> QED
    BY <1>8, <2>1, <2>2 DEF Restart
<1>9. ASSUME NEW x \in Passes, StartCleanup(x) PROVE ChargeInv'
  BY <1>9 DEF StartCleanup, Due
<1>10. ASSUME NEW x \in Passes, NEW f \in Files, CleanUp(x, f) PROVE ChargeInv'
  <2>1. f \in old /\ f \notin wire /\ upload[f] = "over"
    BY <1>10 DEF CleanUp
  <2> QED
    BY <1>10, <2>1 DEF CleanUp, Confirms
<1>11. CASE UNCHANGED mediaVars
  BY <1>11 DEF mediaVars
<1> QED
  BY <1>1, <1>2, <1>3, <1>4, <1>5, <1>6, <1>7, <1>8, <1>9, <1>10, <1>11 DEF MediaNext

\* Every file Synapse holds or may yet store is charged (reserveMedia before the
\* request; releaseMedia only on a refusal or a confirmed deletion).
THEOREM NothingStoredUncharged == MediaSpec => []StoredIsCharged
<1>1. MediaInit => MediaTypes /\ ChargeInv
  BY DEF MediaInit, MediaTypes, ChargeInv, StoredIsCharged, Rows
<1>2. MediaTypes /\ ChargeInv /\ [MediaNext]_mediaVars => (MediaTypes /\ ChargeInv)'
  BY MediaTypesKept, ChargeKept
<1>3. ChargeInv => StoredIsCharged
  BY DEF ChargeInv
<1> QED
  BY <1>1, <1>2, <1>3, PTL DEF MediaSpec

\* A pass never takes more rows than its LIMIT.
PassesInv == (\A x \in Passes : Cardinality(left[x]) <= Batch) /\ lost \in 0 .. MaxLost

LEMMA PassesKept == MediaTypes /\ PassesInv /\ [MediaNext]_mediaVars => PassesInv'
<1> SUFFICES ASSUME MediaTypes, PassesInv, [MediaNext]_mediaVars PROVE PassesInv'
  OBVIOUS
<1> USE MediaAssumption DEF MediaTypes, PassesInv
<1>1. CASE UNCHANGED left /\ (UNCHANGED lost \/ Loses)
  BY <1>1 DEF Loses
<1>2. CASE Restart
  <2>1. \A x \in Passes : left'[x] = {}
    BY <1>2 DEF Restart
  <2> QED
    BY <1>2, <2>1, FS_EmptySet DEF Restart, Loses
<1>3. ASSUME NEW x \in Passes, StartCleanup(x) PROVE PassesInv'
  <2>1. PICK fs \in SUBSET Due : Taken(fs) /\ left' = [left EXCEPT ![x] = fs]
    BY <1>3 DEF StartCleanup
  <2>2. IsFiniteSet(Due) /\ Cardinality(Due) \in Nat
    BY FS_Subset, FS_CardinalityType DEF Due
  <2>3. Min({Batch, Cardinality(Due)}) <= Batch
    <3>1. PICK least \in {Batch, Cardinality(Due)} : \A y \in {Batch, Cardinality(Due)} : least <= y
      BY <2>2
    <3>2. \A y \in {Batch, Cardinality(Due)} : Min({Batch, Cardinality(Due)}) <= y
      BY <3>1 DEF Min
    <3> QED
      BY <3>2
  <2>4. Cardinality(fs) <= Batch
    BY <2>1, <2>3 DEF Taken
  <2> QED
    BY <1>3, <2>1, <2>4 DEF StartCleanup
<1>4. ASSUME NEW x \in Passes, NEW f \in Files, CleanUp(x, f) PROVE PassesInv'
  <2>1. left' = [left EXCEPT ![x] = @ \ {f}] /\ (lost' = lost \/ Loses)
    BY <1>4 DEF CleanUp
  <2>2. IsFiniteSet(left[x]) /\ Cardinality(left[x]) \in Nat /\ Cardinality(left[x]) <= Batch
    BY FS_Subset, FS_CardinalityType
  <2>3. Cardinality(left[x] \ {f}) \in Nat /\ Cardinality(left[x] \ {f}) <= Cardinality(left[x])
    BY <2>2, FS_Subset, FS_CardinalityType
  <2>4. \A y \in Passes : Cardinality(left'[y]) <= Batch
    BY <2>1, <2>2, <2>3
  <2>5. lost' \in 0 .. MaxLost
    BY <2>1 DEF Loses
  <2> QED
    BY <2>4, <2>5
<1> QED
  BY <1>1, <1>2, <1>3, <1>4
     DEF MediaNext, mediaVars, ReserveMedia, Receive, FinishMedia, UploadFails, Vanish, GrowOld, Prune

\* Every variable of the uploads keeps its type, and a pass its limit.
THEOREM MediaTypeCorrect == MediaSpec => []MediaTypeOK
<1>1. MediaInit => MediaTypes /\ PassesInv
  BY FS_EmptySet, MediaAssumption DEF MediaInit, MediaTypes, PassesInv
<1>2. MediaTypes /\ PassesInv /\ [MediaNext]_mediaVars => (MediaTypes /\ PassesInv)'
  BY MediaTypesKept, PassesKept
<1>3. MediaTypes /\ PassesInv => MediaTypeOK
  BY DEF MediaTypes, PassesInv, MediaTypeOK
<1> QED
  BY <1>1, <1>2, <1>3, PTL DEF MediaSpec

\* What an owner is charged for is within the quota.
QuotaInv == \A u \in Users : Bytes(Charged(u)) <= Quota

\* A reservation is refused when its bytes are too many; nothing else charges.
LEMMA QuotaInvKept ==
  ASSUME SumLaws, MediaTypes, QuotaInv, [MediaNext]_mediaVars
  PROVE  QuotaInv'
<1>1. ASSUME NEW f \in Files, ReserveMedia(f) PROVE QuotaInv'
  <2>1. SUFFICES ASSUME NEW u \in Users PROVE Bytes(Charged(u)') <= Quota
    BY DEF QuotaInv, Users, Charged
  <2>2. Charged(u) \in SUBSET Files /\ Bytes(Charged(u)) \in Nat /\ Bytes(Charged(u)) <= Quota
    BY DEF SumLaws, QuotaInv, Charged, OwnedBy
  <2>3. CASE Owner[f] # u \/ f \in Charged(u)
    <3>1. Charged(u)' = Charged(u)
      BY <1>1, <2>3 DEF ReserveMedia, Charged, OwnedBy, Rows, MediaTypes
    <3>. QED
      BY <2>2, <3>1
  <2>4. CASE Owner[f] = u /\ f \notin Charged(u)
    <3>1. Charged(u)' = Charged(u) \cup {f}
      BY <1>1, <2>4 DEF ReserveMedia, Charged, OwnedBy, Rows, MediaTypes
    <3>2. Bytes(Charged(u) \cup {f}) = Bytes(Charged(u)) + Size[f]
      BY <2>2, <2>4 DEF SumLaws
    <3>3. Bytes(Charged(u)) + Size[f] <= Quota
      BY <1>1, <2>4 DEF ReserveMedia
    <3>. QED
      BY <3>1, <3>2, <3>3
  <2>. QED
    BY <2>3, <2>4
<1>2. CASE \A f \in Files : row'[f] \in {row[f], "none", "known"} /\ (row[f] = "none" => row'[f] = "none")
  <2>1. SUFFICES ASSUME NEW u \in Users PROVE Bytes(Charged(u)') <= Quota
    BY DEF QuotaInv, Users, Charged
  <2>2. Charged(u)' \subseteq Charged(u) /\ Charged(u) \subseteq Files
    BY <1>2 DEF Charged, OwnedBy, Rows
  <2>3. Bytes(Charged(u)') <= Bytes(Charged(u)) /\ Bytes(Charged(u)') \in Nat /\ Bytes(Charged(u)) \in Nat
    BY <2>2 DEF SumLaws
  <2>. QED
    BY <2>3, MediaAssumption DEF QuotaInv
<1>3. ASSUME NEW f \in Files, FinishMedia(f) \/ (\E refused \in BOOLEAN : UploadFails(f, refused))
                              \/ (\E x \in Passes : CleanUp(x, f))
      PROVE  \A g \in Files : row'[g] \in {row[g], "none", "known"} /\ (row[g] = "none" => row'[g] = "none")
  BY <1>3 DEF FinishMedia, UploadFails, CleanUp, MediaTypes
<1>4. CASE row' = row
  BY <1>2, <1>4
<1>. QED
  BY <1>1, <1>2, <1>3, <1>4 DEF MediaNext, mediaVars, Receive, Vanish, GrowOld, Prune, Restart, StartCleanup

\* However many uploads are under way together, and whatever fails, is late or is
\* cleaned up twice, Synapse holds no more of an owner's bytes than the quota.
\* (The laws of the sum are a hypothesis: they are induction over a set.)
THEOREM QuotaNeverExceeded ==
  ASSUME SumLaws
  PROVE  MediaSpec => []QuotaKept
<1>1. MediaInit => MediaTypes /\ ChargeInv /\ QuotaInv
  <2>1. MediaInit => MediaTypes /\ ChargeInv
    BY DEF MediaInit, MediaTypes, ChargeInv, StoredIsCharged, Rows
  <2>2. ASSUME MediaInit PROVE QuotaInv
    <3>1. Bytes({}) = 0
      BY DEF SumLaws
    <3>2. \A u \in Users : Charged(u) = {}
      BY <2>2 DEF MediaInit, Charged, OwnedBy, Rows
    <3>. QED
      BY <3>1, <3>2, MediaAssumption DEF QuotaInv
  <2>. QED
    BY <2>1, <2>2
<1>2. MediaTypes /\ ChargeInv /\ QuotaInv /\ [MediaNext]_mediaVars => (MediaTypes /\ ChargeInv /\ QuotaInv)'
  BY MediaTypesKept, ChargeKept, QuotaInvKept
<1>3. MediaTypes /\ ChargeInv /\ QuotaInv => QuotaKept
  <2>. SUFFICES ASSUME MediaTypes, ChargeInv, QuotaInv, NEW u \in Users
                PROVE  Bytes(OwnedBy(u) \cap stored) <= Quota
    BY DEF QuotaKept
  <2>1. OwnedBy(u) \cap stored \subseteq Charged(u) /\ Charged(u) \subseteq Files
    BY DEF ChargeInv, StoredIsCharged, Charged, OwnedBy
  <2>2. /\ Bytes(OwnedBy(u) \cap stored) <= Bytes(Charged(u))
        /\ Bytes(OwnedBy(u) \cap stored) \in Nat /\ Bytes(Charged(u)) \in Nat
    BY <2>1 DEF SumLaws
  <2>. QED
    BY <2>2, MediaAssumption DEF QuotaInv
<1>. QED
  BY <1>1, <1>2, <1>3, PTL DEF MediaSpec

-----------------------------------------------------------------------------
(***************************************************************************)
(* Rooms.                                                                  *)
(***************************************************************************)
\* What events may hold, and what a room of the accepted request promises.
RoomContents ==
  RoomMetas \cup Powers \cup {"empty", "megolm", "public", "invite", "shared", "invited", "forbidden", "none"}
RoomEvents == [type : Stated, key : {"main", "aside"}, value : RoomContents]
RulesOf(meta) == IF meta.kind = "channel" THEN "public" ELSE "invite"
HistoryOf(meta) == IF meta.kind = "channel" THEN "shared" ELSE "invited"

\* An initial event of the request that has the metadata meta: what on_create_room
\* makes it, empty encryption, or under another key.
Meant(e, meta) ==
  /\ e.key # "main" => e.type \in {"conversation", "encryption", "power"}
  /\ e.key = "main" =>
     /\ e.type \in {"create", "conversation"} => e.value = meta
     /\ e.type = "encryption" => e.value = IF meta.encryption = "e2ee" THEN "megolm" ELSE "empty"
     /\ e.type = "rules" => e.value = RulesOf(meta)
     /\ e.type = "history" => e.value = HistoryOf(meta)
     /\ e.type = "guest" => e.value = "forbidden"
     /\ e.type = "power" => /\ e.value \in Powers
                            /\ meta.kind = "channel" => e.value.events = 50 /\ e.value.users = 0

\* The state a whole room has.
Promised(meta) == {"create", "power", "conversation", "rules"}
                  \cup (IF meta.encryption = "e2ee" THEN {"encryption"} ELSE {})

\* Whatever state a room has is its own.
StateKept ==
  /\ content["create"] \in {Absent, asked} /\ content["conversation"] \in {Absent, asked}
  /\ content["encryption"] # Absent => content["encryption"] = "megolm" /\ asked.encryption = "e2ee"
  /\ content["rules"] \in {Absent, RulesOf(asked)}
  /\ content["power"] # Absent => /\ content["power"] \in Powers
                                  /\ asked.kind = "channel" => PowerAllowed(content["power"])

Sets(e, t) == e.type = t /\ e.key = "main"
InitialKept ==
  /\ initial # <<>> /\ timeline = {}
  /\ \A i \in 1 .. Len(initial) : Meant(initial[i], asked)
  /\ \A t \in Promised(asked) : content[t] # Absent \/ \E i \in 1 .. Len(initial) : Sets(initial[i], t)
  /\ content["create"] = Absent => Sets(initial[1], "create")

RoomInv ==
  /\ stage \in {"none", "creating", "created", "halted"}
  /\ content \in [Stated -> RoomContents \cup {Absent}]
  /\ initial \in Seq(RoomEvents)
  /\ stage = "none" => content = [t \in Stated |-> Absent] /\ timeline = {}
  /\ stage # "none" => asked \in RoomMetas /\ StateKept
  /\ stage = "creating" => InitialKept
  /\ stage = "halted" => initial # <<>> /\ timeline = {} /\ Overlooked(Head(initial))
  /\ stage = "created" => \A t \in Promised(asked) : content[t] # Absent
  /\ \A m \in timeline : /\ (m.type = "encrypted") = (asked.encryption = "e2ee")
                         /\ asked.kind = "channel" => m.byRole

\* A sequence of events that are meant, with one for each of the types.
Fitting(s, meta, types) ==
  /\ s \in Seq(RoomEvents)
  /\ \A i \in 1 .. Len(s) : Meant(s[i], meta)
  /\ \A t \in types : \E i \in 1 .. Len(s) : Sets(s[i], t)

LEMMA FittingJoined ==
  ASSUME NEW meta, NEW s, NEW u, NEW S, NEW U, Fitting(s, meta, S), Fitting(u, meta, U)
  PROVE  Fitting(s \o u, meta, S \cup U)
<1>1. s \in Seq(RoomEvents) /\ u \in Seq(RoomEvents) /\ Len(s) \in Nat /\ Len(u) \in Nat
  BY DEF Fitting
<1>2. /\ s \o u \in Seq(RoomEvents) /\ Len(s \o u) = Len(s) + Len(u)
      /\ \A i \in 1 .. Len(s) + Len(u) : (s \o u)[i] = IF i <= Len(s) THEN s[i] ELSE u[i - Len(s)]
  BY <1>1, ConcatProperties, Zenon
<1>3. \A i \in 1 .. Len(s) : i \in 1 .. Len(s \o u) /\ (s \o u)[i] = s[i]
  BY <1>1, <1>2
<1>4. \A i \in 1 .. Len(u) : Len(s) + i \in 1 .. Len(s \o u) /\ (s \o u)[Len(s) + i] = u[i]
  BY <1>1, <1>2
<1>5. \A i \in 1 .. Len(s \o u) : i \in 1 .. Len(s) \/ (i - Len(s) \in 1 .. Len(u) /\ (s \o u)[i] = u[i - Len(s)])
  BY <1>1, <1>2
<1>6. \A i \in 1 .. Len(s \o u) : Meant((s \o u)[i], meta)
  BY <1>3, <1>5 DEF Fitting
<1>7. \A t \in S \cup U : \E i \in 1 .. Len(s \o u) : Sets((s \o u)[i], t)
  <2>1. TAKE t \in S \cup U
  <2>2. CASE t \in S
    BY <1>3, <2>2 DEF Fitting
  <2>3. CASE t \in U
    <3>1. PICK i \in 1 .. Len(u) : Sets(u[i], t)
      BY <2>3 DEF Fitting
    <3>. QED
      BY <1>4, <3>1
  <2>. QED
    BY <2>2, <2>3
<1>. QED
  BY <1>2, <1>6, <1>7 DEF Fitting

\* One event, and none.
LEMMA FittingOne ==
  ASSUME NEW meta, NEW e \in RoomEvents, Meant(e, meta), NEW S, \A t \in S : Sets(e, t)
  PROVE  Fitting(<<e>>, meta, S)
<1>1. <<e>> \in Seq(RoomEvents) /\ Len(<<e>>) = 1 /\ <<e>>[1] = e
  OBVIOUS
<1>2. 1 .. 1 = {1}
  OBVIOUS
<1>. QED
  BY <1>1, <1>2 DEF Fitting

LEMMA FittingNone == ASSUME NEW meta PROVE Fitting(<<>>, meta, {})
<1>1. <<>> \in Seq(RoomEvents) /\ Len(<<>>) = 0 /\ 1 .. 0 = {}
  OBVIOUS
<1>. QED
  BY <1>1 DEF Fitting

\* What comes first stays first.
LEMMA FirstStays ==
  ASSUME NEW s \in Seq(RoomEvents), NEW u \in Seq(RoomEvents), s # <<>>
  PROVE  s \o u # <<>> /\ (s \o u)[1] = s[1]
<1>1. Len(s) \in Nat \ {0} /\ Len(u) \in Nat
  BY EmptySeq
<1>2. /\ s \o u \in Seq(RoomEvents) /\ Len(s \o u) = Len(s) + Len(u)
      /\ \A i \in 1 .. Len(s) + Len(u) : (s \o u)[i] = IF i <= Len(s) THEN s[i] ELSE u[i - Len(s)]
  BY ConcatProperties, Zenon
<1>3. 1 \in 1 .. Len(s) + Len(u) /\ 1 <= Len(s)
  BY <1>1
<1>4. Len(s \o u) # 0
  BY <1>1, <1>2
<1>. QED
  BY <1>2, <1>3, <1>4

Leads(s) == s # <<>> /\ Sets(s[1], "create")
LEMMA LeadingJoined ==
  ASSUME NEW meta, NEW s, NEW u, NEW S, NEW U, Fitting(s, meta, S), Leads(s), Fitting(u, meta, U)
  PROVE  Fitting(s \o u, meta, S \cup U) /\ Leads(s \o u)
<1>1. s \in Seq(RoomEvents) /\ u \in Seq(RoomEvents)
  BY DEF Fitting
<1>2. s \o u # <<>> /\ (s \o u)[1] = s[1]
  BY <1>1, FirstStays DEF Leads
<1>3. Fitting(s \o u, meta, S \cup U)
  BY FittingJoined
<1>. QED
  BY <1>2, <1>3 DEF Leads

\* The initial events of a request, whatever it asks for: a creation first, then
\* what the room promises, and what it does not look at.
LEMMA InitialEvents ==
  ASSUME NEW q \in RoomRequests, Acceptable(q)
  PROVE  /\ Fitting(InitialState(q), q.meta, Promised(q.meta))
         /\ Leads(InitialState(q))
<1>. DEFINE create == State("create", CreateContent(q))
            first == <<create, State("power", InitialPower(q)), State("conversation", q.meta)>>
            enc == IF q.encryption = Absent THEN <<>> ELSE <<State("encryption", q.encryption)>>
            last == <<State("rules", IF q.meta.kind = "channel" THEN "public" ELSE "invite"),
                      State("history", IF q.meta.kind = "channel" THEN "shared" ELSE "invited"),
                      State("guest", "forbidden")>>
<1>1. q.meta \in RoomMetas /\ InitialPower(q) \in Powers
      /\ (q.meta.kind = "channel" => InitialPower(q).events = 50 /\ InitialPower(q).users = 0)
  <2>1. q.meta \in RoomMetas /\ (q.power = Absent \/ q.power \in Powers)
    BY DEF RoomRequests
  <2>2. NoPowers \in Powers
    BY DEF NoPowers, Powers, Everyone
  <2>. DEFINE p == IF q.power = Absent THEN NoPowers ELSE q.power
  <2>3. p \in Powers
    BY <2>1, <2>2
  <2>. HIDE DEF p
  <2>4. [p EXCEPT !.events = 50, !.users = 0] \in Powers
        /\ [p EXCEPT !.events = 50, !.users = 0].events = 50 /\ [p EXCEPT !.events = 50, !.users = 0].users = 0
    BY <2>3 DEF Powers
  <2>. QED
    BY <2>1, <2>3, <2>4 DEF InitialPower, p
<1>2. \A t \in Stated, c \in RoomContents :
        /\ State(t, c) \in RoomEvents /\ State(t, c).type = t /\ State(t, c).value = c /\ State(t, c).key = "main"
        /\ Aside(t, c) \in RoomEvents /\ Aside(t, c).type = t /\ Aside(t, c).key = "aside"
  BY DEF State, Aside, RoomEvents
<1>3. \A type \in {"conversation", "encryption", "power"} : Fitting(Besides(q, type), q.meta, {})
  <2>1. TAKE type \in {"conversation", "encryption", "power"}
  <2>2. (CHOOSE m \in RoomMetas : m # q.meta) \in RoomMetas
    <3>. DEFINE x == [kind |-> "dm", encryption |-> IF q.meta.encryption = "e2ee" THEN "standard" ELSE "e2ee"]
    <3>1. x \in RoomMetas /\ x.encryption # q.meta.encryption
      BY DEF RoomMetas, Kinds
    <3>2. \E m \in RoomMetas : m # q.meta
      BY <3>1
    <3>. QED
      BY <3>2
  <2>3. NoPowers \in Powers
    BY DEF NoPowers, Powers, Everyone
  <2>4. \A c \in RoomContents : Fitting(<<Aside(type, c)>>, q.meta, {})
    <3>1. TAKE c \in RoomContents
    <3>2. Aside(type, c) \in RoomEvents /\ Meant(Aside(type, c), q.meta)
      BY <1>2 DEF Stated, Meant
    <3>. QED
      BY <3>2, FittingOne
  <2>5. Besides(q, type) = <<>> \/ \E c \in RoomContents : Besides(q, type) = <<Aside(type, c)>>
    BY <1>1, <2>2, <2>3 DEF Besides, RoomContents
  <2>. QED
    BY <2>4, <2>5, FittingNone
<1>4. /\ q.encryption # Absent => q.encryption = IF q.meta.encryption = "e2ee" THEN "megolm" ELSE "empty"
      /\ q.meta.encryption = "e2ee" => q.encryption # Absent
  BY RoomAssumption DEF Acceptable
<1>5. Fitting(enc, q.meta, IF q.meta.encryption = "e2ee" THEN {"encryption"} ELSE {})
  <2>1. CASE q.encryption = Absent
    BY <1>4, <2>1, FittingNone
  <2>2. CASE q.encryption # Absent
    <3>. DEFINE e == State("encryption", q.encryption)
    <3>1. e \in RoomEvents /\ e.type = "encryption" /\ e.value = q.encryption /\ e.key = "main"
      BY <1>2, <1>4, <2>2 DEF RoomContents, Stated
    <3>. HIDE DEF e
    <3>2. Meant(e, q.meta) /\ Sets(e, "encryption")
      BY <1>4, <2>2, <3>1 DEF Meant, Sets
    <3>3. Fitting(<<e>>, q.meta, IF q.meta.encryption = "e2ee" THEN {"encryption"} ELSE {})
      BY <3>1, <3>2, FittingOne
    <3>. QED
      BY <2>2, <3>3 DEF e
  <2>. QED
    BY <2>1, <2>2
<1>6. Fitting(first, q.meta, {"create", "power", "conversation"}) /\ Leads(first)
  <2>1. \A i \in 1 .. 3 : first[i] \in RoomEvents /\ Meant(first[i], q.meta)
    BY <1>1, <1>2 DEF RoomContents, Stated, CreateContent, Meant
  <2>2. Sets(first[1], "create") /\ Sets(first[2], "power") /\ Sets(first[3], "conversation")
    BY DEF Sets, State
  <2>3. first \in Seq(RoomEvents) /\ Len(first) = 3
    BY <2>1
  <2>. HIDE DEF first
  <2>4. 1 \in 1 .. Len(first) /\ 2 \in 1 .. Len(first) /\ 3 \in 1 .. Len(first)
    BY <2>3
  <2>5. first # <<>>
    <3>1. Len(<<>>) # 3
      OBVIOUS
    <3>. QED
      BY <2>3, <3>1, Zenon
  <2>. QED
    BY <2>1, <2>2, <2>3, <2>4, <2>5 DEF Fitting, Leads
<1>7. Fitting(last, q.meta, {"rules", "history", "guest"})
  <2>1. \A i \in 1 .. 3 : last[i] \in RoomEvents /\ Meant(last[i], q.meta)
    BY <1>2 DEF RoomContents, Stated, Meant, RulesOf, HistoryOf
  <2>2. Sets(last[1], "rules") /\ Sets(last[2], "history") /\ Sets(last[3], "guest")
    BY DEF Sets, State
  <2>3. last \in Seq(RoomEvents) /\ Len(last) = 3
    BY <2>1
  <2>. HIDE DEF last
  <2>4. 1 \in 1 .. Len(last) /\ 2 \in 1 .. Len(last) /\ 3 \in 1 .. Len(last)
    BY <2>3
  <2>. QED
    BY <2>1, <2>2, <2>3, <2>4 DEF Fitting
<1>8. InitialState(q) = ((((first \o Besides(q, "conversation")) \o enc)
                          \o Besides(q, "encryption")) \o Besides(q, "power")) \o last
  BY DEF InitialState
<1>. HIDE DEF first, enc, last, create
<1>. DEFINE s1 == first \o Besides(q, "conversation")
            s2 == s1 \o enc
            s3 == s2 \o Besides(q, "encryption")
            s4 == s3 \o Besides(q, "power")
            has == {"create", "power", "conversation"}
            encs == IF q.meta.encryption = "e2ee" THEN {"encryption"} ELSE {}
<1>9. Fitting(s1, q.meta, has \cup {}) /\ Leads(s1)
  BY <1>3, <1>6, LeadingJoined
<1>. HIDE DEF s1
<1>10. Fitting(s2, q.meta, (has \cup {}) \cup encs) /\ Leads(s2)
  BY <1>5, <1>9, LeadingJoined
<1>. HIDE DEF s2
<1>11. Fitting(s3, q.meta, ((has \cup {}) \cup encs) \cup {}) /\ Leads(s3)
  BY <1>3, <1>10, LeadingJoined
<1>. HIDE DEF s3
<1>12. Fitting(s4, q.meta, (((has \cup {}) \cup encs) \cup {}) \cup {}) /\ Leads(s4)
  BY <1>3, <1>11, LeadingJoined
<1>. HIDE DEF s4
<1>13. /\ Fitting(s4 \o last, q.meta, ((((has \cup {}) \cup encs) \cup {}) \cup {}) \cup {"rules", "history", "guest"})
       /\ Leads(s4 \o last)
  BY <1>7, <1>12, LeadingJoined
<1>14. InitialState(q) = s4 \o last
  BY <1>8 DEF s1, s2, s3, s4
<1>15. Promised(q.meta) \subseteq ((((has \cup {}) \cup encs) \cup {}) \cup {}) \cup {"rules", "history", "guest"}
  BY DEF Promised
<1>. QED
  BY <1>13, <1>14, <1>15 DEF Fitting

\* A room that has its creation knows what it is.
LEMMA MetadataKnown ==
  ASSUME StateKept, content["create"] # Absent
  PROVE  Metadata = asked
  BY DEF StateKept, Metadata

\* A request that was accepted.
LEMMA RoomAsked ==
  ASSUME RoomInv, NEW q \in RoomRequests, CreateRoom(q)
  PROVE  RoomInv'
<1>1. stage' = "creating" /\ asked' = q.meta /\ initial' = InitialState(q) /\ UNCHANGED <<content, timeline>>
      /\ content = [t \in Stated |-> Absent] /\ timeline = {}
  BY DEF CreateRoom, RoomInv
<1>2. q.meta \in RoomMetas /\ \A t \in Stated : content[t] = Absent
  BY <1>1 DEF RoomRequests
<1>3. StateKept'
  BY <1>1, <1>2 DEF StateKept, Stated
<1>4. InitialKept'
  <2>1. Acceptable(q)
    BY DEF CreateRoom
  <2>. QED
    BY <1>1, <1>2, <2>1, InitialEvents DEF InitialKept, Fitting, Leads
<1>. QED
  BY <1>1, <1>2, <1>3, <1>4, InitialEvents DEF RoomInv, CreateRoom, Fitting, Leads

\* An initial event is refused only if on_create_room did not look at it.
LEMMA InitialEmitted == ASSUME RoomInv, EmitInitial PROVE RoomInv'
<1>. DEFINE e == Head(initial)
<1>1. /\ stage = "creating" /\ initial # <<>> /\ initial \in Seq(RoomEvents) /\ asked \in RoomMetas
      /\ StateKept /\ InitialKept /\ content \in [Stated -> RoomContents \cup {Absent}]
      /\ UNCHANGED <<asked, timeline>> /\ timeline = {}
  BY DEF RoomInv, EmitInitial, InitialKept
<1>2. /\ e \in RoomEvents /\ e = initial[1] /\ Meant(e, asked)
      /\ Len(initial) \in Nat \ {0} /\ Tail(initial) \in Seq(RoomEvents) /\ Len(Tail(initial)) = Len(initial) - 1
      /\ \A i \in 1 .. Len(Tail(initial)) : Tail(initial)[i] = initial[i + 1]
  BY <1>1, HeadTailProperties, EmptySeq DEF InitialKept
<1>. HIDE DEF e
<1>3. e.type \in Stated /\ e.value \in RoomContents /\ e.key \in {"main", "aside"}
  BY <1>2 DEF RoomEvents
<1>4. e.type # "create" => Metadata = asked
  BY <1>1, <1>2, MetadataKnown DEF InitialKept, Sets
<1>5. CASE StateAllowed(e)
  <2>1. /\ content' = IF e.key = "main" THEN [content EXCEPT ![e.type] = e.value] ELSE content
        /\ initial' = Tail(initial)
        /\ stage' = IF Tail(initial) = <<>> THEN "created" ELSE "creating"
    BY <1>5 DEF EmitInitial, e
  <2>2. /\ content'[e.type] = IF e.key = "main" THEN e.value ELSE content[e.type]
        /\ \A t \in Stated \ {e.type} : content'[t] = content[t]
        /\ content' \in [Stated -> RoomContents \cup {Absent}]
    BY <1>1, <1>3, <2>1
  <2>3. e.value # Absent
    BY <1>3, RoomAssumption DEF RoomContents
  <2>4. e.key = "main" =>
          /\ e.type = "power" => e.value \in Powers /\ (asked.kind = "channel" => PowerAllowed(e.value))
          /\ e.type = "encryption" => e.value = "megolm" /\ asked.encryption = "e2ee"
    BY <1>2, <1>4, <1>5 DEF StateAllowed, Meant
  <2>5. StateKept'
    <3>1. CASE e.key = "main"
      BY <1>1, <1>2, <1>3, <2>2, <2>4, <3>1 DEF StateKept, Meant, Stated
    <3>2. CASE e.key # "main"
      BY <1>1, <2>1, <3>2 DEF StateKept
    <3>. QED
      BY <3>1, <3>2
  <2>6. content'["create"] # Absent
    BY <1>1, <1>2, <2>2, <2>3 DEF InitialKept, Stated, Sets
  <2>7. \A t \in Promised(asked) :
          content'[t] # Absent \/ \E i \in 1 .. Len(Tail(initial)) : Sets(Tail(initial)[i], t)
    <3>1. TAKE t \in Promised(asked)
    <3>2. t \in Stated
      BY DEF Promised, Stated
    <3>3. CASE content[t] # Absent \/ Sets(e, t)
      BY <3>2, <3>3, <2>2, <2>3 DEF Sets
    <3>4. CASE content[t] = Absent /\ ~Sets(e, t)
      <4>1. PICK i \in 1 .. Len(initial) : Sets(initial[i], t)
        BY <1>1, <3>4 DEF InitialKept
      <4>2. i # 1
        BY <4>1, <3>4, <1>2
      <4>3. i - 1 \in 1 .. Len(Tail(initial)) /\ Tail(initial)[i - 1] = initial[i]
        BY <4>1, <4>2, <1>2
      <4>. QED
        BY <4>1, <4>3
    <3>. QED
      BY <3>3, <3>4
  <2>8. CASE Tail(initial) = <<>>
    <3>1. \A t \in Promised(asked') : content'[t] # Absent
      <4>1. Len(Tail(initial)) = 0
        BY <2>8, <1>2, EmptySeq
      <4>. QED
        <5>1. 1 .. Len(Tail(initial)) = 1 .. 0
          BY <4>1
        <5>. QED
          BY <1>1, <2>7, <5>1, 1 .. 0 = {}
    <3>. QED
      BY <1>1, <1>2, <1>3, <2>1, <2>5, <2>8, <3>1 DEF RoomInv
  <2>9. CASE Tail(initial) # <<>>
    <3>1. \A i \in 1 .. Len(initial') : Meant(initial'[i], asked')
      BY <1>1, <1>2, <2>1 DEF InitialKept
    <3>2. InitialKept'
      BY <1>1, <2>1, <2>6, <2>7, <2>9, <3>1 DEF InitialKept
    <3>. QED
      BY <1>1, <1>2, <1>3, <2>1, <2>5, <2>9, <3>2 DEF RoomInv
  <2>. QED
    BY <2>8, <2>9
<1>6. CASE ~StateAllowed(e)
  <2>1. stage' = "halted" /\ UNCHANGED <<content, initial>>
    BY <1>6 DEF EmitInitial, e
  <2>4. Overlooked(e)
    <3>1. SUFFICES ASSUME e.key = "main" PROVE Overlooked(e)
      BY DEF Overlooked
    <3>2. e.type \in {"encryption", "power"}
      BY <1>1, <1>2, <1>3, <1>4, <1>6, <3>1 DEF StateAllowed, StateKept, Meant, RulesOf, HistoryOf, Stated
    <3>3. CASE e.type = "encryption"
      <4>1. Metadata = asked /\ content["encryption"] \in {Absent, "megolm"}
        BY <1>1, <1>4, <3>3 DEF StateKept
      <4>2. asked.encryption # "e2ee"
        BY <1>2, <1>6, <3>1, <3>3, <4>1 DEF StateAllowed, Meant
      <4>3. asked.encryption = "standard"
        BY <1>1, <4>2 DEF RoomMetas
      <4>. QED
        BY <1>2, <3>1, <3>3, <4>3 DEF Overlooked, Meant
    <3>4. CASE e.type = "power"
      <4>1. e.value \in Powers /\ asked.kind = "channel" /\ e.value.events = 50 /\ e.value.users = 0
            /\ ~PowerAllowed(e.value)
        BY <1>2, <1>4, <1>6, <3>1, <3>4 DEF StateAllowed, Meant
      <4>2. 0 \in e.value.messages
        BY <4>1 DEF PowerAllowed
      <4>. QED
        BY <3>4, <4>1, <4>2 DEF Overlooked, IsChannel
    <3>. QED
      BY <3>2, <3>3, <3>4
  <2>5. StateKept'
    BY <1>1, <2>1 DEF StateKept
  <2>. QED
    BY <1>1, <2>1, <2>4, <2>5 DEF RoomInv, e, Overlooked, IsChannel
<1>. QED
  BY <1>5, <1>6

\* What a member changes later is held against the conversation.
LEMMA StateChanged ==
  ASSUME RoomInv, NEW type \in Stated, NEW c \in ContentsOf(type), ChangeState(State(type, c))
  PROVE  RoomInv'
<1>. DEFINE e == State(type, c)
<1>1. /\ stage = "created" /\ StateAllowed(e) /\ content' = [content EXCEPT ![type] = c]
      /\ UNCHANGED <<asked, stage, initial, timeline>> /\ e.type = type /\ e.value = c /\ e.key = "main"
  BY DEF ChangeState, State
<1>. HIDE DEF e
<1>2. /\ asked \in RoomMetas /\ StateKept /\ Metadata = asked /\ content["create"] # Absent
      /\ content \in [Stated -> RoomContents \cup {Absent}]
  BY <1>1, MetadataKnown DEF RoomInv, Promised
<1>3. content'[type] = c /\ \A t \in Stated \ {type} : content'[t] = content[t]
  BY <1>1, <1>2
<1>4. c \in RoomContents /\ type # "create"
  <2>1. type # "create"
    BY DEF ContentsOf
  <2>2. CASE type \in {"conversation", "encryption", "power"}
    BY <1>1, <1>2, <2>2 DEF StateAllowed, RoomContents, ContentsOf
  <2>3. CASE type \in {"rules", "history", "guest"}
    BY <1>1, <2>3 DEF StateAllowed, RoomContents
  <2>. QED
    BY <2>1, <2>2, <2>3 DEF Stated
<1>5. c # Absent
  BY <1>4, RoomAssumption DEF RoomContents
<1>6. /\ type = "conversation" => c = asked
      /\ type = "encryption" => c = "megolm" /\ asked.encryption = "e2ee"
      /\ type = "rules" => c = RulesOf(asked)
      /\ type = "power" => c \in Powers /\ (asked.kind = "channel" => PowerAllowed(c))
  BY <1>1, <1>2 DEF StateAllowed, RulesOf, ContentsOf
<1>7. StateKept'
  BY <1>1, <1>2, <1>3, <1>4, <1>6 DEF StateKept, Stated
<1>8. \A t \in Promised(asked) : content'[t] # Absent
  BY <1>1, <1>3, <1>5 DEF RoomInv, Promised, Stated
<1>9. content' \in [Stated -> RoomContents \cup {Absent}]
  BY <1>1, <1>2, <1>4
<1>. QED
  BY <1>1, <1>2, <1>7, <1>8, <1>9 DEF RoomInv

\* Only guest access can be redacted.
LEMMA StateRedacted == ASSUME RoomInv, NEW type \in Stated, RedactState(type) PROVE RoomInv'
<1>1. /\ stage = "created" /\ type = "guest" /\ content' = [content EXCEPT !["guest"] = "none"]
      /\ UNCHANGED <<asked, stage, initial, timeline>>
  BY DEF RedactState, RedactionAllowed, Redacted
<1>2. content \in [Stated -> RoomContents \cup {Absent}] /\ asked \in RoomMetas /\ StateKept
  BY <1>1 DEF RoomInv
<1>3. \A t \in Stated \ {"guest"} : content'[t] = content[t]
  BY <1>1, <1>2
<1>4. content' \in [Stated -> RoomContents \cup {Absent}]
  BY <1>1, <1>2 DEF RoomContents
<1>5. StateKept'
  BY <1>1, <1>2, <1>3 DEF StateKept, Stated
<1>6. \A t \in Promised(asked) : content'[t] # Absent
  BY <1>1, <1>3 DEF RoomInv, Promised, Stated
<1>. QED
  BY <1>1, <1>2, <1>4, <1>5, <1>6 DEF RoomInv

\* Who posts has the kind of message right, and in a channel a role.
LEMMA MessagePosted ==
  ASSUME RoomInv, NEW u \in Everyone, NEW type \in Posted, Post(u, type)
  PROVE  RoomInv'
<1>1. /\ stage = "created" /\ Level(u) >= Needed /\ PostAllowed(type)
      /\ timeline' = timeline \cup {[type |-> type, byRole |-> u \in content["power"].roles]}
      /\ UNCHANGED <<asked, stage, initial, content>>
  BY DEF Post
<1>2. asked \in RoomMetas /\ StateKept /\ Metadata = asked /\ content["power"] # Absent
  BY <1>1, MetadataKnown DEF RoomInv, Promised
<1>3. (type = "encrypted") = (asked.encryption = "e2ee")
  BY <1>1, <1>2 DEF PostAllowed
<1>4. asked.kind = "channel" => u \in content["power"].roles
  <2>1. SUFFICES ASSUME asked.kind = "channel", u \notin content["power"].roles PROVE FALSE
    OBVIOUS
  <2>. DEFINE p == content["power"]
  <2>2. p \in Powers /\ PowerAllowed(p)
    BY <1>2, <2>1 DEF StateKept
  <2>3. p.users = 0 /\ p.events = 50 /\ p.messages \in {{}, {50}}
    BY <2>2 DEF PowerAllowed, Powers
  <2>4. Level(u) = 0 /\ Needed = 50
    BY <2>1, <2>3 DEF Level, Needed
  <2>. QED
    BY <1>1, <2>4
<1>5. \A m \in timeline' : /\ (m.type = "encrypted") = (asked'.encryption = "e2ee")
                           /\ asked'.kind = "channel" => m.byRole
  <2>. DEFINE new == [type |-> type, byRole |-> u \in content["power"].roles]
  <2>1. new.type = type /\ (new.byRole <=> u \in content["power"].roles)
    OBVIOUS
  <2>2. \A m \in timeline : /\ (m.type = "encrypted") = (asked.encryption = "e2ee")
                            /\ asked.kind = "channel" => m.byRole
    BY DEF RoomInv
  <2>3. (new.type = "encrypted") = (asked.encryption = "e2ee") /\ (asked.kind = "channel" => new.byRole)
    BY <1>3, <1>4, <2>1
  <2>4. timeline' = timeline \cup {new} /\ asked' = asked
    BY <1>1
  <2>. HIDE DEF new
  <2>. QED
    BY <2>2, <2>3, <2>4
<1>6. StateKept'
  BY <1>1, <1>2 DEF StateKept
<1>. QED
  BY <1>1, <1>2, <1>5, <1>6 DEF RoomInv

\* A room is what it was created as, for any number of members.
THEOREM PromiseKept == RoomSpec => []RoomKeepsPromise
<1>1. RoomInit => RoomInv
  BY DEF RoomInit, RoomInv
<1>2. RoomInv /\ [RoomNext]_roomVars => RoomInv'
  <2>. SUFFICES ASSUME RoomInv, [RoomNext]_roomVars PROVE RoomInv'
    OBVIOUS
  <2>1. CASE NextMinute \/ ToggleBlock \/ UNCHANGED roomVars
    <3>1. UNCHANGED <<asked, stage, initial, content, timeline>>
      BY <2>1 DEF NextMinute, ToggleBlock, roomVars
    <3>. QED
      BY <3>1 DEF RoomInv, StateKept, InitialKept, Overlooked, IsChannel
  <2>. QED
    BY <2>1, RoomAsked, InitialEmitted, StateChanged, StateRedacted, MessagePosted DEF RoomNext
<1>3. RoomInv => RoomKeepsPromise
  <2>. SUFFICES ASSUME RoomInv PROVE RoomKeepsPromise
    OBVIOUS
  <2>1. ASSUME stage = "created"
        PROVE  /\ Metadata = asked
               /\ content["encryption"] = IF asked.encryption = "e2ee" THEN "megolm" ELSE Absent
               /\ content["rules"] = IF IsChannel THEN "public" ELSE "invite"
    BY <2>1, MetadataKnown DEF RoomInv, StateKept, Promised, RulesOf, IsChannel
  <2>2. \A m \in timeline : /\ (m.type = "encrypted") = (asked.encryption = "e2ee")
                            /\ IsChannel => m.byRole
    BY DEF RoomInv, IsChannel
  <2>. QED
    BY <2>1, <2>2 DEF RoomInv, RoomKeepsPromise
<1>. QED
  BY <1>1, <1>2, <1>3, PTL DEF RoomSpec
===============================================================================
