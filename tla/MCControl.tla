----------------------------- MODULE MCControl ------------------------------
(* The control service's accounts and uploads and the rules of one of        *)
(* Synapse's rooms share nothing that is modelled: a behaviour is of one     *)
(* part.  The others stay in their initial states, in which their fairness   *)
(* asks for nothing.                                                         *)
EXTENDS Enrollment, Media, RoomRules, TLC

VARIABLE part

Init == EnrollInit /\ MediaInit /\ RoomInit /\ part \in {"accounts", "media", "room"}

Next ==
  \/ part = "accounts" /\ EnrollNext /\ UNCHANGED <<part, mediaVars, roomVars>>
  \/ part = "media" /\ MediaNext /\ UNCHANGED <<part, enrollVars, roomVars>>
  \/ part = "room" /\ RoomNext /\ UNCHANGED <<part, enrollVars, mediaVars>>

vars == <<enrollVars, mediaVars, roomVars, part>>
FairSpec == Init /\ [][Next]_vars /\ EnrollFairness /\ MediaFairness

CONSTANTS f1, f2, f3, ana, bo
Sizes == (f1 :> 2) @@ (f2 :> 1) @@ (f3 :> 1)
Owners == (f1 :> ana) @@ (f2 :> ana) @@ (f3 :> bo)
\* What Control_proofs takes from arithmetic.
ASSUME SumAssumption == SumLaws
=============================================================================
