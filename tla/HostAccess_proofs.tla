------------------------- MODULE HostAccess_proofs -------------------------
(* That a firewall rule a CI run asked for is never forgotten: however many   *)
(* processes stop, however many requests there are and whenever AWS carries   *)
(* them out.                                                                  *)
EXTENDS HostAccess, SequenceTheorems, TLAPS

Commands == {"none", "open", "close"}
Statuses == {"Sent", "Started", "Lost"} \cup Terminal
Stages == {"idle", "inspect", "identity", "own", "check", "request", "requested", "wait",
           "confirm", "settle", "closing", "release"}

Helpers == [command : Commands, at : Stages, unknown : BOOLEAN, last : Nat]
Journals == [written : BOOLEAN, owned : BOOLEAN, open : Nat, close : Nat]

AccessTypes ==
  /\ rule \in BOOLEAN
  /\ requests \in Seq([kind : {"open", "close"}, status : Statuses])
  /\ access \in Journals
  /\ helper \in Helpers

\* What a process at each step stands on: an open process writes the journal, then
\* owns the rule, then asks for it; a close process works on an owned rule.
HelperInv ==
  /\ helper.command = "none" <=> helper.at = "idle"
  /\ helper.command = "open" => helper.at \notin {"settle", "closing", "release"}
  /\ helper.command = "close" => access.owned /\ helper.at \notin {"inspect", "identity", "own"}
  /\ helper.command = "open" => (access.written <=> helper.at # "inspect")
  /\ helper.command = "open" => (access.owned <=> helper.at \notin {"inspect", "identity", "own"})
  /\ access.owned => access.written

Opens == {i \in 1..Len(requests) : requests[i].kind = "open"}

\* There is one open request at most: only the first process that wrote the journal
\* makes one, as its last act but waiting for it.
OpenInv ==
  /\ \A i, j \in Opens : i = j
  /\ Opens # {} => /\ access.written
                   /\ helper.command = "open" => helper.at \in {"requested", "wait", "confirm"}

\* Operations on record are requests of their kind.
RecordInv ==
  /\ helper.at = "requested" => helper.last \in 1..Len(requests) /\ requests[helper.last].kind = helper.command
  /\ access.open # Unknown => access.open \in Opens

\* A close process that knows the open request has seen it settle before it asks
\* for anything, so that nothing brings the rule back once it has been seen gone.
CloseInv ==
  (helper.command = "close" /\ ~helper.unknown) =>
    /\ access.open # Unknown
    /\ helper.at # "settle" => requests[access.open].status \in Terminal
    /\ helper.at = "release" => ~rule

AccessInv == AccessTypes /\ HelperInv /\ OpenInv /\ RecordInv /\ CloseInv /\ OwnedUntilGone

\* A step within a process.
LEMMA ThenMoves ==
  ASSUME helper \in Helpers, NEW at \in Stages, Then(at)
  PROVE  /\ helper' \in Helpers /\ helper'.at = at
         /\ helper'.command = helper.command /\ helper'.unknown = helper.unknown /\ helper'.last = helper.last
BY DEF Then, Helpers
\* A process that has made the n-th request.
LEMMA RequestMoves ==
  ASSUME helper \in Helpers, NEW n \in Nat, helper' = [helper EXCEPT !.at = "requested", !.last = n]
  PROVE  helper' \in Helpers
<1>1. helper' = [command |-> helper.command, at |-> "requested", unknown |-> helper.unknown, last |-> n]
  BY DEF Helpers
<1>. QED
  BY <1>1 DEF Helpers, Stages
\* Whatever it reports, a process that ends leaves nothing.
LEMMA EndsMoves ==
  ASSUME NEW result, Ends(result)
  PROVE  helper' \in Helpers /\ helper'.at = "idle" /\ helper'.command = "none"
BY DEF Ends, Unstarted, Helpers, Commands, Stages

\* Without a change of rule, requests or journal, what was owned is owned.
LEMMA NoRequestMoves ==
  ASSUME OwnedUntilGone, UNCHANGED <<rule, requests, access>>
  PROVE  OwnedUntilGone'
BY DEF OwnedUntilGone

\* A fresh run: no journal, no request, no rule.
LEMMA AccessInvHolds == AccessInit => AccessInv
<1>. SUFFICES ASSUME AccessInit PROVE AccessInv
  OBVIOUS
<1>. USE DEF AccessInit, Unstarted, Unknown
<1>1. AccessTypes
  <2>1. requests \in Seq([kind : {"open", "close"}, status : Statuses])
    OBVIOUS
  <2>2. access \in Journals /\ helper \in Helpers
    BY DEF Journals, Helpers, Commands, Stages
  <2>. QED
    BY <2>1, <2>2 DEF AccessTypes
<1>2. Opens = {}
  BY DEF Opens
<1>3. HelperInv /\ OpenInv /\ RecordInv /\ CloseInv
  BY <1>2 DEF HelperInv, OpenInv, RecordInv, CloseInv
<1>4. OwnedUntilGone
  BY DEF OwnedUntilGone
<1>. QED
  BY <1>1, <1>3, <1>4 DEF AccessInv

\* open, up to the journal that owns the rule.
LEMMA OpenSteps ==
  ASSUME AccessInv, OpenAccess \/ Inspect \/ PrepareIdentity \/ Own
  PROVE  AccessInv'
<1>. USE DEF AccessInv, On
<1>1. CASE OpenAccess
  <2>. USE <1>1 DEF OpenAccess, Unstarted, Helpers, Commands
  <2>1. helper' \in Helpers /\ helper'.at = "inspect" /\ helper'.command = "open"
    BY ThenMoves DEF AccessTypes, Stages
  <2>2. access' = access
    BY DEF AccessTypes, Journals, HelperInv, Commands, Helpers, Unknown
  <2>3. requests' = requests /\ rule' = rule /\ Opens' = Opens
    BY DEF Opens
  <2>4. AccessTypes'
    BY <2>1, <2>2, <2>3 DEF AccessTypes
  <2>5. HelperInv'
    BY <2>1, <2>2 DEF AccessTypes, HelperInv, Helpers, Commands
  <2>6. OpenInv'
    BY <2>1, <2>2, <2>3 DEF OpenInv, HelperInv
  <2>7. RecordInv'
    BY <2>1, <2>2, <2>3 DEF RecordInv, HelperInv, OpenInv, Opens, Unknown
  <2>8. CloseInv'
    BY <2>1, <2>2, <2>3 DEF CloseInv, HelperInv, RecordInv, Unknown
  <2>9. OwnedUntilGone'
    BY <2>2, <2>3, NoRequestMoves
  <2>. QED
    BY <2>4, <2>5, <2>6, <2>7, <2>8, <2>9
<1>2. CASE Inspect
  <2>. USE <1>2 DEF Inspect
  <2>1. helper' \in Helpers /\ helper'.at = "identity" /\ helper'.command = helper.command
           /\ helper'.unknown = helper.unknown /\ helper'.last = helper.last
    BY ThenMoves DEF AccessTypes, Stages
  <2>2. access' \in Journals /\ access'.written /\ access'.owned = access.owned /\ access'.open = access.open
    BY DEF AccessTypes, Journals, HelperInv, Commands, Helpers, Unknown
  <2>3. requests' = requests /\ rule' = rule /\ Opens' = Opens
    BY DEF Opens
  <2>4. AccessTypes'
    BY <2>1, <2>2, <2>3 DEF AccessTypes
  <2>5. HelperInv'
    BY <2>1, <2>2 DEF AccessTypes, HelperInv, Helpers, Commands
  <2>6. OpenInv'
    BY <2>1, <2>2, <2>3 DEF OpenInv, HelperInv
  <2>7. RecordInv'
    BY <2>1, <2>2, <2>3 DEF RecordInv, HelperInv, OpenInv, Opens, Unknown
  <2>8. CloseInv'
    BY <2>1, <2>2, <2>3 DEF CloseInv, HelperInv, RecordInv, Unknown
  <2>9. OwnedUntilGone'
    BY <2>1, <2>2, <2>3 DEF OwnedUntilGone, HelperInv
  <2>. QED
    BY <2>4, <2>5, <2>6, <2>7, <2>8, <2>9
<1>3. CASE PrepareIdentity
  <2>. USE <1>3 DEF PrepareIdentity
  <2>1. \/ borrowed /\ helper' \in Helpers /\ helper'.at = "idle" /\ helper'.command = "none"
        \/ ~borrowed /\ helper' \in Helpers /\ helper'.at = "own" /\ helper'.command = helper.command
           /\ helper'.unknown = helper.unknown /\ helper'.last = helper.last
    <3>1. CASE borrowed
      <4>1. Ends("ready")
        BY <3>1
      <4>. QED
        BY <3>1, <4>1, EndsMoves
    <3>2. CASE ~borrowed
      BY <3>2, ThenMoves DEF AccessTypes, Stages
    <3>. QED
      BY <3>1, <3>2
  <2>2. access' = access
    BY DEF AccessTypes, Journals, HelperInv, Commands, Helpers, Unknown
  <2>3. requests' = requests /\ rule' = rule /\ Opens' = Opens
    BY DEF Opens
  <2>4. AccessTypes'
    BY <2>1, <2>2, <2>3 DEF AccessTypes
  <2>5. HelperInv'
    BY <2>1, <2>2 DEF AccessTypes, HelperInv, Helpers, Commands
  <2>6. OpenInv'
    BY <2>1, <2>2, <2>3 DEF OpenInv, HelperInv
  <2>7. RecordInv'
    BY <2>1, <2>2, <2>3 DEF RecordInv, HelperInv, OpenInv, Opens, Unknown
  <2>8. CloseInv'
    BY <2>1, <2>2, <2>3 DEF CloseInv, HelperInv, RecordInv, Unknown
  <2>9. OwnedUntilGone'
    BY <2>2, <2>3, NoRequestMoves
  <2>. QED
    BY <2>4, <2>5, <2>6, <2>7, <2>8, <2>9
<1>4. CASE Own
  <2>. USE <1>4 DEF Own
  <2>1. helper' \in Helpers /\ helper'.at = "check" /\ helper'.command = helper.command
           /\ helper'.unknown = helper.unknown /\ helper'.last = helper.last
    BY ThenMoves DEF AccessTypes, Stages
  <2>2. access' \in Journals /\ access'.written = access.written /\ access'.owned /\ access'.open = access.open
    BY DEF AccessTypes, Journals, HelperInv, Commands, Helpers, Unknown
  <2>3. requests' = requests /\ rule' = rule /\ Opens' = Opens
    BY DEF Opens
  <2>4. AccessTypes'
    BY <2>1, <2>2, <2>3 DEF AccessTypes
  <2>5. HelperInv'
    BY <2>1, <2>2 DEF AccessTypes, HelperInv, Helpers, Commands
  <2>6. OpenInv'
    BY <2>1, <2>2, <2>3 DEF OpenInv, HelperInv
  <2>7. RecordInv'
    BY <2>1, <2>2, <2>3 DEF RecordInv, HelperInv, OpenInv, Opens, Unknown
  <2>8. CloseInv'
    BY <2>1, <2>2, <2>3 DEF CloseInv, HelperInv, RecordInv, Unknown
  <2>9. OwnedUntilGone'
    BY <2>1, <2>2, <2>3 DEF OwnedUntilGone, HelperInv
  <2>. QED
    BY <2>4, <2>5, <2>6, <2>7, <2>8, <2>9
<1>. QED
  BY <1>1, <1>2, <1>3, <1>4

\* change_rule, but for the request itself.
LEMMA ChangeSteps ==
  ASSUME AccessInv, CheckInstance \/ RecordOperation \/ WaitOperation \/ ConfirmPorts
  PROVE  AccessInv'
<1>. USE DEF AccessInv, On
<1>1. CASE CheckInstance
  <2>. USE <1>1 DEF CheckInstance
  <2>1. helper' \in Helpers /\ helper'.at = "request" /\ helper'.command = helper.command
           /\ helper'.unknown = helper.unknown /\ helper'.last = helper.last
    BY ThenMoves DEF AccessTypes, Stages
  <2>2. access' \in Journals /\ access'.written = access.written /\ access'.owned = access.owned
        /\ access'.open \in {access.open, Unknown} /\ (helper.command = "close" => access'.open = access.open)
    BY DEF AccessTypes, Journals, HelperInv, Commands, Helpers, Unknown
  <2>3. requests' = requests /\ rule' = rule /\ Opens' = Opens
    BY DEF Opens
  <2>4. AccessTypes'
    BY <2>1, <2>2, <2>3 DEF AccessTypes
  <2>5. HelperInv'
    BY <2>1, <2>2 DEF AccessTypes, HelperInv, Helpers, Commands
  <2>6. OpenInv'
    BY <2>1, <2>2, <2>3 DEF OpenInv, HelperInv
  <2>7. RecordInv'
    BY <2>1, <2>2, <2>3 DEF RecordInv, HelperInv, OpenInv, Opens, Unknown
  <2>8. CloseInv'
    BY <2>1, <2>2, <2>3 DEF CloseInv, HelperInv, RecordInv, Unknown
  <2>9. OwnedUntilGone'
    BY <2>1, <2>2, <2>3 DEF OwnedUntilGone, HelperInv
  <2>. QED
    BY <2>4, <2>5, <2>6, <2>7, <2>8, <2>9
<1>2. CASE RecordOperation
  <2>. USE <1>2 DEF RecordOperation
  <2>1. helper' \in Helpers /\ helper'.at = "wait" /\ helper'.command = helper.command
           /\ helper'.unknown = helper.unknown /\ helper'.last = helper.last
    BY ThenMoves DEF AccessTypes, Stages
  <2>2. access' \in Journals /\ access'.written = access.written /\ access'.owned = access.owned
        /\ access'.open \in {access.open, helper.last}
        /\ access'.open = IF helper.command = "open" THEN helper.last ELSE access.open
    BY DEF AccessTypes, Journals, HelperInv, Commands, Helpers, Unknown
  <2>3. requests' = requests /\ rule' = rule /\ Opens' = Opens
    BY DEF Opens
  <2>4. AccessTypes'
    BY <2>1, <2>2, <2>3 DEF AccessTypes
  <2>5. HelperInv'
    BY <2>1, <2>2 DEF AccessTypes, HelperInv, Helpers, Commands
  <2>6. OpenInv'
    BY <2>1, <2>2, <2>3 DEF OpenInv, HelperInv
  <2>7. RecordInv'
    BY <2>1, <2>2, <2>3 DEF RecordInv, HelperInv, OpenInv, Opens, Unknown
  <2>8. CloseInv'
    BY <2>1, <2>2, <2>3 DEF CloseInv, HelperInv, RecordInv, Unknown
  <2>9. OwnedUntilGone'
    BY <2>1, <2>2, <2>3 DEF OwnedUntilGone, HelperInv
  <2>. QED
    BY <2>4, <2>5, <2>6, <2>7, <2>8, <2>9
<1>3. CASE WaitOperation
  <2>. USE <1>3 DEF WaitOperation
  <2>1. \/ helper' \in Helpers /\ helper'.at = "idle" /\ helper'.command = "none"
        \/ helper' \in Helpers /\ helper'.at = "confirm" /\ helper'.command = helper.command
           /\ helper'.unknown = helper.unknown /\ helper'.last = helper.last
    <3>1. CASE Status(helper.command) = "Completed"
      BY <3>1, ThenMoves DEF AccessTypes, Stages
    <3>2. CASE ~(Status(helper.command) = "Completed")
      <4>1. Ends("failed")
        BY <3>2
      <4>. QED
        BY <3>2, <4>1, EndsMoves
    <3>. QED
      BY <3>1, <3>2
  <2>2. access' = access
    BY DEF AccessTypes, Journals, HelperInv, Commands, Helpers, Unknown
  <2>3. requests' = requests /\ rule' = rule /\ Opens' = Opens
    BY DEF Opens
  <2>4. AccessTypes'
    BY <2>1, <2>2, <2>3 DEF AccessTypes
  <2>5. HelperInv'
    BY <2>1, <2>2 DEF AccessTypes, HelperInv, Helpers, Commands
  <2>6. OpenInv'
    BY <2>1, <2>2, <2>3 DEF OpenInv, HelperInv
  <2>7. RecordInv'
    BY <2>1, <2>2, <2>3 DEF RecordInv, HelperInv, OpenInv, Opens, Unknown
  <2>8. CloseInv'
    BY <2>1, <2>2, <2>3 DEF CloseInv, HelperInv, RecordInv, Unknown
  <2>9. OwnedUntilGone'
    BY <2>2, <2>3, NoRequestMoves
  <2>. QED
    BY <2>4, <2>5, <2>6, <2>7, <2>8, <2>9
<1>4. CASE ConfirmPorts
  <2>. USE <1>4 DEF ConfirmPorts
  <2>1. \/ helper' \in Helpers /\ helper'.at = "idle" /\ helper'.command = "none"
        \/ helper.command # "open" /\ ~rule /\ helper' \in Helpers /\ helper'.at = "release" /\ helper'.command = helper.command
           /\ helper'.unknown = helper.unknown /\ helper'.last = helper.last
    <3>1. CASE helper.command = "open"
      <4>1. Ends("ready")
        BY <3>1
      <4>. QED
        BY <3>1, <4>1, EndsMoves
    <3>2. CASE ~(helper.command = "open")
      BY <3>2, ThenMoves DEF AccessTypes, Stages
    <3>. QED
      BY <3>1, <3>2
  <2>2. access' = access
    BY DEF AccessTypes, Journals, HelperInv, Commands, Helpers, Unknown
  <2>3. requests' = requests /\ rule' = rule /\ Opens' = Opens
    BY DEF Opens
  <2>4. AccessTypes'
    BY <2>1, <2>2, <2>3 DEF AccessTypes
  <2>5. HelperInv'
    BY <2>1, <2>2 DEF AccessTypes, HelperInv, Helpers, Commands
  <2>6. OpenInv'
    BY <2>1, <2>2, <2>3 DEF OpenInv, HelperInv
  <2>7. RecordInv'
    BY <2>1, <2>2, <2>3 DEF RecordInv, HelperInv, OpenInv, Opens, Unknown
  <2>8. CloseInv'
    BY <2>1, <2>2, <2>3 DEF CloseInv, HelperInv, RecordInv, Unknown
  <2>9. OwnedUntilGone'
    BY <2>2, <2>3, NoRequestMoves
  <2>. QED
    BY <2>4, <2>5, <2>6, <2>7, <2>8, <2>9
<1>. QED
  BY <1>1, <1>2, <1>3, <1>4

\* close, and the ways a process ends.
LEMMA CloseSteps ==
  ASSUME AccessInv, CloseAccess \/ SettleOpening \/ SettleClosing \/ Release \/ GiveUp
  PROVE  AccessInv'
<1>. USE DEF AccessInv, On
<1>1. CASE CloseAccess
  <2>. USE <1>1 DEF CloseAccess, Known, Unstarted, Helpers, Commands
  <2>1. \/ helper' \in Helpers /\ helper'.at = "idle" /\ helper'.command = "none"
        \/ access.owned /\ helper' \in Helpers /\ helper'.command = "close" /\ helper'.at = "settle"
           /\ (helper'.unknown <=> access.open = Unknown)
    <3>1. CASE ~access.owned
      <4>1. Ends("nothing owned")
        BY <3>1
      <4>. QED
        BY <3>1, <4>1, EndsMoves
    <3>2. CASE access.owned
      <4>1. helper' = [command |-> "close", at |-> "settle", unknown |-> access.open = Unknown, last |-> 0]
        BY <3>2
      <4>. QED
        BY <3>2, <4>1 DEF Stages
    <3>. QED
      BY <3>1, <3>2
  <2>2. access' = access
    BY DEF AccessTypes, Journals, HelperInv, Commands, Helpers, Unknown
  <2>3. requests' = requests /\ rule' = rule /\ Opens' = Opens
    BY DEF Opens
  <2>4. AccessTypes'
    BY <2>1, <2>2, <2>3 DEF AccessTypes
  <2>5. HelperInv'
    BY <2>1, <2>2 DEF AccessTypes, HelperInv, Helpers, Commands
  <2>6. OpenInv'
    BY <2>1, <2>2, <2>3 DEF OpenInv, HelperInv
  <2>7. RecordInv'
    BY <2>1, <2>2, <2>3 DEF RecordInv, HelperInv, OpenInv, Opens, Unknown
  <2>8. CloseInv'
    BY <2>1, <2>2, <2>3 DEF CloseInv, HelperInv, RecordInv, Unknown
  <2>9. OwnedUntilGone'
    BY <2>2, <2>3, NoRequestMoves
  <2>. QED
    BY <2>4, <2>5, <2>6, <2>7, <2>8, <2>9
<1>2. CASE SettleOpening
  <2>. USE <1>2 DEF SettleOpening, Known, Status, OpeningSettled
  <2>1. helper' \in Helpers /\ (helper'.at = "closing" \/ helper'.at = "check") /\ helper'.command = helper.command
           /\ helper'.unknown = helper.unknown /\ helper'.last = helper.last
    BY ThenMoves DEF AccessTypes, Stages
  <2>2. access' = access
    BY DEF AccessTypes, Journals, HelperInv, Commands, Helpers, Unknown
  <2>3. requests' = requests /\ rule' = rule /\ Opens' = Opens
    BY DEF Opens
  <2>4. AccessTypes'
    BY <2>1, <2>2, <2>3 DEF AccessTypes
  <2>5. HelperInv'
    BY <2>1, <2>2 DEF AccessTypes, HelperInv, Helpers, Commands
  <2>6. OpenInv'
    BY <2>1, <2>2, <2>3 DEF OpenInv, HelperInv
  <2>7. RecordInv'
    BY <2>1, <2>2, <2>3 DEF RecordInv, HelperInv, OpenInv, Opens, Unknown
  <2>8. CloseInv'
    BY <2>1, <2>2, <2>3 DEF CloseInv, HelperInv, RecordInv, Unknown
  <2>9. OwnedUntilGone'
    BY <2>2, <2>3, NoRequestMoves
  <2>. QED
    BY <2>4, <2>5, <2>6, <2>7, <2>8, <2>9
<1>3. CASE SettleClosing
  <2>. USE <1>3 DEF SettleClosing, Status
  <2>1. helper' \in Helpers /\ (helper'.at = "confirm" \/ helper'.at = "check") /\ helper'.command = helper.command
           /\ helper'.unknown = helper.unknown /\ helper'.last = helper.last
    BY ThenMoves DEF AccessTypes, Stages
  <2>2. access' = access
    BY DEF AccessTypes, Journals, HelperInv, Commands, Helpers, Unknown
  <2>3. requests' = requests /\ rule' = rule /\ Opens' = Opens
    BY DEF Opens
  <2>4. AccessTypes'
    BY <2>1, <2>2, <2>3 DEF AccessTypes
  <2>5. HelperInv'
    BY <2>1, <2>2 DEF AccessTypes, HelperInv, Helpers, Commands
  <2>6. OpenInv'
    BY <2>1, <2>2, <2>3 DEF OpenInv, HelperInv
  <2>7. RecordInv'
    BY <2>1, <2>2, <2>3 DEF RecordInv, HelperInv, OpenInv, Opens, Unknown
  <2>8. CloseInv'
    BY <2>1, <2>2, <2>3 DEF CloseInv, HelperInv, RecordInv, Unknown
  <2>9. OwnedUntilGone'
    BY <2>2, <2>3, NoRequestMoves
  <2>. QED
    BY <2>4, <2>5, <2>6, <2>7, <2>8, <2>9
<1>4. CASE Release
  <2>. USE <1>4 DEF Release
  <2>1. helper' \in Helpers /\ helper'.at = "idle" /\ helper'.command = "none"
    BY EndsMoves DEF AccessTypes, Stages
  <2>2. access' \in Journals /\ access'.written = access.written /\ access'.open = access.open /\ (access'.owned = access.owned \/ ~helper.unknown)
    BY DEF AccessTypes, Journals, HelperInv, Commands, Helpers, Unknown
  <2>3. requests' = requests /\ rule' = rule /\ Opens' = Opens
    BY DEF Opens
  <2>4. AccessTypes'
    BY <2>1, <2>2, <2>3 DEF AccessTypes
  <2>5. HelperInv'
    BY <2>1, <2>2 DEF AccessTypes, HelperInv, Helpers, Commands
  <2>6. OpenInv'
    BY <2>1, <2>2, <2>3 DEF OpenInv, HelperInv
  <2>7. RecordInv'
    BY <2>1, <2>2, <2>3 DEF RecordInv, HelperInv, OpenInv, Opens, Unknown
  <2>8. CloseInv'
    BY <2>1, <2>2, <2>3 DEF CloseInv, HelperInv, RecordInv, Unknown
  <2>9. OwnedUntilGone'
    BY <2>1, <2>2, <2>3 DEF OwnedUntilGone, HelperInv, CloseInv, OpenInv, RecordInv, Opens, Terminal, AccessTypes, Helpers, Commands
  <2>. QED
    BY <2>4, <2>5, <2>6, <2>7, <2>8, <2>9
<1>5. CASE GiveUp
  <2>. USE <1>5 DEF GiveUp
  <2>1. helper' \in Helpers /\ helper'.at = "idle" /\ helper'.command = "none"
    BY EndsMoves DEF AccessTypes, Stages
  <2>2. access' = access
    BY DEF AccessTypes, Journals, HelperInv, Commands, Helpers, Unknown
  <2>3. requests' = requests /\ rule' = rule /\ Opens' = Opens
    BY DEF Opens
  <2>4. AccessTypes'
    BY <2>1, <2>2, <2>3 DEF AccessTypes
  <2>5. HelperInv'
    BY <2>1, <2>2 DEF AccessTypes, HelperInv, Helpers, Commands
  <2>6. OpenInv'
    BY <2>1, <2>2, <2>3 DEF OpenInv, HelperInv
  <2>7. RecordInv'
    BY <2>1, <2>2, <2>3 DEF RecordInv, HelperInv, OpenInv, Opens, Unknown
  <2>8. CloseInv'
    BY <2>1, <2>2, <2>3 DEF CloseInv, HelperInv, RecordInv, Unknown
  <2>9. OwnedUntilGone'
    BY <2>2, <2>3, NoRequestMoves
  <2>. QED
    BY <2>4, <2>5, <2>6, <2>7, <2>8, <2>9
<1>. QED
  BY <1>1, <1>2, <1>3, <1>4, <1>5

\* A request is made by the process that the invariant allows it; a second open
\* request never is.
LEMMA RequestStep == ASSUME AccessInv, Request PROVE AccessInv'
<1>. USE DEF AccessInv, Request, On
<1>. DEFINE r == [kind |-> helper.command, status |-> "Sent"]
<1>1. helper.command \in {"open", "close"}
  BY DEF AccessTypes, HelperInv, Helpers, Commands
<1>2. /\ requests' \in Seq([kind : {"open", "close"}, status : Statuses]) /\ Len(requests') = Len(requests) + 1
      /\ Len(requests) \in Nat /\ requests'[Len(requests) + 1] = r
      /\ \A i \in 1..Len(requests) : requests'[i] = requests[i]
  BY <1>1 DEF AccessTypes, Statuses
<1>3. /\ helper' \in Helpers /\ helper'.at = "requested" /\ helper'.last = Len(requests) + 1
      /\ helper'.command = helper.command /\ helper'.unknown = helper.unknown
  <2>1. helper' = [helper EXCEPT !.at = "requested", !.last = Len(requests) + 1]
    BY <1>2
  <2>2. helper \in Helpers
    BY DEF AccessTypes
  <2>3. helper' \in Helpers
    <3>1. Len(requests) + 1 \in Nat
      BY <1>2
    <3>. HIDE DEF Request
    <3>. QED
      BY <3>1, <2>1, <2>2, RequestMoves
  <2>4. helper'.at = "requested" /\ helper'.last = Len(requests) + 1
    BY <2>1, <2>2 DEF Helpers
  <2>5. helper'.command = helper.command /\ helper'.unknown = helper.unknown
    BY <2>1, <2>2 DEF Helpers
  <2>. QED
    BY <2>3, <2>4, <2>5
<1>4. Opens' = IF helper.command = "open" THEN Opens \cup {Len(requests) + 1} ELSE Opens
  BY <1>2 DEF Opens
<1>5. helper.command = "open" => Opens = {}
  BY DEF OpenInv
<1>6. AccessTypes'
  BY <1>2, <1>3 DEF AccessTypes
<1>7. HelperInv'
  BY <1>1, <1>3 DEF HelperInv
<1>8. OpenInv'
  BY <1>3, <1>4, <1>5 DEF OpenInv, HelperInv
<1>9. RecordInv'
  <2>1. helper'.last \in 1..Len(requests') /\ requests'[helper'.last].kind = helper'.command
    BY <1>2, <1>3
  <2>. QED
    BY <2>1, <1>4 DEF RecordInv
<1>10. CloseInv'
  BY <1>2, <1>3 DEF CloseInv, RecordInv, Opens
<1>11. OwnedUntilGone'
  <2>1. helper.command = "open" => access.owned
    BY DEF HelperInv
  <2>2. ASSUME NEW i \in 1..Len(requests'), requests'[i].kind = "open", helper.command # "open" PROVE i \in 1..Len(requests)
    BY <1>1, <1>2, <2>2
  <2>. QED
    BY <1>2, <2>1, <2>2 DEF OwnedUntilGone
<1>. QED
  BY <1>6, <1>7, <1>8, <1>9, <1>10, <1>11

\* AWS may lose, begin or settle a request at any time: the rule comes back only
\* by an open request still under way, which the journal owns.
LEMMA SettleSteps ==
  ASSUME AccessInv, NEW i \in 1..Len(requests), Arrive(i) \/ Finish(i)
  PROVE  AccessInv'
<1>. USE DEF AccessInv
<1>1. /\ access' = access /\ helper' = helper
      /\ requests[i].status \in {"Sent", "Started"}
      /\ requests' \in Seq([kind : {"open", "close"}, status : Statuses]) /\ Len(requests') = Len(requests)
      /\ requests'[i].kind = requests[i].kind
      /\ \A j \in 1..Len(requests) : j # i => requests'[j] = requests[j]
  <2>1. PICK s \in Statuses : requests' = [requests EXCEPT ![i].status = s]
    BY DEF Arrive, Finish, Statuses, Terminal
  <2>2. requests' \in Seq([kind : {"open", "close"}, status : Statuses]) /\ Len(requests') = Len(requests)
    <3>. DEFINE R == [kind : {"open", "close"}, status : Statuses]
    <3>1. requests \in Seq(R)
      BY DEF AccessTypes
    <3>2. requests[i] \in R
      BY <3>1, ElementOfSeq
    <3>3. [requests[i] EXCEPT !.status = s] \in R
      BY <3>2
    <3>4. requests' = [requests EXCEPT ![i] = [requests[i] EXCEPT !.status = s]]
      BY <2>1
    <3>. HIDE DEF R
    <3>. QED
      BY <3>1, <3>3, <3>4, ExceptSeq DEF R
  <2>3. requests'[i].kind = requests[i].kind /\ \A j \in 1..Len(requests) : j # i => requests'[j] = requests[j]
    BY <2>1 DEF AccessTypes
  <2>. QED
    BY <2>2, <2>3 DEF Arrive, Finish
<1>2. rule' \in {rule, requests[i].kind = "open"} /\ rule' \in BOOLEAN
  BY DEF Arrive, Finish, AccessTypes
<1>3. Opens' = Opens
  BY <1>1 DEF Opens
<1>4. AccessTypes'
  BY <1>1, <1>2 DEF AccessTypes
<1>5. HelperInv' /\ OpenInv'
  BY <1>1, <1>3 DEF HelperInv, OpenInv
<1>6. RecordInv'
  BY <1>1, <1>3 DEF RecordInv
<1>7. CloseInv'
  <2>1. CASE i \in Opens
    BY <1>1, <2>1 DEF CloseInv, RecordInv, OpenInv, Terminal, HelperInv
  <2>2. CASE i \notin Opens
    <3>1. rule' => rule
      BY <1>2, <2>2 DEF Opens
    <3>. QED
      BY <1>1, <2>2, <3>1 DEF CloseInv, RecordInv, Opens
  <2>. QED
    BY <2>1, <2>2
<1>8. OwnedUntilGone'
  <2>1. CASE i \in Opens
    BY <1>1, <2>1 DEF OwnedUntilGone, Opens
  <2>2. CASE i \notin Opens
    BY <1>1, <1>2, <2>2 DEF OwnedUntilGone, Opens
  <2>. QED
    BY <2>1, <2>2
<1>. QED
  BY <1>4, <1>5, <1>6, <1>7, <1>8

------------------------------------------------------------------------------
\* Nobody is left with access nobody knows of, for any number of requests, stopped
\* processes, lost requests and failed operations. (ci-host-access.py.)
THEOREM AccessOwnedUntilGone == AccessSpec => []OwnedUntilGone
<1>1. AccessInv /\ [AccessNext]_accessVars => AccessInv'
  <2>. SUFFICES ASSUME AccessInv, [AccessNext]_accessVars PROVE AccessInv'
    OBVIOUS
  <2>1. CASE Replace
    <3>1. Opens' = Opens /\ UNCHANGED <<requests, access, helper>> /\ ~rule' /\ rule' \in BOOLEAN
      BY <2>1 DEF Replace, Opens
    <3>2. AccessTypes' /\ HelperInv' /\ OpenInv' /\ RecordInv'
      BY <3>1 DEF AccessInv, AccessTypes, HelperInv, OpenInv, RecordInv
    <3>3. CloseInv' /\ OwnedUntilGone'
      BY <3>1 DEF AccessInv, CloseInv, OwnedUntilGone
    <3>. QED
      BY <3>2, <3>3 DEF AccessInv
  <2>2. CASE UNCHANGED accessVars
    BY <2>2 DEF accessVars, AccessInv, AccessTypes, HelperInv, OpenInv, RecordInv, CloseInv, OwnedUntilGone, Opens
  <2>. QED
    BY <2>1, <2>2, OpenSteps, ChangeSteps, CloseSteps, RequestStep, SettleSteps DEF AccessNext
<1>2. AccessInv => OwnedUntilGone
  BY DEF AccessInv
<1>. QED
  BY <1>1, <1>2, AccessInvHolds, PTL DEF AccessSpec
=============================================================================
