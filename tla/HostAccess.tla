----------------------------- MODULE HostAccess ------------------------------
(* infra/scripts/ci-host-access.py: a CI run opens one firewall rule for its  *)
(* runner and takes it away again. AWS carries out each request some time     *)
(* after it was made, if it arrives, perhaps partly, perhaps after the run    *)
(* has given up or its process is gone; the name of the instance may come to  *)
(* stand for another one. The journal is all that is left between processes.  *)
(*                                                                            *)
(* One run with one rule; the rules of operators and the SSH identity only    *)
(* matter as a borrowed access and as a step that can fail.                   *)
EXTENDS Naturals, Sequences

CONSTANTS AccessFaults,   \* bound: stopped processes, lost requests, failed operations
          MaxRequests     \* bound: requests to change the rule

ASSUME AccessAssumption == {AccessFaults, MaxRequests} \subseteq Nat

VARIABLES
  rule,       \* the firewall of the instance that bears the name has the rule
  replaced,   \* another instance bears the name
  borrowed,   \* an operator's rule lets the runner in already
  requests,   \* the requests made, [kind, status]; an operation is its position
  access,     \* state.json: [written, owned, open, close], operations or Unknown
  helper,     \* the process: [command, at, unknown, last]
  reported,   \* what the last command reported
  hitches     \* what is left of the bound

accessVars == <<rule, replaced, borrowed, requests, access, helper, reported, hitches>>

Unknown == 0
Unstarted == [command |-> "none", at |-> "idle", unknown |-> FALSE, last |-> 0]
Terminal == {"Completed", "Failed"}

AccessInit ==
  /\ rule = FALSE /\ replaced = FALSE /\ borrowed \in BOOLEAN /\ requests = <<>>
  /\ access = [written |-> FALSE, owned |-> FALSE, open |-> Unknown, close |-> Unknown]
  /\ helper = Unstarted /\ reported = "none" /\ hitches = AccessFaults

Hitch == hitches > 0 /\ hitches' = hitches - 1
On(at) == helper.at = at
Then(at) == helper' = [helper EXCEPT !.at = at]
Ends(result) == helper' = Unstarted /\ reported' = result
Known(kind) == access[kind] # Unknown
Status(kind) == requests[access[kind]].status

------------------------------------------------------------------------------
\* open: the instance and the runner's address are looked up, and whether it is
\* let in already; the journal says what is owned before it is.
OpenAccess ==
  /\ helper = Unstarted /\ ~access.written
  /\ helper' = [Unstarted EXCEPT !.command = "open", !.at = "inspect"]
  /\ UNCHANGED <<rule, replaced, borrowed, requests, access, reported, hitches>>
Inspect ==
  /\ On("inspect") /\ ~replaced
  /\ access' = [access EXCEPT !.written = TRUE] /\ Then("identity")
  /\ UNCHANGED <<rule, replaced, borrowed, requests, reported, hitches>>
PrepareIdentity ==
  /\ On("identity")
  /\ IF borrowed THEN Ends("ready") ELSE Then("own") /\ UNCHANGED reported
  /\ UNCHANGED <<rule, replaced, borrowed, requests, access, hitches>>
Own ==
  /\ On("own") /\ access' = [access EXCEPT !.owned = TRUE] /\ Then("check")
  /\ UNCHANGED <<rule, replaced, borrowed, requests, reported, hitches>>

\* change_rule: the journal knows of a request before AWS does.
CheckInstance ==
  /\ On("check") /\ ~replaced
  /\ access' = [access EXCEPT ![helper.command] = Unknown] /\ Then("request")
  /\ UNCHANGED <<rule, replaced, borrowed, requests, reported, hitches>>
Request ==
  /\ On("request") /\ Len(requests) < MaxRequests
  /\ requests' = Append(requests, [kind |-> helper.command, status |-> "Sent"])
  /\ helper' = [helper EXCEPT !.at = "requested", !.last = Len(requests')]
  /\ UNCHANGED <<rule, replaced, borrowed, access, reported, hitches>>
RecordOperation ==
  /\ On("requested") /\ requests[helper.last].status \in {"Started"} \cup Terminal
  /\ access' = [access EXCEPT ![helper.command] = helper.last] /\ Then("wait")
  /\ UNCHANGED <<rule, replaced, borrowed, requests, reported, hitches>>
WaitOperation ==
  /\ On("wait") /\ Status(helper.command) \in Terminal
  /\ IF Status(helper.command) = "Completed" THEN Then("confirm") /\ UNCHANGED reported ELSE Ends("failed")
  /\ UNCHANGED <<rule, replaced, borrowed, requests, access, hitches>>
ConfirmPorts ==
  /\ On("confirm") /\ ~replaced /\ rule = (helper.command = "open")
  /\ IF helper.command = "open" THEN Ends("ready") ELSE Then("release") /\ UNCHANGED reported
  /\ UNCHANGED <<rule, replaced, borrowed, requests, access, hitches>>

\* close, from the journal alone: a known open request must have settled, for one
\* carried out later would undo the close; a close that is known to be done is not
\* repeated.
CloseAccess ==
  /\ helper = Unstarted /\ reported # "none"
  /\ IF ~access.owned THEN Ends("nothing owned")
     ELSE /\ ~replaced /\ UNCHANGED reported
          /\ helper' = [command |-> "close", at |-> "settle", unknown |-> ~Known("open"), last |-> 0]
  /\ UNCHANGED <<rule, replaced, borrowed, requests, access, hitches>>
OpeningSettledOrNot == TRUE
OpeningSettled == ~helper.unknown => Status("open") \in Terminal
SettleOpening ==
  /\ On("settle") /\ OpeningSettled
  /\ Then(IF Known("close") THEN "closing" ELSE "check")
  /\ UNCHANGED <<rule, replaced, borrowed, requests, access, reported, hitches>>
SettleClosing ==
  /\ On("closing") /\ Status("close") \in Terminal
  /\ Then(IF Status("close") = "Completed" THEN "confirm" ELSE "check")
  /\ UNCHANGED <<rule, replaced, borrowed, requests, access, reported, hitches>>
\* What an open request of unknown fate may still do is left to the operator.
Release ==
  /\ On("release")
  /\ IF helper.unknown THEN Ends("unknown") /\ UNCHANGED access
     ELSE access' = [access EXCEPT !.owned = FALSE] /\ Ends("closed")
  /\ UNCHANGED <<rule, replaced, borrowed, requests, hitches>>

\* Another instance under the name, a deadline, an error or a kill, at any step.
GiveUp ==
  /\ helper # Unstarted /\ Ends("failed")
  /\ IF replaced THEN UNCHANGED hitches ELSE Hitch
  /\ UNCHANGED <<rule, replaced, borrowed, requests, access>>

------------------------------------------------------------------------------
\* AWS: requests arrive or are lost, and change the rule when they settle; one
\* that fails may have done so as well.
Arrive(i) ==
  /\ requests[i].status = "Sent"
  /\ \/ requests' = [requests EXCEPT ![i].status = "Started"] /\ UNCHANGED hitches
     \/ requests' = [requests EXCEPT ![i].status = "Lost"] /\ Hitch
  /\ UNCHANGED <<rule, replaced, borrowed, access, helper, reported>>
Finish(i) ==
  /\ requests[i].status = "Started"
  /\ \/ requests' = [requests EXCEPT ![i].status = "Completed"] /\ rule' = (requests[i].kind = "open") /\ UNCHANGED hitches
     \/ requests' = [requests EXCEPT ![i].status = "Failed"] /\ rule' \in {rule, requests[i].kind = "open"} /\ Hitch
  /\ UNCHANGED <<replaced, borrowed, access, helper, reported>>
Replace ==
  /\ ~replaced /\ replaced' = TRUE /\ rule' = FALSE
  /\ UNCHANGED <<borrowed, requests, access, helper, reported, hitches>>

AccessNext ==
  \/ OpenAccess \/ Inspect \/ PrepareIdentity \/ Own
  \/ CheckInstance \/ Request \/ RecordOperation \/ WaitOperation \/ ConfirmPorts
  \/ CloseAccess \/ SettleOpening \/ SettleClosing \/ Release \/ GiveUp
  \/ \E i \in 1..Len(requests) : Arrive(i) \/ Finish(i)
  \/ Replace

AccessSpec == AccessInit /\ [][AccessNext]_accessVars

------------------------------------------------------------------------------
AccessTypeOK ==
  /\ {rule, replaced, borrowed, access.written, access.owned} \subseteq BOOLEAN
  /\ {access.open, access.close} \subseteq 0..Len(requests)

\* Nobody is left with access nobody knows of: while the rule is there or an open
\* request may yet make it, the journal owns it, whatever came late or failed.
\* ("A delayed open must settle before a close can prove final ownership release.")
OwnedUntilGone ==
  (rule \/ \E i \in 1..Len(requests) : requests[i].kind = "open" /\ requests[i].status \in {"Sent", "Started"})
    => access.owned
=============================================================================
