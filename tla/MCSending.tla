----------------------------- MODULE MCSending -----------------------------
(* The runtime's outbox, and the Echo service and the pilot, which send       *)
(* through runtimes of their own, share nothing that is modelled: a behaviour *)
(* is of one part, and the others stay in their initial states.               *)
EXTENDS MCOutbox, Echo, Pilot

VARIABLE part

SendingInit ==
  /\ Init /\ EchoInit /\ PilotInit /\ part \in {"outbox", "echo", "pilot"}
  /\ part = "outbox" \/ file = CHOOSE v \in Versions : TRUE

SendingNext ==
  \/ part = "outbox" /\ Next /\ UNCHANGED <<part, echoVars, pilotVars>>
  \/ part = "echo" /\ EchoNext /\ UNCHANGED <<part, vars, pilotVars>>
  \/ part = "pilot" /\ PilotNext /\ UNCHANGED <<part, vars, echoVars>>

sendingVars == <<part, vars, echoVars, pilotVars>>
\* Outbox's Fairness; and the loop of Echo's run goes on, time passes, and member
\* counts arrive; and the pilot's operators set up, resume and poll, and what they start
\* goes on until it is done or stops. Each holds for the behaviours of its own part.
SendingFairSpec ==
  /\ SendingInit /\ [][SendingNext]_sendingVars
  /\ WF_vars(part = "outbox" /\ Runtime)
  /\ WF_vars(part = "outbox" /\ Hear)
  /\ WF_vars(part = "outbox" /\ Accept(cur))
  /\ SF_vars(part = "outbox" /\ CallFlush)
  /\ WF_echoVars(part = "echo" /\ PassStep)
  /\ WF_echoVars(part = "echo" /\ NextWindow)
  /\ WF_echoVars(part = "echo" /\ \E r \in DMs : CountArrives(r))
  /\ \A r \in Roles : /\ WF_pilotVars(part = "pilot" /\ (StartPilot(r) \/ Connect(r)))
                      /\ WF_pilotVars(part = "pilot" /\ Resume(r))
                      /\ WF_pilotVars(part = "pilot" /\ Poll(r))
                      /\ WF_pilotVars(part = "pilot" /\ SendStep(r))
                      /\ WF_pilotVars(part = "pilot" /\ PageStep(r))
                      /\ WF_pilotVars(part = "pilot" /\ RuntimeStep(r))

\* The type invariants of the parts.
SendingTypeOK == TypeOK /\ EchoTypeOK /\ PilotTypeOK

CONSTANTS e3, q1, q2
MCRoomOf == [e \in Posts |-> IF e = e3 THEN q2 ELSE q1]
=============================================================================
