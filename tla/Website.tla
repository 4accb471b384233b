------------------------------ MODULE Website ------------------------------
(* website.py over website_state.py: one website replaces another in the      *)
(* gateway, and nothing else is touched.  The marker journals the website to  *)
(* go back to before the gateway changes, so that an interrupted transition   *)
(* can be undone by the next call.                                            *)
EXTENDS Activation

CONSTANT Assets  \* the browser assets of every website

ASSUME AssetsAssumption == Assets \in [Websites -> SUBSET Websites]

\* backend_snapshot: healthy, unpaused, on the base's images.
BackendsHealthy == \A s \in Writers : Healthy(s, active.bundle)

JournaledRollbackUp(w) == w = site.previous /\ Running(SiteOf(site))

\* An interrupted transition admits only the rollback to its predecessor, and
\* only from a gateway image the journal explains.
JournaledRollback(w) == /\ w = site.previous
                        /\ ctr["gateway"].image \in {Image(site.id), Image(w), active.bundle}

\* The transitions a website call may ask for when nothing is interrupted.
Permitted(w, rollback) ==
  /\ Running(SiteOf(site))
  /\ IF rollback THEN w = "base" => site # None
     ELSE /\ w # "base" /\ w # SiteOf(site)
          /\ site # None => Assets[site.id] \subseteq Assets[w]

Transition(w, rollback) ==
  /\ op = Idle /\ Coherent /\ active.status = "ready" /\ BackendsHealthy
  /\ w # "base" => Base[w] = active.bundle
  /\ IF Settled THEN Permitted(w, rollback) ELSE rollback /\ JournaledRollback(w)
  /\ op' = [Idle EXCEPT !.kind = "website", !.at = "w_mark", !.target = w, !.rollback = rollback,
                        !.interrupted = ~Settled, !.previous = site]
  /\ UNCHANGED <<stateVars, hostVars, backupVars, boundVars, attempts>>

SiteRecord(w, status, previous) == [id |-> w, status |-> status, previous |-> previous]

\* The source's marker stays during a rollback; either way its predecessor says
\* where a killed transition may go.
Pending == IF op.rollback THEN SiteRecord(op.previous.id, "activating", op.target)
           ELSE SiteRecord(op.target, "activating", SiteOf(op.previous))

WriteSite(marker, at) == /\ site' = marker
                         /\ op' = IF at = "idle" THEN Idle ELSE [op EXCEPT !.at = at]
                         /\ UNCHANGED <<active, env, current, next, wrapper, hostVars, backupVars, attempts>>
GatewayUp(w, at) == /\ Up("gateway", Image(w)) /\ Goto(at)
                    /\ UNCHANGED <<stateVars, timers, data, ran, identity, backed, torn, own, boundVars, attempts>>

\* A rollback without a website to go back from fails here.
Journals == op.rollback => op.previous # None
JournalTransition == At("w_mark") /\ Journals /\ WriteSite(Pending, "w_up") /\ UNCHANGED boundVars
SwitchGateway == At("w_up") /\ GatewayUp(op.target, "w_check")
Verify(w, at, ok) == /\ At(at) /\ Running(w) /\ Goto(ok)
                     /\ UNCHANGED <<stateVars, hostVars, backupVars, boundVars, attempts>>
Settle ==
  /\ At("w_settle")
  /\ WriteSite(IF op.target = "base" THEN None ELSE SiteRecord(op.target, "ready", SiteOf(op.previous)), "idle")
  /\ UNCHANGED boundVars

------------------------------------------------------------------------------
\* Failure: back to the previous website, except in a recovery, which never
\* starts a website known to have failed.
SiteRefused(at, w) == (At(at) /\ ~Running(w)) \/ (At("w_mark") /\ ~Journals)
SiteFails ==
  /\ op.at \in {"w_mark", "w_up", "w_check", "w_settle"}
  /\ IF SiteRefused("w_check", op.target) THEN UNCHANGED fuel ELSE Spend
  /\ IF op.interrupted THEN WriteSite([op.previous EXCEPT !.status = "failed"], "idle")
     ELSE Goto("w_revert") /\ UNCHANGED <<stateVars, hostVars, backupVars, attempts>>
  /\ UNCHANGED <<call, lost>>

JournalRevert ==
  /\ At("w_revert")
  /\ WriteSite(SiteRecord(IF op.target = "base" THEN op.previous.id ELSE op.target, "failed", SiteOf(op.previous)), "w_reup")
  /\ UNCHANGED boundVars
RevertGateway == At("w_reup") /\ GatewayUp(SiteOf(op.previous), "w_recheck")
Reverted == At("w_reverted") /\ WriteSite(op.previous, "idle") /\ UNCHANGED boundVars

\* The rollback fails too: the journal stays as it is.
RevertFails ==
  /\ op.at \in {"w_revert", "w_reup", "w_recheck", "w_reverted"}
  /\ IF SiteRefused("w_recheck", SiteOf(op.previous)) THEN UNCHANGED fuel ELSE Spend
  /\ op' = Idle
  /\ UNCHANGED <<stateVars, hostVars, backupVars, call, lost, attempts>>

WebsiteStep ==
  \/ JournalTransition \/ SwitchGateway \/ Settle
  \/ Verify(op.target, "w_check", "w_settle")
  \/ SiteFails \/ JournalRevert \/ RevertGateway
  \/ Verify(SiteOf(op.previous), "w_recheck", "w_reverted")
  \/ Reverted \/ RevertFails
=============================================================================
