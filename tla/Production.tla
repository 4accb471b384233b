---------------------------- MODULE Production ----------------------------
(* The production host: activation, websites and restores take turns under    *)
(* the deploy lock, beside backups, the compose wrapper, crashes and reboots. *)
EXTENDS Website, Restore

productionVars == <<stateVars, hostVars, backupVars, boundVars, op, attempts, restoreVars>>

\* A new host with an initialised configuration, or an empty replacement host
\* with a snapshot to restore.
ProductionInit ==
  /\ active = None /\ current = None /\ next = FALSE /\ site = None /\ wrapper = FALSE
  /\ ctr = [s \in Services |-> [image |-> None, up |-> FALSE, paused |-> FALSE]]
  /\ timers = [enabled |-> FALSE, active |-> FALSE]
  /\ data = None /\ ran = {} /\ identity = None
  /\ backed = {} /\ torn = {} /\ job = NoJob /\ own = "none"
  /\ call = None /\ op = Idle /\ lost = {} /\ attempts = {}
  /\ restore = "none" /\ seeded = 0 /\ fuel = MaxFaults
  /\ \/ env = "development" /\ key = FALSE /\ whole = FALSE
     \/ env = "absent" /\ key = TRUE /\ whole \in BOOLEAN

\* The operator answers an interrupted website transition.
RollBackSite == ~Settled /\ Transition(site.previous, TRUE) /\ UNCHANGED restoreVars

ToolStep ==
  \/ ActivationStep /\ RecordFailed /\ UNCHANGED <<key, whole, seeded>>
  \/ WebsiteStep /\ UNCHANGED restoreVars
  \/ RestoreStep

Starts ==
  \/ \E b \in Bundles : (Activate(b) /\ UNCHANGED restoreVars) \/ Prepare(b)
  \/ \E w \in Websites \cup {"base"}, r \in BOOLEAN : Transition(w, r) /\ UNCHANGED restoreVars
  \/ Complete

ScriptStep == BackupStep /\ UNCHANGED <<attempts, restoreVars>>

ProductionNext == \/ ToolStep \/ Starts
                  \/ UnlockedNext /\ UNCHANGED <<attempts, restoreVars>>

ProductionSpec == ProductionInit /\ [][ProductionNext]_productionVars

\* A tool or script that has started goes on; the operator undoes an interrupted
\* website transition. Nobody is bound to start anything else.
ProductionFairness == WF_productionVars(ToolStep) /\ WF_productionVars(ScriptStep) /\ WF_productionVars(RollBackSite)

------------------------------------------------------------------------------
ProductionTypeOK ==
  /\ active \in [status : {"activating", "ready", "failed"}, bundle : Bundles, restore : BOOLEAN] \cup {None}
  /\ env \in Bundles \cup {"development", "absent"}
  /\ current \in Bundles \cup {None}
  /\ next \in BOOLEAN /\ wrapper \in BOOLEAN
  /\ site \in [id : Websites, status : {"activating", "ready", "failed"},
               previous : Websites \cup {"base"}] \cup {None}
  /\ ctr \in [Services -> [image : Bundles \cup Websites \cup {None}, up : BOOLEAN, paused : BOOLEAN]]
  /\ timers \in [enabled : BOOLEAN, active : BOOLEAN]
  /\ data \in Bundles \cup {None} /\ ran \subseteq Bundles
  /\ identity \in {None, "new", "original"}
  /\ backed \subseteq Bundles /\ torn \subseteq Writers
  /\ own \in {"none", "running", "ok", "failed"}
  /\ attempts \subseteq Bundles
  /\ restore \in {"none", "restoring", "private", "completing", "complete", "failed"}
  /\ key \in BOOLEAN /\ whole \in BOOLEAN /\ seeded \in 0..Len(Volumes)

\* A ready marker describes the host: environment, pointer and marker name one
\* bundle; unless the wrapper was overtaken, its containers were the last to open
\* the data, and that data has been backed up since. (activate writes "ready" last;
\* a kill, a failing write or an overlapping backup must not make it true too early.)
ReadyIsWhole ==
  (active # None /\ active.status = "ready") =>
    /\ Coherent
    /\ "wrapper" \notin lost => data = active.bundle /\ active.bundle \in backed

\* When every fencing step of a failed deployment has worked, no schedule is left
\* to run it again: the timers stay off over reboots and no scheduled backup is
\* under way. (stop_operations.)
FailedIsFenced ==
  (op = Idle /\ lost \subseteq {"wrapper", "resume"} \cup Writers /\ active # None /\ active.status = "failed") =>
    ~timers.enabled /\ ~timers.active /\ job.owner # "schedule"

\* Synapse and the control service never run while a published archive is copied,
\* whatever an activation, a reboot or the wrapper does to them meanwhile.
\* (backup.sh pauses them and fails if they are gone at the end.)
ServerCopyConsistent == "core" \notin torn

\* A backup that fails, times out or is stopped with its service resumes its
\* writers, whatever was done to their containers meanwhile. Only where Docker
\* refused that, or the script was killed outright, may one stay paused; or the
\* one that was paused when the script ended and not yet in its list. (The EXIT
\* trap of backup.sh.)
WritersResume ==
  (job.at = "idle" /\ "resume" \notin lost) => \A s \in Services \ lost : ~ctr[s].paused

\* Data opened by a newer bundle is never opened by an older one again, by a
\* failed activation, a website rollback or a reboot; nor by the wrapper, unless an
\* activation overtook it between its check and its command. Excused is a host whose
\* restore was completed, or failed to be: it has no evidence of the bundle it came
\* with, so that what infra/production/README.md says of "any previously attempted
\* bundle ID" does not keep that one from being activated again over newer data.
\* ("never automatically starts older database images".)
NeverOlder ==
  [][data' # data => \/ data' \notin ran \/ "wrapper" \in lost'
                     \/ restore \in {"completing", "complete", "failed"}]_data

\* A restored host never makes an identity of its own: the core does not run
\* before every volume holds the snapshot. (restore.prepare.)
IdentityKept == restore # "none" => identity # "new"

\* With healthy backends, and no overtaken wrapper call that put the gateway of
\* another release in place, an operator who asks for the journaled rollback gets a
\* settled website again. (website.transition, interrupted or not.)
SiteSettles ==
  (<>[](active # None /\ BackendsHealthy /\ "wrapper" \notin lost)) => []<>Settled
=============================================================================
