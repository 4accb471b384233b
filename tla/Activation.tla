---------------------------- MODULE Activation ----------------------------
(* activate.py: one reviewed bundle replaces another, or starts a new host.   *)
(* The marker is written before anything it describes changes and becomes     *)
(* "ready" last.  A failure after that point never goes back: it records      *)
(* "failed" and stops everything.                                             *)
EXTENDS Backup

VARIABLE attempts   \* bundles with activation evidence

OpAt(kind, at) == op.kind = kind /\ op.at = at
At(at) == op.at = at
Goto(at) == op' = [op EXCEPT !.at = at]

------------------------------------------------------------------------------
UntriedLately(b) == b # env
Untried(b) == b \notin attempts

\* activate: a fresh host with an initialised configuration, or the upgrade of a
\* ready deployment; never a bundle tried before, never over a website.
Activate(b) ==
  /\ op = Idle /\ site = None /\ ~next /\ Untried(b)
  /\ \/ Fresh /\ env = "development"
     \/ Coherent /\ active.status = "ready" /\ active.bundle # b
  /\ attempts' = attempts \cup {b}
  /\ op' = [Idle EXCEPT !.kind = "activate", !.at = IF active = None THEN "mark" ELSE "pause", !.bundle = b]
  /\ UNCHANGED <<stateVars, hostVars, backupVars, boundVars>>

\* The schedules that run are stopped, to be started again if nothing changes.
PauseSchedules ==
  /\ At("pause")
  /\ timers' = [timers EXCEPT !.active = FALSE]
  /\ op' = [op EXCEPT !.at = "backup", !.resume = timers.active]
  /\ UNCHANGED <<stateVars, ctr, data, ran, identity, backupVars, boundVars, attempts>>

\* run_backup under the lock: before the switch, and again before "ready".
OwnBackup(at, waiting) ==
  /\ At(at) /\ CanBackUp /\ BeginBackup("deploy") /\ own' = "running" /\ Goto(waiting)
  /\ UNCHANGED <<stateVars, hostVars, backed, torn, boundVars, attempts>>
BackupDoneAnyhow(waiting, at) ==
  /\ At(waiting) /\ own \in {"ok", "failed"} /\ own' = "none" /\ Goto(at)
  /\ UNCHANGED <<stateVars, hostVars, backed, torn, job, boundVars, attempts>>
BackupDone(waiting, at) ==
  /\ At(waiting) /\ own = "ok" /\ own' = "none" /\ Goto(at)
  /\ UNCHANGED <<stateVars, hostVars, backed, torn, job, boundVars, attempts>>

\* The previous release and environment are kept beside the new ones.
SavePrevious == /\ At("save") /\ Goto("mark")
                /\ UNCHANGED <<stateVars, hostVars, backupVars, boundVars, attempts>>

Marker(status) == [status |-> status, bundle |-> op.bundle, restore |-> op.kind # "activate"]

MarkActivating ==
  /\ At("mark")
  /\ active' = Marker("activating") /\ Goto("env")
  /\ UNCHANGED <<env, current, next, site, wrapper, hostVars, backupVars, boundVars, attempts>>

WriteEnv == /\ At("env") /\ env' = op.bundle /\ Goto("link")
            /\ UNCHANGED <<active, current, next, site, wrapper, hostVars, backupVars, boundVars, attempts>>
Link == /\ At("link") /\ next' = TRUE /\ Goto("point")
        /\ UNCHANGED <<active, env, current, site, wrapper, hostVars, backupVars, boundVars, attempts>>
Point == /\ At("point") /\ next' = FALSE /\ current' = op.bundle
         /\ Goto(IF op.kind = "activate" THEN "install" ELSE "seed")
         /\ UNCHANGED <<active, env, site, wrapper, hostVars, backupVars, boundVars, attempts>>

InstallOperations == /\ OpAt("activate", "install") /\ wrapper' = TRUE /\ Goto("edge")
                     /\ UNCHANGED <<active, env, current, next, site, hostVars, backupVars, boundVars, attempts>>

StopEdge == /\ At("edge") /\ Stop({"echo", "gateway"}) /\ Goto("core")
            /\ UNCHANGED <<stateVars, timers, data, ran, identity, backed, torn, own, boundVars, attempts>>
UpCore == /\ At("core") /\ Up("core", op.bundle) /\ Opens(op.bundle)
          /\ Goto("gateway")
          /\ UNCHANGED <<stateVars, timers, backed, torn, own, boundVars, attempts>>
\* echo-bootstrap, which needs the core to answer, then the gateway.
UpGateway == /\ At("gateway") /\ Healthy("core", op.bundle)
             /\ Up("gateway", op.bundle) /\ Goto("echo")
             /\ UNCHANGED <<stateVars, timers, data, ran, identity, backed, torn, own, boundVars, attempts>>
UpEcho == /\ At("echo") /\ Recreate("echo", op.bundle) /\ Goto("check")
          /\ UNCHANGED <<stateVars, timers, data, ran, identity, backed, torn, own, boundVars, attempts>>
CheckRunning == /\ At("check") /\ Running(SiteOf(site)) /\ Goto("public")
                /\ UNCHANGED <<stateVars, hostVars, backupVars, boundVars, attempts>>
\* public_readiness: the gateway serves the website and passes discovery on to the core.
Public == \A s \in {"gateway", "core"} : ctr[s].up /\ ~ctr[s].paused
CheckPublic == /\ At("public") /\ Public /\ Goto("verified")
               /\ UNCHANGED <<stateVars, hostVars, backupVars, boundVars, attempts>>
MarkReady == /\ At("ready") /\ active' = Marker("ready") /\ Goto("timers")
             /\ UNCHANGED <<env, current, next, site, wrapper, hostVars, backupVars, boundVars, attempts>>
EnableTimers == /\ At("timers")
                /\ timers' = [enabled |-> TRUE, active |-> TRUE]
                /\ op' = IF op.kind = "activate" THEN Idle ELSE [op EXCEPT !.at = "adopt"]
                /\ UNCHANGED <<stateVars, ctr, data, ran, identity, backupVars, boundVars, attempts>>

------------------------------------------------------------------------------
\* Failure. From the marker on, what the new bundle may have done to the data
\* forbids the old one: fence the maintenance and stop the writers.
Before == {"pause", "backup", "backing", "save"}
After == {"mark", "env", "link", "point", "install", "edge", "core", "gateway", "echo",
          "check", "public", "verified", "verifying", "ready", "timers", "adopt"}

\* A step whose command is refused, or that waits for a backup that failed.
Refused == \/ op.at \in {"backup", "verified"} /\ ~CanBackUp
           \/ own = "failed"
           \/ At("gateway") /\ ~Healthy("core", op.bundle)
           \/ At("check") /\ ~Running(SiteOf(site))
           \/ At("public") /\ ~Public
Waits == At("backing") \/ At("verifying")
Breaks == IF Refused THEN UNCHANGED fuel ELSE ~Waits /\ Spend

ResumeSchedules ==
  /\ op.kind = "activate" /\ op.at \in Before /\ Breaks
  /\ timers' = [timers EXCEPT !.active = @ \/ op.resume]
  /\ op' = Idle /\ own' = "none"
  /\ UNCHANGED <<stateVars, ctr, data, ran, identity, backed, torn, job, call, lost, attempts>>

Abandon == /\ op.kind \in {"activate", "complete"} /\ op.at \in After /\ Breaks
           /\ Goto("failed") /\ own' = "none"
           /\ UNCHANGED <<stateVars, hostVars, backed, torn, job, call, lost, attempts>>

\* Failing once more while failing is only noted.
Notes(what) == Spend /\ lost' = lost \cup {what}

MarkFailed ==
  /\ At("failed") /\ Goto("fence")
  /\ \/ active' = Marker("failed") /\ UNCHANGED <<lost, fuel>>
     \/ UNCHANGED active /\ Notes("marker")
  /\ UNCHANGED <<env, current, next, site, wrapper, hostVars, backupVars, call, attempts>>

StopOperationsToday ==
  /\ At("fence") /\ Goto("stop")
  /\ timers' = [timers EXCEPT !.active = FALSE]
  /\ UNCHANGED <<stateVars, ctr, data, ran, identity, backupVars, boundVars, attempts>>

\* stop_operations: timers are disabled, so that no reboot brings them back, and
\* stopped; a backup they started is stopped, and its trap resumes or fails to.
StopOperations ==
  /\ At("fence") /\ Goto("stop")
  /\ \/ /\ timers' = [enabled |-> FALSE, active |-> FALSE]
        /\ IF job.owner = "schedule" THEN job' = NoJob /\ ((Trap /\ UNCHANGED fuel) \/ TrapCutOff)
           ELSE UNCHANGED <<job, ctr, lost, fuel>>
     \/ UNCHANGED <<timers, job, ctr>> /\ Notes("fence")
  /\ UNCHANGED <<stateVars, data, ran, identity, backed, torn, own, call, attempts>>

StopAll ==
  /\ At("stop") /\ op' = Idle
  /\ \/ Stop(Services) /\ UNCHANGED <<lost, fuel>>
     \/ UNCHANGED <<ctr, job>> /\ Notes("stop")
  /\ UNCHANGED <<stateVars, timers, data, ran, identity, backed, torn, own, call, attempts>>

ActivationStep ==
  \/ PauseSchedules \/ SavePrevious \/ MarkActivating \/ WriteEnv \/ Link \/ Point
  \/ InstallOperations \/ StopEdge \/ UpCore \/ UpGateway \/ UpEcho \/ CheckRunning \/ CheckPublic
  \/ OwnBackup("backup", "backing") \/ BackupDone("backing", "save")
  \/ OwnBackup("verified", "verifying") \/ BackupDone("verifying", "ready")
  \/ MarkReady \/ EnableTimers
  \/ ResumeSchedules \/ Abandon \/ MarkFailed \/ StopOperations \/ StopAll
=============================================================================
