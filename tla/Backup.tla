------------------------------ MODULE Backup ------------------------------
(* What runs on the host without the deploy lock: the backup script, which    *)
(* the timer, an operator or the lock holder starts, the operator's compose   *)
(* wrapper, and reboots.                                                       *)
EXTENDS Host

------------------------------------------------------------------------------
\* run_backup starts the script only over a coherent record; the script's own
\* flock admits one at a time and calls the installed wrapper.
CanBackUp == job.at = "idle" /\ Coherent /\ wrapper
BeginBackup(owner) == job' = [NoJob EXCEPT !.at = "core", !.owner = owner]

StartBackup(owner) ==
  /\ CanBackUp /\ Spend
  /\ owner = "schedule" => timers.active
  /\ BeginBackup(owner)
  /\ UNCHANGED <<stateVars, hostVars, backed, torn, own, call, lost, op>>

ProceedsAnyhow ==
  [core |-> Coherent /\ ctr["core"].up /\ ~ctr["core"].paused, listCore |-> TRUE,
   echo |-> Coherent /\ (ctr["echo"].up => ~ctr["echo"].paused), listEcho |-> TRUE,
   dump |-> Coherent, copy |-> Coherent, resume |-> TRUE, publish |-> TRUE]

\* Whether the script's next command succeeds. Each goes through the wrapper,
\* which refuses an incoherent record; pausing what is paused is an error, and
\* so is unpausing a container that is gone.
Proceeds ==
  [core |-> Coherent /\ ctr["core"].up /\ ~ctr["core"].paused,
   listCore |-> TRUE,
   echo |-> Coherent /\ (ctr["echo"].up => ~ctr["echo"].paused),
   listEcho |-> TRUE,
   dump |-> Coherent /\ ctr["core"].up,
   copy |-> Coherent,
   resume |-> job.gone = {},
   publish |-> TRUE]

Reaches(at) == job.at = at /\ Proceeds[at]

Pause(s, at) == /\ ctr' = [ctr EXCEPT ![s].paused = TRUE]
                /\ job' = [job EXCEPT !.at = at, !.paused = @ \cup {s}]

\* A writer is paused first and then entered in the list of the EXIT trap.
PauseCore == /\ Reaches("core") /\ Pause("core", "listCore")
             /\ UNCHANGED <<stateVars, timers, data, ran, identity, backed, torn, own, boundVars, op>>

\* Echo is paused only when it runs.
PauseEcho ==
  /\ Reaches("echo")
  /\ IF ctr["echo"].up THEN Pause("echo", "listEcho")
     ELSE job' = [job EXCEPT !.at = "dump"] /\ UNCHANGED ctr
  /\ UNCHANGED <<stateVars, timers, data, ran, identity, backed, torn, own, boundVars, op>>

List(at, then) == /\ Reaches(at)
                  /\ job' = [job EXCEPT !.at = then]
                  /\ UNCHANGED <<stateVars, hostVars, backed, torn, own, boundVars, op>>
ListCore == List("listCore", "echo")
ListEcho == List("listEcho", "dump")

\* pg_dump and the copies of Synapse's and the control service's volumes.
Dump == /\ Reaches("dump")
        /\ job' = [job EXCEPT !.at = "copy", !.of = data]
        /\ UNCHANGED <<stateVars, hostVars, backed, torn, own, boundVars, op>>

\* The copy of Echo's volume.
CopyEcho == /\ Reaches("copy")
            /\ job' = [job EXCEPT !.at = "resume"]
            /\ UNCHANGED <<stateVars, hostVars, backed, torn, own, boundVars, op>>

Resume == /\ Reaches("resume")
          /\ ctr' = Unpaused(job.paused)
          /\ job' = [job EXCEPT !.at = "publish", !.paused = {}]
          /\ UNCHANGED <<stateVars, timers, data, ran, identity, backed, torn, own, boundVars, op>>

Outcome(result) == own' = IF job.owner = "deploy" THEN result ELSE own

\* The archive is encrypted, renamed and recorded as the last success.
Publish == /\ Reaches("publish")
           /\ backed' = backed \cup {job.of}
           /\ torn' = torn \cup job.live \cup job.gone
           /\ job' = NoJob /\ Outcome("ok")
           /\ UNCHANGED <<stateVars, hostVars, boundVars, op>>

\* The EXIT trap resumes the writers in its list, those that are still there. The
\* one between its pause and its entry stays paused.
Unlisted == CASE job.at = "listCore" -> {"core"}
              [] job.at = "listEcho" -> {"echo"}
              [] OTHER -> {}
Resumable == (job.paused \ Unlisted) \ job.gone
Trap == ctr' = Unpaused(Resumable) /\ lost' = lost \cup Unlisted

\* The trap outlasts its grace and the group is killed, or Docker refuses to
\* resume, which the trap ignores ("|| true").
TrapCutOff == /\ Spend
              /\ \E S \in (SUBSET Resumable) \ {Resumable} : ctr' = Unpaused(S)
              /\ lost' = lost \cup Unlisted \cup {"resume"}

BackupFailsHard ==
  /\ job.at # "idle" /\ Spend
  /\ job' = NoJob /\ Outcome("failed")
  /\ UNCHANGED <<stateVars, hostVars, backed, torn, call, lost, op>>

\* A command fails, or the time limit sends TERM.
BackupFails ==
  /\ job.at # "idle"
  /\ IF Proceeds[job.at] THEN Spend ELSE UNCHANGED fuel
  /\ Trap /\ job' = NoJob /\ Outcome("failed")
  /\ UNCHANGED <<stateVars, timers, data, ran, identity, backed, torn, call, op>>
BackupCutOff ==
  /\ job.at # "idle"
  /\ TrapCutOff /\ job' = NoJob /\ Outcome("failed")
  /\ UNCHANGED <<stateVars, timers, data, ran, identity, backed, torn, call, op>>

------------------------------------------------------------------------------
\* The operator's wrapper takes no lock: it checks the record, and an operation may
\* come between that and the command.  The release is the record's; the website
\* overlay is read when the command is put together, and must be one of that release.
Overlay(s, b) == IF s = "gateway" /\ site # None THEN site.id ELSE b

ComposeUp(s, b) ==
  /\ Up(s, Overlay(s, b))
  /\ IF s = "core" THEN Opens(b) ELSE UNCHANGED <<data, ran, identity>>

\* The operator starts the edge of a restored host; another call counts as a fault.
StartsEdge(s) == active.restore /\ active.status = "activating" /\ ~ctr[s].up
Compose(s) == /\ wrapper /\ Coherent /\ call = None
              /\ IF StartsEdge(s) THEN UNCHANGED fuel ELSE Spend
              /\ call' = [service |-> s, bundle |-> active.bundle]
              /\ UNCHANGED <<stateVars, hostVars, backupVars, lost, op>>

Overtaken == ~Coherent \/ active.bundle # call.bundle
RunCompose ==
  /\ call # None /\ call' = None
  /\ lost' = IF Overtaken THEN lost \cup {"wrapper"} ELSE lost
  /\ IF site # None /\ Base[site.id] # call.bundle THEN UNCHANGED <<ctr, data, ran, identity, job>>
     ELSE ComposeUp(call.service, call.bundle)
  /\ UNCHANGED <<stateVars, timers, backed, torn, own, fuel, op>>

------------------------------------------------------------------------------
\* The lock holder is killed. A backup it started has a session of its own.
Crash == /\ op # Idle /\ Spend
         /\ op' = Idle /\ own' = "none" /\ lost' = lost \cup {"tool"}
         /\ job' = IF job.owner = "deploy" THEN [job EXCEPT !.owner = "operator"] ELSE job
         /\ UNCHANGED <<stateVars, hostVars, backed, torn, call>>

\* The host restarts: containers that were not stopped start again, unpaused;
\* enabled timers start; scripts and tools are gone.
Reboot == /\ Spend
          /\ op' = Idle /\ own' = "none" /\ job' = NoJob /\ call' = None
          /\ ctr' = Unpaused(Services)
          /\ timers' = [timers EXCEPT !.active = timers.enabled]
          /\ lost' = IF op = Idle THEN lost ELSE lost \cup {"tool"}
          /\ UNCHANGED <<stateVars, data, ran, identity, backed, torn>>

BackupStep == PauseCore \/ ListCore \/ PauseEcho \/ ListEcho \/ Dump \/ CopyEcho \/ Resume \/ Publish \/ BackupFails

UnlockedNext ==
  \/ BackupStep \/ BackupCutOff \/ Crash \/ Reboot \/ RunCompose
  \/ \E owner \in {"schedule", "operator"} : StartBackup(owner)
  \/ \E s \in Services : Compose(s)
=============================================================================
