------------------------------ MODULE Restore ------------------------------
(* restore.py: an encrypted snapshot of the old host becomes the deployment   *)
(* of an empty replacement host, with its original identities.  prepare puts  *)
(* the data in place and starts the core; an operator starts the gateway and  *)
(* Echo through the wrapper and verifies; complete adopts the result.         *)
EXTENDS Activation, Sequences

VARIABLES
  restore,  \* restore.json: "none", "restoring", "private", "completing", "complete" or "failed"
  key,      \* the one-use transport key is on the host
  whole,    \* the snapshot holds every identity, database and key
  seeded    \* how many data volumes hold the snapshot

restoreVars == <<restore, key, whole, seeded>>
Volumes == <<"synapse", "control", "bootstrap", "echo", "postgres">>

\* fresh_host: nothing but operations.env, and no restore before this one.
FreshHost == Fresh /\ env = "absent" /\ ~next /\ restore = "none" /\ seeded = 0

Prepare(b) ==
  /\ op = Idle /\ FreshHost /\ key
  /\ op' = [Idle EXCEPT !.kind = "restore", !.at = "open", !.bundle = b]
  /\ UNCHANGED <<stateVars, hostVars, backupVars, boundVars, attempts, restoreVars>>

\* decrypt_transport: the key is deleted once the snapshot is open, and on every
\* failure after it has been recognised as the transport's own.
OpenSnapshot == /\ At("open") /\ key' = FALSE /\ Goto("extract")
                /\ UNCHANGED <<stateVars, hostVars, backupVars, boundVars, attempts, restore, whole, seeded>>
CheckSnapshotLater == /\ At("extract") /\ Goto("record")
                      /\ UNCHANGED <<stateVars, hostVars, backupVars, boundVars, attempts, restoreVars>>

\* extract_snapshot, before anything is written on the host.
CheckSnapshot == /\ At("extract") /\ whole /\ Goto("record")
                 /\ UNCHANGED <<stateVars, hostVars, backupVars, boundVars, attempts, restoreVars>>
RefuseSnapshot ==
  /\ op.at \in {"open", "extract", "record"}
  /\ IF At("extract") /\ ~whole THEN UNCHANGED fuel ELSE Spend
  /\ key' \in {key, FALSE} /\ op' = Idle
  /\ UNCHANGED <<stateVars, hostVars, backupVars, call, lost, attempts, restore, whole, seeded>>

RecordRestoring == /\ At("record") /\ restore' = "restoring" /\ Goto("mark")
                   /\ UNCHANGED <<stateVars, hostVars, backupVars, boundVars, attempts, key, whole, seeded>>

\* copy_volume, one empty volume after another, and pg_restore; nothing that
\* could make an identity of its own runs before.
SeedVolume == /\ At("seed")
              /\ seeded' = seeded + 1
              /\ Goto(IF seeded' = Len(Volumes) THEN "restored" ELSE "seed")
              /\ UNCHANGED <<stateVars, hostVars, backupVars, boundVars, attempts, restore, key, whole>>

\* The restored core opens the volumes it finds.
StartRestored == /\ At("restored") /\ Up("core", op.bundle) /\ Goto("fenced")
                 /\ data' = op.bundle /\ ran' = ran \cup {op.bundle}
                 /\ identity' = IF whole /\ seeded = Len(Volumes) THEN "original" ELSE "new"
                 /\ UNCHANGED <<stateVars, timers, backed, torn, own, boundVars, attempts, restoreVars>>

\* install_operations without schedules.
InstallFenced == /\ At("fenced") /\ wrapper' = TRUE /\ timers' = [timers EXCEPT !.active = FALSE]
                 /\ Goto("private")
                 /\ UNCHANGED <<active, env, current, next, site, ctr, data, ran, identity, backupVars, boundVars,
                                attempts, restoreVars>>
Prepared == /\ At("private") /\ Healthy("core", op.bundle)
            /\ restore' = "private" /\ op' = Idle
            /\ UNCHANGED <<stateVars, hostVars, backupVars, boundVars, attempts, key, whole, seeded>>

------------------------------------------------------------------------------
\* complete: once, over the record prepare left, when the operator has verified it.
Complete ==
  /\ op = Idle /\ restore = "private"
  /\ Coherent /\ active.status = "activating" /\ active.restore
  /\ restore' = "completing"
  /\ op' = [Idle EXCEPT !.kind = "complete", !.at = "check", !.bundle = active.bundle]
  /\ UNCHANGED <<stateVars, hostVars, backupVars, boundVars, attempts, key, whole, seeded>>

Adopt == /\ At("adopt") /\ restore' = "complete" /\ op' = Idle
         /\ UNCHANGED <<stateVars, hostVars, backupVars, boundVars, attempts, key, whole, seeded>>

\* fail(): from the record on, as a failed activation; the record says so too.
RestoreAbandoned ==
  /\ op.kind = "restore" /\ op.at \in {"mark", "env", "link", "point", "seed", "restored", "fenced", "private"}
  /\ IF At("private") /\ ~Healthy("core", op.bundle) THEN UNCHANGED fuel ELSE Spend
  /\ Goto("failed")
  /\ UNCHANGED <<stateVars, hostVars, backupVars, call, lost, attempts, restoreVars>>

\* The last step of a failure writes the record.
RecordFailed == restore' = IF op.kind # "activate" /\ At("stop") THEN "failed" ELSE restore

RestoreStep ==
  \/ OpenSnapshot \/ CheckSnapshot \/ RefuseSnapshot \/ RecordRestoring \/ StartRestored
  \/ InstallFenced \/ Prepared
  \/ SeedVolume \/ RestoreAbandoned \/ Adopt
=============================================================================
