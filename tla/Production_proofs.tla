------------------------- MODULE Production_proofs -------------------------
(* Proofs about the production host (Production.tla).  HostInv is inductive:  *)
(*   TypeInv     types; what an operation's kind and stage say of each other; *)
(*               what the backup script paused and what of it is gone;        *)
(*   PausedInv   a paused writer is one the script at work will find again;   *)
(*   CopyInv     a core that came up while it was copied had been stopped;    *)
(*   OwnInv      whose backup the lock holder waits for;                      *)
(*   FenceInv    a recorded failure is being fenced, is fenced or could not be; *)
(*   IdentityInv which stages of a restore come before there is an identity;  *)
(*   OpensInv    which bundles opened the data, and which may be tried;       *)
(*   RecordInv, DataInv, BackedInv  what a marker about to be ready stands on. *)
(* Touches says what commands do to containers under the script's feet,       *)
(* Writes which actions write which variable, and StepKinds what a step does  *)
(* to the operation and the host's record: the proofs for the invariants go   *)
(* by these instead of by each action.                                        *)
EXTENDS Production, TLAPS

-----------------------------------------------------------------------------
(***************************************************************************)
(* Types.                                                                  *)
(***************************************************************************)
Failing == {"failed", "fence", "stop"}
Opening == {"open", "extract", "record"}
Marking == {"mark", "env", "link", "point"}
Restoring == {"seed", "restored", "fenced", "private"}
Starting == {"install", "edge", "core", "gateway", "echo"}
Adopting == {"check", "public", "verified", "verifying", "ready"}
Adopted == {"timers", "adopt"}
Switching == {"w_mark", "w_up", "w_check", "w_settle", "w_revert", "w_reup", "w_recheck", "w_reverted"}
Stages == {"idle"} \cup Before \cup Opening \cup Marking \cup Restoring \cup Starting
          \cup Adopting \cup Adopted \cup Failing \cup Switching

ActivateStages == Before \cup Marking \cup Starting \cup Adopting \cup {"timers"} \cup Failing
RestoreStages == Opening \cup Marking \cup Restoring \cup Failing
CompleteStages == Adopting \cup Adopted \cup Failing

Deploys == {"activate", "restore", "complete"}
Images == Bundles \cup Websites \cup {None}
Containers == [Services -> [image : Images, up : BOOLEAN, paused : BOOLEAN]]
Actives == [status : {"activating", "ready", "failed"}, bundle : Bundles, restore : BOOLEAN]
Sites == [id : Websites, status : {"activating", "ready", "failed"}, previous : Websites \cup {"base"}]
Operations ==
  [kind : Deploys \cup {"none", "website"}, at : Stages, bundle : Bundles \cup {None}, resume : BOOLEAN,
   target : Websites \cup {"base"}, rollback : BOOLEAN, interrupted : BOOLEAN, previous : Sites \cup {None}]

\* The stages of each kind of operation, and what an operation is given.
OpInv ==
  /\ op \in Operations
  /\ op.kind = "none" => op = Idle
  /\ op.kind = "activate" => op.at \in ActivateStages
  /\ op.kind = "restore" => op.at \in RestoreStages
  /\ op.kind = "complete" => op.at \in CompleteStages
  /\ op.kind = "website" => op.at \in Switching
  /\ op.kind \in Deploys => op.bundle \in Bundles
  /\ op.kind = "website" => /\ active # None
                            /\ ~op.rollback => op.target # "base"
                            /\ op.target = "base" \/ op.interrupted => op.previous # None
  /\ op.kind = "restore" /\ op.at \in Opening \cup Marking \cup {"seed"} => seeded < Len(Volumes)

\* The backup script: what it paused, what of it is gone, and what it copied.
Jobs == [at : {"idle", "core", "listCore", "echo", "listEcho", "dump", "copy", "resume", "publish"},
         owner : {"none", "schedule", "operator", "deploy"},
         paused : SUBSET Writers, gone : SUBSET Writers, live : SUBSET Writers, of : Bundles \cup {None}]
JobInv ==
  /\ job \in Jobs
  /\ job.gone \subseteq job.paused
  /\ job.at = "idle" => job = NoJob
  /\ job.at \in {"core", "publish"} => job.paused = {}
  /\ job.at \in {"listCore", "echo"} => job.paused = {"core"}
  /\ job.at = "listEcho" => job.paused = {"core", "echo"}
  /\ job.at \in {"dump", "copy", "resume"} => "core" \in job.paused
  /\ job.at \in {"core", "listCore", "echo", "listEcho"} => job.live = {}
  /\ job.at \in {"copy", "resume", "publish"} => job.of # None
  /\ ctr["core"].up => data # None

StateTypes ==
  /\ active \in Actives \cup {None}
  /\ env \in Bundles \cup {"development", "absent"}
  /\ current \in Bundles \cup {None}
  /\ next \in BOOLEAN /\ wrapper \in BOOLEAN
  /\ site \in Sites \cup {None}
  /\ timers \in [enabled : BOOLEAN, active : BOOLEAN]
  /\ data \in Bundles \cup {None} /\ ran \subseteq Bundles
  /\ identity \in {None, "new", "original"}
  /\ backed \subseteq Bundles /\ torn \subseteq Writers
  /\ own \in {"none", "running", "ok", "failed"}
  /\ attempts \subseteq Bundles
  /\ restore \in {"none", "restoring", "private", "completing", "complete", "failed"}
  /\ key \in BOOLEAN /\ whole \in BOOLEAN /\ seeded \in 0 .. Len(Volumes)
CallTypes ==
  /\ call \in [service : Services, bundle : Bundles] \cup {None}
  /\ call # None => wrapper
  /\ lost \subseteq {"wrapper", "tool", "resume", "marker", "fence", "stop"} \cup Writers /\ fuel \in Nat

TypeInv == ctr \in Containers /\ StateTypes /\ CallTypes /\ OpInv /\ JobInv

\* There are five data volumes.
LEMMA FiveVolumes == Len(Volumes) = 5
  BY DEF Volumes

\* An operation that goes on to another stage is otherwise the same.
LEMMA Going ==
  ASSUME op \in Operations, NEW at \in Stages, Goto(at)
  PROVE  /\ op' \in Operations /\ op'.at = at
         /\ op'.kind = op.kind /\ op'.bundle = op.bundle /\ op'.target = op.target /\ op'.rollback = op.rollback
         /\ op'.interrupted = op.interrupted /\ op'.previous = op.previous
  BY DEF Goto, Operations

\* What a stage says of its operation.
LEMMA KindAt ==
  ASSUME OpInv
  PROVE  /\ op.at \in Before \cup Starting => op.kind = "activate"
         /\ op.at \in Marking => op.kind \in {"activate", "restore"}
         /\ op.at \in Adopting \cup {"timers"} => op.kind \in {"activate", "complete"}
         /\ op.at = "adopt" => op.kind = "complete"
         /\ op.at \in Opening \cup Restoring => op.kind = "restore"
         /\ op.at \in Failing => op.kind \in Deploys
         /\ op.at \in Switching => op.kind = "website"
         /\ op.at = "idle" => op = Idle
<1>1. op.kind \in Deploys \cup {"none", "website"} /\ (op.kind = "none" => op.at = "idle")
  BY DEF OpInv, Operations, Idle
<1>. QED
  BY <1>1 DEF OpInv, Deploys, ActivateStages, RestoreStages, CompleteStages,
              Before, Opening, Marking, Restoring, Starting, Adopting, Adopted, Failing, Switching

\* An operation that ends leaves nothing of itself.
LEMMA Ended == ASSUME op' = Idle PROVE OpInv'
<1>1. Idle \in Operations /\ Idle.kind = "none"
  BY DEF Idle, Operations, Stages
<1>. QED
  BY <1>1 DEF OpInv, Deploys

\* A deployment goes on to a stage of its kind.
LEMMA Onward ==
  ASSUME OpInv, NEW to \in Stages, Goto(to),
         op.kind \in Deploys,
         op.kind = "activate" => to \in ActivateStages,
         op.kind = "restore" => to \in RestoreStages,
         op.kind = "complete" => to \in CompleteStages,
         op.kind = "restore" /\ to \in Opening \cup Marking \cup {"seed"} => seeded' < Len(Volumes)
  PROVE  OpInv'
<1>1. op' \in Operations /\ op'.at = to /\ op'.kind = op.kind /\ op'.bundle = op.bundle
  BY Going DEF OpInv
<1>. QED
  BY <1>1 DEF OpInv, Deploys

-----------------------------------------------------------------------------
(***************************************************************************)
(* What commands do to containers while the backup script is at work.      *)
(***************************************************************************)
\* Commands pause nothing; a writer that is stopped or replaced is gone for the
\* script, and one that comes up while it is copied was gone before.
Touches ==
  /\ ctr' \in Containers /\ job' \in Jobs
  /\ job'.at = job.at /\ job'.owner = job.owner /\ job'.paused = job.paused /\ job'.of = job.of
  /\ job.gone \subseteq job'.gone /\ job'.gone \subseteq job.gone \cup job.paused
  /\ job'.live # job.live => job.at \in {"dump", "copy"}
  /\ "core" \in job'.live \ job.live /\ "core" \in job.paused => "core" \in job'.gone
  /\ job = NoJob => job' = NoJob
  /\ \A t \in Services : ctr'[t].paused => ctr[t].paused /\ t \notin job'.gone \ job.gone

\* Leaving containers and script alone is such a command,
LEMMA Standing == ASSUME ctr \in Containers, job \in Jobs, UNCHANGED <<ctr, job>> PROVE Touches
  BY DEF Touches

\* and so are replacing a service's container,
LEMMA Replacing ==
  ASSUME ctr \in Containers, job \in Jobs, NEW s \in Services, NEW image \in Images,
         ctr' = [ctr EXCEPT ![s] = [image |-> image, up |-> TRUE, paused |-> FALSE]], Disturbs(s)
  PROVE  Touches /\ \A t \in Services \ {s} : ctr'[t] = ctr[t]
<1>1. /\ ctr' \in Containers /\ \A t \in Services \ {s} : ctr'[t] = ctr[t]
      /\ \A t \in Services : ctr'[t].paused => ctr[t].paused /\ t # s
  BY DEF Containers
<1>. DEFINE gone == job.gone \cup ({s} \cap job.paused)
            live == IF job.at \in {"dump", "copy"} THEN job.live \cup ({s} \cap Writers) ELSE job.live
<1>2. job' = [job EXCEPT !.gone = gone, !.live = live] /\ gone \subseteq Writers /\ live \subseteq Writers
  BY DEF Disturbs, Jobs
<1>3. job' \in Jobs /\ job'.at = job.at /\ job'.owner = job.owner /\ job'.paused = job.paused /\ job'.of = job.of
      /\ job'.gone = gone /\ job'.live = live
  <2>. HIDE DEF gone, live
  <2>. QED
    BY <1>2 DEF Jobs
<1>4. job = NoJob => job' = NoJob
  <2>1. job = NoJob => gone = {} /\ live = {} /\ job.gone = {} /\ job.live = {}
    BY DEF NoJob
  <2>. HIDE DEF gone, live
  <2>2. job = NoJob => job' = [NoJob EXCEPT !.gone = {}, !.live = {}]
    BY <1>2, <2>1
  <2>. QED
    BY <2>2 DEF NoJob
<1>5. /\ job'.live # job.live => job.at \in {"dump", "copy"}
      /\ "core" \in job'.live \ job.live /\ "core" \in job.paused => "core" \in job'.gone
      /\ job.gone \subseteq job'.gone /\ job'.gone \subseteq job.gone \cup job.paused
      /\ \A t \in Services : t # s => t \notin job'.gone \ job.gone
  BY <1>3
<1>. QED
  BY <1>1, <1>3, <1>4, <1>5 DEF Touches

\* docker compose up,
LEMMA UpTouches ==
  ASSUME ctr \in Containers, job \in Jobs, NEW s \in Services, NEW image \in Images, Up(s, image)
  PROVE  Touches /\ \A t \in Services \ {s} : ctr'[t] = ctr[t]
<1>1. CASE UNCHANGED <<ctr, job>>
  BY <1>1, Standing
<1>2. CASE ctr' = [ctr EXCEPT ![s] = [image |-> image, up |-> TRUE, paused |-> FALSE]] /\ Disturbs(s)
  BY <1>2, Replacing
<1>. QED
  BY <1>1, <1>2 DEF Up

\* up --force-recreate,
LEMMA RecreateTouches ==
  ASSUME ctr \in Containers, job \in Jobs, NEW s \in Services, NEW image \in Images, Recreate(s, image)
  PROVE  Touches /\ \A t \in Services \ {s} : ctr'[t] = ctr[t]
  BY Replacing DEF Recreate

\* and stopping services.
LEMMA StopTouches ==
  ASSUME ctr \in Containers, job \in Jobs, NEW S \in SUBSET Services, Stop(S)
  PROVE  Touches /\ \A t \in Services : ctr'[t].up => ctr[t].up
<1>1. ctr' = [s \in Services |-> IF s \in S THEN [ctr[s] EXCEPT !.up = FALSE, !.paused = FALSE] ELSE ctr[s]]
  BY DEF Stop, Down
<1>2. \A t \in Services : /\ t \in S => ctr'[t] = [ctr[t] EXCEPT !.up = FALSE, !.paused = FALSE]
                          /\ t \notin S => ctr'[t] = ctr[t]
  BY <1>1
<1>3. \A t \in Services :
        /\ ctr'[t] \in [image : Images, up : BOOLEAN, paused : BOOLEAN]
        /\ ctr'[t].up => ctr[t].up
        /\ ctr'[t].paused => ctr[t].paused /\ t \notin S
  BY <1>2 DEF Containers
<1>4. ctr' \in Containers
  BY <1>1, <1>3 DEF Containers
<1>. DEFINE gone == job.gone \cup (S \cap job.paused)
<1>5. job' = [job EXCEPT !.gone = gone] /\ gone \subseteq Writers
  BY DEF Stop, Jobs
<1>6. job' \in Jobs /\ job'.at = job.at /\ job'.owner = job.owner /\ job'.paused = job.paused /\ job'.of = job.of
      /\ job'.gone = gone /\ job'.live = job.live
  <2>. HIDE DEF gone
  <2>. QED
    BY <1>5 DEF Jobs
<1>7. job = NoJob => job' = NoJob
  BY <1>5 DEF NoJob
<1>8. \A t \in Services : t \notin S => t \notin job'.gone \ job.gone
  BY <1>6
<1>. QED
  BY <1>3, <1>4, <1>6, <1>7, <1>8 DEF Touches

\* docker unpause starts and stops nothing,
LEMMA Resuming ==
  ASSUME ctr \in Containers, NEW S, ctr' = Unpaused(S)
  PROVE  /\ ctr' \in Containers
         /\ \A t \in Services : ctr'[t].up = ctr[t].up /\ (ctr'[t].paused => ctr[t].paused /\ t \notin S)
<1>1. \A t \in Services : /\ t \in S => ctr'[t] = [ctr[t] EXCEPT !.paused = FALSE]
                          /\ t \notin S => ctr'[t] = ctr[t]
  BY DEF Unpaused
<1>2. \A t \in Services :
        /\ ctr'[t] \in [image : Images, up : BOOLEAN, paused : BOOLEAN]
        /\ ctr'[t].up = ctr[t].up /\ (ctr'[t].paused => ctr[t].paused /\ t \notin S)
  BY <1>1 DEF Containers
<1>. QED
  BY <1>2 DEF Unpaused, Containers

\* nor does docker pause.
LEMMA Pausing ==
  ASSUME ctr \in Containers, NEW s \in Services, ctr' = [ctr EXCEPT ![s].paused = TRUE]
  PROVE  /\ ctr' \in Containers
         /\ \A t \in Services : ctr'[t].up = ctr[t].up /\ (ctr'[t].paused => ctr[t].paused \/ t = s)
  BY DEF Containers

-----------------------------------------------------------------------------
(***************************************************************************)
(* The types are kept.                                                     *)
(***************************************************************************)
\* Every step of the operation that holds the lock, and every operation that
\* starts, is of a kind that has that stage.
LEMMA OpKept ==
  ASSUME TypeInv, ProductionNext
  PROVE  OpInv'
<1>. USE DEF At, OpAt
<1>0. OpInv /\ StateTypes /\ Len(Volumes) = 5 /\ Idle \in Operations
  BY FiveVolumes DEF TypeInv, Idle, Operations, Stages
<1>1. ASSUME ActivationStep, UNCHANGED <<key, whole, seeded>>, RecordFailed PROVE OpInv'
  <2>0. op.kind = "restore" /\ op.at \in Opening \cup Marking \cup {"seed"} => seeded' < Len(Volumes)
    BY <1>0, <1>1 DEF OpInv
  <2>. USE DEF Stages, Deploys, ActivateStages, RestoreStages, CompleteStages, Before, Opening, Marking, Restoring,
               Starting, Adopting, Adopted, Failing
  <2>1. CASE PauseSchedules
    <3>1. op.kind = "activate" /\ op \in Operations
      BY <2>1, <1>0, KindAt DEF PauseSchedules, OpInv
    <3>2. op' \in Operations /\ op'.kind = "activate" /\ op'.at = "backup" /\ op'.bundle = op.bundle
      BY <2>1, <3>1, <1>0 DEF PauseSchedules, Operations, StateTypes
    <3>. QED
      BY <3>1, <3>2, <1>0 DEF OpInv
  <2>2. CASE SavePrevious
    BY <2>2, <2>0, <1>0, Onward, KindAt DEF SavePrevious
  <2>3. CASE MarkActivating
    BY <2>3, <2>0, <1>0, Onward, KindAt DEF MarkActivating
  <2>4. CASE WriteEnv
    BY <2>4, <2>0, <1>0, Onward, KindAt DEF WriteEnv
  <2>5. CASE Link
    BY <2>5, <2>0, <1>0, Onward, KindAt DEF Link
  <2>6. CASE Point
    BY <2>6, <2>0, <1>0, Onward, KindAt DEF Point
  <2>7. CASE InstallOperations
    BY <2>7, <2>0, <1>0, Onward, KindAt DEF InstallOperations
  <2>8. CASE StopEdge
    BY <2>8, <2>0, <1>0, Onward, KindAt DEF StopEdge
  <2>9. CASE UpCore
    BY <2>9, <2>0, <1>0, Onward, KindAt DEF UpCore
  <2>10. CASE UpGateway
    BY <2>10, <2>0, <1>0, Onward, KindAt DEF UpGateway
  <2>11. CASE UpEcho
    BY <2>11, <2>0, <1>0, Onward, KindAt DEF UpEcho
  <2>12. CASE CheckRunning
    BY <2>12, <2>0, <1>0, Onward, KindAt DEF CheckRunning
  <2>13. CASE CheckPublic
    BY <2>13, <2>0, <1>0, Onward, KindAt DEF CheckPublic
  <2>14. CASE MarkReady
    BY <2>14, <2>0, <1>0, Onward, KindAt DEF MarkReady
  <2>15. CASE OwnBackup("backup", "backing")
    BY <2>15, <2>0, <1>0, Onward, KindAt DEF OwnBackup
  <2>16. CASE OwnBackup("verified", "verifying")
    BY <2>16, <2>0, <1>0, Onward, KindAt DEF OwnBackup
  <2>17. CASE BackupDone("backing", "save")
    BY <2>17, <2>0, <1>0, Onward, KindAt DEF BackupDone
  <2>18. CASE BackupDone("verifying", "ready")
    BY <2>18, <2>0, <1>0, Onward, KindAt DEF BackupDone
  <2>19. CASE EnableTimers
    <3>1. op' = Idle \/ (Goto("adopt") /\ op.kind = "complete")
      BY <2>19, <1>0, KindAt DEF EnableTimers, Goto
    <3>. QED
      BY <3>1, <1>0, Ended, Onward
  <2>20. CASE ResumeSchedules \/ StopAll
    BY <2>20, Ended DEF ResumeSchedules, StopAll
  <2>21. CASE Abandon
    BY <2>21, <2>0, <1>0, Onward, KindAt DEF Abandon, After
  <2>22. CASE MarkFailed
    BY <2>22, <2>0, <1>0, Onward, KindAt DEF MarkFailed
  <2>23. CASE StopOperations
    BY <2>23, <2>0, <1>0, Onward, KindAt DEF StopOperations
  <2>. QED
    BY <1>1, <2>1, <2>2, <2>3, <2>4, <2>5, <2>6, <2>7, <2>8, <2>9, <2>10, <2>11, <2>12, <2>13, <2>14, <2>15, <2>16,
       <2>17, <2>18, <2>19, <2>20, <2>21, <2>22, <2>23 DEF ActivationStep
<1>2. ASSUME WebsiteStep, UNCHANGED restoreVars PROVE OpInv'
  <2>1. CASE op' = Idle
    BY <2>1, Ended
  <2>2. op.kind = "website"
    <3>1. op.at \in Switching
      BY <1>2 DEF WebsiteStep, JournalTransition, SwitchGateway, Settle, Verify, SiteFails, JournalRevert, RevertGateway,
                  Reverted, RevertFails, Switching
    <3>. QED
      BY <3>1, <1>0, KindAt
  <2>3. active' = active /\ seeded' = seeded
    BY <1>2 DEF stateVars, restoreVars, WebsiteStep, JournalTransition, SwitchGateway, Settle, Verify, SiteFails,
       JournalRevert, RevertGateway,
       Reverted, RevertFails, WriteSite, GatewayUp
  <2>4. ASSUME NEW to \in Switching, Goto(to) PROVE OpInv'
    <3>1. /\ op' \in Operations /\ op'.at = to /\ op'.kind = op.kind /\ op'.bundle = op.bundle /\ op'.target = op.target
          /\ op'.rollback = op.rollback /\ op'.interrupted = op.interrupted /\ op'.previous = op.previous
      BY <2>4, <1>0, Going DEF Stages, OpInv
    <3>. QED
      BY <1>0, <2>2, <2>3, <2>4, <3>1 DEF Deploys, OpInv
  <2>5. op' = Idle \/ \E to \in Switching : Goto(to)
    BY <1>2 DEF WebsiteStep, JournalTransition, SwitchGateway, Settle, Verify, SiteFails, JournalRevert, RevertGateway,
       Reverted, RevertFails, WriteSite, GatewayUp, Switching, Goto
  <2>. QED
    BY <2>1, <2>4, <2>5
<1>3. ASSUME RestoreStep PROVE OpInv'
  <2>0. op.kind = "restore" /\ op.at \in Opening \cup Marking \cup {"seed"} => seeded < Len(Volumes)
    BY <1>0 DEF OpInv
  <2>. USE DEF Stages, Deploys, RestoreStages, Opening, Marking, Restoring, Failing, restoreVars
  <2>1. CASE OpenSnapshot
    BY <2>1, <2>0, <1>0, Onward, KindAt DEF OpenSnapshot
  <2>2. CASE CheckSnapshot
    BY <2>2, <2>0, <1>0, Onward, KindAt DEF CheckSnapshot
  <2>3. CASE RecordRestoring
    BY <2>3, <2>0, <1>0, Onward, KindAt DEF RecordRestoring
  <2>4. CASE StartRestored
    BY <2>4, <2>0, <1>0, Onward, KindAt DEF StartRestored
  <2>5. CASE InstallFenced
    BY <2>5, <2>0, <1>0, Onward, KindAt DEF InstallFenced
  <2>6. CASE SeedVolume
    <3>1. seeded \in Nat /\ seeded < 5 /\ op.kind = "restore" /\ seeded' = seeded + 1
      BY <2>6, <2>0, <1>0, KindAt DEF SeedVolume, StateTypes
    <3>2. CASE seeded' = Len(Volumes) /\ Goto("restored")
      BY <3>1, <3>2, <1>0, Onward
    <3>3. CASE seeded' # Len(Volumes) /\ Goto("seed")
      BY <3>1, <3>3, <1>0, Onward
    <3>. QED
      BY <2>6, <3>2, <3>3 DEF SeedVolume
  <2>7. CASE RestoreAbandoned
    BY <2>7, <1>0, Onward DEF RestoreAbandoned
  <2>8. CASE RefuseSnapshot \/ Prepared \/ Adopt
    BY <2>8, Ended DEF RefuseSnapshot, Prepared, Adopt
  <2>. QED
    BY <1>3, <2>1, <2>2, <2>3, <2>4, <2>5, <2>6, <2>7, <2>8 DEF RestoreStep
<1>4. ASSUME NEW b \in Bundles, Activate(b) PROVE OpInv'
  <2>1. PICK at \in {"mark", "pause"} : op' = [Idle EXCEPT !.kind = "activate", !.at = at, !.bundle = b]
    BY <1>4 DEF Activate
  <2>2. op' \in Operations /\ op'.kind = "activate" /\ op'.at = at /\ op'.bundle = b
    BY <1>0, <2>1 DEF Operations, Idle, Stages, Before, Marking, Deploys
  <2>. QED
    BY <2>1, <2>2 DEF OpInv, ActivateStages, Before, Marking, Deploys
<1>5. ASSUME NEW b \in Bundles, Prepare(b) PROVE OpInv'
  <2>1. seeded' = 0 /\ active' = active
    BY <1>5 DEF Prepare, FreshHost, stateVars, restoreVars
  <2>2. op' = [Idle EXCEPT !.kind = "restore", !.at = "open", !.bundle = b]
    BY <1>5 DEF Prepare
  <2>3. op' \in Operations /\ op'.kind = "restore" /\ op'.at = "open" /\ op'.bundle = b
    BY <1>0, <2>2 DEF Operations, Idle, Stages, Opening, Deploys
  <2>. QED
    BY <1>0, <2>1, <2>3 DEF OpInv, RestoreStages, Opening, Deploys
<1>6. ASSUME NEW w \in Websites \cup {"base"}, NEW r \in BOOLEAN, Transition(w, r), UNCHANGED restoreVars PROVE OpInv'
  <2>1. op' = [Idle EXCEPT !.kind = "website", !.at = "w_mark", !.target = w, !.rollback = r,
                           !.interrupted = ~Settled, !.previous = site]
    BY <1>6 DEF Transition
  <2>2. site \in Sites \cup {None} /\ active # None /\ active' = active /\ Settled \in BOOLEAN
    BY <1>0, <1>6 DEF Transition, StateTypes, Coherent, Settled, stateVars
  <2>3. (~r => w # "base") /\ (w = "base" \/ ~Settled => site # None)
    <3>1. CASE Settled
      BY <1>6, <3>1 DEF Transition, Permitted
    <3>2. CASE ~Settled
      BY <1>6, <3>2 DEF Transition, Settled
    <3>. QED
      BY <3>1, <3>2
  <2>4. /\ op'.kind = "website" /\ op'.at = "w_mark" /\ op'.target = w /\ op'.rollback = r
        /\ op'.interrupted = ~Settled /\ op'.previous = site /\ op' \in Operations
    <3>. DEFINE broken == ~Settled
    <3>. HIDE DEF broken
    <3>1. broken \in BOOLEAN /\ op' = [Idle EXCEPT !.kind = "website", !.at = "w_mark", !.target = w, !.rollback = r,
                                                  !.interrupted = broken, !.previous = site]
      BY <2>1, <2>2 DEF broken
    <3>2. /\ op'.kind = "website" /\ op'.at = "w_mark" /\ op'.target = w /\ op'.rollback = r
          /\ op'.interrupted = broken /\ op'.previous = site /\ op' \in Operations
      BY <1>0, <1>6, <2>2, <3>1 DEF Idle, Operations, Stages, Switching
    <3>. QED
      BY <3>2 DEF broken
  <2>. QED
    BY <2>2, <2>3, <2>4 DEF Switching, Deploys, OpInv
<1>7. CASE Complete
  <2>1. op' = [Idle EXCEPT !.kind = "complete", !.at = "check", !.bundle = active.bundle] /\ active.bundle \in Bundles
    BY <1>0, <1>7 DEF Complete, StateTypes, Actives, Coherent
  <2>2. op' \in Operations /\ op'.kind = "complete" /\ op'.at = "check" /\ op'.bundle \in Bundles
    BY <1>0, <2>1 DEF Operations, Idle, Stages, Adopting, Deploys
  <2>. QED
    BY <2>2 DEF OpInv, CompleteStages, Adopting, Deploys
<1>8. ASSUME UnlockedNext, UNCHANGED <<attempts, restoreVars>> PROVE OpInv'
  <2>1. CASE op' = Idle
    BY <2>1, Ended
  <2>2. CASE UNCHANGED <<op, active, seeded>>
    BY <2>2, <1>0 DEF OpInv
  <2>. QED
    BY <1>8, <2>1, <2>2
       DEF stateVars, restoreVars, UnlockedNext, BackupStep, PauseCore, ListCore, PauseEcho, ListEcho, List, Dump, CopyEcho, Resume, Publish, BackupFails, BackupCutOff, Trap, TrapCutOff,
           Crash, Reboot, RunCompose, StartBackup, Compose
<1>. QED
  BY <1>1, <1>2, <1>3, <1>4, <1>5, <1>6, <1>7, <1>8 DEF ProductionNext, ToolStep, Starts

\* What the tools and the wrapper do to containers, beside the end of a failure.
LEMMA ToolsTouch ==
  ASSUME TypeInv, ToolStep \/ Starts \/ RunCompose \/ (\E s \in Services : Compose(s)),
         ~StopOperations, ~OwnBackup("backup", "backing"), ~OwnBackup("verified", "verifying")
  PROVE  Touches /\ (ctr'["core"].up => data' # None)
<1>0. /\ ctr \in Containers /\ job \in Jobs /\ OpInv /\ StateTypes /\ CallTypes
      /\ (ctr["core"].up => data # None) /\ None \notin Bundles
  BY NoneAssumption DEF TypeInv, JobInv
<1>. USE DEF stateVars, hostVars, backupVars, boundVars, restoreVars, At, OpAt
<1>1. CASE UNCHANGED <<ctr, job, data>>
  BY <1>0, <1>1, Standing
<1>2. ASSUME NEW s \in {"gateway", "echo"}, NEW image \in Images, Up(s, image) \/ Recreate(s, image), data' = data
      PROVE  Touches /\ (ctr'["core"].up => data' # None)
  BY <1>0, <1>2, UpTouches, RecreateTouches DEF Services
<1>3. ASSUME NEW b \in Bundles, Up("core", b), data' = b PROVE Touches /\ (ctr'["core"].up => data' # None)
  BY <1>0, <1>3, UpTouches DEF Services, Images
<1>4. ASSUME NEW S \in SUBSET Services, Stop(S), data' = data PROVE Touches /\ (ctr'["core"].up => data' # None)
  BY <1>0, <1>4, StopTouches DEF Services
<1>5. op.kind \in Deploys => op.bundle \in Bundles
  BY <1>0 DEF OpInv
<1>6. ASSUME ActivationStep PROVE Touches /\ (ctr'["core"].up => data' # None)
  <2>1. CASE StopEdge
    BY <2>1, <1>4 DEF StopEdge, Services
  <2>2. CASE UpCore
    <3>1. op.bundle \in Bundles
      BY <2>2, <1>0, <1>5, KindAt DEF UpCore, Starting, Deploys
    <3>. QED
      BY <2>2, <3>1, <1>3 DEF UpCore, Opens
  <2>3. CASE UpGateway \/ UpEcho
    <3>1. op.bundle \in Images
      BY <2>3, <1>0, <1>5, KindAt DEF UpGateway, UpEcho, Starting, Deploys, Images
    <3>. QED
      BY <2>3, <3>1, <1>2 DEF UpGateway, UpEcho
  <2>4. CASE StopAll
    BY <2>4, <1>1, <1>4 DEF StopAll
  <2>5. CASE PauseSchedules \/ SavePrevious \/ MarkActivating \/ WriteEnv \/ Link \/ Point \/ InstallOperations
             \/ CheckRunning \/ CheckPublic
    BY <2>5, <1>1 DEF PauseSchedules, SavePrevious, MarkActivating, WriteEnv, Link, Point, InstallOperations,
       CheckRunning, CheckPublic
  <2>6. CASE BackupDone("backing", "save") \/ BackupDone("verifying", "ready") \/ MarkReady \/ EnableTimers
             \/ ResumeSchedules \/ Abandon \/ MarkFailed
    BY <2>6, <1>1 DEF BackupDone, MarkReady, EnableTimers, ResumeSchedules, Abandon, MarkFailed
  <2>. QED
    BY <1>6, <2>1, <2>2, <2>3, <2>4, <2>5, <2>6 DEF ActivationStep
<1>7. ASSUME WebsiteStep PROVE Touches /\ (ctr'["core"].up => data' # None)
  <2>1. ASSUME NEW w \in Websites \cup {"base"}, NEW at, GatewayUp(w, at), op.kind = "website"
        PROVE Touches /\ (ctr'["core"].up => data' # None)
    <3>1. Image(w) \in Images
      BY <2>1, <1>0 DEF Image, Images, OpInv, StateTypes, Actives
    <3>. QED
      BY <2>1, <3>1, <1>2 DEF GatewayUp
  <2>2. CASE SwitchGateway
    <3>1. op.kind = "website" /\ op.target \in Websites \cup {"base"}
      BY <2>2, <1>0, KindAt DEF SwitchGateway, Switching, OpInv, Operations
    <3>. QED
      BY <2>2, <3>1, <2>1 DEF SwitchGateway
  <2>3. CASE RevertGateway
    <3>1. op.kind = "website" /\ SiteOf(op.previous) \in Websites \cup {"base"}
      BY <2>3, <1>0, KindAt DEF RevertGateway, Switching, OpInv, Operations, SiteOf, Sites
    <3>. QED
      BY <2>3, <3>1, <2>1 DEF RevertGateway
  <2>4. CASE JournalTransition \/ Settle \/ JournalRevert \/ Reverted \/ RevertFails \/ SiteFails
    BY <2>4, <1>1 DEF JournalTransition, Settle, JournalRevert, Reverted, RevertFails, SiteFails, WriteSite
  <2>5. CASE Verify(op.target, "w_check", "w_settle") \/ Verify(SiteOf(op.previous), "w_recheck", "w_reverted")
    BY <2>5, <1>1 DEF Verify
  <2>. QED
    BY <1>7, <2>2, <2>3, <2>4, <2>5 DEF WebsiteStep
<1>8. ASSUME RestoreStep PROVE Touches /\ (ctr'["core"].up => data' # None)
  <2>1. CASE StartRestored
    <3>1. op.bundle \in Bundles
      BY <2>1, <1>0, <1>5, KindAt DEF StartRestored, Restoring, Deploys
    <3>. QED
      BY <2>1, <3>1, <1>3 DEF StartRestored
  <2>2. CASE OpenSnapshot \/ CheckSnapshot \/ RefuseSnapshot \/ RecordRestoring \/ InstallFenced \/ Prepared
             \/ SeedVolume \/ RestoreAbandoned \/ Adopt
    BY <2>2, <1>1 DEF OpenSnapshot, CheckSnapshot, RefuseSnapshot, RecordRestoring, InstallFenced, Prepared,
                      SeedVolume, RestoreAbandoned, Adopt
  <2>. QED
    BY <1>8, <2>1, <2>2 DEF RestoreStep
<1>9. ASSUME Starts \/ \E s \in Services : Compose(s) PROVE Touches /\ (ctr'["core"].up => data' # None)
  BY <1>9, <1>1 DEF Starts, Activate, Prepare, Transition, Complete, Compose
<1>10. ASSUME RunCompose PROVE Touches /\ (ctr'["core"].up => data' # None)
  <2>. DEFINE s == call.service
              b == call.bundle
  <2>1. s \in Services /\ b \in Bundles
    BY <1>10, <1>0 DEF RunCompose, CallTypes
  <2>2. Overlay(s, b) \in Images /\ (s = "core" => Overlay(s, b) = b)
    BY <2>1, <1>0 DEF Overlay, Images, StateTypes, Sites
  <2>3. CASE UNCHANGED <<ctr, data, ran, identity, job>>
    BY <2>3, <1>1
  <2>4. CASE ComposeUp(s, b) /\ s = "core"
    BY <2>1, <2>2, <2>4, <1>3 DEF ComposeUp, Opens
  <2>5. CASE ComposeUp(s, b) /\ s # "core"
    BY <2>1, <2>2, <2>5, <1>2 DEF ComposeUp, Services
  <2>. QED
    BY <1>10, <2>3, <2>4, <2>5 DEF RunCompose
<1>. QED
  BY <1>6, <1>7, <1>8, <1>9, <1>10 DEF ToolStep

-----------------------------------------------------------------------------
(***************************************************************************)
(* The backup script.                                                      *)
(***************************************************************************)
BackupBegins ==
  \E owner \in {"schedule", "operator", "deploy"} :
    job' = [NoJob EXCEPT !.at = "core", !.owner = owner] /\ job.at = "idle" /\ UNCHANGED <<ctr, data, torn, lost>>

\* Steps that leave what the script does alone, and those of the script.
LEMMA BackupSteps ==
  ASSUME TypeInv, ProductionNext
  PROVE  \/ Touches /\ (ctr'["core"].up => data' # None) /\ UNCHANGED torn /\ lost \subseteq lost'
         \/ BackupBegins
         \/ StopOperations \/ BackupStep \/ BackupCutOff \/ Crash \/ Reboot
<1>. USE DEF stateVars, hostVars, backupVars, boundVars, restoreVars
<1>1. ASSUME ActivationStep \/ WebsiteStep \/ RestoreStep PROVE StopOperations \/ (UNCHANGED torn /\ lost \subseteq lost')
  <2>1. ASSUME ActivationStep PROVE StopOperations \/ (UNCHANGED torn /\ lost \subseteq lost')
    <3>1. CASE MarkFailed \/ StopAll
      BY <3>1 DEF MarkFailed, StopAll, Notes
    <3>2. CASE PauseSchedules \/ SavePrevious \/ MarkActivating \/ WriteEnv \/ Link \/ Point \/ InstallOperations \/ StopEdge
               \/ UpCore \/ UpGateway \/ UpEcho \/ CheckRunning \/ CheckPublic \/ MarkReady
      BY <3>2 DEF PauseSchedules, SavePrevious, MarkActivating, WriteEnv, Link, Point, InstallOperations, StopEdge,
                  UpCore, UpGateway, UpEcho, CheckRunning, CheckPublic, MarkReady
    <3>3. CASE OwnBackup("backup", "backing") \/ BackupDone("backing", "save") \/ OwnBackup("verified", "verifying")
               \/ BackupDone("verifying", "ready") \/ EnableTimers \/ ResumeSchedules \/ Abandon
      BY <3>3 DEF OwnBackup, BackupDone, EnableTimers, ResumeSchedules, Abandon
    <3>4. CASE StopOperations
      BY <3>4
    <3>. QED
      BY <2>1, <3>1, <3>2, <3>3, <3>4 DEF ActivationStep
  <2>2. ASSUME WebsiteStep PROVE UNCHANGED torn /\ lost \subseteq lost'
    BY <2>2
       DEF WebsiteStep, JournalTransition, SwitchGateway, Settle, Verify, SiteFails, JournalRevert, RevertGateway, Reverted,
           RevertFails, WriteSite, GatewayUp
  <2>3. ASSUME RestoreStep PROVE UNCHANGED torn /\ lost \subseteq lost'
    BY <2>3
       DEF RestoreStep, OpenSnapshot, CheckSnapshot, RefuseSnapshot, RecordRestoring, StartRestored, InstallFenced, Prepared,
           SeedVolume, RestoreAbandoned, Adopt
  <2>. QED
    BY <1>1, <2>1, <2>2, <2>3
<1>2. ASSUME NEW at, NEW waiting, OwnBackup(at, waiting) PROVE BackupBegins
  BY <1>2 DEF OwnBackup, CanBackUp, BeginBackup, BackupBegins
<1>3. ASSUME NEW owner \in {"schedule", "operator"}, StartBackup(owner) PROVE BackupBegins
  BY <1>3 DEF StartBackup, CanBackUp, BeginBackup, BackupBegins
<1>4. ASSUME Starts \/ RunCompose \/ \E s \in Services : Compose(s) PROVE UNCHANGED torn /\ lost \subseteq lost'
  BY <1>4 DEF Starts, Activate, Prepare, Transition, Complete, RunCompose, Compose
<1>. QED
  BY <1>1, <1>2, <1>3, <1>4, ToolsTouch DEF ProductionNext, UnlockedNext, ToolStep

\* The containers keep their type, and the script what it knows of them.
LEMMA JobKept ==
  ASSUME TypeInv, ProductionNext
  PROVE  ctr' \in Containers /\ JobInv'
<1>0. /\ ctr \in Containers /\ JobInv /\ data \in Bundles \cup {None} /\ NoJob \in Jobs
      /\ NoJob.at = "idle" /\ NoJob.paused = {} /\ NoJob.gone = {} /\ NoJob.live = {} /\ Writers \subseteq Services
  BY DEF TypeInv, StateTypes, NoJob, Jobs, Writers, Services
<1>. USE DEF stateVars, hostVars, backupVars, boundVars
<1>1. CASE Touches /\ (ctr'["core"].up => data' # None)
  BY <1>0, <1>1 DEF Touches, JobInv
<1>2. CASE job' = NoJob /\ UNCHANGED data /\ \E S : ctr' = Unpaused(S)
  BY <1>0, <1>2, Resuming DEF JobInv, Services
<1>3. CASE job' = NoJob /\ UNCHANGED <<ctr, data>>
  BY <1>0, <1>3 DEF JobInv
<1>4. CASE BackupBegins
  <2>1. job' \in Jobs /\ job'.at = "core" /\ job'.paused = {} /\ job'.gone = {} /\ job'.live = {}
    BY <1>4 DEF BackupBegins, NoJob, Jobs
  <2>. QED
    BY <1>0, <1>4, <2>1 DEF BackupBegins, JobInv
<1>5. CASE StopOperations
  BY <1>0, <1>1, <1>2, <1>5, Standing DEF StopOperations, Trap, TrapCutOff, JobInv
<1>6. CASE BackupFails \/ BackupCutOff \/ Publish \/ Reboot
  BY <1>2, <1>3, <1>6 DEF BackupFails, BackupCutOff, Trap, TrapCutOff, Publish, Reboot
<1>7. CASE PauseCore
  <2>1. job' = [job EXCEPT !.at = "listCore", !.paused = @ \cup {"core"}] /\ job.at = "core" /\ job.paused = {} /\ UNCHANGED data
        /\ ctr' = [ctr EXCEPT !["core"].paused = TRUE] /\ job.gone = {} /\ job.live = {}
    BY <1>0, <1>7 DEF PauseCore, Reaches, Pause, JobInv
  <2>2. job' \in Jobs /\ job'.at = "listCore" /\ job'.paused = {"core"} /\ job'.gone = {} /\ job'.live = {}
    BY <1>0, <2>1 DEF Jobs, JobInv, Writers
  <2>3. ctr' \in Containers /\ ctr'["core"].up = ctr["core"].up
    BY <1>0, <2>1, Pausing DEF Services
  <2>. QED
    BY <1>0, <2>1, <2>2, <2>3 DEF JobInv
<1>8. CASE PauseEcho
  <2>1. job.at = "echo" /\ job.paused = {"core"} /\ UNCHANGED data
    BY <1>0, <1>8 DEF PauseEcho, Reaches, JobInv
  <2>2. CASE Pause("echo", "listEcho")
    <3>1. job' \in Jobs /\ job'.at = "listEcho" /\ job'.paused = {"core", "echo"} /\ job'.gone = job.gone /\ job'.live = job.live
      BY <1>0, <2>1, <2>2 DEF Pause, Jobs, JobInv, Writers
    <3>2. ctr' \in Containers /\ ctr'["core"].up = ctr["core"].up
      BY <1>0, <2>2, Pausing DEF Pause, Services
    <3>. QED
      BY <1>0, <2>1, <3>1, <3>2 DEF JobInv
  <2>3. CASE job' = [job EXCEPT !.at = "dump"] /\ UNCHANGED ctr
    BY <1>0, <2>1, <2>3 DEF JobInv, Jobs
  <2>. QED
    BY <1>8, <2>2, <2>3 DEF PauseEcho
<1>9. CASE Dump
  <2>1. job' = [job EXCEPT !.at = "copy", !.of = data] /\ job.at = "dump" /\ data # None /\ UNCHANGED <<ctr, data>>
    BY <1>0, <1>9 DEF Dump, Reaches, Proceeds, JobInv
  <2>2. job' \in Jobs /\ job'.at = "copy" /\ job'.of = data /\ job'.paused = job.paused /\ job'.gone = job.gone
    BY <1>0, <2>1 DEF Jobs, JobInv
  <2>. QED
    BY <1>0, <2>1, <2>2 DEF JobInv
<1>10. CASE ListCore \/ ListEcho \/ CopyEcho
  BY <1>0, <1>10 DEF ListCore, ListEcho, List, CopyEcho, Reaches, JobInv, Jobs
<1>11. CASE Resume
  <2>1. job.at = "resume" /\ job.gone = {} /\ job' = [job EXCEPT !.at = "publish", !.paused = {}] /\ UNCHANGED data
    BY <1>11 DEF Resume, Reaches, Proceeds
  <2>2. job' \in Jobs /\ job'.at = "publish" /\ job'.paused = {} /\ job'.gone = {} /\ job'.of = job.of
    BY <1>0, <2>1 DEF Jobs, JobInv
  <2>3. ctr' \in Containers /\ ctr'["core"].up = ctr["core"].up
    BY <1>0, <1>11, Resuming DEF Resume, Services
  <2>. QED
    BY <1>0, <2>1, <2>2, <2>3 DEF JobInv
<1>12. CASE Crash
  BY <1>0, <1>12 DEF Crash, JobInv, Jobs, NoJob
<1>. QED
  BY <1>1, <1>4, <1>5, <1>6, <1>7, <1>8, <1>9, <1>10, <1>11, <1>12, BackupSteps DEF BackupStep

\* Writers are paused only by the script at work, which will find them again; a
\* core that came up while it was copied had been stopped, and is missed.
PausedInv ==
  "resume" \notin lost => \A s \in Services : ctr[s].paused => s \in lost \cup (job.paused \ job.gone)
CopyInv == "core" \notin torn /\ ("core" \in job.live => "core" \in job.gone)

\* No writer is left paused, and no core copied while it ran.
LEMMA PausesKept ==
  ASSUME TypeInv, PausedInv, CopyInv, ProductionNext
  PROVE  PausedInv' /\ CopyInv'
<1>0. /\ ctr \in Containers /\ JobInv /\ job \in Jobs
      /\ NoJob.paused = {} /\ NoJob.gone = {} /\ NoJob.live = {} /\ Writers \subseteq Services
  BY DEF TypeInv, JobInv, NoJob, Writers, Services
<1>. USE DEF stateVars, hostVars, backupVars, boundVars, PausedInv, CopyInv
<1>1. CASE Touches /\ UNCHANGED torn /\ lost \subseteq lost'
  <2>1. "core" \in job'.live => "core" \in job'.gone
    BY <1>0, <1>1 DEF Touches, JobInv
  <2>. QED
    BY <1>0, <1>1, <2>1 DEF Touches
<1>2. CASE job' = NoJob /\ Trap /\ UNCHANGED torn
  <2>1. Resumable \subseteq Services /\ lost \subseteq lost' /\ \A s \in job.paused \ job.gone : s \in lost' \cup Resumable
    BY <1>0, <1>2 DEF Trap, Resumable, Jobs
  <2>. QED
    BY <1>0, <1>2, <2>1, Resuming DEF Trap
<1>14. CASE job' = NoJob /\ TrapCutOff /\ UNCHANGED torn
  BY <1>0, <1>14 DEF TrapCutOff
<1>3. CASE BackupBegins
  <2>1. job = NoJob /\ job'.paused = {} /\ job'.gone = {} /\ job'.live = {}
    BY <1>0, <1>3 DEF BackupBegins, JobInv, NoJob
  <2>. QED
    BY <1>0, <1>3, <2>1 DEF BackupBegins
<1>4. CASE StopOperations
  BY <1>0, <1>1, <1>2, <1>4, <1>14, Standing DEF StopOperations, Notes
<1>5. CASE BackupFails
  BY <1>2, <1>5 DEF BackupFails
<1>6. CASE BackupCutOff
  BY <1>6, <1>14 DEF BackupCutOff
<1>7. CASE Reboot
  <2>1. ctr' = Unpaused(Services) /\ job' = NoJob /\ torn' = torn
    BY <1>7 DEF Reboot
  <2>. QED
    BY <1>0, <2>1, Resuming
<1>8. CASE Publish
  <2>1. job.at = "publish" /\ torn' = torn \cup job.live \cup job.gone /\ job' = NoJob /\ UNCHANGED <<ctr, lost>>
    BY <1>8 DEF Publish, Reaches
  <2>2. job.paused = {} /\ job.gone = {}
    BY <1>0, <2>1 DEF JobInv
  <2>. QED
    BY <1>0, <2>1, <2>2
<1>9. CASE PauseCore
  <2>1. job' = [job EXCEPT !.at = "listCore", !.paused = @ \cup {"core"}] /\ job.paused = {} /\ job.gone = {} /\ UNCHANGED <<torn, lost>>
        /\ ctr' = [ctr EXCEPT !["core"].paused = TRUE]
    BY <1>0, <1>9 DEF PauseCore, Reaches, Pause, JobInv
  <2>2. job'.paused = {"core"} /\ job'.gone = {} /\ job'.live = job.live
    BY <1>0, <2>1 DEF Jobs
  <2>. QED
    BY <1>0, <2>1, <2>2, Pausing DEF Services
<1>10. CASE PauseEcho
  <2>1. job.at = "echo" /\ job.paused = {"core"} /\ job.gone \subseteq {"core"} /\ UNCHANGED <<torn, lost>>
    BY <1>0, <1>10 DEF PauseEcho, Reaches, JobInv
  <2>2. CASE Pause("echo", "listEcho")
    <3>1. job'.paused = {"core", "echo"} /\ job'.gone = job.gone /\ job'.live = job.live
          /\ ctr' = [ctr EXCEPT !["echo"].paused = TRUE]
      BY <1>0, <2>1, <2>2 DEF Pause, Jobs
    <3>. QED
      BY <1>0, <2>1, <3>1, Pausing DEF Services
  <2>3. CASE job' = [job EXCEPT !.at = "dump"] /\ UNCHANGED ctr
    BY <1>0, <2>1, <2>3 DEF Jobs
  <2>. QED
    BY <1>10, <2>2, <2>3 DEF PauseEcho
<1>11. CASE ListCore \/ ListEcho \/ Dump \/ CopyEcho
  <2>1. job'.paused = job.paused /\ job'.gone = job.gone /\ job'.live = job.live /\ UNCHANGED <<ctr, torn, lost>>
    BY <1>0, <1>11 DEF ListCore, ListEcho, List, Dump, CopyEcho, Jobs
  <2>. QED
    BY <2>1
<1>12. CASE Resume
  <2>1. job.gone = {} /\ job' = [job EXCEPT !.at = "publish", !.paused = {}] /\ ctr' = Unpaused(job.paused) /\ UNCHANGED <<torn, lost>>
    BY <1>12 DEF Resume, Reaches, Proceeds
  <2>2. job'.paused = {} /\ job'.gone = {} /\ job'.live = job.live
    BY <1>0, <2>1 DEF Jobs
  <2>. QED
    BY <1>0, <2>1, <2>2, Resuming
<1>13. CASE Crash
  BY <1>0, <1>13 DEF Crash, Jobs
<1>. QED
  BY <1>1, <1>3, <1>4, <1>5, <1>6, <1>7, <1>8, <1>9, <1>10, <1>11, <1>12, <1>13, BackupSteps DEF BackupStep

-----------------------------------------------------------------------------
(***************************************************************************)
(* Who writes what.                                                        *)
(***************************************************************************)
Writes ==
  /\ UNCHANGED active \/ MarkActivating \/ MarkReady \/ MarkFailed
  /\ UNCHANGED env \/ WriteEnv
  /\ UNCHANGED current \/ Point
  /\ UNCHANGED wrapper \/ InstallOperations \/ InstallFenced
  /\ UNCHANGED timers \/ PauseSchedules \/ EnableTimers \/ ResumeSchedules \/ StopOperations \/ InstallFenced \/ Reboot
  /\ UNCHANGED <<data, ran, identity>> \/ UpCore \/ StartRestored \/ RunCompose
  /\ UNCHANGED <<backed, torn>> \/ Publish
  /\ UNCHANGED attempts \/ \E b \in Bundles : Activate(b)
  /\ UNCHANGED <<key, whole, seeded>> \/ OpenSnapshot \/ RefuseSnapshot \/ SeedVolume
  /\ \/ UNCHANGED restore \/ RecordRestoring \/ Prepared \/ Complete \/ Adopt
     \/ StopAll /\ op.kind # "activate" /\ restore' = "failed"
  /\ \/ UNCHANGED own
     \/ OwnBackup("backup", "backing") \/ OwnBackup("verified", "verifying")
     \/ BackupDone("backing", "save") \/ BackupDone("verifying", "ready")
     \/ ResumeSchedules \/ Abandon \/ Crash \/ Reboot
     \/ Publish \/ BackupFails \/ BackupCutOff
  /\ op.at \in {"backing", "verifying"} =>
       UNCHANGED op \/ (own' = "none" /\ (own = "ok" \/ op' = Idle \/ Goto("failed")))
  /\ lost \subseteq lost'

\* Each variable is written by these actions only.
LEMMA Written == ASSUME ProductionNext PROVE Writes /\ (next' \in {next, TRUE, FALSE}) /\ (UNCHANGED site \/ WebsiteStep)
<1>. USE DEF stateVars, hostVars, backupVars, boundVars, restoreVars, Writes
<1>. DEFINE Goal == Writes /\ (next' \in {next, TRUE, FALSE}) /\ (UNCHANGED site \/ WebsiteStep)
<1>1. ASSUME ActivationStep, RecordFailed, UNCHANGED <<key, whole, seeded>> PROVE Goal
  <2>0. UNCHANGED restore \/ (op.kind # "activate" /\ At("stop") /\ restore' = "failed")
    BY <1>1 DEF RecordFailed
  <2>1. CASE PauseSchedules
    BY <1>1, <2>0, <2>1 DEF PauseSchedules, At, OpAt
  <2>2. CASE SavePrevious
    BY <1>1, <2>0, <2>2 DEF SavePrevious, At, OpAt
  <2>3. CASE MarkActivating
    BY <1>1, <2>0, <2>3 DEF MarkActivating, At, OpAt
  <2>4. CASE WriteEnv
    BY <1>1, <2>0, <2>4 DEF WriteEnv, At, OpAt
  <2>5. CASE Link
    BY <1>1, <2>0, <2>5 DEF Link, At, OpAt
  <2>6. CASE Point
    BY <1>1, <2>0, <2>6 DEF Point, At, OpAt
  <2>7. CASE InstallOperations
    BY <1>1, <2>0, <2>7 DEF InstallOperations, At, OpAt
  <2>8. CASE StopEdge
    BY <1>1, <2>0, <2>8 DEF StopEdge, At, OpAt
  <2>9. CASE UpCore
    BY <1>1, <2>0, <2>9 DEF UpCore, At, OpAt
  <2>10. CASE UpGateway
    BY <1>1, <2>0, <2>10 DEF UpGateway, At, OpAt
  <2>11. CASE UpEcho
    BY <1>1, <2>0, <2>11 DEF UpEcho, At, OpAt
  <2>12. CASE CheckRunning
    BY <1>1, <2>0, <2>12 DEF CheckRunning, At, OpAt
  <2>13. CASE CheckPublic
    BY <1>1, <2>0, <2>13 DEF CheckPublic, At, OpAt
  <2>14. CASE MarkReady
    BY <1>1, <2>0, <2>14 DEF MarkReady, At, OpAt
  <2>15. CASE EnableTimers
    BY <1>1, <2>0, <2>15 DEF EnableTimers, At, OpAt
  <2>16. CASE ResumeSchedules
    BY <1>1, <2>0, <2>16 DEF ResumeSchedules, At, OpAt
  <2>17. CASE Abandon
    BY <1>1, <2>0, <2>17 DEF Abandon, At, After
  <2>18. CASE MarkFailed
    BY <1>1, <2>0, <2>18 DEF MarkFailed, At, Notes
  <2>19. CASE StopOperations
    BY <1>1, <2>0, <2>19 DEF StopOperations, At, Notes, Trap, TrapCutOff
  <2>20. CASE StopAll
    BY <1>1, <2>0, <2>20 DEF StopAll, Notes, At
  <2>21. CASE OwnBackup("backup", "backing")
    BY <1>1, <2>0, <2>21 DEF OwnBackup, At, OpAt
  <2>22. CASE OwnBackup("verified", "verifying")
    BY <1>1, <2>0, <2>22 DEF OwnBackup, At, OpAt
  <2>23. CASE BackupDone("backing", "save")
    BY <1>1, <2>0, <2>23 DEF BackupDone, At, OpAt
  <2>24. CASE BackupDone("verifying", "ready")
    BY <1>1, <2>0, <2>24 DEF BackupDone, At, OpAt
  <2>. QED
    BY <1>1, <2>1, <2>2, <2>3, <2>4, <2>5, <2>6, <2>7, <2>8, <2>9, <2>10, <2>11, <2>12, <2>13, <2>14, <2>15, <2>16,
       <2>17, <2>18, <2>19, <2>20, <2>21, <2>22, <2>23, <2>24 DEF ActivationStep
<1>2. ASSUME WebsiteStep, UNCHANGED restoreVars PROVE Goal
  <2>1. UNCHANGED <<active, env, current, next, wrapper, timers, data, ran, identity, backed, torn, own, lost, attempts, restoreVars>>
    BY <1>2
       DEF WebsiteStep, JournalTransition, SwitchGateway, Settle, Verify, SiteFails, JournalRevert, RevertGateway, Reverted,
           RevertFails, WriteSite, GatewayUp
  <2>2. op.at \notin {"backing", "verifying"}
    BY <1>2
       DEF WebsiteStep, JournalTransition, SwitchGateway, Settle, Verify, SiteFails, JournalRevert, RevertGateway, Reverted,
           RevertFails, At
  <2>. QED
    BY <1>2, <2>1, <2>2
<1>3. ASSUME RestoreStep PROVE Goal
  <2>1. CASE OpenSnapshot
    BY <2>1 DEF OpenSnapshot, At, Idle
  <2>2. CASE CheckSnapshot
    BY <2>2 DEF CheckSnapshot, At, Idle
  <2>3. CASE RefuseSnapshot
    BY <2>3 DEF RefuseSnapshot, At, Idle
  <2>4. CASE RecordRestoring
    BY <2>4 DEF RecordRestoring, At, Idle
  <2>5. CASE StartRestored
    BY <2>5 DEF StartRestored, At, Idle
  <2>6. CASE InstallFenced
    BY <2>6 DEF InstallFenced, At, Idle
  <2>7. CASE Prepared
    BY <2>7 DEF Prepared, At, Idle
  <2>8. CASE SeedVolume
    BY <2>8 DEF SeedVolume, At, Idle
  <2>9. CASE RestoreAbandoned
    BY <2>9 DEF RestoreAbandoned, At, Idle
  <2>10. CASE Adopt
    BY <2>10 DEF Adopt, At, Idle
  <2>. QED
    BY <1>3, <2>1, <2>2, <2>3, <2>4, <2>5, <2>6, <2>7, <2>8, <2>9, <2>10 DEF RestoreStep
<1>4. ASSUME Starts PROVE Goal
  <2>1. CASE \E b \in Bundles : Activate(b) /\ UNCHANGED restoreVars
    <3>1. PICK b \in Bundles : Activate(b) /\ UNCHANGED restoreVars
      BY <2>1
    <3>2. op.at = "idle" /\ UNCHANGED <<stateVars, hostVars, backupVars, boundVars, restoreVars>>
      BY <3>1 DEF Activate, Idle
    <3>. QED
      BY <3>1, <3>2
  <2>2. CASE \E b \in Bundles : Prepare(b)
    BY <2>2 DEF Prepare, At, Idle
  <2>3. CASE \E w \in Websites \cup {"base"}, r \in BOOLEAN : Transition(w, r) /\ UNCHANGED restoreVars
    BY <2>3 DEF Transition, At, Idle
  <2>4. CASE Complete
    BY <2>4 DEF Complete, At, Idle
  <2>. QED
    BY <1>4, <2>1, <2>2, <2>3, <2>4 DEF Starts
<1>5. ASSUME UnlockedNext, UNCHANGED <<attempts, restoreVars>> PROVE Goal
  <2>1. CASE ListCore \/ ListEcho \/ PauseCore
    BY <1>5, <2>1 DEF ListCore, ListEcho, List, PauseCore
  <2>2. CASE PauseEcho
    BY <1>5, <2>2 DEF PauseEcho
  <2>3. CASE Dump
    BY <1>5, <2>3 DEF Dump
  <2>4. CASE CopyEcho
    BY <1>5, <2>4 DEF CopyEcho
  <2>5. CASE Resume
    BY <1>5, <2>5 DEF Resume
  <2>6. CASE Publish
    BY <1>5, <2>6 DEF Publish
  <2>7. CASE BackupFails
    BY <1>5, <2>7 DEF BackupFails, Trap
  <2>8. CASE BackupCutOff
    BY <1>5, <2>8 DEF BackupCutOff, TrapCutOff
  <2>9. CASE Crash
    BY <1>5, <2>9 DEF Crash
  <2>10. CASE Reboot
    BY <1>5, <2>10 DEF Reboot
  <2>11. CASE RunCompose
    BY <1>5, <2>11 DEF RunCompose
  <2>12. CASE \E owner \in {"schedule", "operator"} : StartBackup(owner)
    BY <1>5, <2>12 DEF StartBackup, Idle
  <2>13. CASE \E s \in Services : Compose(s)
    BY <1>5, <2>13 DEF Compose
  <2>. QED
    BY <1>5, <2>1, <2>2, <2>3, <2>4, <2>5, <2>6, <2>7, <2>8, <2>9, <2>10, <2>11, <2>12, <2>13 DEF UnlockedNext, BackupStep
<1>. QED
  BY <1>1, <1>2, <1>3, <1>4, <1>5 DEF ProductionNext, ToolStep

-----------------------------------------------------------------------------
(***************************************************************************)
(* The state files, the data and the calls keep their types.               *)
(***************************************************************************)
\* A marker names the bundle of a deployment.
LEMMA MarkerTyped ==
  ASSUME OpInv, NEW status \in {"activating", "ready", "failed"}, op.kind \in Deploys
  PROVE  Marker(status) \in Actives /\ Marker(status) # None /\ op.bundle \in Bundles
<1>1. op.bundle \in Bundles /\ (op.kind # "activate") \in BOOLEAN
  BY DEF OpInv
<1>2. Marker(status) \in Actives
  BY <1>1 DEF Marker, Actives
<1>. QED
  BY <1>1, <1>2, NoneAssumption DEF Actives

\* The website's marker keeps its type.
LEMMA SiteKept ==
  ASSUME TypeInv, WebsiteStep
  PROVE  site' \in Sites \cup {None}
<1>0. StateTypes /\ OpInv
  BY DEF TypeInv
<1>. USE DEF StateTypes, stateVars, hostVars, backupVars, boundVars, At, OpAt
<1>1. op.at \in Switching => /\ op.target \in Websites \cup {"base"} /\ op.previous \in Sites \cup {None}
                             /\ op.rollback \/ op.target \in Websites
                             /\ op.target = "base" \/ op.interrupted => op.previous \in Sites
  BY <1>0, KindAt DEF OpInv, Operations
<1>2. SiteOf(op.previous) \in Websites \cup {"base"} \/ op.at \notin Switching
  BY <1>1 DEF SiteOf, Sites
<1>3. site' \in Sites \cup {None}
  <2>1. CASE JournalTransition
    BY <1>0, <1>1, <1>2, <2>1 DEF JournalTransition, Journals, WriteSite, Pending, SiteRecord, Sites, Switching
  <2>2. CASE Settle \/ JournalRevert
    BY <1>0, <1>1, <1>2, <2>2 DEF Settle, JournalRevert, WriteSite, SiteRecord, Sites, Switching
  <2>3. CASE SiteFails \/ Reverted
    <3>1. op.at \in Switching /\ (site' = site \/ site' = op.previous
                                  \/ (op.interrupted /\ site' = [op.previous EXCEPT !.status = "failed"]))
      BY <2>3 DEF SiteFails, Reverted, WriteSite, Switching
    <3>. QED
      BY <1>0, <1>1, <3>1 DEF Sites
  <2>4. CASE SwitchGateway \/ RevertGateway \/ RevertFails \/ Verify(op.target, "w_check", "w_settle")
             \/ Verify(SiteOf(op.previous), "w_recheck", "w_reverted")
    BY <1>0, <2>4 DEF SwitchGateway, RevertGateway, RevertFails, Verify, GatewayUp
  <2>. QED
    BY <2>1, <2>2, <2>3, <2>4 DEF WebsiteStep
<1>. QED
  BY <1>3

\* The state files and what is on the volumes keep theirs.
LEMMA StateKept ==
  ASSUME TypeInv, ProductionNext
  PROVE  StateTypes'
<1>0. StateTypes /\ CallTypes /\ OpInv /\ Len(Volumes) = 5 /\ job \in Jobs /\ Writes
      /\ (job.at = "publish" => job.of \in Bundles)
  BY FiveVolumes, Written DEF TypeInv, JobInv, Jobs
<1>1. op.kind \in Deploys => op.bundle \in Bundles /\ \A status \in {"activating", "ready", "failed"} : Marker(status) \in Actives
  BY <1>0, MarkerTyped
<1>2. op.at \in Marking \cup Starting \cup Restoring \cup Adopting \cup Failing => op.kind \in Deploys
  BY <1>0, KindAt DEF Deploys
<1>. USE DEF Marking, Starting, Restoring, Adopting, Failing, At
<1>3. active' \in Actives \cup {None}
  <2>1. CASE MarkActivating \/ MarkReady \/ MarkFailed
    BY <1>0, <1>1, <1>2, <2>1 DEF MarkActivating, MarkReady, MarkFailed, StateTypes
  <2>. QED
    BY <1>0, <2>1 DEF Writes, StateTypes
<1>4. env' \in Bundles \cup {"development", "absent"} /\ current' \in Bundles \cup {None}
  BY <1>0, <1>1, <1>2 DEF Writes, WriteEnv, Point, StateTypes
<1>5. next' \in BOOLEAN /\ wrapper' \in BOOLEAN
  BY <1>0, Written DEF Writes, InstallOperations, InstallFenced, StateTypes
<1>6. site' \in Sites \cup {None}
  BY <1>0, Written, SiteKept DEF StateTypes
<1>7. timers' \in [enabled : BOOLEAN, active : BOOLEAN]
  <2>0. timers \in [enabled : BOOLEAN, active : BOOLEAN] /\ op.resume \in BOOLEAN
    BY <1>0 DEF StateTypes, OpInv, Operations
  <2>1. CASE PauseSchedules \/ InstallFenced
    BY <2>0, <2>1 DEF PauseSchedules, InstallFenced
  <2>2. CASE timers' = [enabled |-> TRUE, active |-> TRUE] \/ timers' = [enabled |-> FALSE, active |-> FALSE]
    <3>1. \A a \in BOOLEAN : [enabled |-> a, active |-> a] \in [enabled : BOOLEAN, active : BOOLEAN]
      OBVIOUS
    <3>. QED
      BY <2>2, <3>1
  <2>3. CASE ResumeSchedules
    BY <2>0, <2>3 DEF ResumeSchedules
  <2>4. CASE Reboot
    BY <2>0, <2>4 DEF Reboot
  <2>. QED
    BY <1>0, <2>0, <2>1, <2>2, <2>3, <2>4 DEF Writes, EnableTimers, StopOperations
<1>8. data' \in Bundles \cup {None} /\ ran' \subseteq Bundles /\ identity' \in {None, "new", "original"}
  <2>1. CASE UpCore \/ StartRestored
    BY <1>0, <1>1, <1>2, <2>1 DEF UpCore, StartRestored, Opens, StateTypes
  <2>2. CASE RunCompose
    <3>1. call.bundle \in Bundles
      BY <1>0, <2>2 DEF CallTypes, RunCompose
    <3>. QED
      BY <1>0, <2>2, <3>1 DEF RunCompose, ComposeUp, Opens, StateTypes
  <2>. QED
    BY <1>0, <2>1, <2>2 DEF Writes, StateTypes
<1>9. backed' \subseteq Bundles /\ torn' \subseteq Writers
  BY <1>0 DEF Writes, Publish, Reaches, Jobs, StateTypes
<1>10. own' \in {"none", "running", "ok", "failed"}
  BY <1>0 DEF Writes, OwnBackup, BackupDone, ResumeSchedules, Abandon, Crash, Reboot, Publish, BackupFails,
     BackupCutOff, Trap, TrapCutOff, Outcome,
              StateTypes
<1>11. attempts' \subseteq Bundles
  BY <1>0 DEF Writes, Activate, StateTypes
<1>12. restore' \in {"none", "restoring", "private", "completing", "complete", "failed"}
  BY <1>0 DEF Writes, RecordRestoring, Prepared, Complete, Adopt, StateTypes
<1>13. key' \in BOOLEAN /\ whole' \in BOOLEAN
  BY <1>0 DEF Writes, OpenSnapshot, RefuseSnapshot, SeedVolume, restoreVars, StateTypes
<1>14. seeded' \in 0 .. Len(Volumes)
  <2>1. CASE SeedVolume
    <3>1. seeded < 5 /\ seeded' = seeded + 1 /\ seeded \in Nat
      BY <1>0, <2>1, KindAt DEF SeedVolume, OpInv, StateTypes
    <3>. QED
      BY <1>0, <3>1
  <2>. QED
    BY <1>0, <2>1 DEF Writes, OpenSnapshot, RefuseSnapshot, StateTypes
<1>. QED
  BY <1>3, <1>4, <1>5, <1>6, <1>7, <1>8, <1>9, <1>10, <1>11, <1>12, <1>13, <1>14 DEF StateTypes

Failures == {"wrapper", "tool", "resume", "marker", "fence", "stop"} \cup Writers
\* What a fault costs, and what it excuses.
LEMMA Charged ==
  ASSUME CallTypes, UNCHANGED fuel \/ Spend, call' \in {call, None}, wrapper' \in {wrapper, TRUE},
         lost \subseteq lost' /\ lost' \subseteq lost \cup Failures
  PROVE  CallTypes'
<1>1. fuel' \in Nat
  <2>1. fuel \in Nat
    BY DEF CallTypes
  <2>2. CASE Spend
    BY <2>1, <2>2 DEF Spend
  <2>. QED
    BY <2>1, <2>2
<1>2. lost' \subseteq Failures
  BY DEF CallTypes, Failures
<1>3. call' # None => wrapper'
  BY DEF CallTypes
<1>. QED
  BY <1>1, <1>2, <1>3 DEF CallTypes, Failures

\* Only a writer is paused and not yet in the list.
LEMMA Leftover == Unlisted \subseteq Writers
  BY DEF Unlisted, Writers

\* Wrapper calls, excuses and the bound keep their types.
LEMMA CallsKept ==
  ASSUME TypeInv, ProductionNext
  PROVE  CallTypes'
<1>0. StateTypes /\ CallTypes
  BY DEF TypeInv
<1>. USE DEF stateVars, hostVars, backupVars, boundVars, restoreVars
<1>1. ASSUME ActivationStep PROVE CallTypes'
  <2>1. /\ UNCHANGED call /\ wrapper' \in {wrapper, TRUE} /\ (UNCHANGED fuel \/ Spend)
        /\ lost \subseteq lost' /\ lost' \subseteq lost \cup Failures
    <3>. DEFINE Fact == /\ UNCHANGED call /\ wrapper' \in {wrapper, TRUE} /\ (UNCHANGED fuel \/ Spend)
                        /\ lost \subseteq lost' /\ lost' \subseteq lost \cup Failures
    <3>1. CASE PauseSchedules \/ SavePrevious \/ MarkActivating \/ WriteEnv \/ Link \/ Point \/ InstallOperations \/ StopEdge
               \/ UpCore \/ UpGateway \/ UpEcho \/ CheckRunning \/ CheckPublic \/ MarkReady
      BY <3>1
         DEF PauseSchedules, SavePrevious, MarkActivating, WriteEnv, Link, Point, InstallOperations, StopEdge,
             UpCore, UpGateway, UpEcho, CheckRunning, CheckPublic, MarkReady
    <3>2. CASE OwnBackup("backup", "backing") \/ BackupDone("backing", "save") \/ OwnBackup("verified", "verifying")
               \/ BackupDone("verifying", "ready") \/ EnableTimers \/ ResumeSchedules \/ Abandon
      BY <3>2 DEF OwnBackup, BackupDone, EnableTimers, ResumeSchedules, Abandon, Breaks
    <3>3. CASE MarkFailed \/ StopOperations \/ StopAll
      BY <3>3, Leftover DEF MarkFailed, StopOperations, StopAll, Notes, Failures, Trap, TrapCutOff
    <3>. QED
      BY <1>1, <3>1, <3>2, <3>3 DEF ActivationStep
  <2>. QED
    BY <1>0, <2>1, Charged
<1>2. ASSUME WebsiteStep PROVE CallTypes'
  <2>1. UNCHANGED <<call, lost, wrapper>> /\ (UNCHANGED fuel \/ Spend)
    BY <1>2
       DEF WebsiteStep, JournalTransition, SwitchGateway, Settle, Verify, SiteFails, JournalRevert, RevertGateway, Reverted,
           RevertFails, WriteSite, GatewayUp
  <2>. QED
    BY <1>0, <2>1, Charged
<1>3. ASSUME RestoreStep PROVE CallTypes'
  <2>1. UNCHANGED <<call, lost>> /\ wrapper' \in {wrapper, TRUE} /\ (UNCHANGED fuel \/ Spend)
    BY <1>3
       DEF RestoreStep, OpenSnapshot, CheckSnapshot, RefuseSnapshot, RecordRestoring, StartRestored, InstallFenced, Prepared,
           SeedVolume, RestoreAbandoned, Adopt
  <2>. QED
    BY <1>0, <2>1, Charged
<1>4. ASSUME Starts PROVE CallTypes'
  <2>1. UNCHANGED <<call, lost, wrapper, fuel>>
    BY <1>4 DEF Starts, Activate, Prepare, Transition, Complete
  <2>. QED
    BY <1>0, <2>1, Charged
<1>5. ASSUME UnlockedNext PROVE CallTypes'
  <2>1. CASE PauseCore \/ ListCore \/ PauseEcho \/ ListEcho \/ Dump \/ CopyEcho \/ Resume \/ Publish
    BY <1>0, <2>1, Charged DEF PauseCore, ListCore, PauseEcho, ListEcho, List, Dump, CopyEcho, Resume, Publish
  <2>2. CASE BackupFails \/ BackupCutOff \/ Reboot \/ Crash
    <3>1. /\ call' \in {call, None} /\ UNCHANGED wrapper /\ (UNCHANGED fuel \/ Spend)
          /\ lost \subseteq lost' /\ lost' \subseteq lost \cup Failures
      BY <2>2, Leftover DEF BackupFails, BackupCutOff, Trap, TrapCutOff, Reboot, Crash, Failures
    <3>. QED
      BY <1>0, <3>1, Charged
  <2>3. CASE RunCompose
    BY <1>0, <2>3, Charged DEF RunCompose, Failures
  <2>4. ASSUME NEW s \in Services, Compose(s) PROVE CallTypes'
    <3>1. active.bundle \in Bundles /\ UNCHANGED lost /\ wrapper /\ UNCHANGED wrapper /\ (UNCHANGED fuel \/ Spend)
          /\ call' = [service |-> s, bundle |-> active.bundle]
      BY <1>0, <2>4 DEF Compose, Coherent, StateTypes, Actives
    <3>2. fuel' \in Nat
      BY <1>0, <3>1 DEF CallTypes, Spend
    <3>. QED
      BY <1>0, <3>1, <3>2 DEF CallTypes
  <2>5. CASE \E owner \in {"schedule", "operator"} : StartBackup(owner)
    BY <1>0, <2>5, Charged DEF StartBackup
  <2>. QED
    BY <1>5, <2>1, <2>2, <2>3, <2>4, <2>5 DEF UnlockedNext, BackupStep
<1>. QED
  BY <1>1, <1>2, <1>3, <1>4, <1>5 DEF ProductionNext, ToolStep

\* The types are inductive.
LEMMA TypesKept == TypeInv /\ [ProductionNext]_productionVars => TypeInv'
<1>. SUFFICES ASSUME TypeInv, [ProductionNext]_productionVars PROVE TypeInv'
  OBVIOUS
<1>1. CASE UNCHANGED productionVars
  BY <1>1 DEF productionVars, stateVars, hostVars, backupVars, boundVars, restoreVars,
              TypeInv, StateTypes, CallTypes, OpInv, JobInv
<1>2. CASE ProductionNext
  BY <1>2, JobKept, OpKept, StateKept, CallsKept DEF TypeInv
<1>. QED
  BY <1>1, <1>2

-----------------------------------------------------------------------------
(***************************************************************************)
(* What a step does to the operation and to the host's record.             *)
(***************************************************************************)
hostRecord == <<active, env, current, wrapper, data, ran, identity, backed, attempts, restore, whole, seeded>>
Moved(from, to) == op.at = from /\ op'.at = to /\ op'.kind = op.kind /\ op'.bundle = op.bundle

\* The steps that leave that record alone.
Passes == {<<"pause", "backup">>, <<"backup", "backing">>, <<"backing", "save">>, <<"save", "mark">>, <<"link", "point">>,
           <<"edge", "core">>, <<"gateway", "echo">>, <<"echo", "check">>, <<"check", "public">>, <<"public", "verified">>,
           <<"verified", "verifying">>, <<"verifying", "ready">>, <<"open", "extract">>, <<"fence", "stop">>}
Failable == After \cup {"seed", "restored", "fenced", "private"}
Passing ==
  /\ UNCHANGED hostRecord
  /\ \/ UNCHANGED op
     \/ op' = Idle
     \/ op'.kind = "website" /\ op'.at \in Switching
     \/ \E pass \in Passes : Moved(pass[1], pass[2])
     \/ \E from \in Failable : Moved(from, "failed")
     \/ Moved("timers", "adopt") /\ op.kind = "complete"
     \/ Moved("extract", "record") /\ whole

\* And those that write it.
Deploying ==
  /\ UNCHANGED restoreVars
  /\ \/ MarkActivating /\ Moved("mark", "env")
     \/ WriteEnv /\ Moved("env", "link")
     \/ Point /\ Moved("point", IF op.kind = "activate" THEN "install" ELSE "seed")
     \/ InstallOperations /\ Moved("install", "edge") /\ op.kind = "activate"
     \/ UpCore /\ Moved("core", "gateway")
     \/ MarkReady /\ Moved("ready", "timers")
     \/ MarkFailed /\ Moved("failed", "fence")
     \/ \E b \in Bundles : Activate(b)
Recovering ==
  \/ \E b \in Bundles : Prepare(b) /\ UNCHANGED hostRecord
  \/ RecordRestoring /\ Moved("record", "mark")
  \/ SeedVolume /\ Moved("seed", IF seeded' = Len(Volumes) THEN "restored" ELSE "seed")
  \/ StartRestored /\ Moved("restored", "fenced")
  \/ InstallFenced /\ Moved("fenced", "private")
  \/ Prepared \/ Adopt \/ Complete
Outside == (RunCompose \/ Publish) /\ UNCHANGED <<attempts, restoreVars>>
EndsRestore ==
  /\ StopAll /\ op' = Idle /\ op.kind \in {"restore", "complete"} /\ restore' = "failed"
  /\ UNCHANGED <<active, env, current, wrapper, data, ran, identity, backed, attempts, whole, seeded>>

\* An action that goes to a stage leaves the operation as it was otherwise.
LEMMA Arrives ==
  ASSUME OpInv, NEW from, NEW to \in Stages, At(from), Goto(to)
  PROVE  Moved(from, to)
  BY Going DEF Moved, At, OpInv

\* Every step is one of these.
LEMMA StepKinds ==
  ASSUME TypeInv, ProductionNext
  PROVE  Passing \/ Deploying \/ Recovering \/ Outside \/ EndsRestore
<1>0. OpInv
  BY DEF TypeInv
<1>. USE DEF stateVars, hostVars, backupVars, boundVars, restoreVars, hostRecord
<1>. USE DEF Stages, Before, Opening, Marking, Restoring, Starting, Adopting, Adopted, Failing
<1>1. ASSUME ActivationStep, RecordFailed, UNCHANGED <<key, whole, seeded>>
      PROVE  Passing \/ Deploying \/ Recovering \/ Outside \/ EndsRestore
  <2>0. op.at # "stop" => UNCHANGED restore
    BY <1>1 DEF RecordFailed, At
  <2>1. CASE PauseSchedules
    <3>1. Moved("pause", "backup")
      BY <1>0, <2>1 DEF PauseSchedules, OpInv, Operations, Moved, At
    <3>. QED
      BY <1>1, <2>0, <2>1, <3>1 DEF PauseSchedules, Passing, Passes, At
  <2>2. CASE SavePrevious
    <3>1. Moved("save", "mark")
      BY <1>0, <2>2, Arrives DEF SavePrevious
    <3>. QED
      BY <1>1, <2>0, <2>2, <3>1 DEF SavePrevious, Passing, Passes, Moved
  <2>3. CASE Link
    <3>1. Moved("link", "point")
      BY <1>0, <2>3, Arrives DEF Link
    <3>. QED
      BY <1>1, <2>0, <2>3, <3>1 DEF Link, Passing, Passes, Moved
  <2>4. CASE StopEdge
    <3>1. Moved("edge", "core")
      BY <1>0, <2>4, Arrives DEF StopEdge
    <3>. QED
      BY <1>1, <2>0, <2>4, <3>1 DEF StopEdge, Passing, Passes, Moved
  <2>5. CASE UpGateway
    <3>1. Moved("gateway", "echo")
      BY <1>0, <2>5, Arrives DEF UpGateway
    <3>. QED
      BY <1>1, <2>0, <2>5, <3>1 DEF UpGateway, Passing, Passes, Moved
  <2>6. CASE UpEcho
    <3>1. Moved("echo", "check")
      BY <1>0, <2>6, Arrives DEF UpEcho
    <3>. QED
      BY <1>1, <2>0, <2>6, <3>1 DEF UpEcho, Passing, Passes, Moved
  <2>7. CASE CheckRunning
    <3>1. Moved("check", "public")
      BY <1>0, <2>7, Arrives DEF CheckRunning
    <3>. QED
      BY <1>1, <2>0, <2>7, <3>1 DEF CheckRunning, Passing, Passes, Moved
  <2>8. CASE CheckPublic
    <3>1. Moved("public", "verified")
      BY <1>0, <2>8, Arrives DEF CheckPublic
    <3>. QED
      BY <1>1, <2>0, <2>8, <3>1 DEF CheckPublic, Passing, Passes, Moved
  <2>9. CASE StopOperations
    <3>1. Moved("fence", "stop")
      BY <1>0, <2>9, Arrives DEF StopOperations
    <3>. QED
      BY <1>1, <2>0, <2>9, <3>1 DEF StopOperations, Passing, Passes, Moved
  <2>10. CASE OwnBackup("backup", "backing")
    <3>1. Moved("backup", "backing")
      BY <1>0, <2>10, Arrives DEF OwnBackup
    <3>. QED
      BY <1>1, <2>0, <2>10, <3>1 DEF OwnBackup, Passing, Passes, Moved
  <2>11. CASE BackupDone("backing", "save")
    <3>1. Moved("backing", "save")
      BY <1>0, <2>11, Arrives DEF BackupDone
    <3>. QED
      BY <1>1, <2>0, <2>11, <3>1 DEF BackupDone, Passing, Passes, Moved
  <2>12. CASE OwnBackup("verified", "verifying")
    <3>1. Moved("verified", "verifying")
      BY <1>0, <2>12, Arrives DEF OwnBackup
    <3>. QED
      BY <1>1, <2>0, <2>12, <3>1 DEF OwnBackup, Passing, Passes, Moved
  <2>13. CASE BackupDone("verifying", "ready")
    <3>1. Moved("verifying", "ready")
      BY <1>0, <2>13, Arrives DEF BackupDone
    <3>. QED
      BY <1>1, <2>0, <2>13, <3>1 DEF BackupDone, Passing, Passes, Moved
  <2>14. CASE MarkActivating
    <3>1. Moved("mark", "env")
      BY <1>0, <2>14, Arrives DEF MarkActivating
    <3>. QED
      BY <1>1, <2>0, <2>14, <3>1 DEF Deploying, Moved
  <2>15. CASE WriteEnv
    <3>1. Moved("env", "link")
      BY <1>0, <2>15, Arrives DEF WriteEnv
    <3>. QED
      BY <1>1, <2>0, <2>15, <3>1 DEF Deploying, Moved
  <2>16. CASE InstallOperations
    <3>1. Moved("install", "edge")
      BY <1>0, <2>16, Arrives DEF InstallOperations, At, OpAt
    <3>. QED
      BY <1>1, <2>0, <2>16, <3>1 DEF InstallOperations, OpAt, Deploying, Moved
  <2>17. CASE UpCore
    <3>1. Moved("core", "gateway")
      BY <1>0, <2>17, Arrives DEF UpCore
    <3>. QED
      BY <1>1, <2>0, <2>17, <3>1 DEF Deploying, Moved
  <2>18. CASE MarkReady
    <3>1. Moved("ready", "timers")
      BY <1>0, <2>18, Arrives DEF MarkReady
    <3>. QED
      BY <1>1, <2>0, <2>18, <3>1 DEF Deploying, Moved
  <2>19. CASE MarkFailed
    <3>1. Moved("failed", "fence")
      BY <1>0, <2>19, Arrives DEF MarkFailed
    <3>. QED
      BY <1>1, <2>0, <2>19, <3>1 DEF Deploying, Moved
  <2>20. CASE Point
    <3>1. Moved("point", IF op.kind = "activate" THEN "install" ELSE "seed")
      BY <1>0, <2>20, Arrives DEF Point
    <3>. QED
      BY <1>1, <2>0, <2>20, <3>1 DEF Deploying, Moved
  <2>21. CASE EnableTimers
    <3>1. op' = Idle \/ (Moved("timers", "adopt") /\ op.kind = "complete")
      BY <1>0, <2>21, KindAt, Arrives DEF EnableTimers, At, Goto
    <3>. QED
      BY <1>1, <2>0, <2>21, <3>1 DEF EnableTimers, Passing, At
  <2>22. CASE ResumeSchedules
    BY <1>1, <2>0, <2>22 DEF ResumeSchedules, Passing
  <2>23. CASE Abandon
    <3>1. \E from \in Failable : Moved(from, "failed")
      BY <1>0, <2>23, Arrives DEF Abandon, Failable, At
    <3>. QED
      BY <1>1, <2>0, <2>23, <3>1 DEF Abandon, After, Passing
  <2>24. CASE StopAll
    <3>1. op.kind \in {"activate", "restore", "complete"}
      BY <1>0, <2>24, KindAt DEF StopAll, At, Deploys
    <3>. QED
      BY <1>1, <2>24, <3>1 DEF StopAll, RecordFailed, Passing, EndsRestore
  <2>. QED
    BY <1>1, <2>1, <2>2, <2>3, <2>4, <2>5, <2>6, <2>7, <2>8, <2>9, <2>10, <2>11, <2>12, <2>13, <2>14, <2>15, <2>16,
       <2>17, <2>18, <2>19, <2>20, <2>21, <2>22, <2>23, <2>24 DEF ActivationStep
<1>2. ASSUME WebsiteStep, UNCHANGED restoreVars PROVE Passing
  <2>1. UNCHANGED hostRecord
    BY <1>2
       DEF WebsiteStep, JournalTransition, SwitchGateway, Settle, Verify, SiteFails, JournalRevert, RevertGateway, Reverted,
           RevertFails, WriteSite, GatewayUp
  <2>2. op.at \in Switching
    BY <1>2
       DEF WebsiteStep, JournalTransition, SwitchGateway, Settle, Verify, SiteFails, JournalRevert, RevertGateway, Reverted,
           RevertFails, At, Switching
  <2>3. op' = Idle \/ \E to \in Switching : Goto(to)
    BY <1>2 DEF WebsiteStep, JournalTransition, SwitchGateway, Settle, Verify, SiteFails, JournalRevert, RevertGateway,
       Reverted, RevertFails, WriteSite, GatewayUp, Switching, Goto
  <2>4. op' = Idle \/ (op'.kind = "website" /\ op'.at \in Switching)
    BY <1>0, <2>2, <2>3, Going, KindAt DEF OpInv
  <2>. QED
    BY <2>1, <2>4 DEF Passing
<1>3. ASSUME RestoreStep PROVE Passing \/ Recovering
  <2>1. CASE OpenSnapshot
    <3>1. Moved("open", "extract")
      BY <1>0, <2>1, Arrives DEF OpenSnapshot
    <3>. QED
      BY <2>1, <3>1 DEF OpenSnapshot, Passing, Passes
  <2>2. CASE CheckSnapshot
    <3>1. Moved("extract", "record")
      BY <1>0, <2>2, Arrives DEF CheckSnapshot
    <3>. QED
      BY <2>2, <3>1 DEF CheckSnapshot, Passing
  <2>3. CASE RefuseSnapshot
    BY <2>3 DEF RefuseSnapshot, Passing
  <2>4. CASE RecordRestoring
    <3>1. Moved("record", "mark")
      BY <1>0, <2>4, Arrives DEF RecordRestoring
    <3>. QED
      BY <2>4, <3>1 DEF Recovering
  <2>5. CASE StartRestored
    <3>1. Moved("restored", "fenced")
      BY <1>0, <2>5, Arrives DEF StartRestored
    <3>. QED
      BY <2>5, <3>1 DEF Recovering
  <2>6. CASE InstallFenced
    <3>1. Moved("fenced", "private")
      BY <1>0, <2>6, Arrives DEF InstallFenced
    <3>. QED
      BY <2>6, <3>1 DEF Recovering
  <2>7. CASE SeedVolume
    <3>1. Moved("seed", IF seeded' = Len(Volumes) THEN "restored" ELSE "seed")
      BY <1>0, <2>7, Arrives DEF SeedVolume
    <3>. QED
      BY <2>7, <3>1 DEF Recovering
  <2>8. CASE Prepared \/ Adopt
    BY <2>8 DEF Recovering
  <2>9. CASE RestoreAbandoned
    <3>1. \E from \in Failable : Moved(from, "failed")
      BY <1>0, <2>9, Arrives DEF RestoreAbandoned, Failable, After, At
    <3>. QED
      BY <2>9, <3>1 DEF RestoreAbandoned, Passing
  <2>. QED
    BY <1>3, <2>1, <2>2, <2>3, <2>4, <2>5, <2>6, <2>7, <2>8, <2>9 DEF RestoreStep
<1>4. CASE Starts
  <2>1. ASSUME NEW w \in Websites \cup {"base"}, NEW r \in BOOLEAN, Transition(w, r), UNCHANGED restoreVars PROVE Passing
    <3>. DEFINE broken == ~Settled
    <3>. HIDE DEF broken
    <3>1. op' = [Idle EXCEPT !.kind = "website", !.at = "w_mark", !.target = w, !.rollback = r,
                             !.interrupted = broken, !.previous = site]
      BY <2>1 DEF Transition, broken
    <3>2. op'.kind = "website" /\ op'.at = "w_mark"
      BY <3>1 DEF Idle
    <3>. QED
      BY <2>1, <3>2 DEF Transition, Passing, Switching
  <2>. QED
    BY <1>4, <2>1 DEF Starts, Prepare, Deploying, Recovering
<1>5. CASE UnlockedNext /\ UNCHANGED <<attempts, restoreVars>>
  <2>1. CASE ListCore \/ ListEcho \/ PauseCore
    BY <1>5, <2>1 DEF ListCore, ListEcho, List, PauseCore, Passing
  <2>2. CASE PauseEcho
    BY <1>5, <2>2 DEF PauseEcho, Passing
  <2>3. CASE Dump
    BY <1>5, <2>3 DEF Dump, Passing
  <2>4. CASE CopyEcho
    BY <1>5, <2>4 DEF CopyEcho, Passing
  <2>5. CASE Resume
    BY <1>5, <2>5 DEF Resume, Passing
  <2>6. CASE BackupFails
    BY <1>5, <2>6 DEF BackupFails, Passing
  <2>7. CASE BackupCutOff
    BY <1>5, <2>7 DEF BackupCutOff, Passing
  <2>8. CASE Crash
    BY <1>5, <2>8 DEF Crash, Passing
  <2>9. CASE Reboot
    BY <1>5, <2>9 DEF Reboot, Passing
  <2>10. CASE Publish \/ RunCompose
    BY <1>5, <2>10 DEF Outside
  <2>11. CASE \E owner \in {"schedule", "operator"} : StartBackup(owner)
    BY <1>5, <2>11 DEF StartBackup, Passing
  <2>12. CASE \E s \in Services : Compose(s)
    BY <1>5, <2>12 DEF Compose, Passing
  <2>. QED
    BY <1>5, <2>1, <2>2, <2>3, <2>4, <2>5, <2>6, <2>7, <2>8, <2>9, <2>10, <2>11, <2>12 DEF UnlockedNext, BackupStep
<1>. QED
  BY <1>1, <1>2, <1>3, <1>4, <1>5 DEF ProductionNext, ToolStep

-----------------------------------------------------------------------------
(***************************************************************************)
(* What holds on the host beside the types.                                *)
(***************************************************************************)
\* The lock holder waits for its own backup, and for no other.
OwnInv ==
  /\ own # "none" => op.at \in {"backing", "verifying"}
  /\ job.owner = "deploy" => own = "running"

\* A failure is recorded before it is fenced, and what is fenced stays so.
Unfenced == ~(lost \subseteq {"wrapper", "resume"} \cup Writers)
Quiet == ~timers.enabled /\ ~timers.active /\ job.owner # "schedule"
FenceInv ==
  active # None /\ active.status = "failed" =>
    /\ op.at \in {"idle", "fence", "stop"}
    /\ op.at = "fence" \/ Unfenced \/ Quiet

\* A restore begins on an empty host, and seeds every volume before its core runs;
\* the wrapper is there, and an activation may begin, only once it has run.
IdentityInv ==
  /\ (data = None) = (identity = None)
  /\ restore # "none" => env # "development" /\ identity # "new"
  /\ restore # "none" /\ (wrapper \/ op.kind = "activate" \/ (active # None /\ active.status = "ready"))
       => identity # None
  /\ op.kind = "restore" /\ op.at \in Opening => restore = "none" /\ env = "absent" /\ active = None
  /\ op.kind = "restore" /\ op.at \notin Opening => restore = "restoring"
  /\ op.kind = "restore" /\ op.at \in Opening \cup Marking \cup {"seed", "restored"} => identity = None /\ ~wrapper
  /\ op.kind = "restore" /\ op.at \notin {"open", "extract"} \cup Failing => whole
  /\ op.at = "restored" => seeded = Len(Volumes)
  /\ op.at \in {"fenced", "private"} => identity # None
  /\ op.at = "private" => wrapper
  /\ restore = "private" => identity # None /\ wrapper
  /\ op.kind = "complete" => wrapper /\ restore = "completing"

\* Which bundles opened the data: where nothing excuses it, an activation is of a
\* bundle that did not, and the marker never names one that did but is not the last.
Excused == "wrapper" \in lost \/ restore \in {"completing", "complete", "failed"}
Underway == {"env", "link", "point"} \cup Starting \cup Restoring \cup Adopting
Named == active # None /\ active.bundle = op.bundle
OpensInv ==
  /\ data \in ran \cup {None} /\ (data = None => ran = {})
  /\ op.at \in Underway => active = Marker("activating")
  /\ op.at = "timers" => Named
  /\ op.kind = "activate" => op.bundle \in attempts
  /\ ~Excused =>
       /\ restore # "none" => op.kind # "activate" /\ (active # None => active.status # "ready")
       /\ restore = "none" => ran \subseteq attempts /\ (active # None => active.bundle \in attempts)
       /\ active # None /\ active.bundle \in ran => data = active.bundle
       /\ op.at \in Before \cup {"mark"} => op.bundle \notin ran /\ ~Named
       /\ op.at = "failed" => Named \/ op.bundle \notin ran

\* What a marker that will be ready stands on: the record it agrees with, the data,
\* and the backup that the lock holder waits for.
RecordInv ==
  /\ op.at \in {"link", "point"} \cup Starting \cup Restoring \cup Adopting => env = op.bundle
  /\ op.at \in Starting \cup Restoring \cup Adopting => current = op.bundle
Grounded == {"gateway", "echo", "fenced", "private"} \cup Adopting
DataInv ==
  "wrapper" \notin lost =>
    /\ op.at \in Grounded => data = op.bundle
    /\ restore = "private" => active # None /\ data = active.bundle
Copied == {"copy", "resume", "publish"}
BackedInv ==
  "wrapper" \notin lost =>
    /\ op.at = "verifying" /\ own = "ok" => op.bundle \in backed
    /\ op.at = "verifying" /\ job.owner = "deploy" /\ job.at \in Copied => job.of = op.bundle
    /\ op.at = "ready" => op.bundle \in backed

-----------------------------------------------------------------------------
(***************************************************************************)
(* Identities.                                                             *)
(***************************************************************************)
\* Every step keeps the order in which a restore gets its identity.
LEMMA IdentityStep ==
  ASSUME TypeInv, IdentityInv, ProductionNext
  PROVE  IdentityInv'
<1>0. /\ OpInv /\ StateTypes /\ CallTypes /\ Len(Volumes) = 5 /\ None \notin Bundles
      /\ "development" \notin Bundles /\ "absent" \notin Bundles
      /\ Idle.kind = "none" /\ Idle.at = "idle" /\ None \notin {"new", "original"}
  BY NoneAssumption, NamesAssumption, FiveVolumes DEF TypeInv, Idle
<1>. USE DEF hostRecord, IdentityInv, Opening, Marking, Restoring, Failing, At
<1>1. CASE Passing
  <2>1. CASE UNCHANGED op
    BY <1>1, <2>1 DEF Passing
  <2>2. CASE op' = Idle \/ (op'.kind = "website" /\ op'.at \in Switching)
    BY <1>0, <1>1, <2>2 DEF Passing, Switching
  <2>3. CASE \E pass \in Passes : Moved(pass[1], pass[2])
    <3>1. /\ op'.kind = op.kind
          /\ op.at = "open" => op'.at = "extract"
          /\ op.at # "open" => op.at \notin Opening /\ op'.at \notin Opening
          /\ op'.at \in Marking \cup {"seed", "restored"} => op.at \in Marking \/ op.at = "save"
          /\ op'.at \notin {"restored", "fenced", "private"} /\ (op.at \in Failing => op'.at \in Failing)
          /\ op.at = "save" => op.kind # "restore"
      BY <1>0, <2>3, KindAt DEF Passes, Moved, Before
    <3>. QED
      BY <1>1, <3>1 DEF Passing
  <2>4. CASE \E from \in Failable : Moved(from, "failed")
    BY <1>0, <1>1, <2>4 DEF Passing, Failable, After, Moved
  <2>5. CASE (Moved("timers", "adopt") /\ op.kind = "complete") \/ (Moved("extract", "record") /\ whole)
    BY <1>0, <1>1, <2>5 DEF Passing, Moved
  <2>. QED
    BY <1>1, <2>1, <2>2, <2>3, <2>4, <2>5 DEF Passing
<1>2. CASE Deploying
  <2>0. UNCHANGED <<restore, whole, seeded>>
    BY <1>2 DEF Deploying, restoreVars
  <2>. USE DEF stateVars, hostVars, Moved
  <2>1. CASE MarkActivating /\ Moved("mark", "env")
    BY <1>0, <2>0, <2>1 DEF MarkActivating, Marker
  <2>2. CASE WriteEnv /\ Moved("env", "link")
    <3>1. op.bundle \in Bundles
      BY <1>0, <2>2, KindAt DEF OpInv, Moved, Deploys
    <3>. QED
      BY <1>0, <2>0, <2>2, <3>1 DEF WriteEnv
  <2>3. CASE Point /\ Moved("point", IF op.kind = "activate" THEN "install" ELSE "seed")
    BY <1>0, <2>0, <2>3 DEF Point
  <2>4. CASE InstallOperations /\ Moved("install", "edge") /\ op.kind = "activate"
    BY <1>0, <2>0, <2>4 DEF InstallOperations
  <2>5. CASE UpCore /\ Moved("core", "gateway")
    <3>1. op.bundle \in Bundles /\ op.kind = "activate"
      BY <1>0, <2>5, KindAt DEF OpInv, Moved, Deploys, Starting
    <3>. QED
      BY <1>0, <2>0, <2>5, <3>1 DEF UpCore, Opens
  <2>6. CASE MarkReady /\ Moved("ready", "timers")
    <3>1. op.kind \in {"activate", "complete"}
      BY <1>0, <2>6, KindAt DEF Moved, Adopting
    <3>. QED
      BY <1>0, <2>0, <2>6, <3>1 DEF MarkReady, Marker
  <2>7. CASE MarkFailed /\ Moved("failed", "fence")
    BY <1>0, <2>0, <2>7 DEF MarkFailed, Marker
  <2>8. ASSUME NEW b \in Bundles, Activate(b) PROVE IdentityInv'
    <3>1. op'.kind = "activate" /\ op'.at \in {"mark", "pause"}
      BY <2>8 DEF Activate, Idle
    <3>2. restore # "none" => identity # None
      BY <2>8 DEF Activate, Coherent
    <3>. QED
      BY <1>0, <2>0, <2>8, <3>1, <3>2 DEF Activate
  <2>. QED
    BY <1>2, <2>1, <2>2, <2>3, <2>4, <2>5, <2>6, <2>7, <2>8 DEF Deploying
<1>3. CASE Recovering
  <2>. USE DEF stateVars, hostVars, restoreVars, Moved
  <2>1. ASSUME NEW b \in Bundles, Prepare(b), UNCHANGED hostRecord PROVE IdentityInv'
    <3>1. op'.kind = "restore" /\ op'.at = "open"
      BY <2>1 DEF Prepare, Idle
    <3>. QED
      BY <1>0, <2>1, <3>1 DEF Prepare, FreshHost, Fresh
  <2>2. CASE RecordRestoring /\ Moved("record", "mark")
    <3>1. op.kind = "restore"
      BY <1>0, <2>2, KindAt
    <3>. QED
      BY <1>0, <2>2, <3>1 DEF RecordRestoring
  <2>3. CASE SeedVolume /\ Moved("seed", IF seeded' = Len(Volumes) THEN "restored" ELSE "seed")
    BY <1>0, <2>3 DEF SeedVolume
  <2>4. CASE StartRestored /\ Moved("restored", "fenced")
    <3>1. op.bundle \in Bundles /\ op.kind = "restore"
      BY <1>0, <2>4, KindAt DEF OpInv, Deploys
    <3>. QED
      BY <1>0, <2>4, <3>1 DEF StartRestored
  <2>5. CASE InstallFenced /\ Moved("fenced", "private")
    BY <1>0, <2>5 DEF InstallFenced
  <2>6. CASE Prepared
    <3>1. op.kind = "restore" /\ op.at = "private"
      BY <1>0, <2>6, KindAt DEF Prepared
    <3>2. identity # None /\ restore = "restoring" /\ wrapper
      BY <3>1, <2>6 DEF Prepared
    <3>. QED
      BY <1>0, <2>6, <3>1, <3>2 DEF Prepared
  <2>7. CASE Adopt
    <3>1. op.kind = "complete"
      BY <1>0, <2>7, KindAt DEF Adopt
    <3>. QED
      BY <1>0, <2>7, <3>1 DEF Adopt
  <2>8. CASE Complete
    <3>1. op'.kind = "complete" /\ op'.at = "check"
      BY <2>8 DEF Complete, Idle
    <3>. QED
      BY <1>0, <2>8, <3>1 DEF Complete
  <2>. QED
    BY <1>3, <2>1, <2>2, <2>3, <2>4, <2>5, <2>6, <2>7, <2>8 DEF Recovering
<1>4. CASE Outside
  <2>. USE DEF Outside, stateVars, hostVars, restoreVars, boundVars
  <2>1. CASE Publish
    BY <1>4, <2>1 DEF Publish
  <2>2. CASE RunCompose
    <3>1. call.bundle \in Bundles /\ wrapper
      BY <1>0, <2>2 DEF RunCompose, CallTypes
    <3>2. /\ (data' = None) = (identity' = None)
          /\ identity' = identity \/ (identity = None /\ identity' = "new")
      BY <1>0, <2>2, <3>1 DEF RunCompose, ComposeUp, Opens
    <3>3. UNCHANGED <<active, env, wrapper, op, restore, whole, seeded>>
      BY <1>4, <2>2 DEF RunCompose
    <3>. QED
      BY <3>1, <3>2, <3>3
  <2>. QED
    BY <1>4, <2>1, <2>2
<1>5. CASE EndsRestore
  <2>1. restore # "none" /\ UNCHANGED <<active, env, wrapper, data, identity, whole, seeded>> /\ op' = Idle /\ restore' = "failed"
    BY <1>5 DEF EndsRestore, StopAll
  <2>2. (wrapper \/ (active # None /\ active.status = "ready")) => identity # None
    BY <2>1
  <2>. QED
    BY <1>0, <2>1, <2>2
<1>. QED
  BY <1>1, <1>2, <1>3, <1>4, <1>5, StepKinds

-----------------------------------------------------------------------------
(***************************************************************************)
(* The backup the lock holder waits for, and fenced failures.              *)
(***************************************************************************)
\* Whose backup it is.
Owned ==
  \/ job'.owner = job.owner
  \/ job' = NoJob
  \/ OwnBackup("backup", "backing") \/ OwnBackup("verified", "verifying")
  \/ \E owner \in {"schedule", "operator"} : StartBackup(owner) /\ job'.owner = owner
  \/ Crash
\* A backup has one owner, until the owner is killed.
LEMMA OwnerKept ==
  ASSUME TypeInv, ProductionNext
  PROVE  Owned
<1>0. job \in Jobs
  BY DEF TypeInv, JobInv
<1>. USE DEF Owned
<1>1. CASE StopOperations \/ BackupFails \/ BackupCutOff \/ Publish \/ Reboot \/ Crash
  BY <1>1 DEF StopOperations, BackupFails, BackupCutOff, Trap, TrapCutOff, Publish, Reboot
<1>2. CASE PauseCore \/ ListCore \/ PauseEcho \/ ListEcho \/ Dump \/ CopyEcho \/ Resume
  BY <1>0, <1>2 DEF PauseCore, ListCore, PauseEcho, ListEcho, List, Dump, CopyEcho, Resume, Pause, Jobs
<1>3. ASSUME NEW owner \in {"schedule", "operator"}, StartBackup(owner) PROVE Owned
  BY <1>3 DEF StartBackup, BeginBackup, NoJob
<1>4. ASSUME ToolStep \/ Starts \/ RunCompose \/ \E s \in Services : Compose(s) PROVE Owned
  <2>1. CASE ~StopOperations /\ ~OwnBackup("backup", "backing") /\ ~OwnBackup("verified", "verifying")
    BY <1>4, <2>1, ToolsTouch DEF Touches
  <2>. QED
    BY <1>1, <2>1
<1>. QED
  BY <1>1, <1>2, <1>3, <1>4 DEF ProductionNext, UnlockedNext, BackupStep

\* The lock holder never waits for a backup that is not its own.
LEMMA OwnStep ==
  ASSUME TypeInv, OwnInv, ProductionNext
  PROVE  OwnInv'
<1>0. /\ OpInv /\ job \in Jobs /\ Owned /\ Idle.at = "idle" /\ NoJob.owner = "none"
      /\ own # "none" => op.at \in {"backing", "verifying"}
  BY OwnerKept DEF TypeInv, JobInv, Idle, NoJob, OwnInv
<1>. USE DEF At, OpAt, Operations
<1>1. ASSUME NEW at, NEW waiting \in {"backing", "verifying"}, OwnBackup(at, waiting) PROVE OwnInv'
  <2>1. own' = "running" /\ op'.at = waiting
    BY <1>0, <1>1, Going DEF OwnBackup, OpInv, Stages, Before, Adopting
  <2>. QED
    BY <2>1 DEF OwnInv
<1>2. ASSUME NEW at, NEW waiting, BackupDone(waiting, at) PROVE OwnInv'
  BY <1>2 DEF BackupDone, OwnInv, hostVars
<1>3. ASSUME ResumeSchedules \/ Abandon PROVE OwnInv'
  <2>1. own' = "none" /\ job' = job /\ Breaks
    BY <1>3 DEF ResumeSchedules, Abandon
  <2>2. own # "running"
    BY <1>0, <2>1 DEF Breaks, Waits, Refused
  <2>. QED
    BY <2>1, <2>2 DEF OwnInv
<1>4. CASE Crash
  <2>1. job'.owner # "deploy" /\ own' = "none"
    BY <1>0, <1>4 DEF Crash, Jobs
  <2>. QED
    BY <2>1 DEF OwnInv
<1>5. CASE Reboot
  BY <1>0, <1>5 DEF Reboot, OwnInv
<1>6. CASE Publish \/ BackupFails \/ BackupCutOff
  BY <1>0, <1>6 DEF Publish, BackupFails, BackupCutOff, Trap, TrapCutOff, Outcome, OwnInv, boundVars
<1>7. CASE UNCHANGED own /\ (own # "none" => UNCHANGED op)
  <2>1. job'.owner = "deploy" =>
          \/ job.owner = "deploy" \/ Crash
          \/ \E waiting \in {"backing", "verifying"}, at \in {"backup", "verified"} : OwnBackup(at, waiting)
    BY <1>0 DEF Owned
  <2>. QED
    BY <1>0, <1>1, <1>4, <1>7, <2>1 DEF OwnInv
<1>. QED
  BY <1>0, <1>1, <1>2, <1>3, <1>4, <1>5, <1>6, <1>7, Written DEF Writes

\* On a failed host nothing starts, and what is left is to fence it.
LEMMA FencedSteps ==
  ASSUME TypeInv, ProductionNext, op.at \in {"idle", "fence", "stop"}, active # None, active.status = "failed"
  PROVE  UNCHANGED active /\ (StopOperations \/ StopAll \/ UnlockedNext)
<1>. USE DEF At, OpAt, Before, After, stateVars, hostVars, backupVars, boundVars
<1>0. (op.at = "idle" => op = Idle) /\ Idle.kind = "none"
  BY KindAt DEF TypeInv, Idle
<1>1. ASSUME ActivationStep PROVE UNCHANGED active /\ (StopOperations \/ StopAll)
  <2>1. CASE PauseSchedules \/ SavePrevious \/ MarkActivating \/ WriteEnv \/ Link \/ Point \/ InstallOperations \/ StopEdge
    BY <2>1 DEF PauseSchedules, SavePrevious, MarkActivating, WriteEnv, Link, Point, InstallOperations, StopEdge
  <2>2. CASE UpCore \/ UpGateway \/ UpEcho \/ CheckRunning \/ CheckPublic \/ MarkReady \/ EnableTimers \/ MarkFailed
    BY <2>2 DEF UpCore, UpGateway, UpEcho, CheckRunning, CheckPublic, MarkReady, EnableTimers, MarkFailed
  <2>3. CASE OwnBackup("backup", "backing") \/ OwnBackup("verified", "verifying")
             \/ BackupDone("backing", "save") \/ BackupDone("verifying", "ready") \/ ResumeSchedules \/ Abandon
    BY <2>3 DEF OwnBackup, BackupDone, ResumeSchedules, Abandon
  <2>4. CASE StopOperations
    <3>1. UNCHANGED active
      BY <2>4 DEF StopOperations
    <3>. QED
      BY <2>4, <3>1
  <2>5. CASE StopAll
    <3>1. UNCHANGED active
      BY <2>5 DEF StopAll
    <3>. QED
      BY <2>5, <3>1
  <2>. QED
    BY <1>1, <2>1, <2>2, <2>3, <2>4, <2>5 DEF ActivationStep
<1>2. ~WebsiteStep
  BY DEF WebsiteStep, JournalTransition, SwitchGateway, Settle, Verify, SiteFails, JournalRevert, RevertGateway,
     Reverted, RevertFails
<1>3. ~RestoreStep
  BY DEF RestoreStep, OpenSnapshot, CheckSnapshot, RefuseSnapshot, RecordRestoring, StartRestored, InstallFenced, Prepared,
         SeedVolume, RestoreAbandoned, Adopt
<1>4. ~Starts
  BY DEF Starts, Activate, Prepare, Transition, Complete, Fresh, FreshHost
<1>5. UnlockedNext => UNCHANGED active
  BY DEF UnlockedNext, BackupStep, PauseCore, ListCore, PauseEcho, ListEcho, List, Dump, CopyEcho, Resume, Publish, BackupFails, BackupCutOff, Trap, TrapCutOff,
         Crash, Reboot, RunCompose, StartBackup, Compose
<1>. QED
  BY <1>1, <1>2, <1>3, <1>4, <1>5 DEF ProductionNext, ToolStep

\* A recorded failure stays fenced.
LEMMA FenceStep ==
  ASSUME TypeInv, FenceInv, ProductionNext
  PROVE  FenceInv'
<1>0. /\ OpInv /\ job \in Jobs /\ ctr \in Containers /\ timers \in [enabled : BOOLEAN, active : BOOLEAN] /\ lost \subseteq lost'
      /\ Idle.at = "idle" /\ NoJob.owner = "none" /\ (op.at = "idle" => op = Idle)
  BY KindAt, Written DEF TypeInv, StateTypes, JobInv, Idle, NoJob, Writes
<1>1. CASE active # None /\ active.status = "failed"
  <2>0. /\ op.at \in {"idle", "fence", "stop"}
        /\ op.at = "fence" \/ Unfenced \/ Quiet
        /\ UNCHANGED active /\ (Unfenced => Unfenced')
    BY <1>0, <1>1, FencedSteps DEF FenceInv, Unfenced
  <2>. USE DEF stateVars, hostVars, backupVars, boundVars, FenceInv
  <2>1. CASE StopOperations
    <3>1. op'.at = "stop"
      BY <1>0, <2>1, Going DEF StopOperations, Stages, Failing, OpInv
    <3>2. CASE timers' = [enabled |-> FALSE, active |-> FALSE] /\ (job' = NoJob \/ (job' = job /\ job.owner # "schedule"))
      BY <1>0, <3>1, <3>2 DEF Quiet
    <3>3. CASE lost' = lost \cup {"fence"}
      BY <3>1, <3>3 DEF Unfenced, Writers
    <3>. QED
      BY <2>1, <3>2, <3>3 DEF StopOperations, Notes
  <2>2. CASE StopAll
    <3>1. op'.at = "idle" /\ op.at = "stop" /\ UNCHANGED timers /\ job'.owner = job.owner
      BY <1>0, <2>2 DEF StopAll, Stop, At, Jobs
    <3>. QED
      BY <2>0, <3>1 DEF Quiet
  <2>3. CASE UnlockedNext
    <3>1. CASE BackupStep \/ BackupCutOff \/ RunCompose \/ \E s \in Services : Compose(s)
      <4>1. UNCHANGED <<op, timers>>
        BY <3>1 DEF BackupStep, PauseCore, ListCore, PauseEcho, ListEcho, List, Dump, CopyEcho, Resume, Publish, BackupFails, BackupCutOff, Trap, TrapCutOff,
           RunCompose, Compose
      <4>2. job'.owner = job.owner \/ job' = NoJob
        <5>1. CASE RunCompose \/ \E s \in Services : Compose(s)
          <6>1. ~StopOperations /\ ~OwnBackup("backup", "backing") /\ ~OwnBackup("verified", "verifying")
            BY <1>0, <4>1, Going DEF StopOperations, OwnBackup, At, OpInv, Stages, Failing, Before, Adopting
          <6>. QED
            BY <5>1, <6>1, ToolsTouch DEF Touches
        <5>2. CASE BackupStep \/ BackupCutOff
          BY <1>0, <5>2 DEF BackupStep, PauseCore, ListCore, PauseEcho, ListEcho, List, Dump, CopyEcho, Resume, Publish, BackupFails,
             BackupCutOff, Trap, TrapCutOff, Pause, Jobs
        <5>. QED
          BY <3>1, <5>1, <5>2
      <4>. QED
        BY <1>0, <2>0, <4>1, <4>2 DEF Quiet
    <3>2. CASE Crash
      BY <1>0, <3>2 DEF Crash, Unfenced, Writers
    <3>3. CASE Reboot
      <4>1. op'.at = "idle" /\ job' = NoJob /\ timers' = [timers EXCEPT !.active = timers.enabled]
        BY <1>0, <3>3 DEF Reboot
      <4>2. CASE op = Idle
        BY <1>0, <2>0, <4>1, <4>2 DEF Quiet
      <4>3. CASE op # Idle
        BY <3>3, <4>1, <4>3 DEF Reboot, Unfenced, Writers
      <4>. QED
        BY <4>2, <4>3
    <3>4. ASSUME NEW owner \in {"schedule", "operator"}, StartBackup(owner) PROVE FenceInv'
      <4>1. UNCHANGED <<op, timers, lost>> /\ job'.owner = owner /\ (owner = "schedule" => timers.active)
        BY <3>4 DEF StartBackup, BeginBackup, NoJob
      <4>. QED
        BY <2>0, <4>1 DEF Quiet
    <3>. QED
      BY <2>3, <3>1, <3>2, <3>3, <3>4 DEF UnlockedNext
  <2>. QED
    BY <1>1, <2>0, <2>1, <2>2, <2>3, FencedSteps
<1>2. CASE ~(active # None /\ active.status = "failed")
  <2>1. CASE MarkFailed
    <3>1. op'.at = "fence"
      BY <1>0, <2>1, Going DEF MarkFailed, Stages, Failing, OpInv
    <3>. QED
      BY <3>1 DEF FenceInv
  <2>2. CASE MarkActivating \/ MarkReady \/ UNCHANGED active
    BY <1>2, <2>2 DEF MarkActivating, MarkReady, Marker, FenceInv
  <2>. QED
    BY <2>1, <2>2, Written DEF Writes
<1>. QED
  BY <1>1, <1>2

-----------------------------------------------------------------------------
(***************************************************************************)
(* Which bundles opened the data.                                          *)
(***************************************************************************)
\* A wrapper call that nothing overtook opens the data with the marker's bundle.
LEMMA Composing ==
  ASSUME TypeInv, RunCompose, "wrapper" \notin lost'
  PROVE  /\ active # None /\ active.bundle \in Bundles /\ "wrapper" \notin lost
         /\ UNCHANGED <<data, ran>> \/ (data' = active.bundle /\ ran' = ran \cup {active.bundle})
<1>1. ~Overtaken /\ "wrapper" \notin lost
  BY DEF RunCompose
<1>2. active # None /\ active.bundle = call.bundle /\ active.bundle \in Bundles
  BY <1>1 DEF Overtaken, Coherent, TypeInv, StateTypes, Actives
<1>. QED
  BY <1>1, <1>2 DEF RunCompose, ComposeUp, Opens

\* Every step keeps the account of which bundles opened the data.
LEMMA OpensStep ==
  ASSUME TypeInv, IdentityInv, OpensInv, ProductionNext
  PROVE  OpensInv'
<1>0. /\ OpInv /\ StateTypes /\ CallTypes /\ None \notin Bundles /\ ("wrapper" \in lost => "wrapper" \in lost')
      /\ Idle.kind = "none" /\ Idle.at = "idle"
  BY NoneAssumption, Written DEF TypeInv, Idle, Writes
<1>. USE DEF hostRecord, Underway, Named, Excused, Marking, Restoring, Starting, Adopting, Opening, Failing, At, Before
<1>1. CASE Passing
  <2>1. CASE UNCHANGED op
    BY <1>0, <1>1, <2>1 DEF Passing, OpensInv, Marker
  <2>2. CASE op' = Idle \/ (op'.kind = "website" /\ op'.at \in Switching)
    BY <1>0, <1>1, <2>2 DEF Passing, Switching, OpensInv
  <2>3. CASE \E pass \in Passes : Moved(pass[1], pass[2])
    <3>1. /\ op'.kind = op.kind /\ op'.bundle = op.bundle
          /\ op'.at \in Underway => op.at \in Underway
          /\ op'.at \notin {"timers", "failed"}
          /\ op'.at \in Before \cup {"mark"} => op.at \in Before
      BY <2>3 DEF Passes, Moved
    <3>. QED
      BY <1>0, <1>1, <3>1 DEF Passing, OpensInv, Marker
  <2>4. CASE \E from \in Failable : Moved(from, "failed")
    <3>1. /\ op'.kind = op.kind /\ op'.bundle = op.bundle /\ op'.at = "failed"
          /\ op.at \in Underway \cup {"mark", "timers", "adopt"}
      BY <2>4 DEF Failable, After, Moved
    <3>2. op.at \in Underway => Named
      <4>1. op.at \in Underway => op.kind \in Deploys
        BY <1>0, KindAt DEF Deploys
      <4>. QED
        BY <1>0, <4>1, MarkerTyped DEF OpensInv, Marker
    <3>3. op.at = "adopt" => Excused
      BY <1>0, KindAt DEF IdentityInv
    <3>. QED
      BY <1>0, <1>1, <3>1, <3>2, <3>3 DEF Passing, OpensInv
  <2>5. CASE (Moved("timers", "adopt") /\ op.kind = "complete") \/ (Moved("extract", "record") /\ whole)
    BY <1>0, <1>1, <2>5 DEF Passing, Moved, OpensInv
  <2>. QED
    BY <1>1, <2>1, <2>2, <2>3, <2>4, <2>5 DEF Passing
<1>2. CASE Deploying
  <2>0. UNCHANGED <<restore, whole, seeded>>
    BY <1>2 DEF Deploying, restoreVars
  <2>. USE DEF stateVars, hostVars, boundVars, Moved
  <2>1. CASE MarkActivating /\ Moved("mark", "env")
    <3>1. active' = Marker("activating") /\ active' = Marker("activating")' /\ UNCHANGED <<data, ran, attempts, lost>>
      BY <2>1 DEF MarkActivating, Marker
    <3>2. active' # None /\ active'.bundle = op.bundle /\ active'.status = "activating" /\ op.kind \in {"activate", "restore"}
      BY <1>0, <2>1, <3>1, KindAt, MarkerTyped DEF Marker, Deploys
    <3>3. op.kind = "restore" => restore # "none"
      BY <2>1 DEF IdentityInv
    <3>. QED
      BY <1>0, <2>0, <2>1, <3>1, <3>2, <3>3 DEF OpensInv
  <2>2. CASE WriteEnv /\ Moved("env", "link")
    BY <1>0, <2>0, <2>2 DEF WriteEnv, OpensInv, Marker
  <2>3. CASE Point /\ Moved("point", IF op.kind = "activate" THEN "install" ELSE "seed")
    BY <1>0, <2>0, <2>3 DEF Point, OpensInv, Marker
  <2>4. CASE InstallOperations /\ Moved("install", "edge") /\ op.kind = "activate"
    BY <1>0, <2>0, <2>4 DEF InstallOperations, OpensInv, Marker
  <2>5. CASE UpCore /\ Moved("core", "gateway")
    <3>1. op.bundle \in Bundles /\ op.kind = "activate"
      BY <1>0, <2>5, KindAt DEF OpInv, Deploys
    <3>2. active = Marker("activating") /\ active' = Marker("activating")' /\ active' = active
          /\ data' = op.bundle /\ ran' = ran \cup {op.bundle} /\ UNCHANGED <<attempts, lost>>
      BY <2>5 DEF UpCore, Opens, OpensInv, Marker
    <3>3. active # None /\ active.bundle = op.bundle
      BY <1>0, <3>1, <3>2, MarkerTyped DEF Deploys, Marker
    <3>. QED
      BY <1>0, <2>0, <2>5, <3>1, <3>2, <3>3 DEF OpensInv
  <2>6. CASE MarkReady /\ Moved("ready", "timers")
    <3>1. op.kind \in {"activate", "complete"}
      BY <1>0, <2>6, KindAt
    <3>2. active' = Marker("ready") /\ active = Marker("activating") /\ UNCHANGED <<data, ran, attempts, lost>>
      BY <2>6 DEF MarkReady, OpensInv
    <3>3. active' # None /\ active # None /\ active'.bundle = op.bundle /\ active.bundle = op.bundle
      BY <1>0, <3>1, <3>2, MarkerTyped DEF Deploys, Marker
    <3>4. op.kind = "complete" => Excused
      BY DEF IdentityInv
    <3>. QED
      BY <1>0, <2>0, <2>6, <3>1, <3>2, <3>3, <3>4 DEF OpensInv
  <2>7. CASE MarkFailed /\ Moved("failed", "fence")
    <3>1. op.kind \in Deploys
      BY <1>0, <2>7, KindAt
    <3>2. active' = Marker("failed") \/ active' = active
      BY <2>7 DEF MarkFailed
    <3>3. UNCHANGED <<data, ran, attempts>>
      BY <2>7 DEF MarkFailed
    <3>4. Marker("failed") # None /\ Marker("failed").bundle = op.bundle /\ Marker("failed").status = "failed"
      BY <1>0, <3>1, MarkerTyped DEF Marker
    <3>5. op.kind # "activate" => restore # "none"
      BY <3>1, <2>7 DEF IdentityInv, Deploys
    <3>. QED
      BY <1>0, <2>0, <2>7, <3>1, <3>2, <3>3, <3>4, <3>5 DEF OpensInv
  <2>8. ASSUME NEW b \in Bundles, Activate(b) PROVE OpensInv'
    <3>1. op'.kind = "activate" /\ op'.at \in {"mark", "pause"} /\ op'.bundle = b
      BY <2>8 DEF Activate, Idle
    <3>2. attempts' = attempts \cup {b} /\ b \notin attempts /\ UNCHANGED <<active, data, ran, lost>>
          /\ ((active = None /\ env = "development") \/ (active # None /\ active.status = "ready" /\ active.bundle # b))
      BY <2>8 DEF Activate, Untried, Fresh, Coherent
    <3>3. ~Excused => restore = "none"
      BY <3>2 DEF OpensInv, IdentityInv
    <3>. QED
      BY <1>0, <2>0, <3>1, <3>2, <3>3 DEF OpensInv
  <2>. QED
    BY <1>2, <2>1, <2>2, <2>3, <2>4, <2>5, <2>6, <2>7, <2>8 DEF Deploying
<1>3. CASE Recovering
  <2>. USE DEF stateVars, hostVars, restoreVars, boundVars, Moved
  <2>1. ASSUME NEW b \in Bundles, Prepare(b), UNCHANGED hostRecord PROVE OpensInv'
    <3>1. op'.kind = "restore" /\ op'.at = "open"
      BY <2>1 DEF Prepare, Idle
    <3>. QED
      BY <1>0, <2>1, <3>1 DEF Prepare, OpensInv
  <2>2. CASE RecordRestoring /\ Moved("record", "mark")
    <3>1. op.kind = "restore"
      BY <1>0, <2>2, KindAt
    <3>2. active = None /\ restore = "none" /\ ran = {}
      BY <2>2, <3>1 DEF IdentityInv, OpensInv
    <3>. QED
      BY <1>0, <2>2, <3>1, <3>2 DEF RecordRestoring, OpensInv
  <2>3. CASE SeedVolume /\ Moved("seed", IF seeded' = Len(Volumes) THEN "restored" ELSE "seed")
    BY <1>0, <2>3 DEF SeedVolume, OpensInv, Marker
  <2>4. CASE StartRestored /\ Moved("restored", "fenced")
    <3>1. op.bundle \in Bundles /\ op.kind = "restore"
      BY <1>0, <2>4, KindAt DEF OpInv, Deploys
    <3>2. active = Marker("activating") /\ active' = Marker("activating")' /\ active' = active /\ ran = {}
          /\ data' = op.bundle /\ ran' = ran \cup {op.bundle} /\ UNCHANGED <<attempts, lost, restore>>
      BY <2>4, <3>1 DEF StartRestored, OpensInv, IdentityInv, Marker
    <3>3. active # None /\ active.bundle = op.bundle /\ active.status = "activating" /\ restore = "restoring"
      BY <1>0, <2>4, <3>1, <3>2, MarkerTyped DEF Deploys, Marker, IdentityInv
    <3>. QED
      BY <1>0, <2>4, <3>1, <3>2, <3>3 DEF OpensInv
  <2>5. CASE InstallFenced /\ Moved("fenced", "private")
    BY <1>0, <2>5 DEF InstallFenced, OpensInv, Marker
  <2>6. CASE Prepared
    <3>1. op.kind = "restore" /\ op.at = "private" /\ op' = Idle /\ UNCHANGED <<active, data, ran, attempts, lost>>
      BY <1>0, <2>6, KindAt DEF Prepared
    <3>2. restore = "restoring" /\ restore' = "private"
      BY <2>6, <3>1 DEF Prepared, IdentityInv
    <3>. QED
      BY <1>0, <3>1, <3>2 DEF OpensInv
  <2>7. CASE Adopt
    BY <1>0, <2>7 DEF Adopt, OpensInv
  <2>8. CASE Complete
    <3>1. /\ op'.kind = "complete" /\ op'.at = "check" /\ op'.bundle = active.bundle /\ restore' = "completing"
          /\ UNCHANGED <<active, data, ran, attempts>>
          /\ active # None /\ active.status = "activating" /\ active.restore
      BY <2>8 DEF Complete, Coherent, Idle
    <3>2. active = [status |-> "activating", bundle |-> active.bundle, restore |-> TRUE]
      BY <1>0, <3>1 DEF StateTypes, Actives
    <3>3. active' = Marker("activating")'
      BY <3>1, <3>2 DEF Marker
    <3>. QED
      BY <1>0, <3>1, <3>3 DEF OpensInv
  <2>. QED
    BY <1>3, <2>1, <2>2, <2>3, <2>4, <2>5, <2>6, <2>7, <2>8 DEF Recovering
<1>4. CASE Outside
  <2>. USE DEF Outside, stateVars, hostVars, restoreVars, boundVars
  <2>1. CASE Publish
    BY <1>0, <1>4, <2>1 DEF Publish, OpensInv, Marker
  <2>2. CASE RunCompose
    <3>1. UNCHANGED <<active, op, restore, attempts>>
      BY <1>4, <2>2 DEF RunCompose
    <3>2. data' \in ran' \cup {None} /\ (data' = None => ran' = {})
      <4>1. call.bundle \in Bundles
        BY <1>0, <2>2 DEF RunCompose, CallTypes
      <4>. QED
        BY <1>0, <2>2, <4>1 DEF RunCompose, ComposeUp, Opens, OpensInv
    <3>3. CASE "wrapper" \in lost'
      BY <3>1, <3>2, <3>3 DEF OpensInv, Marker
    <3>4. CASE "wrapper" \notin lost'
      BY <1>0, <2>2, <3>1, <3>2, <3>4, Composing DEF OpensInv, Marker
    <3>. QED
      BY <3>3, <3>4
  <2>. QED
    BY <1>4, <2>1, <2>2
<1>5. CASE EndsRestore
  BY <1>0, <1>5 DEF EndsRestore, OpensInv
<1>. QED
  BY <1>1, <1>2, <1>3, <1>4, <1>5, StepKinds

-----------------------------------------------------------------------------
(***************************************************************************)
(* What a marker that is ready stands on.                                  *)
(***************************************************************************)
\* The environment and the pointer name the bundle from their stages on.
LEMMA RecordStep ==
  ASSUME TypeInv, RecordInv, ProductionNext
  PROVE  RecordInv'
<1>0. OpInv /\ Idle.at = "idle"
  BY DEF TypeInv, Idle
<1>. USE DEF hostRecord, RecordInv, Marking, Restoring, Starting, Adopting, Before, Moved
<1>1. CASE Passing
  <2>1. CASE \E pass \in Passes : Moved(pass[1], pass[2])
    <3>1. /\ op'.bundle = op.bundle
          /\ op'.at \in Starting \cup Restoring \cup Adopting => op.at \in Starting \cup Restoring \cup Adopting
          /\ op'.at = "point" => op.at = "link"
          /\ op'.at # "link"
      BY <2>1 DEF Passes
    <3>. QED
      BY <1>1, <3>1 DEF Passing
  <2>. QED
    BY <1>0, <1>1, <2>1 DEF Passing, Switching
<1>2. CASE Deploying
  <2>1. CASE WriteEnv /\ Moved("env", "link")
    BY <2>1 DEF WriteEnv
  <2>2. CASE Point /\ Moved("point", IF op.kind = "activate" THEN "install" ELSE "seed")
    BY <2>2 DEF Point
  <2>3. ASSUME NEW b \in Bundles, Activate(b) PROVE RecordInv'
    <3>1. op'.at \in {"mark", "pause"}
      BY <2>3 DEF Activate, Idle
    <3>. QED
      BY <3>1
  <2>. QED
    BY <1>2, <2>1, <2>2, <2>3 DEF Deploying, MarkActivating, InstallOperations, UpCore, MarkReady, MarkFailed, stateVars
<1>3. CASE Recovering
  <2>1. ASSUME NEW b \in Bundles, Prepare(b) PROVE RecordInv'
    <3>1. op'.at = "open"
      BY <2>1 DEF Prepare, Idle
    <3>. QED
      BY <3>1
  <2>2. CASE Complete
    <3>1. op'.bundle = active.bundle /\ UNCHANGED <<env, current>> /\ Coherent
      BY <2>2 DEF Complete, Idle, stateVars
    <3>. QED
      BY <3>1 DEF Coherent
  <2>. QED
    BY <1>0, <1>3, <2>1, <2>2 DEF Recovering, RecordRestoring, SeedVolume, StartRestored, InstallFenced, Prepared,
       Adopt, stateVars
<1>4. CASE Outside
  BY <1>4 DEF Outside, Publish, RunCompose, stateVars
<1>5. CASE EndsRestore
  BY <1>0, <1>5 DEF EndsRestore
<1>. QED
  BY <1>1, <1>2, <1>3, <1>4, <1>5, StepKinds

\* The data were last opened by the bundle that is deployed.
LEMMA DataStep ==
  ASSUME TypeInv, IdentityInv, OpensInv, DataInv, ProductionNext
  PROVE  DataInv'
<1>0. OpInv /\ StateTypes /\ Idle.at = "idle" /\ ("wrapper" \in lost => "wrapper" \in lost')
  BY Written DEF TypeInv, Idle, Writes
<1>1. SUFFICES ASSUME "wrapper" \notin lost' PROVE DataInv'
  BY DEF DataInv
<1>2. /\ "wrapper" \notin lost
      /\ op.at \in Grounded => data = op.bundle
      /\ restore = "private" => active # None /\ data = active.bundle
  BY <1>0, <1>1 DEF DataInv
<1>. USE DEF hostRecord, DataInv, Grounded, Adopting
<1>3. CASE Passing
  <2>1. CASE \E pass \in Passes : Moved(pass[1], pass[2])
    <3>1. op'.bundle = op.bundle /\ (op'.at \in Grounded => op.at \in Grounded)
      BY <2>1 DEF Passes, Moved
    <3>. QED
      BY <1>2, <1>3, <3>1 DEF Passing
  <2>. QED
    BY <1>0, <1>2, <1>3, <2>1 DEF Passing, Switching, Moved
<1>4. CASE Deploying
  <2>0. UNCHANGED restore
    BY <1>4 DEF Deploying, restoreVars
  <2>. USE DEF stateVars, hostVars, Moved
  <2>1. CASE MarkActivating /\ Moved("mark", "env")
    <3>1. restore # "private"
      <4>1. op.kind \in {"activate", "restore"}
        BY <1>0, <2>1, KindAt DEF Marking
      <4>. QED
        BY <1>2, <2>1, <4>1 DEF IdentityInv, Opening, OpensInv, Excused
    <3>. QED
      BY <2>0, <2>1, <3>1
  <2>2. CASE (WriteEnv /\ Moved("env", "link")) \/ (InstallOperations /\ Moved("install", "edge"))
             \/ (Point /\ Moved("point", IF op.kind = "activate" THEN "install" ELSE "seed"))
    BY <1>2, <2>0, <2>2 DEF WriteEnv, Point, InstallOperations
  <2>3. CASE UpCore /\ Moved("core", "gateway")
    <3>1. op.kind \in Deploys /\ active = Marker("activating") /\ UNCHANGED active /\ data' = op.bundle
      BY <1>0, <2>3, KindAt DEF UpCore, Opens, OpensInv, Underway, Starting, Deploys
    <3>2. active # None /\ active.bundle = op.bundle
      BY <1>0, <3>1, MarkerTyped DEF Marker
    <3>. QED
      BY <2>3, <3>1, <3>2
  <2>4. CASE (MarkReady /\ Moved("ready", "timers")) \/ (MarkFailed /\ Moved("failed", "fence"))
    <3>1. op.kind \in Deploys
      BY <1>0, <2>4, KindAt DEF Failing, Deploys
    <3>2. restore # "private"
      BY <1>2, <2>4, <3>1 DEF IdentityInv, Opening, OpensInv, Excused, Deploys
    <3>. QED
      BY <2>0, <2>4, <3>2
  <2>5. ASSUME NEW b \in Bundles, Activate(b) PROVE DataInv'
    <3>1. op'.at \in {"mark", "pause"} /\ UNCHANGED <<active, data>>
      BY <2>5 DEF Activate, Idle
    <3>. QED
      BY <1>2, <2>0, <3>1
  <2>. QED
    BY <1>4, <2>1, <2>2, <2>3, <2>4, <2>5 DEF Deploying
<1>5. CASE Recovering
  <2>. USE DEF stateVars, hostVars, restoreVars, Moved
  <2>1. ASSUME NEW b \in Bundles, Prepare(b), UNCHANGED hostRecord PROVE DataInv'
    <3>1. op'.at = "open"
      BY <2>1 DEF Prepare, Idle
    <3>. QED
      BY <1>2, <2>1, <3>1
  <2>2. CASE (RecordRestoring /\ Moved("record", "mark"))
             \/ (SeedVolume /\ Moved("seed", IF seeded' = Len(Volumes) THEN "restored" ELSE "seed"))
    BY <1>2, <2>2 DEF RecordRestoring, SeedVolume
  <2>3. CASE StartRestored /\ Moved("restored", "fenced")
    <3>1. op.kind = "restore"
      BY <1>0, <2>3, KindAt DEF Restoring
    <3>2. restore' # "private" /\ data' = op.bundle
      BY <2>3, <3>1 DEF StartRestored, IdentityInv, Opening
    <3>. QED
      BY <2>3, <3>2
  <2>4. CASE InstallFenced /\ Moved("fenced", "private")
    BY <1>2, <2>4 DEF InstallFenced
  <2>5. CASE Prepared
    <3>1. op.kind \in Deploys /\ op.at = "private"
      BY <1>0, <2>5, KindAt DEF Prepared, At, Restoring, Deploys
    <3>2. active # None /\ active.bundle = op.bundle
      BY <1>0, <3>1, MarkerTyped DEF OpensInv, Underway, Restoring, Marker
    <3>. QED
      BY <1>0, <1>2, <2>5, <3>1, <3>2 DEF Prepared
  <2>6. CASE Adopt
    BY <1>0, <2>6 DEF Adopt
  <2>7. CASE Complete
    <3>1. restore = "private" /\ restore' = "completing" /\ op'.bundle = active.bundle /\ UNCHANGED data
      BY <2>7 DEF Complete, Idle
    <3>. QED
      BY <1>2, <3>1
  <2>. QED
    BY <1>5, <2>1, <2>2, <2>3, <2>4, <2>5, <2>6, <2>7 DEF Recovering
<1>6. CASE Outside
  <2>1. UNCHANGED <<op, restore, active>>
    BY <1>6 DEF Outside, Publish, RunCompose, stateVars, restoreVars
  <2>2. op.at \in Grounded => active # None /\ active.bundle = op.bundle
    <3>1. op.at \in Grounded => op.kind \in Deploys /\ active = Marker("activating")
      BY <1>0, KindAt DEF OpensInv, Underway, Restoring, Starting, Deploys
    <3>. QED
      BY <1>0, <3>1, MarkerTyped DEF Marker
  <2>3. CASE Publish
    BY <1>2, <2>1, <2>3 DEF Publish, hostVars
  <2>4. CASE RunCompose
    BY <1>1, <1>2, <2>1, <2>2, <2>4, Composing
  <2>. QED
    BY <1>6, <2>3, <2>4 DEF Outside
<1>7. CASE EndsRestore
  BY <1>0, <1>7 DEF EndsRestore
<1>. QED
  BY <1>3, <1>4, <1>5, <1>6, <1>7, StepKinds

\* What a backup copies is decided once.
LEMMA CopiedOnce ==
  ASSUME TypeInv, ProductionNext, job'.at \in Copied
  PROVE  Dump \/ (job.at \in Copied /\ job'.of = job.of)
<1>0. job \in Jobs /\ NoJob.at = "idle"
  BY DEF TypeInv, JobInv, NoJob
<1>. USE DEF Copied
<1>1. CASE Touches
  BY <1>1 DEF Touches
<1>2. CASE BackupBegins
  BY <1>2 DEF BackupBegins, NoJob
<1>3. CASE StopOperations \/ BackupFails \/ BackupCutOff \/ Publish \/ Reboot
  BY <1>0, <1>3 DEF StopOperations, BackupFails, BackupCutOff, Trap, TrapCutOff, Publish, Reboot
<1>4. CASE PauseCore \/ ListCore \/ PauseEcho \/ ListEcho
  BY <1>0, <1>4 DEF PauseCore, ListCore, PauseEcho, ListEcho, List, Pause, Reaches, Jobs
<1>5. CASE CopyEcho \/ Resume \/ Crash
  BY <1>0, <1>5 DEF CopyEcho, Resume, Crash, Reaches, Jobs
<1>. QED
  BY <1>1, <1>2, <1>3, <1>4, <1>5, BackupSteps DEF BackupStep

\* The second backup of a deployment copies the data of its bundle.
LEMMA BackedStep ==
  ASSUME TypeInv, OwnInv, DataInv, BackedInv, ProductionNext
  PROVE  BackedInv'
<1>0. /\ OpInv /\ StateTypes /\ JobInv /\ job \in Jobs /\ Writes /\ Owned /\ OwnInv'
      /\ Idle.at = "idle" /\ NoJob.at = "idle" /\ NoJob.owner = "none"
  BY Written, OwnerKept, OwnStep DEF TypeInv, JobInv, Idle, NoJob
<1>1. SUFFICES ASSUME "wrapper" \notin lost' PROVE BackedInv'
  BY DEF BackedInv
<1>2. /\ "wrapper" \notin lost
      /\ op.at = "verifying" /\ own = "ok" => op.bundle \in backed
      /\ op.at = "verifying" /\ job.owner = "deploy" /\ job.at \in Copied => job.of = op.bundle
      /\ op.at = "ready" => op.bundle \in backed
      /\ op.at = "verifying" => data = op.bundle
  BY <1>0, <1>1 DEF BackedInv, DataInv, Writes, Grounded, Adopting
<1>3. backed \subseteq backed'
  BY <1>0 DEF Writes, Publish
<1>4. op.at \in {"backing", "verifying"} => UNCHANGED op \/ (own' = "none" /\ (own = "ok" \/ op'.at \in {"idle", "failed"}))
  BY <1>0, Going DEF Writes, OpInv, Stages, Failing
<1>5. op'.at = "verifying" /\ own' = "ok" => op'.bundle \in backed'
  <2>1. CASE UNCHANGED own
    BY <1>0, <1>2, <1>3, <1>4, <2>1 DEF OwnInv
  <2>2. CASE Publish
    BY <1>0, <1>2, <1>3, <2>2 DEF Publish, Reaches, Outcome, OwnInv, Copied
  <2>3. CASE BackupFails \/ BackupCutOff
    BY <1>0, <1>2, <1>3, <2>3 DEF BackupFails, BackupCutOff, Trap, TrapCutOff, Outcome
  <2>. QED
    BY <1>0, <2>1, <2>2, <2>3 DEF Writes, OwnBackup, BackupDone, ResumeSchedules, Abandon, Crash, Reboot
<1>6. op'.at = "verifying" /\ job'.owner = "deploy" /\ job'.at \in Copied => job'.of = op'.bundle
  <2>. SUFFICES ASSUME op'.at = "verifying", job'.owner = "deploy", job'.at \in Copied PROVE job'.of = op'.bundle
    OBVIOUS
  <2>1. own' = "running"
    BY <1>0 DEF OwnInv
  <2>2. job.owner = "deploy"
    <3>1. ~OwnBackup("backup", "backing") /\ ~OwnBackup("verified", "verifying")
      BY DEF OwnBackup, BeginBackup, NoJob, Copied
    <3>2. ~Crash
      BY <2>1 DEF Crash
    <3>. QED
      BY <1>0, <3>1, <3>2 DEF Owned
  <2>3. UNCHANGED op
    BY <1>0, <1>4, <2>1, <2>2 DEF OwnInv
  <2>4. CASE Dump
    BY <1>0, <1>2, <2>3, <2>4 DEF Dump, Jobs
  <2>5. CASE job.at \in Copied /\ job'.of = job.of
    BY <1>2, <2>2, <2>3, <2>5
  <2>. QED
    BY <2>4, <2>5, CopiedOnce
<1>7. op'.at = "ready" => op'.bundle \in backed'
  <2>. SUFFICES ASSUME op'.at = "ready" PROVE op'.bundle \in backed'
    OBVIOUS
  <2>1. op' = op \/ (Moved("verifying", "ready") /\ own = "ok")
    <3>1. CASE Passing
      <4>1. op' = op \/ Moved("verifying", "ready")
        <5>1. CASE \E pass \in Passes : Moved(pass[1], pass[2])
          BY <5>1 DEF Passes, Moved
        <5>. QED
          BY <1>0, <3>1, <5>1 DEF Passing, Moved, Switching
      <4>. QED
        BY <1>4, <4>1 DEF Moved
    <3>2. CASE Deploying
      <4>1. \A b \in Bundles : Activate(b) => op'.at # "ready"
        BY DEF Activate, Idle
      <4>. QED
        BY <3>2, <4>1 DEF Deploying, Moved
    <3>3. CASE Recovering
      <4>1. \A b \in Bundles : Prepare(b) => op'.at = "open"
        BY DEF Prepare, Idle
      <4>2. Complete => op'.at = "check"
        BY DEF Complete, Idle
      <4>. QED
        BY <1>0, <3>3, <4>1, <4>2 DEF Recovering, Moved, Prepared, Adopt
    <3>4. CASE Outside \/ EndsRestore
      BY <1>0, <3>4 DEF Outside, EndsRestore, Publish, RunCompose
    <3>. QED
      BY <3>1, <3>2, <3>3, <3>4, StepKinds
  <2>. QED
    BY <1>2, <1>3, <2>1 DEF Moved
<1>. QED
  BY <1>5, <1>6, <1>7 DEF BackedInv

\* So a marker that becomes ready, or stays so, tells the truth.
LEMMA ReadyStep ==
  ASSUME TypeInv, OpensInv, RecordInv, DataInv, BackedInv, ReadyIsWhole, ProductionNext
  PROVE  ReadyIsWhole'
<1>0. OpInv /\ StateTypes /\ ("wrapper" \in lost => "wrapper" \in lost') /\ backed \subseteq backed'
  BY Written DEF TypeInv, Writes, Publish
<1>1. SUFFICES ASSUME active' # None, active'.status = "ready" PROVE ReadyIsWhole'
  BY DEF ReadyIsWhole
<1>. USE DEF ReadyIsWhole, Coherent, hostRecord, stateVars, hostVars, Moved
<1>2. op.at \in Underway => active.status # "ready"
  BY DEF OpensInv, Marker
<1>3. CASE UNCHANGED <<active, env, current, data>>
  BY <1>0, <1>1, <1>3
<1>4. CASE MarkReady
  <2>1. op.at = "ready" /\ active' = Marker("ready") /\ UNCHANGED <<env, current, data, lost, backed>>
    BY <1>4 DEF MarkReady, At, backupVars, boundVars
  <2>2. /\ env = op.bundle /\ current = op.bundle
        /\ "wrapper" \notin lost => data = op.bundle /\ op.bundle \in backed
    BY <2>1 DEF RecordInv, DataInv, BackedInv, Grounded, Adopting
  <2>3. active'.bundle = op.bundle
    BY <2>1 DEF Marker
  <2>. QED
    BY <1>1, <2>1, <2>2, <2>3
<1>5. CASE RunCompose
  <2>1. UNCHANGED <<active, env, current, backed>>
    BY <1>5 DEF RunCompose
  <2>2. CASE "wrapper" \in lost'
    BY <1>1, <2>1, <2>2
  <2>3. CASE "wrapper" \notin lost'
    BY <1>1, <1>5, <2>1, <2>3, Composing
  <2>. QED
    BY <2>2, <2>3
<1>6. CASE op.at \in Underway /\ UNCHANGED active
  BY <1>1, <1>2, <1>6
<1>. USE DEF Underway, Marking, Starting, Restoring, Adopting
<1>7. CASE Deploying
  <2>1. ~MarkActivating /\ (MarkFailed => UNCHANGED <<active, env, current, data>>)
    BY <1>1 DEF MarkActivating, MarkFailed, Marker
  <2>2. (WriteEnv \/ Point \/ UpCore \/ InstallOperations) => UNCHANGED active
    BY DEF WriteEnv, Point, UpCore, InstallOperations
  <2>3. \A b \in Bundles : Activate(b) => UNCHANGED <<active, env, current, data>>
    BY DEF Activate
  <2>. QED
    BY <1>3, <1>4, <1>6, <1>7, <2>1, <2>2, <2>3 DEF Deploying
<1>8. CASE Recovering
  <2>1. CASE StartRestored /\ Moved("restored", "fenced")
    BY <1>6, <2>1 DEF StartRestored
  <2>. QED
    BY <1>3, <1>8, <2>1 DEF Recovering, RecordRestoring, SeedVolume, InstallFenced, Prepared, Adopt, Complete
<1>9. CASE Passing \/ EndsRestore \/ Publish
  BY <1>3, <1>9 DEF Passing, EndsRestore, Publish
<1>. QED
  BY <1>5, <1>7, <1>8, <1>9, StepKinds DEF Outside

-----------------------------------------------------------------------------
(***************************************************************************)
(* The theorems.                                                           *)
(***************************************************************************)
HostInv ==
  /\ TypeInv /\ OwnInv /\ PausedInv /\ CopyInv /\ FenceInv
  /\ IdentityInv /\ OpensInv /\ RecordInv /\ DataInv /\ BackedInv /\ ReadyIsWhole

\* A new host and an empty replacement host satisfy the invariant.
LEMMA HostStarts == ProductionInit => HostInv
<1>. SUFFICES ASSUME ProductionInit PROVE HostInv
  OBVIOUS
<1>. USE DEF ProductionInit
<1>0. /\ Idle \in Operations /\ Idle.kind = "none" /\ Idle.at = "idle" /\ Len(Volumes) = 5
      /\ NoJob \in Jobs /\ NoJob.at = "idle" /\ NoJob.owner = "none"
      /\ NoJob.paused = {} /\ NoJob.gone = {} /\ NoJob.live = {}
  BY FiveVolumes DEF Idle, Operations, Stages, NoJob, Jobs
<1>1. ctr \in Containers /\ \A s \in Services : ~ctr[s].up /\ ~ctr[s].paused
  BY DEF Containers, Images
<1>2. StateTypes
  <2>1. timers \in [enabled : BOOLEAN, active : BOOLEAN]
    BY <1>0
  <2>2. env \in Bundles \cup {"development", "absent"} /\ key \in BOOLEAN /\ whole \in BOOLEAN
    OBVIOUS
  <2>3. seeded \in 0 .. Len(Volumes)
    BY <1>0
  <2>. QED
    BY <2>1, <2>2, <2>3 DEF StateTypes
<1>3. CallTypes /\ OpInv /\ JobInv
  BY <1>0, <1>1, BoundsAssumption DEF CallTypes, OpInv, JobInv, Deploys, Services
<1>4. OwnInv /\ PausedInv /\ CopyInv /\ FenceInv /\ ReadyIsWhole
  BY <1>0, <1>1 DEF OwnInv, PausedInv, CopyInv, FenceInv, ReadyIsWhole
<1>5. IdentityInv /\ OpensInv /\ RecordInv /\ DataInv /\ BackedInv
  BY <1>0 DEF IdentityInv, OpensInv, RecordInv, DataInv, BackedInv, Opening, Marking, Restoring, Starting, Adopting, Underway,
              Grounded, Before, Excused, Named
<1>. QED
  BY <1>1, <1>2, <1>3, <1>4, <1>5 DEF HostInv, TypeInv

\* Every step, and no step, keeps it.
LEMMA HostStep == HostInv /\ [ProductionNext]_productionVars => HostInv'
<1>. SUFFICES ASSUME HostInv, [ProductionNext]_productionVars PROVE HostInv'
  OBVIOUS
<1>1. CASE UNCHANGED productionVars
  <2>1. UNCHANGED <<stateVars, hostVars, backupVars, boundVars, op, attempts, restoreVars>>
    BY <1>1 DEF productionVars
  <2>. USE DEF stateVars, hostVars, backupVars, boundVars, restoreVars
  <2>2. TypeInv'
    BY TypesKept DEF HostInv
  <2>3. OwnInv' /\ PausedInv' /\ CopyInv' /\ FenceInv'
    BY <2>1 DEF HostInv, OwnInv, PausedInv, CopyInv, FenceInv, Unfenced, Quiet
  <2>4. IdentityInv' /\ OpensInv'
    BY <2>1 DEF HostInv, IdentityInv, OpensInv, Excused, Named, Marker
  <2>5. RecordInv' /\ DataInv' /\ BackedInv' /\ ReadyIsWhole'
    BY <2>1 DEF HostInv, RecordInv, DataInv, BackedInv, ReadyIsWhole, Coherent
  <2>. QED
    BY <2>2, <2>3, <2>4, <2>5 DEF HostInv
<1>2. CASE ProductionNext
  BY <1>2, TypesKept, OwnStep, PausesKept, FenceStep, IdentityStep, OpensStep, RecordStep, DataStep, BackedStep,
     ReadyStep DEF HostInv
<1>. QED
  BY <1>1, <1>2

\* It holds on every host.
LEMMA HostHolds == ProductionSpec => []HostInv
  BY HostStarts, HostStep, PTL DEF ProductionSpec

\* Every variable of the host keeps its type, over crashes, reboots and failing commands.
THEOREM TypeCorrect == ProductionSpec => []ProductionTypeOK
<1>1. HostInv => ProductionTypeOK
  BY DEF HostInv, TypeInv, StateTypes, Actives, Sites, Containers, Images, ProductionTypeOK
<1>. QED
  BY <1>1, HostHolds, PTL

\* A backup that fails, times out or is stopped with its service leaves no writer
\* paused, unless Docker refused to resume it, the script was killed outright, or
\* ended between the pause and its entry in the list.
THEOREM Resumed == ProductionSpec => []WritersResume
<1>1. HostInv => WritersResume
  <2>. SUFFICES ASSUME HostInv, job.at = "idle", "resume" \notin lost, NEW s \in Services \ lost PROVE ~ctr[s].paused
    BY DEF WritersResume
  <2>1. job.paused = {}
    BY DEF HostInv, TypeInv, JobInv, NoJob
  <2>. QED
    BY <2>1 DEF HostInv, PausedInv
<1>. QED
  BY <1>1, HostHolds, PTL

\* No published archive was copied while Synapse and the control service ran.
THEOREM Consistent == ProductionSpec => []ServerCopyConsistent
<1>1. HostInv => ServerCopyConsistent
  BY DEF HostInv, CopyInv, ServerCopyConsistent
<1>. QED
  BY <1>1, HostHolds, PTL

\* A restored host never makes an identity of its own.
THEOREM Restored == ProductionSpec => []IdentityKept
<1>1. HostInv => IdentityKept
  BY DEF HostInv, IdentityInv, IdentityKept
<1>. QED
  BY <1>1, HostHolds, PTL

\* A failed deployment whose fencing steps all worked has no schedule left to run it again.
THEOREM Fenced == ProductionSpec => []FailedIsFenced
<1>1. HostInv => FailedIsFenced
  BY DEF HostInv, FenceInv, Unfenced, Quiet, Idle, FailedIsFenced
<1>. QED
  BY <1>1, HostHolds, PTL

\* A ready marker describes the host, the data and a backup of it.
THEOREM Whole == ProductionSpec => []ReadyIsWhole
<1>1. HostInv => ReadyIsWhole
  BY DEF HostInv
<1>. QED
  BY <1>1, HostHolds, PTL

\* The data are never opened again by a bundle older than the last that opened them.
LEMMA NewerStep ==
  ASSUME HostInv, ProductionNext, data' # data
  PROVE  data' \notin ran \/ "wrapper" \in lost' \/ restore \in {"completing", "complete", "failed"}
<1>0. /\ TypeInv /\ OpInv /\ IdentityInv /\ OpensInv /\ ("wrapper" \in lost => "wrapper" \in lost')
  BY Written DEF HostInv, TypeInv, Writes
<1>1. CASE UpCore
  <2>1. op.kind \in Deploys /\ op.at \in Underway /\ data' = op.bundle
    BY <1>0, <1>1, KindAt DEF UpCore, Opens, At, Starting, Underway, Deploys
  <2>2. active # None /\ active.bundle = op.bundle
    BY <1>0, <2>1, MarkerTyped DEF OpensInv, Marker
  <2>. QED
    BY <1>0, <2>1, <2>2 DEF OpensInv, Excused
<1>2. CASE StartRestored
  <2>1. op.kind = "restore" /\ op.at = "restored"
    BY <1>0, <1>2, KindAt DEF StartRestored, At, Restoring
  <2>. QED
    BY <1>0, <2>1 DEF IdentityInv, OpensInv
<1>3. CASE RunCompose
  BY <1>0, <1>3, Composing DEF OpensInv, Excused
<1>. QED
  BY <1>1, <1>2, <1>3, Written DEF Writes

THEOREM Newer == ProductionSpec => NeverOlder
<1>1. HostInv /\ [ProductionNext]_productionVars
        => [data' # data => \/ data' \notin ran \/ "wrapper" \in lost'
                            \/ restore \in {"completing", "complete", "failed"}]_data
  BY NewerStep DEF productionVars, hostVars
<1>. QED
  BY <1>1, HostHolds, PTL DEF ProductionSpec, NeverOlder
=============================================================================
