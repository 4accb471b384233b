------------------------------- MODULE Host -------------------------------
(* The production host as the operator tools leave and find it: the state     *)
(* files under /etc/zavliq, the containers, the systemd timers and the        *)
(* encrypted backups.  activate.py, website.py and restore.py (the modules    *)
(* that extend this one) hold one lock and take their steps in between.  What *)
(* takes no lock runs here: the backup script and the compose wrapper.        *)
(*                                                                            *)
(* Synapse and the control service are one service, "core": every command     *)
(* starts, stops and pauses them together.  A reviewed bundle or website      *)
(* package is its name; its image IDs are that name too.                      *)
EXTENDS Naturals, FiniteSets

CONSTANTS Bundles,        \* production bundles an operator may activate
          Websites,       \* website packages built over them
          Base,           \* the bundle every website was built over
          None,
          MaxFaults       \* bound: failing steps, crashes, reboots, wrapper calls
                          \* and backups beside the tools' own

ASSUME BaseAssumption == Base \in [Websites -> Bundles]
ASSUME NoneAssumption ==
  /\ None \notin Bundles \cup Websites \cup {"new", "original"}
  /\ None \notin [status : {"activating", "ready", "failed"}, bundle : Bundles, restore : BOOLEAN]
ASSUME NamesAssumption == Bundles \cap Websites = {} /\ "base" \notin Websites /\ "absent" \notin Bundles
                          /\ "development" \notin Bundles
ASSUME BoundsAssumption == MaxFaults \in Nat

Services == {"core", "echo", "gateway"}
Writers == {"core", "echo"}

VARIABLES
  active,   \* production-active.json: [status, bundle, restore] or None
  env,      \* ZAVLIQ_RELEASE of compose.env
  current,  \* the release symlink
  next,     \* a left-over current.next
  site,     \* website-active.json: [id, status, previous] or None
  wrapper,  \* production-compose.sh and the units are installed
  ctr,      \* the containers: [Services -> [image, up, paused]]
  timers,   \* the maintenance timers: [enabled, active]
  data,     \* the bundle whose core last opened the data volumes
  ran,      \* every bundle whose core has opened them
  identity, \* the deployment's keys and Echo's account: None, "new" or "original"
  backed,   \* bundles with a published archive of their data
  torn,     \* writers that ran while a published archive was copied
  job,      \* the backup script: [at, owner, paused, gone, live, of]
  own,      \* the outcome of the backup the lock holder waits for
  call,     \* a wrapper call between its check and its command
  op,       \* the operation that holds the deploy lock
  lost,     \* what failed that may excuse a bad state: fencing or marker writes,
            \* a killed tool, an overtaken wrapper call, a backup that could not
            \* resume, a writer that was paused but not yet in its list
  fuel      \* what is left of the bound

stateVars == <<active, env, current, next, site, wrapper>>
hostVars == <<ctr, timers, data, ran, identity>>
backupVars == <<backed, torn, job, own>>
boundVars == <<call, lost, fuel>>

Idle == [kind |-> "none", at |-> "idle", bundle |-> None, resume |-> FALSE,
         target |-> "base", rollback |-> FALSE, interrupted |-> FALSE, previous |-> None]
NoJob == [at |-> "idle", owner |-> "none", paused |-> {}, gone |-> {}, live |-> {}, of |-> None]

------------------------------------------------------------------------------
\* What the tools read.

\* runtime_record: marker, environment and pointer agree.
Coherent == active # None /\ env = active.bundle /\ current = active.bundle

\* The gateway image of a website, the base bundle's own for "base".
Image(w) == IF w = "base" THEN active.bundle ELSE w
SiteOf(marker) == IF marker = None THEN "base" ELSE marker.id
Settled == site = None \/ site.status = "ready"

Wanted(s, w) == IF s = "gateway" THEN Image(w) ELSE active.bundle
Healthy(s, image) == ctr[s].up /\ ~ctr[s].paused /\ ctr[s].image = image

\* require_running: exactly these images, running and not paused.
Running(w) == \A s \in Services : Healthy(s, Wanted(s, w))

\* require_fresh_project
Fresh == active = None /\ current = None /\ data = None /\ ~wrapper
         /\ \A s \in Services : ctr[s].image = None

------------------------------------------------------------------------------
\* What commands do to containers.

\* A writer that stops or is replaced takes its pause with it, and docker
\* unpause will not find it; one that starts meanwhile is copied while it runs.
Disturbs(s) == job' = [job EXCEPT !.gone = @ \cup ({s} \cap job.paused),
                                 !.live = IF job.at \in {"dump", "copy"} THEN @ \cup ({s} \cap Writers) ELSE @]

\* docker compose up: a container of that image that is already up stays as it is.
Up(s, image) ==
  IF ctr[s].up /\ ctr[s].image = image THEN UNCHANGED <<ctr, job>>
  ELSE /\ ctr' = [ctr EXCEPT ![s] = [image |-> image, up |-> TRUE, paused |-> FALSE]]
       /\ Disturbs(s)

\* up --force-recreate
Recreate(s, image) == /\ ctr' = [ctr EXCEPT ![s] = [image |-> image, up |-> TRUE, paused |-> FALSE]]
                      /\ Disturbs(s)

Down(S) == [s \in Services |-> IF s \in S THEN [ctr[s] EXCEPT !.up = FALSE, !.paused = FALSE] ELSE ctr[s]]
Stop(S) == /\ ctr' = Down(S)
           /\ job' = [job EXCEPT !.gone = @ \cup (S \cap job.paused)]

\* Core opens the data volumes; on empty volumes it makes a new identity.
Opens(b) == /\ data' = b /\ ran' = ran \cup {b}
            /\ identity' = IF identity = None THEN "new" ELSE identity

Unpaused(S) == [s \in Services |-> IF s \in S THEN [ctr[s] EXCEPT !.paused = FALSE] ELSE ctr[s]]
Spend == fuel > 0 /\ fuel' = fuel - 1
=============================================================================
