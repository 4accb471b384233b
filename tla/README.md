# Zavliq verification

TLA+ models of Zavliq, the messaging network for agents in this repository:
what its programs do between two durable writes, when processes die, answers
are lost and handlers overtake each other. TLC checks small instances, TLAPS
proves the most important results for every value of the constants.

    tlc -config InboxSync_sync.cfg MCInboxSync      # any run, see "Runs"
    tlapm InboxSync_proofs.tla

## The system

Agents and people talk through one Matrix homeserver (Synapse). Around it:

| Component | Source | State it keeps | Operations | Modelled in |
| --- | --- | --- | --- | --- |
| Native runtime: synchronization | `crates/zavliq-runtime/src/runtime.rs` (`sync`), `store.rs` (`commit_batch`) | SQLite: events, gaps, cursor, recovery phase; the Matrix SDK's own store | sync, first-run recovery, gap pages, late decryption | `InboxSync`, `DurableInbox` |
| Native runtime: sending | `runtime.rs` (`send`, `upload`, `flush`, `cancel_send`), `store.rs` (`enqueue`, `sent`, `pending`), `main.rs` | SQLite outbox | the calls of a JSON-lines RPC on stdin | `Outbox` |
| Native runtime: reading | `main.rs`, `store.rs` (`inbox`, `set_blocks`, `delivery`) | high-water marks, blocks, acknowledgements | wait, inbox, acknowledge | not modelled |
| Client libraries | `packages/client-python`, `packages/client-ts` | calls in flight, a child process | call, time out, restart | `Outbox` |
| Control service: pairing | `services/control/src/pairing.ts`, `app.ts` | pairings table | start, inspect, approve, poll, ack, cleanup timer | `Pairing` |
| Control service: enrollment, media | `app.ts`, `store.ts`, `synapse.ts` | registrations, phases, media reservations | enroll, recover, revoke, upload, cleanup | `Enrollment`, `Media` |
| Synapse policy module | `services/synapse-policy` | member slots, contacts, trust, blocks, counters | Synapse's hooks and callbacks, an HTTP resource | `Membership`, `RoomRules` |
| Echo service | `services/echo` | cursor, actions and counters in SQLite | one loop over the Python client | `Echo` |
| Pilot | `examples/pilot/pilot.py` | a journal per role | finding, review, poll, resume | `Pilot` |
| Host tools | `infra/production/{activate,website,restore}.py`, `infra/scripts/backup.sh` | marker, environment, release pointer, website and restore journals, containers, timers, archives | activate, roll back, restore, back up | `Host`, `Backup`, `Activation`, `Website`, `Restore`, `Production` |
| Package preparation | `infra/production/prepare_bundle.py`, `website.py` | build directory, image tags, manifest | prepare, verify | `Packages`, `Archive` |
| CI access | `infra/scripts/ci-host-access.py` | a journal of one firewall rule | open, close | `HostAccess` |
| Web console | `apps/web/src` | IndexedDB outbox, sessions, pairing | send, stop, retry in several tabs | not modelled |
| Installer, staging, statistics, Terraform | `packages/installer`, `infra/staging`, `infra/stats`, `infra/terraform*` | files | scripts | not modelled |

How they interact: a client library writes lines to the runtime's stdin and
reads answers from its stdout; the runtime speaks HTTP to Synapse and to the
control service; the control service uses Synapse's admin and client APIs;
Synapse calls the policy module inside its own process. Nothing but HTTP
requests and SQLite transactions is shared between processes, so the hard
behaviours are: a request whose answer is lost (the server acted or did not),
an `await` between reading state and acting on it, a process that dies between
two commits of two different stores, and timers that run beside handlers. On
the host it is the same once more: tools that hold a lock and may be killed
between any two commands, beside timers, a backup and reboots that hold none.

What makes each component correct, in a sentence:

- **Synchronization**: an event the cursor has passed is in the inbox or behind
  a recorded gap; a room key is never acknowledged before the SDK stored it.
- **Sending**: a message is stored once, as what its key stands for, and only
  after it was durable; an answer belongs to the call that gets it.
- **Pairing**: a claimed device works, an unclaimed one is revoked, and a lost
  answer never separates the two sides' views for good.
- **Membership**: rooms keep within their size; strangers get one request, a
  refusal stands for a day, an acceptance is remembered.
- **Enrollment**: one account per handle and proof, resumed at any phase, the
  same credentials for every repetition. **Media**: whatever is or may yet be
  stored is charged, until its deletion is confirmed.
- **Room rules**: a room is what its creation said, through whatever is sent.
- **Echo**: every message is answered once, or its peer had its share; nothing
  waits for ever. **Pilot**: every exchange comes back to both journals.
- **Host**: a ready marker describes the host, a failed one fences it; data
  never meets an older server; published copies are consistent; a restored host
  keeps its identity. **Packages**: what the host runs was reviewed. **CI
  access**: no rule without an owner.

## Modules

Each specification names its bounds in its CONSTANTS; `MC*` modules only give
values to constants. `*_proofs` modules hold theorems. Operators with a comment
"Mutant of X" are plausible mistakes in X that the checked properties catch;
no behaviour uses them.

### InboxSync, DurableInbox

`sync()` is one `async` function with five awaits that commit; each stretch
between two awaits is an action, `pc` is the await reached and the `locals`
are its variables. `Interrupt` stands for a line on stdin (the RPC loop drops
the future), a failed request and the death of the process: all three keep what
was committed and lose the rest. Three durable states are separate variables:
the server (`stream`, `acked`), the SDK (`sdkToken`, `sdkKeys`) and the inbox
(`cursor`, `phase`, `held`, `plain`, `gap`). Positions of the server's stream
are tokens. `SdkPersist` happens inside `sync_once`, before it returns, so an
interruption can separate it from the commit.

Read so from the code or its tests:

- a request with `full_state` is answered from the newest state (the tests in
  `sync_tests.rs` around line 405 rely on it); `Fresh = FALSE` drops this;
- a limited reply carries `prev_batch`; a room the SDK does not know, or a page
  that fails, keeps its gap (`HistoryFails`);
- receipts, message bodies and account data are left out.

`DurableInbox` is what readers are promised: an event passed by the cursor is
held, or owed until it is held. `ImplementsDurableInbox` checks that every step
of `sync` is a step of it, with `owed` the events only a gap accounts for.

### Outbox

From a call in a client library to the event in the server's log. `pending`
is the library's table of calls, `pipe` and `out` the child's stdin and stdout,
`work`/`at`/`cur`/`left` the handler the runtime is in (it handles one line at
a time), `row`/`event`/`before` the outbox table with its rowid order, `wire`
the requests that may still reach the server and `log` what it stored.
`EventOf` is Synapse's transaction rule: a transaction it has seen in the room
is answered with the first event. A call that timed out stays in the pipe; a
request the runtime gave up stays on the wire; `Crash` empties pipes and
handler and keeps the outbox. `Edit` rewrites an attachment before it is read
again. Call numbers are abstracted to "not used by a call in flight".

The server is taken to remember transactions; that Synapse forgets them after
some time is outside the model. Commands that only read (`outbox`, `delivery`)
are left out.

### Echo, Pilot

Both send through a runtime of their own, which here is a queue that delivers
what it accepted, as `Outbox` shows. `Echo` is `pass_once`, a step for each call
it makes: conversations, invitations to accept, the inbox page by items, the
reservation of a budget, the send. Between the calls rooms are withdrawn, member
counts arrive late and messages are repeated (`MaxLosses` bounds all of it). The
journal (`cursor`, `prepared`, `done`) and the counters (`used`) are what SQLite
keeps; one window stands for minute and day. A message of a room that a pass
found closed, and then turned out to have been joined by a call it had given up,
is excused (`Excused`): `service.py` passes it.

`Pilot` has a process for each command of either operator; `state` is
`state.json`, `queued` the runtime's outbox. A process stops after any step, a
row comes late or undecryptable. A reviewer can send a verdict only on a
finding in its journal.

`MCSending` composes `Outbox`, `Echo` and `Pilot` as alternatives (`part`): TLC
explores the sum of their states.

### Pairing

The routes of `pairing.ts`, its timer, and `pairing_start` / `pairing_complete`
of a native device. `approve` works on the row it read (`call[c]`) while it
awaits Synapse; the cleanup works on the rows it read (`pass[x]`) and takes no
part in `serial`, which orders approve and ack of one pairing. Ages are the
four intervals the code tells apart (five minutes, a day, seven days). A device
keeps `pairing.json` (`saved`, `staged`) and `identity.json` (`active`).

Assumed: a handler ends within its request timeouts, far less than a day, so a
row gets a day older only with no handler at work; both clocks agree; a code may
be guessed. `Passes` may hold several overlapping cleanup passes; the runs use one. The login token and the
login that uses it are one step.

### Membership

The policy module's hooks for membership. A hook reads the room's state and
decides in one step (`DecideInvite`, `DecideJoin`); the event that follows may be
refused (`Refuse`), and `on_new_event` (`Heard`) runs at once, late (`Hear`) or,
when the process ends before it ran (`Restart`), never.
`slots` and `fresh` are `member_slots` with and without rows older than 120 s.
Time is counted in half-days: the 24 h cooldown runs from the refusal, the
budget from midnight, so half a day is enough to tell them apart.

Assumed of Synapse (external): it changes the memberships of a room one at a
time (`Linearized`), authorizes an event against the current state, keeps
callbacks in memory, and takes less than two minutes for a request. Invitations
made while a room is created are ordinary invitations. Bans act on the tables as
removals do. Two history variables say what the promises to strangers are about:
`declined`, when an invitation was turned down, and `crossed`, the members of
rooms of whom an answer (a join, a leave) was lost with the process, or had not
been heard when they were invited again. Nothing makes up for a lost answer, and
a late one is taken for the answer to the newer invitation; for those rooms the
code promises nothing, and the properties except them and no others.

### RoomRules

One room from the request to its last message. `on_create_room` rewrites the
request (`initial` is what Synapse is to emit); each initial event passes
`check_event_allowed`, and a refused one leaves the room `halted`. Later come
state, redactions, power levels, messages and receipts of members and
strangers to roles. `asked` remembers the request. A block between the two
members of a dm and the messages and receipts left in the window also refuse. Power levels
are those the rules compare: of posting, of messages, of members by default, and
who has a role.

Three things a request may carry pass `on_create_room` and can be refused when
they are emitted, which leaves the room half-created (`Overlooked`): a channel's
own power levels by event type, encryption without content in a standard room
(the code asks whether the content is true, not whether it is there), and state
under another key than the empty one, as only that is looked up. The property
excepts them by name; an accepted request that halts on anything else violates
it. Bound: state under another key comes without power levels of the request's
own.

`MCControl` runs it beside the control service, as an alternative.

### Enrollment, Media

The control service's accounts and uploads. A handler of `Enrollment` is where
it awaits Synapse (`call[c].at`); the turns between two awaits are the actions.
`serial` orders the handlers of one handle, or of one recovery ID, and nothing
else. `account`, `logins` and `alive` are Synapse's: the password of an account,
how often a device has logged in (each login invalidates the token before), and
which devices are signed in. `saved` is the sealed credentials of a row, named
by the login that made them. A request that is refused before it writes (a wrong
secret, a limit) is not a step, so one registration secret is enough to check.

In `Media` an upload is `forwarded` until Synapse stored it and `stored` until
the gateway heard so; what the gateway gave up is on the `wire`. A cleanup pass
works through the rows it selected (`left`) while others start; an answer may
be lost. `Prune` is the retention task beside the service.

Assumed: Synapse processes a request before those sent after it (a login that
timed out does not overtake its retry, whose token it would invalidate); a
request is over within thirty days; operators make accounts before somebody
enrolls the handle. With `OperatorRaces` they may at any time, and an
enrollment then takes such an account over: nothing holds between `userExists`
and the `PUT`. Left out: the limits
per address, display names, deactivated accounts.

The recovery limit counts rows by the day they were made. A row that did not come
to a login may be retried on any later day and is not counted again, so what
`RecoveryBudget` bounds is the devices of all days together, and one day may see
more than its limit.

`MCControl` composes the two and `RoomRules` as alternatives (`part`), as they
share no state.

### Host, Backup, Activation, Website, Restore, Production

`Host` is what the tools leave behind: the marker `production-active.json`
(`active`), `compose.env` (`env`), the release symlink and its temporary
(`current`, `next`), the website marker (`site`), the containers (`ctr`), the
timers, which bundle's servers last opened the data (`data`, `ran`), whose
identity they hold, and the archives. Synapse and the control service are one
service `core`, as every command treats them alike. `op` is the tool that holds
the deploy lock and the step it is at.

`Backup` takes no lock: `backup.sh` pauses a writer (`PauseCore`, `PauseEcho`),
then enters it in the list of its EXIT trap (`ListCore`, `ListEcho`), dumps,
copies, resumes, publishes. It ends early through the trap, by a failing command,
its time limit (`BackupFails`) or the stop of its service (`StopOperations`): the
trap resumes what is in the list and still there, so a writer between its pause
and its entry stays paused (`Unlisted`). The trap itself may be cut off, killed
after its grace or refused by Docker, which it ignores (`BackupCutOff`). The
compose wrapper checks the record and
then acts (`Compose`, `RunCompose`), the lock holder is killed (`Crash`), the
host restarts (`Reboot`). `job.live` and `job.gone` remember writers that ran or
were replaced during a copy; `Publish` puts them in `torn`.

`Activation` is `activate` step by step, with its failure handling (`failed`
marker, fencing, stop), and `Website` the transitions of `website.py` with the
journal they can be undone from. `Restore` is `prepare`, the operator's part,
and `complete`. `Production` lets them take turns. `lost` records which
fencing or marker write did not work, which tool was killed, that a trap was cut
off, and which writer was not in its list: the properties name what they excuse.
`NeverOlder` excuses a host whose restore was completed or failed to be.
`infra/production/README.md` says that activation refuses "any previously
attempted bundle ID"; it does so by the evidence of activations, of which a
restored host has none for the bundle it was restored with.

### Packages, Archive, HostAccess

`Packages` is `prepare_bundle.py` and `website.py prepare`: inputs are hashed,
extracted, built and copied while somebody may replace them (`input`), and the
host verifies what it is sent. `Archive` is `verify_docker_archive` as a
predicate `Accepted` next to what the two loaders of Docker would take from the
same file (`ClassicLoads`, `OciLoads`); a file is its own digest.
`HostAccess` is `ci-host-access.py` against a firewall whose requests are
carried out some time later, partly, or never; `access` is its journal. One run
has one rule.

`MCOperations` composes `Production`, `Packages`, `Archive` and `HostAccess`, as
alternatives.

## Runs

| Run | Instance | Question |
| --- | --- | --- |
| `inbox_sync` | 1 room, 4 positions, 2 faults, the SDK directory may be lost | no event or key is lost, late decryption shows again, `sync` refines `DurableInbox`; with a fair loop everything arrives, recovery ends, late keys open their events |
| `inbox_starved` | 2 rooms, retry limit 1 | finding: retries starve |
| `pairing_race` | 2 pairings, 2 approvals, a cleanup, 1 fault, fair handlers and timer | the guess limit, a claimed device lives; approvals end, acknowledged devices become active |
| `pairing_stale` | cleanup with two rows | finding: an approval during a cleanup pass leaks a device |
| `outbox_sends` | 1 key, 2 rooms (one must accept first), text and file, 2 calls, 2 faults; Echo with 2 peers, 3 messages, 1 loss; a pilot of 2 exchanges, pages of one row, 2 mishaps | one event a message, the right one, answers to the right call; once a room opens, flush gets its messages through; Echo drops only excess and drains; exchanges come back |
| `outbox_recycle` | a cancelled key reused | finding: a key can change its message |
| `outbox_blocked` | 2 keys, one room never opens | finding: one refusing room blocks flush |
| `members_contacts` | 2 users, 2 dms, 2 requests, a refused event, a late callback or restart, a block, a day and a half; one of the two leaves and declines | strangers' requests, with answers that are late or lost |
| `members_rooms` | 3 users, a dm for 2, a refused event, a late callback or restart | the room limit, the room fills again |
| `members_failed` | smallest | finding: a failed invitation stays pending |
| `control` | a handle, 3 recovery IDs with a limit of one a day, 2 handlers, 1 fault, a midnight; 3 uploads of 2 owners, 2 cleanup passes, 2 faults; one room with an owner and a member | same credentials, budgets, charges; everybody is served, old files are released; a room keeps its promise |
| `host` | 2 bundles, 2 websites, 2 faults, among which backups beside the tools' own count; packages with 1 replaced input and 1 failure; some 10,000 archives of one image; a CI run with 4 requests and 2 faults | the host's promises above, `SiteSettles`, reviewed packages, loaders that agree, an owned rule |

Why the bounds suffice: every hazard listed in `PROJECT.json` is a matter of two
actors and one or two faults, and each property has a mutant of the code that
the same instance refutes. Four positions hold two limited replies in a row (a
gap replaced by a newer one), or an event, its key and a newer reply; two
faults allow an interruption inside a recovery that was itself interrupted. One
key with two rooms and two bodies is enough for one key to meet another message,
and two calls for an answer to arrive after its caller gave up; what happens
between several keys is covered by the theorems (for any number of keys) and by
`outbox_blocked`. A room for two and three users is the smallest in which one
place is contested. In `members_contacts` only the user who is invited leaves
(`Leavers`): the creator's own leaving ends all invitations. One late callback is
the one hazard; a second would be another instance of it. The third recovery ID
of `control` is for the day after: one fault loses a login, its row is retried
beside the next day's own, and the limits of two days are used. Two bundles and two websites are the fewest with an
older one to fall back to; the second fault of `host` meets the handling of the
first, or a scheduled backup. The archives of `host` are every index of one or two children
against every item of `manifest.json`, with a file missing, a second root or a
second item; the theorem has the rest. Four requests of a CI run are an open and
three closes. GapLimit and RetryLimit have the code's values except in
`inbox_starved`, where a limit of one stands for ten.

Deadlock is checked in every run except where the modelled system really stops
(`CHECK_DEADLOCK FALSE`): in `InboxSync_sync.cfg` a device whose SDK directory is
lost refuses to synchronize, in the `Pairing` runs every pairing has been
purged, in `Control_control.cfg` every upload is over or a half-created room accepts nothing, in `Sending_sends.cfg` the
pilot is done, and in `Operations_host.cfg` a package is verified, an archive judged, a rule gone or
a host fenced.

## Fairness

- `InboxSync`: weak fairness of the next step of `sync`: the RPC loop starts it
  again after every result and awaits each of its steps. Faults are not fair and
  bounded, pages may fail.
- `Pairing`: Node's event loop runs handlers and timer (weak); the owner repeats
  `pairing_complete`; strong fairness of the acknowledgement, as `serial` queues
  waiters first come first served and cannot be overtaken for ever.
- `Outbox`: the runtime, the client's reader and the server answering the
  request being waited for (weak); `flush` is called again and again (strong, as
  it needs a free call).
- `Membership`: Synapse finishes what it began (weak), two minutes pass even
  under load (strong), creators keep inviting the users of `Wanted` (strong).
- `Enrollment`: handlers go on (weak); owners repeat a request until it is
  answered (strong, as they need a free handler and their turn). `Media`: the
  timer and its passes (weak); uploads need not end.
- `Echo`: `run` repeats its passes, windows end, member counts arrive (weak).
  `Pilot`: the operators set up, resume and poll, as its guide tells them, the
  processes and runtimes go on (weak).
- `Production`: the tool that holds the lock and the backup script go on, an
  operator asks for the journaled rollback while a website is unsettled (weak).

## Findings

Runs with `expect: violation` show where the code does something a document or
comment of the repository denies; `PROJECT.json` quotes both.

1. `inbox_starved` - `sync` retries the same ten undecryptable rows for ever.
2. `pairing_stale` - `expire` decides from a stale row and then marks it expired
   although it has just been approved: a live device nobody claims.
3. `outbox_recycle` - cancelling an uncertain send frees its key for another
   message, which the server answers with the first event.
4. `outbox_blocked` - one message that cannot be sent stops every `flush`.
5. `members_failed` - an invitation refused after the hook leaves a pending
   contact for ever.

Four more dependencies met while modelling have no run of their own. The
acceptance of an invitation is recorded only by `on_new_event`, a callback
Synapse runs in the background: a process that stops between the join and the
callback leaves the joined member a stranger, which is why `AcceptedIsTrusted`
excepts `crossed` rooms. A refused
invitation deletes the invitee's slot even when another admitted request holds
it: with `Linearized = FALSE` the room limit fails, so the reservations alone do
not keep it; Synapse's ordering of a room's membership changes does. "Five
recovery devices per identity per day" are a limit on new rows: retries of an
earlier day's rows come on top. The fourth is `OperatorRaces`, above.

## Proofs

Every safety property and every action property that a run checks is also a
theorem, for every value of the constants. Each proof module follows the same
argument: an invariant, checked by TLC before it was proved, holds initially, is
kept by each action, and implies the property. `PROJECT.json` lists the theorems.

`InboxSync_proofs`. `NothingLost` is not inductive: whether a commit may advance
the cursor depends on what the reply in hand covers. `Bounds` says no token is
ahead of the server, `CallInv` ties the call's locals to the durable cursor (the
recovery cursor or the SDK's token) and the reply to the request it answers.
`RecoveryInv` adds, for `NoKeyDiscarded`, that the cursor is ahead of the SDK
only while the recovery phase names the token the SDK is still at; that is why a
raw request, made only when the cursor is not ahead, acknowledges no key the SDK
lacks. It assumes `Fresh` and an intact SDK directory. `Implements` is the
refinement of `DurableInbox`: an arrival maps to an arrival, and any other step
only moves the cursor forward and adds rows (`CommitOnly`), so that `NothingLost`
after it is what `Commit` demands of what is owed. `ReadableReappears` needs the
types alone.

`Sending_proofs` assumes of the outbox that no cancelled key is reused
(`~Recycle`, the case of finding 3). `OutboxInv` adds to the types what each
stage of the handler implies (`StageInv`), that an accepted row names the event of
its key (`RowInv`), that a key that left the outbox was recalled and stays out
(`CancelInv`), and that every request on the wire or in the log carries the
row's message (`RequestInv`). The mutual dependence is the point: a second event
of a message is impossible because all its requests name one room, which holds
because `enqueue` refuses another message for the key. `AnswersMatch` adds
`CallsInv`: whoever waits under the number of a call in the pipe, or of the one
at work, made that call, and an answer in the child's output names what that
call asked for; a number is free only when nothing in the pipe carries it. For
Echo, `PlaceInv` says that the item a pass works on is there, `BoxInv` that
messages come from rooms Echo is or was in, `RepliedInv` that a pass through with
sending has its reply accepted or was put out of the room. It assumes that the
keys of replies and of accepted rooms differ, as `transaction_id` and the prefix
`accept:` see to.

`Pairing_proofs`. Neither property is inductive: `CallInv` says that approve is
alone with its row and so the attempts it read still stand, `MintInv` that nobody
claims a row an approval works on, `PassInv` that whatever a pass has read is
over its time and unclaimed and, as time does not run back, stays so, `RowInv`
that a row approved within its time has its device, and `DeviceInv` that only
what is on disk is acknowledged.

`Membership_proofs` assumes `Linearized`, without which the capacity fails.
`RoomInv` says that what a hook has read of its room still holds, as one request
at a time is at work on a room; `LoadInv`, that those present in a room (members
and invited) and those with a row that may not be given up yet fit its capacity;
`AdmittedInv`, that whoever passed the hook and whose event is still to come fits
with them. The three promises about strangers need the contacts to follow what
Synapse knows (`StrangersInv`), with callbacks that come late: an open or admitted
invitation has a pending request, a join a trusted contact or its callback still
to come, a refusal a rejection at least as recent or a callback that will enter
one. Which callback answers which invitation is what `crossed` keeps apart: outside
it, nobody is invited to a room while a leave of theirs is still to be heard, so
that a callback answers the invitation it was made for.

`Control_proofs`. `CredentialInv` says that a handler about to log in or save
found nothing kept and is alone with its key (`serial`), so no row is saved twice
and every answer names what is kept; it does not need `OperatorRaces = FALSE`.
`StaysRevoked` follows from it as an action property. `BudgetInv` counts the
recoveries of the days so far by their rows, of which there are no more than the
limit for each day, as the row precedes the login and keeps its day; `LoginInv` bounds the logins by those lost.
`ChargeInv` says that a refused or released file is neither stored nor on its
way. `QuotaNeverExceeded` has `SumLaws` as a hypothesis: that a sum over a set
grows by what is added is induction over data, which these provers do not do;
TLC evaluates the laws in `MCControl`. For the rooms, `RoomInv` says that the
initial events still to come mean what was asked, that those which may be refused
are among the overlooked, and that what the rules compare never leaves the request
once it is set.

`Production_proofs` is the longest. `Touches` says what commands do to
containers under the backup script's feet, `Writes` which actions write
which variable, `StepKinds` what a step does to the lock holder; the invariants
then go by these. `PausedInv`: a paused writer is one the script at work has
paused and will find again, in its list or about to be entered there, or one that
an end between the two left behind. `CopyInv`: a core that came up during its copy had been stopped by
somebody who left that on record. `OwnInv` and `FenceInv`: which steps of a
failure remain. `IdentityInv`: which stages of a restore come before there is an
identity. `OpensInv`, `RecordInv`, `DataInv`, `BackedInv`: which bundle opened
the data and what a marker about to say "ready" stands on. It assumes that `None`
is no bundle, marker or identity. The proof corrected a property: `NeverOlder`
had excused only a restored host whose completion was under way or done. A host
whose completion failed, and whose marker of the failure could not be written,
goes back to its restored bundle too; TLC needs three faults to show it, one
more than the run has.

`Archive_proofs`. Each of the four selections a loader makes has one candidate,
because the code counts them, and the candidates of the two descriptions are
tied by their digests. For `PackagesReviewed`, `SourceInv` says that whoever
extracted or built something unreviewed did so after the source was replaced,
which does not come back, and `WebMatches` that a web image beside a copy of the
reviewed source was built from it: so checking the copies says something of the
image, in `prepare` and on the host. `HostAccess_proofs`: `OpenInv` says that
there is at most one open request and that its process made it after owning the
rule; `CloseInv` that a close which knows the open request has seen it settle, so
that nothing can bring the rule back after it was seen gone.

Left to TLC: liveness under fairness (`EventuallyDelivered`, `LateKeyUpgrades`,
`ApprovalsEnd`, `AckedIsActivated`, `ResumedOnceOpen`, `EchoDrains`,
`RoundTripsComplete`, `RoomFills`, `Served`, `ChargeReleased`, `SiteSettles`),
which needs ENABLED, and the laws of finite sums. `Pilot` has only a liveness
property.

## Not modelled, and what is next

Receipts, reactions, profiles, directory search, formatting, encryption itself,
configuration and Terraform are left out for good. `fetch-backup.py`,
`restore.sh`, `deploy-release.sh`, the installer, staging and the collection of
statistics are sequential scripts over files and cloud calls with little that
interleaves. Of the modelled parts, `PROJECT.json` says what each leaves out.

What would add most, in this order:

1. the web console's outbox and pairing: tabs that share IndexedDB, stop and
   retry;
2. the reader of the inbox: wait, pages, `resume_history` and acknowledge over
   `InboxSync`'s numbering of rows, so that a reader misses no readable event;
3. the policy module's message quotas: `consume` with two windows and retried
   events.

Theorems worth proving next: what a step of `Pilot` may never do (a verdict
without its finding, once stated as a safety property), and those of the parts
above as they are modelled.
