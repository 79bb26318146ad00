# Scope: specifications and proofs

Scope puts a human between a coding agent (Codex, Claude Code) and the commands the agent
wants to run. Hooks of the agent ask a *watcher* process over an authenticated local
channel. The watcher classifies the command, spends a grant the human gave earlier, or
asks the human. Anything that goes wrong ends in "no opinion", which leaves the decision
to the host's own prompt. A second workflow records what the human understood of a
failing program and dispatches checks of it.

This directory holds TLA+ modules of that program, TLC configurations that check them on
small instances, and proofs checked by TLAPS. File names such as `watch.py` are those of
the Python package `scope` (`src/scope/` in the repository).

How to read it: start with `RequestPath.tla`, one permission request from end to end, and
`GrantStore.tla` and `PermissionReview.tla`, what the watcher makes of it. `Authority.tla`
is what the watcher promises, `PermissionReviewProps.tla` says what must hold of it. The
other modules stand beside these. `*Proofs.tla` prove, `MC*.tla` and `*.cfg` are the
checked instances.

## 1. Inventory

| Part | State it keeps | Operations | Talks to |
|---|---|---|---|
| grant store (`grants.py`, `Store`) | live grants per (session, agent, cwd, shell); proposal cards per (session, agent, cwd); `generation`; clock | `propose`, `approve`, `consume`, `revoke`, `discard_grant`, `clear_session`, `_prune` | called by the watcher under `Store.lock` |
| watcher (`watch.py`, `Watcher`) | `ui_lock`, `closed`, the binding to the host session | `handle` for nine kinds of message, `_request`, `_ask`, `close`; `main`'s owner tick | store, server, review interface, log, host session |
| request server (`ipc.py`, `Server`, `Context`) | slots (semaphores), contexts with deadlines, seen nonces, lifetime lock, endpoint file | accept, authenticate, admit, dispatch, reply under the reply lock, finish, `close` | one daemon thread per connection calls the watcher |
| mailbox transport (`mailbox.py`) | a directory with lease, request, response files; OS locks on leases and on admission; `active`, `completed` | `exchange` in the hook process; poller, workers, `close` in the watcher | the server's dispatcher; other processes through the directory |
| review interface (`review_tui.py`, `watch_ui.py`) | queue of tickets, the active one, its form, focus, unread keys | enqueue, open, resolve, cancel, back to inbox, Ctrl-R, Ctrl-C, end | an event loop, the worker threads that poll their tickets, a thread that revokes |
| host adapters (`hook.py`, `host_hook.py`, `wire.py`, `propose.py`, `stop_hook.py`, `session_end_hook.py`) | none | parse a host event, ask the watcher, print a decision | `ipc.exchange`, then `mailbox.exchange`; the host session |
| host session (`host_session.py`) | the session record (identity, status, counted requests, evidence of its end) under a file lock | `register`, `observe_permission`, `close_session`, `require_session` | hooks, owner, watcher and outer launcher, each a process |
| launch (`launch.py`, the owner side of `watch.py`) | the run directory: owner lock and mark, environment file, panes, exit record | `start`, `open_panes`, `run_agent`, `_finalize`; the watcher's owner tick | tmux, the host process, the watcher, the session record |
| debugging workflow (`learning.py`, `experience.py`, `learning_cli.py`, `storage.py`) | a task file with a phase and a revision, under a project lock | start, checkpoint, check, compare, choose next, dispatch, acknowledge, revoke | runner, repository evidence |
| repository evidence and runner (`repository.py`, `runner.py`) | snapshot, citations; one child process | snapshot, validate a citation, run with a time limit | git, the operating system |
| tier classifier (`tiers.py`), coverage (`coverage.py`) | none | `classify`, `audit` | the hook and the watcher |
| receipts and log (`receipt.py`, `log.py`) | an append-only event log, a projected receipt | append, read, project, write | written by hooks and watcher, each by itself; read by the CLI |
| installer (`install.py`) | host configuration files | merge hooks, replace atomically, install the skill | other processes that edit the same files |
| command line, demo, smoke test (`cli.py`, `demo.py`, `smoke.py`, `ui.py`) | none | argument parsing, presentation | all of the above |

**A permission request** passes through most of these parts. The hook classifies it,
records it, allows it at once if it is T1 and leaves it to the host if it is T3. Otherwise
it reads the endpoint file and sends the request, by TCP or through the mailbox; a server
thread takes a slot, creates a context with a deadline, and reads the store's
generation under the lock ("admission"). `Watcher.handle` binds the context to the host
session and calls `_request`: one locked section classifies and tries `Store.consume`; if
nothing covers the request, the thread waits for `ui_lock` and for the human; a second
locked section looks at the answer. If the human approved a card, nothing is minted yet:
a *commit* callback runs in the server's reply path, which holds `Store.lock` while it
checks that the context and the generation are still good, mints the grant, spends its
first unit, sends the reply, and - if it could not be sent - discards the grant. The hook
records what it received and prints it. The receipt is projected from the log of both.

**What is hard.** Worker threads, the human, the operator's Ctrl-R, deadlines, lost
clients, a closing watcher and a closing host session interleave at every point where
the lock is not held; state is read before a prompt and used after it; a log append or a
send may fail between two changes of the store; control messages must get through while
every normal slot waits for a human; a poller and publishers coordinate by files and by
locks they can only test for an instant; the interface reads keys that were typed at an
earlier screen; two processes write one log and either may die in the middle of a line; a child
leaves descendants that hold its pipes; the user edits files that are being read or
replaced; processes die and leave files. The complete
list, each hazard at its line with the properties that cover it, is in `PROJECT.json`
("hazards").

**What makes each part correct.**

- Store: budgets, expiry and caps are kept by every order of calls, and an authority that
  was lost does not return.
- Watcher and server: an *allow* leaves only for a T1 command, for the human's own "once",
  or for a unit of a card the human approved since the last revoke; a reply that was not
  delivered leaves no grant; after a revoke or a close nothing older counts; every worker
  ends or waits for a live prompt; control messages are not starved.
- Request path: the endpoint names the running watcher; a frame is handled once however
  often it arrives; the host reads "allow" only for a routine command or because the
  watcher decided so; the receipt tells what happened or says that it does not know.
- Classifier: T1 commands are routine and do no harm; commands that do damage are T3,
  whatever wraps them and wherever earlier segments moved the shell, as long as they moved
  it in a way `classify` follows (section 6 has the ways it does not).
- Review interface: a ticket that waits can be reached, a key decides only at the form it
  was typed at and in view of its button, and nobody waits for an interface that has ended.
- Mailbox: a request is served at most once, its answer survives until it is read, the
  cap on pending requests holds, garbage is collected, every exchange ends.
- Host session: one identity, closed for good, no counted request or evidence of an end is
  lost, and the record can always be read back.
- Launch: an answer is printed only to the registered session and after its request was
  counted; a run that ended is recorded as closed, its file of secrets is gone and its
  server's endpoint was removed, whoever died.
- Debugging workflow: commands that run at once lose nothing of each other's; a probe runs
  only for the very record the human consented to; a verified observation is about the
  source it cites; the log never tells more than the state; a handoff is delivered at most
  once and only as what it says.
- Runner: a run said to have succeeded was captured completely, what could not be cleaned
  up is reported, and the call returns within its deadlines.
- Repository evidence: what a snapshot includes was in the file at one moment, ignored
  files stay out, and no file is lost without a word.
- Installer: hooks of the user stay as they are, overwritten bytes are in a backup, an event
  has one group of Scope, and only a killed installer leaves its lock behind.

## 2. Modules and how they correspond to the code

`GrantStore` is `grants.Store`. Every method holds `Store.lock`, so each is one action;
the pieces the methods share (`_prune`, the capacity test, the uuid, the unit taken by
`consume`) are operators of their own. A command is its *class*: what card patterns and
the tier classifier tell apart. A card is the set of classes it covers, and its budget.
`issued`, `terms` and `spent` are history: what each minted grant was approved for and
how often it was consumed, also after it is gone. Raising is an action that changes what
the code changed before it raised (`ApproveFull`) or no action at all.

`PermissionReview` is the watcher on top of the server's request path, EXTENDS
`GrantStore`, and changes the store only through its actions (theorem `UsesStore`). A
worker `w` is one connection; `pc[w]` follows the code:

| `pc` | code |
|---|---|
| `idle` -> `dispatch` | `Server._serve` takes a slot (or refuses) |
| `dispatch` -> `handle` | `_dispatch`: control slot serves control only; admission reads the generation |
| `handle` | `Watcher.handle`: revoke/shutdown, errors, ping, binding, dispatch by kind |
| `classify`, `propose`, `ask`, `human`, `decide`, `notice`, `stop` | the locked sections of `_request` and `handle`, `_ask` and `ui_lock` |
| `reply` ... `finalize` | the reply path under the reply lock: `BeginReply`, `CommitApprove`, `CommitConsume`, `Send`, `Finalize` |
| `finish`, `closer` | `_finish_context`: slot released, then `after_reply` (a shutdown closes) |

A `with store.lock` block is one action unless it is the reply path, whose steps are
separate because the clock, the client, the host session and `close()` move while it
holds the lock. `live`, `bound`, `gen` are the three things `_ReviewContext.active` and
`Context.reply_valid` look at. `Watcher.close` is three steps (mark, revoke, close the
server), by a shutdown's worker or by the owner.

The desk of `PermissionReview` is whatever a review interface may do to a request: answer
it once its worker holds `ui_lock`, cancel it, raise, or revoke. `ReviewDesk` EXTENDS it
and puts `review_tui.ReviewUI` in that place:

| action | code |
|---|---|
| `HandOver`, `ReadResult`, `StopWaiting`, `LeaveEarly`, `FailEarly` | `_wait`, in the worker: hand the ticket to the event loop, poll its result and the context |
| `Start`, `RunCall`, `Refresh`, `End` | the loop: callbacks in the order they were handed over, the 50 ms refresh, `run`'s `finally` |
| `Type` | the human types; the loop reads the key later, or `_drain_keys` throws it away |
| `PressEnter`, `PressTab`, `PressPage`, `PressEscape`, `PressF2`, `PressF3`, `PressCtrlR`, `PressCtrlC` | the key bindings, with `_button`, `_form`, `_back_to_inbox`, `_open_next`, `_cancel` |
| `BeginRevoke`, `RevokeStore`, `EndRevoke` | the coroutine `_revoke` and its thread |
| `OwnerTick` | `_tick` |

`ImplementsWatcher` says that this is a refinement: `ReviewDesk` is `PermissionReview` with
a desk that does less.

`Authority` is the abstract specification: clients, one human, epochs; no threads, slots,
locks or store. `PermissionReviewProps` states the properties of the watcher and the
refinement mapping to `Authority` (`Promise`, `KeepsPromise`): an epoch is the
generation, a client's word is the human's answer, its credit is the approved card's
budget minus the units delivered to clients.

`Endpoint` is the life of `ipc.Server`: the lifetime lock, the listener, the endpoint file,
`close()`, death. A server's token is the server itself, so "authentic" is "sent to the
server whose endpoint was read".

`RequestPath` EXTENDS it with the hooks (`hook.main` with `ipc.exchange`: `hook[h]` follows
the code from `start` to `print`), the dispatcher (`copy[c]` is where a copy of a frame
stands, from `wire` to `sent` or `over`), the events that hook and watcher log on the way,
and `log.append` with lines cut short. What the watcher decides is a choice here; it is
`PermissionReview`'s business. `"again"` is the copy of a frame that arrives a second time.
The same frame through the mailbox is a frame that arrives at the server the endpoint named.

`Receipt` is the projection `receipt.project` of a log, as operators. `Classifier` is
`tiers.classify` on commands that `_lex` has split: `SegmentRank` is `_segment`, with one
operator per branch, and `Directories` is the tracking of `cd`, which looks at the first
word of a segment whatever it is (`Words`: a redirection may come first). The policy files
are data; each of their lists is represented by a member or two. `CommandEffects` is the
reference it is compared with, written without it: `Hazardous` and `Routine` say what a
command can do by walking its paths from where the shell stands, and `Followed` says for
which commands the classifier can claim to know where that is. `Judge` combines them;
`RequestPath` takes the tier from the classifier and compares with the reference.

`Mailbox` models `mailbox.exchange` (in hook processes that may be killed anywhere) and
`mailbox.Listener` (poller, workers, close; the watcher may be killed too). Testing a
lease takes its OS lock for an instant, which is two steps, because the publisher may try
to lock its lease in between. `admission.lock` is a file that `close` unlinks
(`CloseUnlinks`) while somebody may still hold it: `door` is which file has that name, and
`opened[n]` which one publisher `n` has opened, so a publisher inside the old file and one
inside the new file count the leases at the same time. Frames appear at once
(`os.replace`), so temporary files are not modelled; unlinking the files of one nonce is
one step.

`HostSession` is `host_session.py`: the record and its file lock. A locked section is
three steps, `Enter` (the lock and the read), one of `Register`, `Observe`, `Close` or
`LeaveAlone` (the write, if any), because the holder may die in between; `copy` is what it
read. `SessionNext` is everything any process may do to the record.

`Launch` EXTENDS it with the processes of one run, and changes the record only through its
actions (theorem `LaunchUsesSession`):

| process | variable | code |
|---|---|---|
| owner, in the agent pane | `owner`, `host`, `saw` | `run_agent`: `owner_lock` (mark read, lock file, lock, mark written), `_wait_review`, `_wait_host`, then `_finalize` in its order: shut the review down, wait for the server's end, status, closure, exit record, files, window |
| watcher, in the review pane | `watcher`, `review` | `watch.main`: ten times a second the lock is tried and released, then the mark is read; if the owner is gone, close, remove the environment file, record an inferred end |
| outer launcher | `starter` | `open_panes` with its failures, then `start`'s loop on `exit.json` and the owner lock |
| hooks | `hook` | `host_hook.process` for a start, a permission request and an end of a session |

Files are booleans; an OS lock is its holder and is released when the holder dies. A
request to the watcher (ping, shutdown) is one step that may fail: what the watcher does
with requests for permission is `PermissionReview`, what happens to its server's slots is
there too.

`ProjectState` is `storage.py`: `state.json` under the project lock, read in one step and
replaced in another (`Lock`, then `Write` or `Refuse`). `CheckWorkflow` EXTENDS it with the
commands of the debugging workflow, each a process: `start`, `checkpoint`, `check`
(`experience.check`, with `_transition`), `next` (`choose_next`) and `next --acknowledge`
(`learning_cli._acknowledge` on `experience.dispatch`). A check goes through `pc` stages
named for what it does next (`predict`, `consent`, `recheck`, `run`, `compare`); each
phase is saved by `EnterLock`, `Transition` (which compares the saved record with `mine`)
and `LogCheck`. `RewriteCheck` and `RewriteHandoff` are other callers of
`learning.update_task` that change a record in between, as the tests do. The source is a
version number, the specification one of two values. The validation of the saved fields
(`_validate_state`) is not a model of its own: `TypeOK` says what the model relies on.

`Runner` is `runner.run` after the spawn. The child and a descendant (`process`, `group`,
`writers`) do what processes may do: write, close a stream, fork, leave the process group,
end with any code. One thread per stream (`Reads`, `ReadsEnd`) is `_Capture.drain`; the
caller goes through `WaitChild`, `TimeIsUp` or `Interrupted`, `Settle`, `Join`, `ForceCleanup`,
`Rejoin`, `Report`, which are the statements of `run` with a deadline each, in their order.
A kill is `_terminate_tree`: the group, then the child. What is killed does nothing more,
but may take its time to go. Output is counted in units.

`Snapshot` is `repository.snapshot` with `_read_source`: three listings by git (`ListNames`,
`ListHidden`, `ListUntracked`), then for each name `LookAt`, `OpenFile`, two times `ReadHalf`,
`CheckRead` and `Include`, or `PassOver` and `GiveUp`. Around it the user writes in place
(two steps, with a half written file in between), replaces, deletes, tracks and ignores
files. A name means a node; a node has content and a stamp. `moment` is history: what held
all the time since the snapshot began, and what the file being read has held.

`Install` is `install_hooks` and `install_skill`: `Start`, `CheckLayer` and `ReadTarget` without
the lock, then `TakeLock` and the same again, `Compare`, `BackUp`, `Replace`, `Unlock`. A
hook file is a function from events to groups, of which the merge tells apart Scope's own
and the user's; `Merge` and `NeedsMigration` are `_merge`. The user saves files (`UserSaves`)
and removes the lock of a dead installer, as the message asks (`UserUnlocks`).

`MCPermissionReview`, `MCReviewDesk`, `MCRequestPath`, `MCMailbox`, `MCLaunch`,
`MCCheckWorkflow`, `MCInstall`, `MCRunner` and `MCSnapshot` give the constants for TLC.
`GrantStore` has no instance of its own: its properties are checked where the watcher uses
it, and its specification by itself is proved about (section 4).

The operators whose names begin with `Mut` are plausible bugs. Nothing uses them: they
are the mutations `PROJECT.json` names to show that each checked property depends on the
code it is about.

## 3. Runs

| run | instance | what it shows |
|---|---|---|
| `review_grants` | 3 connections that send requests and two different proposals, Ctrl-R once; 955 thousand states | `KeepsPromise` (refinement of `Authority`), only delivered grants, the grant is what the human saw, nothing outlives a revoke |
| `review_faults` | 2 connections with every kind of message, 1 normal and 1 control slot, deadlines and lost clients, failing log, an interface that raises, a lost terminal, clock, host session that closes, close at any point; two proposal keys for one place in the store, and a card with a budget of two, so that a grant outlives its commit and the cap refuses, replaces and prunes; 7.8 million states | terms, budgets and caps of the store (`StoreSafe`); only a live grant is spent, in time, and a lost one never returns (`OnlyLiveIsSpent`); an empty store after close; no reply across a revoke |
| `review_desk` | the real interface: 2 connections, 2 normal slots one of which another client may hold, five scenarios of messages, events and keys; 299 thousand states, liveness included | a waiting ticket is reachable, only a key typed at the form on display answers, refinement of `PermissionReview`; a worker ends or waits on a live prompt; a revoke or shutdown that got a slot takes effect |
| `request_path` | some six thousand commands that come to 10 kinds, 2 hooks, 2 watchers one of which may be killed, frames twice, torn lines; 4.4 million states | the endpoint names the running watcher, frames are handled once, the host reads what was routine or decided and nothing for a hazardous command whose moves are followed, the receipt tells the truth |
| `mailbox` | 2 exchanges, one a control message, race for one lease; one may be killed anywhere, the watcher may close, unlinking the admission lock, or be killed; 379 thousand states, liveness included | the cap on leases until `close` unlinks the admission lock and at most one above it after, one worker per request, a delivered answer stays until it is read; every exchange ends and its slot comes back; the mailbox of a running watcher ends up empty |
| `launch` | a launch with panes and a second owner typed by hand; the owner of the pane may be killed anywhere; a hook that starts a session; 366 thousand states, liveness included | the owners take turns: one holder of the lock, at most one host while no owner is killed and no shutdown request fails, no session open after a finalized run (`OwnersInTurn`); every run, also one that no owner took, ends recorded and without its secrets (`EveryRunEnds`); no endpoint is left by a server cut short |
| `launch_faults` | one owner and four hooks (two starts, of which one of a second session, a request for permission, an end), failing writes, tmux and requests to the review, and a watcher and a hook that may be killed anywhere; 4.3 million states | nothing recorded is undone; a hook answers only for a session that is still registered and open when it prints, and its request was counted (`AnswersStayInSession`) |
| `check_workflow` | two checks, or a check and a checkpoint, or a next task with two callers that acknowledge it; one edit of the source, a session that closes, a receiver that may be killed, failing locks, snapshots, writes, logs and probes; 2 million states | history kept, consent covers the probe, log behind state, verified observations, delivery once and as saved |
| `install` | installers with and without `--abstain` on one hook file beside another layer, or two installers of the skill and a dry run; one may be killed, writing may fail, the user saves once; seven hook files to begin with; 165 thousand states | only a killed installer leaves its lock (`TypeOK`), prior bytes are in a backup, the other groups of each event stay at their places and each event has one group of Scope |
| `runner` | 2 streams, a child and a descendant, pipes of 2 units of which 1 is kept; 578 thousand states, liveness included | a success is complete and unfinished cleanup is reported (`ResultIsTrue`); the call returns and the child is not blocked by what is dropped (`NobodyIsStuck`) |
| `snapshot` | 3 names, one no source file, tables of one entry, listings cut off, 2 edits; 3.8 million states | included content was there (`SnapshotInv`), ignored files stay out, no file goes missing without a word |
| `launch_tick` | `--manual-watch`, nobody dies | **violated**, see section 6 |

**Bounds, and why they are enough.**

- Connections (`Workers`): each is used once. Two suffice for every pair of steps; three
  let a second approval replace, or a third request spend, what a race left behind.
  `Crowd` is the number of normal slots that other connections may hold at any moment: with
  it two connections are enough for a control message to arrive when no normal slot is left.
- `MaxGrants`, `MaxGeneration`: never stop a worker (`WorkersAssumption` says so and TLC
  evaluates it). Two or three grants under a cap of one give replacement, pruning at the
  cap, and an id reused if ids were not fresh; longer histories of the store by itself are
  covered by the theorems.
- `MaxNow`, `LIFETIME`: the clock reaches the expiry and passes it; properties compare
  only `now` and `expires`.
- `review_grants` and `review_desk` have one proposal key and one shell. `review_faults` has
  two keys of one session under a cap of one, so proposals compete for the place in the
  store: one for the other key is refused while the grant of the first is live and takes its
  place when that has expired (`_prune`), one for the same key replaces it. The theorems hold
  for any keys.
- `Says`: which answers the human chooses from. `review_grants` keeps the two that give
  authority; `review_faults` has those, a revoke and a card the store refuses; `review_desk`
  has those its buttons give.
- `Surroundings`: which outside events an instance includes ("expire" a deadline or lost
  client, "terminal" a lost terminal, "host" a host session that closes, "close" an owner
  that closes the watcher, "desk" an interface that cancels or raises). Each occurs in some run.
- `OperatorRevokes`: revokes typed at the desk. One is enough to separate before and
  after; workers revoke too.
- `ReviewDesk!Scenarios`: everything at once is out of reach, so a behaviour has a
  scenario: nobody at the desk, while prompts, a revoke, a shutdown and failures compete
  (`Unattended`); a request and a proposal that are answered (`Reviews`); two prompts of
  which one ends while keys are on their way (`TwoPrompts`); one prompt and every key
  (`EveryKey`); one prompt in an interface that is closed or fails under it (`Closing`).
  `MAX_PENDING` is 1: `ui_lock` lets one worker at a time hand over a ticket, and what is
  left in the queue are tickets of workers that gave up. `MaxKeys` is 2 unread keys, the
  second an Enter: a key read late, and one that was aimed at the screen before it. Ctrl-R
  is typed once.
- `MCRequestPath!MCCommands`: 6287 commands, every program of a table with up to two
  arguments out of seven kinds of path and its options, wrapped, redirected before and after
  its words, respelled, and after up to two changes of directory, for each shell. The changes
  are plain ones (`PlainMoves`) and odd ones (`OddMoves`: behind an assignment or a
  redirection, with `-`, `-P`, two directories or a redirection, and words that only look
  like a move). They come to 10 `Judge`ments, which is all that the request path tells
  apart; 287 of the commands are hazardous, not followed and T2. In the first scenario every
  judgement travels with every fault; in the second two requests that need review share a
  server and a log, each harmless or with a move that was missed.
  `MaxSeen` is 1, so the set of nonces is full after one request, and of two requests at one
  server the second is refused; the theorems hold for any size of the set. One kill
  (`Crashes`) of one of two watchers gives a stale endpoint and a successor.
- Mailbox: two exchanges give every race of a pair of publishers with the poller;
  `MayCrash` and `MayClose` bound who dies. One lease is the cap at which they compete: TLC
  checks that it is exact while the admission lock has its first file, and that two
  publishers get inside at once after `close` has unlinked it. With two exchanges there
  are never more than two leases, so that the cap is then exceeded by one at most is
  what the theorem says, for any number of exchanges and any cap. `MayLinger` is
  false in the run: `close` waits half a second for the poller, which needs less; the
  theorems hold with either value.
- Launch: two owners, one in the pane and one typed by hand, are enough for the race of any
  pair for the mark and the lock. At most one hook of each event of a session, and in
  `launch` only one that starts a session; more of them, as two requests at once, are covered
  by the theorems, which hold for any number. `MayDie` and `MayFail` bound who dies and what
  fails; the run with liveness has no failing write, because a record that cannot be
  written is not written.
- Installers: `Scenarios` lists those that run at once. They interact through the target
  and its lock, so pairs cover the races. One save of the user (`MaxEdits`)
  may fall anywhere, also in the other layer, which may hold Scope or be unreadable. `MCContents` has one hook file for each case that
  `_merge` tells apart.
- Runner: one descendant stands for all, since only the last holder of a pipe matters. With
  3 units written, pipes of 2 and a cap of 1, every pipe fills, a read crosses the cap, and
  output is dropped after it.
- Snapshot: `MaxFiles` and `MaxSkipped` are 1, so each table overflows with three names; two
  edits give a change and its reversal, or a change in each of two windows. Every write
  changes the stamp: edits that leave size and times alone are not noticed by the code
  either.
- Debugging workflow: `Scenarios` lists the commands that run at once. Commands interact
  only through the record both touch, the whole-file write and the log, so pairs cover the
  races; checks and handoffs are different parts of the file. One edit separates before
  and after at every point. A check that is killed is one that takes no further step,
  except that the system releases its lock: that is checked for a receiver.

Symmetry of connections (and of checks) is used only in runs without liveness.

**Fairness.** `ReviewDesk!FairDeskSpec` assumes that worker threads are scheduled (weak
fairness of `WorkerElsewhere` and `DeskWorker`: daemon threads, and waiting loops that poll
with a timeout), that the event loop starts, runs its callbacks and its refresh and reads
the keys that were typed, and that `close()` runs to its end. Nothing is assumed of the
human, the clients, deadlines or the host: `Type`, `Accept`, `Expire` and the rest may never
happen. `Mailbox!FairSpec` adds strong fairness of `Deadline`, because a deadline does
pass while the publisher polls and, for an instant at a time, does something else. Strong
fairness is needed for that alternation, not to give the deadline priority. `Launch!FairSpec` assumes
that owner, watcher, outer launcher and hooks that have started run on until they end or
are killed, and that time passes (`TimePasses`: the watcher's 30 seconds). The host may run
forever; which hooks it calls, and when it exits, is its choice. `Runner!FairSpec` assumes that the threads
read what there is and that the caller's deadlines pass; nothing of the child, of its
descendant or of the end of a killed process.

**Deadlock** is checked in every run. `Terminated`, `Ended`, `Over` and `Quiet` are explicit stuttering
steps for the states in which every connection, exchange or process has ended.

## 4. Proofs

Every safety property that a run checks is also a theorem, for every value of the constants.
Each proof has the same shape: an invariant strong enough to be inductive, one lemma per
action (or per group of actions that disturb the same part of it), and a last step in
temporal logic. The inductive invariants were first checked by TLC on the instances of
section 3. They stand at the end of the module they are about, under "Facts the proofs rest
on", or in the proof module itself.

**`PermissionReviewProofs`: the watcher.** Three parts, each resting on the one before.

*The store alone* (`GrantStore`), for all sets of keys, cards and commands, all lifetimes,
caps and bounds: `TypeCorrect`; `GrantsAndBudgets` (`StoreInv`, which has
`LiveGrantsKeepTheirTerms` and `BudgetNeverExceeded`); `NeverSpentLate`
(`SpentBeforeExpiry`); `LostGrantsStayLost` (`GoneStaysGone`); `CapsHold` (`WithinCaps`).
Together they are `StoreIsSafe` (`StoreSafe`) and `OnlyLiveGrantsAreSpent`
(`OnlyLiveIsSpent`), the two properties `review_faults` checks.

`BudgetNeverExceeded` is not inductive: it speaks of gone grants only through `spent`.
The invariant `StoreInv` adds that a live grant still has the terms recorded when it was
minted and that spent and left units sum to its budget (`LiveGrantsKeepTheirTerms`), and
that an id not issued yet has not been spent (`UnissuedUnspent`), which is what makes the
next uuid harmless. `Pruned` and `Charged` are dealt with once, by `PruneKeeps` and
`ChargeTakesOne`. `CapsHold` needs cardinalities: `FitsKeepsFew` shows that binding a key
that `Fits` keeps at most `MAX_BINDINGS` bound, for key sets that may be infinite.

*The watcher* (`PermissionReview`), for any number of connections, any messages, slots and
bounds:

- `ReviewTypes`: `TypeOK`, which includes the discipline of the two locks.
- `UsesStore`: `Spec => StoreSpec`. Whatever threads, human, operator and clock do, the
  store changes only by calls of the store; so each theorem above holds of the watcher
  (`WatcherKeepsBudgets` and `WatcherSpendsOnlyLive` spell two out).
- `RepliesAreCurrent` (`NoReplyAcrossRevoke`): the generation moves only while no worker
  is under the reply lock (`GenerationMovesUnlocked`), a worker enters the locked part
  only in its own generation (`LockedWorkerWasCurrent`), hence `CurrentUnderLock`; and
  replies are sent only there (`RepliesAreSent`).
- `ClosedMeansEmpty` (`ClosedStoreIsEmpty`): with `closed` set no review is active, so no
  step can add to an empty store (`ClosedStaysEmpty`); `close()` marks before it revokes
  (`ClosingMeansClosed`).
- `GrantsAreDelivered` (`OnlyDeliveredGrants`), `HumanSawTheGrant`
  (`GrantIsWhatTheHumanSaw`) and `RevokeIsFinal` (`NothingOutlivesRevoke`), from
  `AuthorityIsTraced`.
- `WatcherKeepsPromise` (`KeepsPromise`): the watcher refines `Authority`. Initial states
  map to initial states; an approval maps to the human's word, a send to an answer, a
  revoke to a new epoch, and every other step to a stutter or to the clients' own steps.

The last four rest on `AuthorityInv`, which follows an authority from the human to the
client. `PathInv` says of one worker what it has, and serves, where it stands: nothing is set
before its stage, a pending card is the one the human accepted, and an *allow* under way has
one of four causes. `LedgerInv` relates workers and grants: every id was minted by one worker
from its pending card (`MintedOnce`), a live grant is of the present generation and its
minter was answered or still holds the reply lock (`LiveIsCurrent`), who spent a unit asked
for the grant's key, for a covered command, in its minter's generation (`SpentAsApproved`),
and spenders are no more than spent units (`SpendersAreCounted`). The last is what makes the
credit of `Authority` suffice: with `StoreInv`, units spent never exceed the budget, so when
a unit is delivered some credit is left.

*The watcher behind its interface* (`ReviewDesk`), for any number of workers, tickets and
unread keys and every set of scenarios:

- `DeskIsWatcher` (`ImplementsWatcher`): every step of the interface is one of its three
  calls into the watcher (`DeskRevokes`, `CloseByOwner`, or nothing: `LoopIsWatcher`), every
  step of a waiting worker is an answer, a cancellation or a failure of
  `PermissionReview`'s desk (`WorkerIsWatcher`). `DeskKeepsAuthority` draws the
  consequence: what is proved of the watcher holds with the real interface, the refinement
  of `Authority` included.
- `OnlySeenKeysAnswer` (`AnswerWasSeen`), from `UnseenIsHarmless`. Each unread key carries
  its history: whether what was on display when it was typed still is (`here`, cleared by
  `TypedElsewhere` whenever a form or the inbox takes the place of another), and whether its
  button was in view (`inView`). Every unread key is `here`, because whatever changes the
  display drains the keys (`NothingDrained`); without the drain in `Form` or `BackToInbox` an
  Enter typed at the inbox behind F2 answers the form that F2 opens, which is what the mutant
  of the run shows. And an Enter typed out of view still waits at a form that is scrolled,
  with no Tab read before it, so that it only brings the button back (`EnterWasSeen`).
- `NoTicketIsLost` (`WaitingIsReachable`), from `DeskInv`: a ticket that was handed over and
  is not decided is on display, in the queue, or among the calls the loop has still to make,
  whether its worker waits for it or not. The case that needs care is a cancellation, which
  filters the queue (`WithoutLeavesOthers`) and may put the next ticket on display, and the
  key that decides, which must be about the ticket on display (`FocusOnButton`).

**`RequestPathProofs`**, for any number of watchers, hooks and kills, any size of the
nonce set and every set of scenarios:

- `EndpointIsTheOwners` (`EndpointNamesTheOwner`), from `OwnerHoldsLock`: between `start` and
  the last step of `close` a server holds the lifetime lock, so two of them are never in
  the part of the code that touches the file. `PathUsesEndpoint` carries it over to the
  request path (`PathEndpointIsTheOwners`).
- `FramesAreHandledOnce` (`HandledOnce`), from `FramesInv`: a hook that has not read an
  endpoint has no frame, so `target` does not change under a frame; and a server has the
  nonce of every frame it handled.
- `HostReadsWhatWasDecided` (`OnlyRoutineOrAnswered`), for every set of `Verdicts` that is
  safe (`VerdictsAreSafe`: T1 only if routine and harmless, T3 if hazardous and its moves
  are followed). The invariant says what a hook may have settled where it stands
  (`HookAnswers`) and what a frame may carry (`FrameAnswers`). That the verdicts of the
  classifier are safe is what `request_path` checks for the commands of its instance: there
  each of them is a request of its own, those with moves that `classify` misses included. Of
  the latter the theorem says what is true of them: the classifier alone never answers, the
  host reads what the watcher decided.
- `ReceiptIsTrue` (`ReceiptTellsTheTruth`), for any verdicts. `LogInv` relates the log to
  those who wrote it: what the hook recorded is what it settled (`HookRecords`); a decision,
  a minted scope or a failed delivery in the log goes back to a copy of the frame that the
  watcher handled, and there is one decision (`WatcherRecords`); what a frame carries was
  recorded before, or a line was lost for good (`FrameRecords`, `Logged`). Two copies cannot
  contradict each other because one of them is handled (`OneCopyAnswered`, from
  `HandledOnce`). What the projection makes of such a log is `HookTellsIt`, `WatcherTellsIt`
  and `AnswerIsTold`.

**`MailboxProofs`**, for any number of exchanges, any cap and slots, and wherever
publishers and the watcher are killed:

- `MailboxTypes` (`TypeOK`), with what the poller and the workers carry.
- `LeasesStayWithinCap` (`PendingWithinCap`), from `CapInv`: the leases together with the
  publishers that have counted and found room are never more than the cap, plus one once
  the admission lock has a new file. In one file a publisher is alone, so the room it counted
  is still there when it creates its lease; a second file exists once, for `close` unlinks it
  once, so at most one publisher counted in the old one.
- `RequestsAreServedOnce` (`SpawnedOnce`): a nonce that had a worker is remembered, as
  active, as completed, or by the absence of its request file (`Remembered`), and what the
  poller has found out about the nonce at hand holds until it acts on it (`AtHand`).
- `AnswersStay` (`DeliveredStaysReadable`): nobody takes the files of a publisher that
  waits for its worker (`Kept`). This needs the test of the lease by the poller to be about
  a lease it has locked itself, which is why `AtHand` follows the poller through `probing`
  and `doubt`.

**`LaunchProofs`**, for any processes, sessions, owners and hooks, any deaths and failures:

- About the record by itself: everybody under the lock works on the current record, so every
  record stored can be read back (`SessionIsReadable`), and no change undoes another
  (`SessionOnlyGrows`). A launch changes the record only so (`LaunchUsesSession`), from which
  `LaunchRecordGrows` and `LaunchReadable` follow.
- `LaunchAnswersInSession` (`AnswersStayInSession`): a hook that prints an answer finds its
  session registered and open once more, after the human had all the time to let it end
  (`host_hook.py:91`), and there are never more answers than counted requests. The second half
  needs the hooks that were counted and still ask (`CountInv`): the count is raised before the
  engine is asked. A hook joins them
  only by `HookObserves` (`NobodyJoins`, `ObserverJoins`).
- `OwnersTakeTurns` (`OwnersInTurn`), from `TurnsInv`. The lock alone does not give one host,
  because an owner may pass the start mark before another one takes the lock. What gives it
  is the review: an owner comes to its host only through a review that takes requests
  (`HostNeedsReview`), review starts once (`ReviewFollowsWatcher`), and whoever had a host has
  ended it before he gives the lock back (`ShutdownIsHeard`, `HostsInTurn`). This is why the
  property excepts a killed owner and a shutdown request that fails. Nor is a session left
  open: what an owner closes is the session it saw (`ClosesWhatItSaw`), and it goes on to the
  exit record only when the record is closed (`ClosedBehind`).
- `WindowWaitsForReview` (`NoStaleEndpoint`), from `WaitedForReview` in the same invariant.

**`CheckWorkflowProofs`**, for any number of checks, handoffs, callers that acknowledge
them and checkpoints, any edits of the source, any rewriting by other callers, and whoever
dies or fails:

- `WorkflowTypes` (`TypeOK`), `ProbesHaveConsent` (`ConsentCoversProbe`),
  `VerdictsAreAboutTheirSource` (`VerifiedForItsSource`), `HandoffsAreDeliveredOnce`
  (`DeliveredOnce`), `LogTellsNoMore` (`LogBehindState`) and `NoCommandUndoesAnother`
  (`HistoryKept`): the types and all the properties of that run.

They rest on one invariant, `CoreInv`. It relates what a process knows to what is saved: the
saved check is the one its process saved last, but for the specification of one that has
not run (`Known`), so `_transition`, which compares the two, goes on only when nobody
rewrote it. The rest follows a check through its stages: which transition it may be about
to make (`Planned`, `Stands`), that consent was to the record it knows and the answers are
logged before the next stage (`ConsentInv`), and that the probe ran on a version between
the cited one and the current one, so that when these are the same at the comparison it
ran on that one (`RanInv`). For a handoff (`HandoffInv`): while it is selected nobody has
taken it, and who takes it leaves it no longer selected. `CheckKept`, `HandoffKept` and
`DispatchKept` say what a step may do without disturbing them, so each action is examined
only for the check or handoff it is about. `Grown` is what a step may do to the saved
state; the log is behind the state because events are about what is saved (`Told`) and
what is saved only grows (`ToldStays`).

**`RunnerProofs`**, for any streams, sizes of pipes and caps: `ResultsAreTrue`
(`ResultIsTrue`), from `RunIsAccounted` (`RunnerInv`). A thread that is done has drained its
stream and nobody can write to it any more (`DoneIsDrained`; only a writer has heirs), a
wait that was passed without a complaint was over (`WaitsAreKept`), and the verdict is given
once, on what was seen last (`VerdictIsLast`).

**`SnapshotProofs`**, for any finite set of names, any limits and any number of edits:
`SnapshotsAreTrue` (`SnapshotInv`), `IgnoredFilesStayOut` (`IgnoredStaysOutUnlessMoved`) and
`NoFileIsMissing` (`NoneMissing`), from `CaptureIsSound` (`CaptureInv`). While the stamp is
the one of the opening, what was read is what the file holds (`ReadsOneVersion`); an ignored
name in the listing is a tracked one and so in the list of hidden names, unless it moved in
between (`IgnoredIsHidden`); every listed name is still to come, included, or accounted for
(`NoneLost`). The limit on files needs that there is room whenever one is read
(`RoomToRead`).

**`InstallProofs`**, for any installers and files, any contents and any number of saves by
the user: `LockIsExclusive` (`TypeOK`), `PriorBytesAreKept` (`PriorBytesKeptUnlessRaced`) and
`OtherHooksAreKept` (`OtherHooksKept`), from `InstallersKnow` (`InstallInv`). What an
installer is going to write is what `prepare` made of what it read last (`PayloadIsPrepared`),
and what it compared is still there unless the user saved (`ComparedUnlessRaced`), because the
lock of the target keeps the others away. That a merge changes no other group is a lemma about
`Merge` by itself (`MergedHooks`).

**Assumptions used:** `CardsAssumption`, `TierAssumption`, `BoundsAssumption`,
`NoneAssumption`, `NothingAssumption`, `NoFieldAssumption` (the value standing for "nothing"
is none of the values), `MessagesAssumption`, `WorkersAssumption`, `KeyboardAssumption`,
`ServersAssumption`, `HooksAssumption`, `SessionAssumption`, `LaunchAssumption`,
`MailboxAssumption`, `WorkflowAssumption`, `WorkflowNone`, `NoRecord` (no record is the value
standing for "nothing"), `RunnerAssumption`, `SnapshotAssumption` and `InstallAssumption`. They
say what the constants are (sets of what, finite where the code counts them, bounds that are
numbers), never what the program does. TLC evaluates each of them in the runs.
`HostReadsWhatWasDecided` has one more hypothesis, `VerdictsAreSafe`, about the classifier;
the run `request_path` checks it of every verdict its commands come to.

**Only model-checked:**

- Everything under fairness: `EventuallyClean`, `ExchangesEnd`, `EveryRunEnds`,
  `RequestsEndOrWait`, `ControlGetsThrough`, `NobodyIsStuck`. Liveness from fairness needs
  `ENABLED`, which is out of the prover's reach.
- That the classifier agrees with its reference (`VerdictsAreSafe` of `MCVerdicts`):
  `Classifier` and `CommandEffects` fold over sequences of words and segments, and what such
  a recursion computes for every command needs an induction rule that takes an operator, which
  no installed prover can instantiate. Where a proof needs an induction over numbers with a
  fixed statement (`Without` in `ReviewDesk`, the order of the names in `Snapshot`), it is done
  by the least counterexample (`LeastNumber`, `WFMin`).
- `WatcherEndsWithOwner`, which is violated (section 6).

## 5. Not modelled, and why

- Framing, size limits and ownership checks of files in `ipc.py`. In `PermissionReview`
  every message is one the server accepted as authentic; who accepts what is `RequestPath`.
- `tiers._lex`, which splits a command line, and the matching of card patterns: text
  processing without state. Its result is the segments, or the covered classes.
- What `CommandEffects` leaves out of a shell: every `cd` succeeds and moves the shell itself
  (in a pipeline, before `&`, or with `||` behind a failure it does not), and no link, variable
  such as `CDPATH`, function or alias gives a path or a name another meaning. The classifier
  takes no notice of these either, so nothing is claimed of commands that depend on them.
- In `ReviewDesk` a screen is drawn in the step that changes it, and fields take no part:
  Enter in a field answers nothing. What a field's validation refuses is a choice of
  `PressEnter`. The line interface of `watch_ui.py` is not a model of its own; it is among
  what the desk of `PermissionReview` may do.
- In `Receipt` the sections on launches and on understanding, the rendering, and the
  writing of the receipt file.
- Preflight, command lines, receipts and notices of `launch.py`; `Stop` events and the wire
  formats of the hosts: text, or outcomes that are a nondeterministic choice.
- In `Install` TOML layers, paths, quoting, permissions and what makes a file or directory
  unacceptable; the command line.
- In `Runner` the checks of the arguments, the spawn, the Windows variant of the kill, and a
  process group whose number another group has by the time of the forced kill
  (`runner.py:170`). In `Snapshot` the limit on bytes in all (`repository.py:216`; the limit on
  files, which skips in the same way, is modelled), the rules on paths, symbols, text and hashes, and the
  validation of a citation, which `CheckWorkflow` has. In `CheckWorkflow` a probe and a snapshot
  are steps with an outcome; `Runner` and `Snapshot` say what that outcome is worth.
- The limit of 1024 remembered sessions in `watch._remember`.
- Coverage of host transcripts (`coverage.py`, `transcript.py`, `execpolicy.py`).
- In `CheckWorkflow` the session is tested in the step that writes. The code tests it just
  before `os.replace`, so a session closed in that instant still gets its last write; no
  property says otherwise. An edit always makes a new version: as `docs/A2-API.md` says,
  changes undone between two snapshots are not noticed.
- Wording, layout and the demo: no property is about them.
- `ipc._windows_open`: wrappers of Windows calls.
- In `PermissionReview` a failing `log.append` is a nondeterministic choice wherever it is
  called and the contents of the log are not kept; `RequestPath` keeps them.
- The type invariants of `PermissionReview`, `Mailbox`, `CheckWorkflow`, `ReviewDesk`,
  `RequestPath` and `Endpoint` are proved, or used by the proofs; they are no properties of runs.

## 6. Findings

`docs/INTERFACES.md:51` says "The owned watcher ends when its owner process disappears,
using an OS lifetime lock". `watch.py:378` tests the lock and reads the start mark
afterwards, so an owner that takes the lock and writes its mark between the two is taken
for one that has started and ended. Run `launch_tick` shows it (with `--manual-watch`,
where nothing else orders the two processes; with panes the same two steps interleave). The
watcher of a live owner then closes and records an inferred exit: the launch fails closed.

`classify` does not see some changes of directory (`tiers.py:521-532`): it takes the first
word of a segment for its program, be it an assignment or what a redirection names, and any
one word behind `cd` for the directory. After `A=1 cd ..`, `>a cd ..`, `cd -`, `cd -P`,
`cd >a` or `>cd a` it judges a relative write from the wrong place, so
`A=1 cd ..; touch a` is a T2 local write, while `tests/test_permissions_tiers.py:76` has
`cd ..; touch notes.txt` as T3, `docs/INTERFACES.md:103-106` has T2 for *local* writes, and
`tiers.py:530` says that later relative writes must account for a possible move. The watcher
then asks the human, or spends a grant, where the host's own prompt was meant to come. The
commands are in the instance of `request_path` (`OddMoves`), and `OnlyRoutineOrAnswered`
claims the third tier only where `Followed` holds; with that condition dropped TLC finds it
violated at once. No command of this kind is T1, so none is answered without a decision.

Other windows that are known from the models, and that properties state as exceptions or
leave open:

- `mailbox.py:309`: `close` unlinks `admission.lock` while a publisher may hold it, and the
  next publisher locks a new file (`mailbox.py:131`): two of them count the leases at once
  and the cap may be exceeded by one. `PendingWithinCap` says so (`door`).
- `mailbox.py:220`: the poller tests the lease first and the admission lock afterwards, so a
  publisher that locks its lease, writes its request and leaves admission between the two
  tests has its files deleted while it waits (`PollProbe`, `PollDoom`, `PollCollect`). The
  exchange returns nothing: the request fails closed, and `ExchangesEnd` covers its end.
- `launch.py:172`: the start mark is read before the owner lock is taken and not again after,
  so a second owner can own a run that has ended. `OwnersInTurn` says that it starts no second
  host, unless an owner was killed or a request to shut the review down failed.
- `launch.py:405`: `_finalize` shuts the review down first and closes the session later; an
  owner killed in between leaves nobody to record the end. `EveryRunEnds` excepts it
  (`KilledFinalizing`).
- `launch.py:651`: an outer launcher that gives up on an owner destroys the window with the
  watcher in it, and nobody ends that run. `EveryRunEnds` excepts it (`"noOwner"`).
- `launch.py:648`: the outer launcher looks for `exit.json` first and for a live owner
  afterwards, and can report "no record" of a run whose owner wrote it in between.
- `install.py:273`: what the user saves between an installer's comparison and its replacement
  is in no backup. `PriorBytesKeptUnlessRaced` excepts it (`raced`).
- `install.py:307`: installers for two layers that run at once can both install:
  each has checked the layers it does not lock before the other wrote. No property excludes it.
- `repository.py:184`: a file that is tracked and ignored at the first listing and untracked
  before the second is included. `IgnoredStaysOutUnlessMoved` excepts it (`moved`).

## 7. Plan

Done: all modules above, and every safety property of the runs as a theorem. What is left, in
this order:

1. Proofs about more than the runs check: that the properties of `Endpoint`, `GrantStore` and
   `HostSession` compose (a theorem of `RequestPath` about the watcher of `PermissionReview`),
   and lemmas about single rules of the classifier that need no induction (that `Unwrap`,
   `Inside` and a redirection never lower the rank of what they are about).
2. Citations and card patterns as operators with reference definitions; `_lex` on a small
   alphabet.
