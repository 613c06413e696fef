# A verification of remote-control-on-demand

TLA+ models of rcod, the daemon that runs coding assistants for a remote user,
with TLC runs and TLAPS proofs. Paths below are relative to `internal/` unless
they start with `cmd/` or `app/`.

## 1. The system

rcod is one Go process. `cmd/rcodbot/main.go` builds the managers, restores
their state files, starts the HTTP API and the Telegram bot, and shuts all of it
down on a signal.

| Component | State | Operations | Hard because |
|---|---|---|---|
| session supervisor (`session/manager.go`) | map of sessions: status, restarts, Cmd, PID, cancel; `sessions.json` | Start, Kill, Restart, StopAll, Restore; goroutines monitor and monitorOrphan; max-duration timer; URL callback | processes outlive rcod; startProcess runs without the lock; several incarnations of a session overlap |
| process runner (`process/`) | the process group | Start, cancellation (SIGINT, SIGTERM, SIGKILL), ps lookup | used by several goroutines on one Cmd |
| session output (`session/ringbuf.go`, `urlscanner.go`, `eventscanner.go`) | last 500 lines, subscribers, timers | Write, Subscribe, Stop | callbacks after Stop, line splitting |
| chat core (`chat/core.go`) | map of sessions, active session, busy flags, histories; one JSON file per provider | CreateSession, SetActive, DeleteSession, BeginRequest, Complete, Shutdown, Restore; event bus | events are emitted after the unlock; saves may fail or tear; sessions vanish during requests |
| providers (`claudechat/`, `codex/`, `gemini/`) | thread ids, the running tool | Send, Run, AdoptSession, stream parsing | thread ids change at the end of a run |
| bash commands (`bashcmd/`) | one shell command | Run with timeout and output limit | timeout against exit |
| provider registry (`provider/`) | two maps, filled at the start | lookup | - |
| HTTP API (`httpapi/`) | attachment files | handlers over the managers | two-step handlers |
| WebSocket hub (`httpapi/ws.go`) | clients, their queues and subscriptions | broadcast, subscribe, unsubscribe | bounded queues, snapshot then stream |
| HTTP auth (`httpauth/`) | session records with OAuth tokens | login, lookup, revalidation, logout, expiry | concurrent revalidation, logout racing it |
| ralph (`ralph/`) | a git working tree | poll, fix, verify, commit, push | error paths leave the tree dirty |
| Telegram bots (`rcodbot/`, `bot/`, `botutil/`) | chosen provider | commands over the managers | one more concurrent client |
| dashboard (`app/src`) | sessions merged from fetch and WebSocket | reducer, reconnect | stale answers, optimistic messages |
| config, runtime paths, build info, packaging | - | parsing, lookups, scripts | - |

How they interact: handlers of the HTTP API and of the bot call the managers
from many goroutines; the managers call back through the notification
subscribers and the event bus, which the hub turns into WebSocket messages for
the dashboard. The supervisor and the three chat managers share no state. They
meet in `main`: restored one after the other at the start and stopped one after
the other by the shutdown goroutine (HTTP server, chat managers, StopAll, bot).

What makes each component correct:

* **supervisor**: one running session per folder; a session listed as running
  is watched by a goroutine that will notice its end; no two processes of one
  session; bounded auto-restarts; a state file that Restore can rely on; Kill
  reaches the process; shutdown ends.
* **chat core**: one request at a time per session, on every path; rollbacks
  that leave memory, file and active session in agreement; acknowledged replies
  are durable; observers end up with the right busy flag; Shutdown waits.
* **providers**: one session per thread; a conversation goes on in its thread;
  the reply is what the tool has said; images stay as long as their session.
* **output and hub**: a subscriber misses no line unless it is too slow; events
  reach every client; closed connections are forgotten.
* **auth**: a session that has ended does not come back; a user who loses access
  is turned away; refresh tokens stay usable; a login belongs to one browser.
* **bot**: a plain message goes to the session that the user has chosen.
* **ralph**: no review is fixed twice; the tool works on what is pushed and not
  more often than configured; nothing under `.github/` is committed; the loop
  ends with the pull request.
* **dashboard**: the view converges to the server's state.

`PROJECT.json` lists the hazards of the code line by line, with the properties
that cover them.

## 2. Plan

Ordered by how much depends on a component and how hard it is to test.

| # | Module | What | Status |
|---|---|---|---|
| 1 | `SessionManager` | supervisor, runner and operating system, crashes of rcod | done, proved in `SessionManager_proofs` |
| 2 | `RequestLock`, `ChatCore` | what the chat core promises, and the core that implements it | done, proved in `ChatCore_proofs` |
| 3 | `RalphLoop` | the loop over git tree, upstream, CI and review; retries | done, proved in `RalphLoop_proofs` |
| 4 | `ToolOutput`, `ProviderThreads` | the parsers; the three providers with their tools, threads, adoption, bash commands and images | done, proved in `ProviderThreads_proofs` |
| 5 | `AuthSessions` | records, revalidation with rotated tokens, logout, expiry | done, proved in `AuthSessions_proofs` |
| 6 | `LogStream` | ring buffer, snapshot and forwarders, idle timer; the hub's bounded channels | done, proved in `LogStream_proofs` |
| 7 | `ChatBot` | the bot's choice of a session, beside the dashboard | done, proved in `ChatBot_proofs` |
| 8 | `Shutdown` | the order of main's shutdown over supervisor, cores and bot | left |
| 9 | `Dashboard` | the merge of what is fetched and what is streamed | left |

`Selections`, a sequence without the members that a code path skips, serves modules
4, 6 and 7; its lemmas are in `Selections_proofs`.

## 3. `SessionManager`

A *session* is an entry of `m.sessions`. An *incarnation* is one call of
`startProcess` with all that belongs to it: its context, the process it may
spawn, the monitor goroutine and the max-duration timer. Incarnations are
numbered in the order of the calls, and the number doubles as process id.

Every region under `m.mu` is one action. The code without the lock is split at
each point another goroutine can observe:

| Code | Actions |
|---|---|
| `Start` up to the unlock; `startProcess` | `Start`; `CreateContext`, `Spawn` or `SpawnFails`, `Record` |
| `monitor` | `MonitorStarts` (reads `sess.Cmd`), `WaitReturns`, `MonitorFindsStopped` or `MonitorFindsCrash`, after the delay `MonitorGivesUp` or `MonitorRestarts` |
| `Kill` | `Kill` (locked part), `KillCancels` |
| max-duration timer | `TimerKills` or `TimerFindsNothing`, `TimerCancels` |
| `Restart` | `RestartStops`, then `RestartRevives`; or `RestartIdleSession` |
| `StopAll` | `StopAll`, `StopAllCancels`, `StopAllWaits`, `StopAllWaitReturns` |
| `Restore`, `monitorOrphan` | `Boot`; `PollFindsDeath`, `PollEnds` |
| the operating system | `ProcessExits`, `URLDetected` (the output that makes the callback save), `Crash` |

`saveState` is not an action but a part of each action that calls it (`Save`): it
writes the whole map to `file` (`Snapshot`), or fails, which the code only prints
(`manager.go:516`), and leaves the file as it was or torn. `disk` says whether the
file holds the last save. Actions whose code does not save leave the file alone,
which is the other way it can lag behind. A start that finds no file or a torn one
has no sessions and goes on, with a warning in the second case
(`cmd/rcodbot/main.go:101`). `sess.cancel` holds the incarnation (or
poller) whose context it cancels, so a late Kill cancels whatever the field
holds by then, as the code does. A crash (`Die`) clears memory and goroutines
and leaves processes alive, because `setProcessGroup` detaches them.

Abstracted: URLs, log lines, notifications, the progress reporter, times (a
timer may fire any time, a process may outlast any delay). Folder checks other
than "is it in use" have no effect on state. `TimerKills` joins the timer's
unlocked status check to the Kill that follows: that Kill checks the status
again under the lock, so a session stopped in between gives
`TimerFindsNothing`.

Assumptions: an id or process id is never reused (ids are 32 random bits; the
code retries a clash within the map only); reading the state file does not fail
but for a torn one; writes of `sess.Cmd`, `sess.PID` and `sess.cancel` outside
the lock are single steps. Of two concurrent calls of `exec.Cmd.Wait` only one
returns: `os/exec` sends the result of the context watcher on a channel once, and a
later receiver blocks.

Bounds: `MaxProcs` calls of startProcess, `MaxManual` calls of Restart,
`MaxBoots` starts of rcod, `MaxFaults` failing saves, in the guards of `Fresh`,
`RestartsLeft`, `Boot`/`Crash` and `Save`.

### Fairness

`FairSpec` lets every goroutine that can run go on (weak fairness of its steps:
the Go scheduler), timers and sleeps end, and a process whose context is
cancelled die (SIGINT, SIGTERM after 3 s, SIGKILL after WaitDelay). Nothing makes
users act, processes end by themselves, or rcod crash or start.

### Properties and runs

| Run | Bounds | Properties |
|---|---|---|
| `SessionFolders` | 2 sessions, 1 folder, 1 client, 2 incarnations, timer, 1 auto-restart, 1 Restart, 2 boots, 1 failing save; symmetric | `TypeOK`, `FolderIsExclusive`, `DiskKnowsStatus`, `RunningIsWatched` |
| `SessionIncarnations` | 1 session, 1 client, 3 incarnations, no timer, 1 auto-restart, 1 Restart, 2 boots; fair | `NoRivalsWithoutRestart`, `AutoRestartsAreBounded`, `DeadSessionIsNoticed` |
| `SessionKillRestored`, `SessionShutdown` | 1 session, 1 incarnation | the first two findings below |

Two sessions are needed for folders and one folder makes them compete; two
incarnations let one be an auto-restart. A single session suffices for
`SessionIncarnations`, whose properties speak of one session at a time; three
incarnations are an original, an auto-restart and a Restart in every order. Two
boots are a crash with a restore. One failing save suffices to leave the file behind
or torn at any moment. It is left out of `SessionIncarnations`, as is the timer,
whose kill is that of a client: together with fairness they are too much for TLC. Of
the properties of that run, the two safety properties are proved with failing saves
and timers (section 11). `DeadSessionIsNoticed` depends on the file only through
`Boot`, which makes of each session either a polled or a crashed one; without
failing saves, too, the file may lag behind there, with the PID of an earlier
incarnation or none. Deadlock is not checked: a system whose users do nothing, or
whose bounds are used up, stops legitimately.

The properties say exactly what the code keeps, which is less than one may
think:

* No property says that a Kill reaches the process: one that comes after Start
  has listed the session (`manager.go:161`) and before startProcess sets
  `sess.cancel` (219) cancels nothing (393), and the process starts in a session
  that is listed as stopped.
* `RunningIsWatched` holds outside a shutdown, in which StopAll may take the
  result of Wait away from the monitor.
* `NoRivalsWithoutRestart` ends at the first `Restart`: its 500 ms grace period
  is not a wait for the process, and afterwards the old monitor may mark the new
  incarnation crashed or start another.
* `FolderIsExclusive` excepts revived sessions: neither Restart nor the
  auto-restart looks at the folder again.
* `DiskKnowsStatus` says nothing from a save that failed until the next one that
  succeeds: a crash in between makes Restore bring back what the file of before
  says, a session that was killed included. Otherwise it allows two lags: an
  auto-restarted session is "crashed" on disk until the next save, and a session in
  the grace period of Restart still "running".

## 4. `ChatCore` and `RequestLock`

One instance of `chat.Core`, as each provider has one. A call of Send or
RunCommand is a *request*: `BeginRequest` (locked part), `EmitBusy` (the events
after the unlock; the tool then runs), `Complete` or `CompleteDeleted` (locked
part), `EmitIdle` (the events; `wg.Done`). `CreateSession`, `SetActive` and
`DeleteSession` are one action each, with the save and, when it fails, the
rollback. `saveLocked` has three outcomes: it succeeds, fails and leaves the
file alone, or tears it (`os.WriteFile` truncates first). `Crash` may come at
any point, `CrashInSave` inside `os.WriteFile`; `Boot` is `main` with `Restore`,
and is disabled by a torn file because `main` ends in `log.Fatalf`.

Abstracted: texts, times, folders; attachments and thread ids are in
`ProviderThreads`. The successor of a deleted active session is the latest by `UpdatedAt`
in the code, any in the model, which allows more. Of the events only
`EventBusyChanged` is kept, as the last one an observer saw (`shown`), because
it is the one whose order matters. `ResolveActive` repairs an active id that is
not in the map; by `ActiveIsLive` that never happens, so it has no action. A
message records which request it belongs to, which the code does not: it lets
the properties speak of replies.

`RequestLock` is what callers rely on: `open` sessions, each worked on by at
most one request; a request begins once, also across restarts; opening and
closing; the end of rcod resets, a start reloads. `ChatCore` implements it with
`open <- live`, `workers <- Workers(s)`, the requests in flight on a live
session, and `begun`, the requests that are no longer idle.

| Run | Bounds | Properties |
|---|---|---|
| `ChatRequests` | 2 sessions, 3 requests, histories of 3 messages, 2 boots; symmetric | `TypeOK`, `ViewSettles`, `DiskKnowsSessions`, `ActiveIsLive`, `HistoriesAreKept`, `ShutdownWaits`, `ImplementsRequestLock` |
| `ChatTornState` | 1 session, 1 request, 2 boots | the finding below |

Three requests are two that compete and one after them, and with a limit of
three messages a history is cut in the middle of a turn. Two sessions let one be
promoted when the other is deleted. Symmetry is sound: sessions and requests are
only compared with each other, and `ImplementsRequestLock` is a safety property.
Deadlock is not checked, as above.

`HistoriesAreKept` has three parts: the turns of a session do not interleave, an
acknowledged reply is on disk, and a reply that is lost is reported.
`BusyIsOwned`, one request at a time, is proved only, as a part of `CoreInv`.

`ViewSettles` is as strong as it gets: because events follow the unlock, the
idle event of one request may overtake the busy event of the next, and an
observer then sees a working session as idle until that request ends.

## 5. `RalphLoop`

`ralph` is sequential, so its state is a program counter (`pc`, the command that
is next), the local variables of one `runOnce` (`it`) and whether the context is
cancelled. Every command is one action, in the order of `runOnce`:

| Code | Actions |
|---|---|
| `Run`, `checkCleanWorkingTree` | `Start`, `Poll`, `Stop` |
| `pushUnpushedCommits`, `GetPRStatus`, `GetFailedCILogs` | the same names |
| `GetCommitDate`, `FetchGreptileComment`, confidence 5/5 | `FetchReview` |
| `gitPull`; `ApplyReviewFixes` or the first `FixBuildErrors` | `GitPull`; `RunTool` |
| `verifyWithRetry` | `Verify`, `Repair` |
| `commitAndPush` | `Stage`, `Commit`, `Push`; after a rejected push `Rebase`, `Abort` or `PushAgain` |
| `cleanupWorkingTree` | `CleanupWorkingTree`, each of its three commands may fail |
| signal handler of `cmd/ralph` | `Signal` |

The clone is the working tree and index as sets of paths, the branch as a prefix
of the one at GitHub plus unpushed commits (`base`, `ahead`), the remote-tracking
branch, and a rebase in progress with what is committed on its detached HEAD
(`rebasing`, `aside`). A commit keeps what the properties ask about: whether
it is ralph's, the review it addresses, its date, and whether a sensitive path
is in it. GitHub is the branch, the last CI run, the pull request and the
review comment, whose version counts its updates and serves as the clock of
commit dates. Others push, possibly commits older than the review and also after
the pull request was closed, the reviewer updates, CI runs start and end, the pull
request closes at any time, and between two runs of ralph the operator may tidy the
clone.

A command fails when the context is cancelled (`cmd.Run` then returns an error
or exit code -1) or for a reason of its own, of which `MaxFaults` may happen. A
failing push may have reached GitHub all the same; a pull may fail before or after
its fetch, and a rebase stop midway, with files in the index. `git rebase --abort`
may fail too, which the code ignores (`ralph.go:443`). HEAD then stays detached:
`git rev-parse @{u}` fails, so that `pushUnpushedCommits` lets iterations pass
(121), `git push` fails, and so does `git pull --rebase`, except in a clone of this
branch alone as long as nothing is committed on the detached HEAD, where it moves
HEAD forward to the remote branch. There the tool may work once, on a HEAD
that is pushed; its commit is refused by `git push`, and the abort that follows
drops it or leaves it, and every later pull fails. The log of a failed CI run may be empty, which `runOnce` takes for
no failure.

Assumptions: the tool edits files and runs no git command; the clocks of this
machine and GitHub agree; git commands that only read the clone fail when
cancelled and not otherwise; no untracked file is in the way of a pull; a pull
request that was closed is not opened again. Texts, prompts,
Telegram messages and pull request comments are left out: their failures are
ignored by the code.

| Run | Bounds | Properties |
|---|---|---|
| `RalphBranch` | an edited, a created and a sensitive path, 1 retry, 1 review, 1 commit of others, 2 of ralph, 2 faults | `TypeOK`, `OneFixPerReview`, `WorkStartsFromPushedHead`, `SensitivePathsStayLocal`, `OnlyRefusedEditsRemain`, `ToolRunsAreBounded`, `ClosedPREndsLoop` |
| `RalphNeverEnds` | the same without faults | the finding below |

Two commits of ralph are a CI fix and a review fix, or the same review twice if
the date filter let it; one commit of others suffices to reject a push, to
conflict, and to be the head with an older date. Two faults are a push whose
answer is lost and another failure after it. With one retry the CI mode and the
review mode have different numbers of tool runs. `MaxFixes` only stops the tool
from editing more; the loop itself goes on for ever, so no deadlock is allowed.

Fairness is `WF_vars(Ralph)`: a started ralph runs its next command, commands
end (the timeouts of `git` and `gh` are theirs), and timers fire. The world
owes nothing, so a failing CI run may never end and the review never come.

What the properties leave out is what the code does not keep. A clone that does not
contain its branch may never get level with it again: after a conflict (the finding
below), a pull that failed after its fetch, or a rebase left behind; a commit of
somebody else after the close does the same to a loop that has one to push.
`ClosedPREndsLoop` therefore speaks of clones that contain the branch. After a failing
run of the tool the edits stay in the tree, and so do refused edits below
`.github/` after a successful push; `git pull --rebase` then fails in every
later iteration that has something to fix. A review that is updated while ralph
works on the one before is older than ralph's commit and is never applied. The
rebase after a rejected push is pushed without another verification.

## 6. `ToolOutput` and `ProviderThreads`

`ToolOutput` is the parsing of the tools' output, one line at a time, as
operators on a parser record: `parseExecOutput` of Codex with its queue of items
without an id, of Claude with its content blocks, of Gemini with its calls.
`ProviderThreads` puts a parser into a run. One behaviour has one provider,
chosen in `Init`.

| Code | Actions |
|---|---|
| `createSession`, `AdoptSession`, delete | `CreateSession`; `AdoptLists` then `AdoptCreates`; `DeleteCleans` then `DeleteSession` |
| `Send`, `RunCommand`, `handleSendChatMessage` with its images | `Send`, `RunCommand`; `Complete`; `Respond` |
| the tool | `ToolStarts`, `ToolWrites`, `ToolSucceeds`, `ToolFails`; for commands `BashEnds`, `ChildEnds` |
| the reader goroutine and `cmd.Wait` | `ReadLine`, `WaitReturns`, for commands `OutputReturns` |
| the request's context | `ClientLeaves` |

A request counts what its tool says and does (`said`, `begun`, `ended`); the
properties hold the parser's events and the reply against these counts. The
session map is reduced to what callers see of it: `ChatCore` has the rest.

Of the tools, which are not part of this repository, the model assumes what the
code relies on: a tool resumes the thread it is asked for; Codex and Gemini
create threads, Claude takes the id it is given unless it is in use; items
without an id end in the order they began; a Claude message is complete before
it ends; a Gemini message that is no delta repeats the deltas. A tool may fail
anywhere, and write a line that no scanner accepts.

| Run | Bounds | Properties |
|---|---|---|
| `ProviderThreads` | for each provider: 2 sessions, 1 call, 2 adopters (`Wide`); 1 session, 3 calls (`Long`); 2 calls with images (`Pictures`); a tool that writes 3 more lines (`Chatty`); a pipe for 1 line, histories of 3 messages | `TypeOK`, `SharedThreadsAreAdoptedEarly`, `ThreadsAreContinued`, `ObserversSeeAll`, `ReplyIsWhatWasSaid`, `ImagesStay`, `RunsEnd` |

The bounds of one behaviour are a record that `Init` picks from a set, so that
one run covers several small instances: the product of all bounds would be far
too large. A pipe for one line makes the tool wait for its reader; three calls
with histories of three messages cut the reply out of Claude's history.

Fairness: goroutines go on, a tool whose output is read writes all it has to and
ends, a tool that rejects its arguments fails, and bash ends, at the latest by
its timeout. A tool that accepted its arguments need not fail, a client need not
leave, and a process that bash has left behind need not end.

What the properties leave out, because the code does not keep it:

* a thread of a first run can be adopted while the run is in flight; two sessions
  then share it (`codex/manager.go:238`);
* `cmd.Wait` closes the pipe before the reader has drained it
  (`codex/manager.go:370`): the tail of a reply may be lost, and raw JSON may
  become the reply;
* the scanners of Codex and Claude give up at a line of more than 4 MB
  (`codex/manager.go:483`) and leave the pipe full; the tool then blocks, and the
  session stays busy until somebody kills it. Gemini drains the pipe
  (`gemini/manager.go:418`);
* `CombinedOutput` waits for the children of bash, so the 60 s timeout does not
  bound a command (`Stuck`);
* a Claude session whose replies were cut from its history is offered as new
  (`claudechat/manager.go:313`), as is one whose first run failed after Claude had
  recorded the id; Claude keeps the last message of a run only;
* images of messages that were cut from a history stay on disk, as do those of a
  session that the bot deletes.

## 7. `AuthSessions`

The sessions that `httpauth/service.go` keeps for users of an external provider.
A region under `sessionsMu` is one step, a call to the provider lies between two.

| Code | Actions |
|---|---|
| `HandleLogin`; the user at the provider; `HandleCallback` | `HandleLogin`; `Consent`; `HandleCallback`, `Exchange`, `Identify`, `WriteSession` |
| `AuthenticateRequest` (middleware, status, logout) | `Authenticate`; `AskIdentity`, `Refresh`, `Identify`, `Settle` |
| `HandleLogout`, the handler behind the middleware | `HandleLogout`, `Serve` |
| `scheduleSessionExpiry` | `SessionExpires` |
| the provider and time | `TokensExpire`, `LoseAccess`, `Tick`; `Restart` |

A login, its code and the session made of it share a number. Tokens are numbered
in the order of their issue; `grants` is what the provider knows of them. Cookies
are presented by anybody who has been given one, signed or not; an id is random
and never drawn twice. `said` is the provider's answer that a request goes by,
`last` the one its session was last updated for; `mishaps` names sessions in
which two validations overlapped or new tokens were lost.

A provider says of a user that the token is rejected (400, 401), that the identity
is none that the allowlists take, or something that is `unclear`: a 403 for a
suspended account, a GitHub profile without an id. The first two revoke the session
(`wrapRevokedAccess`), the third is deferred like an outage.

| Run | Bounds | Properties |
|---|---|---|
| `AuthSessions` | an OIDC provider with rotated tokens, one session, 2 requests, 1 outage, 2 troubles (`Shared`); one that keeps its refresh token, with an API token (`Fixed`); GitHub (`Hub`), both with 1 request; 2 browsers, 2 logins (`Tabs`); a restart (`Again`); 4 or 5 ticks, a session lives 4, is validated every 2, again after 1, a login takes 1 | `TypeOK`, `AccessLossIsNoticed`, `TokensStayUsable`, `LoginsAreOwn`, `EndedStaysEnded`, `SessionsAreForgotten` |

Two requests overlap in every order of their calls; a session of four ticks is
validated, defers a validation and expires within the horizon. The troubles are
a token that runs out and a user who loses access, in one of three ways, or one of
them twice.

Fairness: time passes, timers fire, and a request that has begun is carried on;
each call of the provider is answered or fails (the HTTP client has a timeout).

What the properties leave out:

* two validations of one session may overlap; the second presents a refresh token
  that the first has used. Its refusal counts as an outage (`service.go:186`), and
  the deferral writes the old tokens back over the new ones (`mishaps`);
* new tokens are dropped when the question after the refresh fails or is answered
  unclearly (`providers.go:152`);
* a user whose account is suspended, and whom the provider answers with 403, is let
  through as in an outage, again after each deferral, until the session's expiry
  (`providers.go:438`, `service.go:186`): `AccessLossIsNoticed` excepts these answers;
* a refused refresh is no revocation (`providers.go:148`): a user whom the
  provider has removed keeps access until the session's expiry of 12 hours;
* `HandleCallback` clears the state cookie before it compares it, so that another
  site's redirect ends a login; the discovery document is fetched once.

## 8. `LogStream`

The output of one runtime session on its way to WebSocket clients, and the hub's
broadcasts to all of them.

| Code | Actions |
|---|---|
| the goroutine that copies a process's output: `eventScanner.Write`, `ringBuffer.Write` | `StartProcess`, `WriteLines`, `CopySubscribers`, `CallSubscriber`, `ScanOutput`, `ProcessEnds` |
| the idle timer | `IdleTimer`, `OnIdle` |
| the reader of a connection | `HandleWS`, `Subscribe`, `SubscribeLogs`, `Backfill`, `Unsubscribe`, `Disconnect`, `RemoveClient` |
| a forwarder, the writer | `Forward`, `ForwardDone`; `WsWriter` |
| an event of a chat core | `HandleChatEvent`, then `Broadcast` to one client at a time |

`ring` is the ring buffer with its slots and position, `log` all that was ever
written; `LogsAreTheLast` says that the one gives the end of the other. A copier has
read `chunk`, writes it to the buffer, copies the subscribers that have not
unsubscribed (`subs`) and tells each of them the first line of the chunk, then the
next; `left` are those who have yet to be told. Output without a line (blank ones are
skipped) only restarts the idle timer. `Stream(f)` is what the client of a
subscription has been sent of it (`Told`), then the rest of the snapshot, then the
forwarder's channel; `Coming` is what copiers still have to tell it.

| Run | Bounds | Properties |
|---|---|---|
| `LogStream` | a client that subscribes twice (`Again`); two processes that overlap, two lines (`Overlap`); two clients, two events (`Everyone`); a process that falls silent while another runs (`Silent`); chunks of up to five lines for a buffer of three (`Long`); channels for 1 line and 2 messages | `TypeOK`, `NothingIsMissed`, `StreamsSettle` |

The real buffer has 500 lines and each channel 256 places: what matters is that
they overflow. Fairness: copiers, readers, forwarders whose client has gone and
timers are scheduled; nothing makes processes write, clients ask or leave, or the
network take a message.

What the properties leave out: lines written between the snapshot and the
subscription are lost (`ws.go:257`, 260). A line whose write lies between the
buffer and the copy of the subscribers is in the snapshot and delivered live as
well (`doubled`), which the comment at `ws.go:255` does not expect. A forwarder
notices an unsubscription at the next line only, so that after a second
subscription two forwarders serve a client. The list of subscribers never
shrinks. Full channels drop messages silently. After a Restart, the monitor of
the old process stops the scanner of the new one (`manager.go:305`).

## 9. `ChatBot`

The chat part of the Telegram bot. telebot runs each update in a goroutine, and
the dashboard works on the same sessions; each call of a manager is one step.

| Code | Actions |
|---|---|
| `handleChat` | `HandleChat`, `CheckCurrent`, `FallBackToCodex`, `FallBackToGemini`, `SetCurrent`, `ResolveActive`, `BeginSend`, `EndSend` |
| `/use`, `/close` and their buttons | `HandleUse`, `Activate`, `SetCurrent`; `HandleClose` |
| `/new`, the pickers of folders and providers | `HandleNew`, `Browse`; `HandleProviderPick`, `CreatePicked`, `SetCurrent` |
| the dashboard, the disk, rcod | `DashboardCreates`, `DashboardDeletes`; `ReposChange`; `Restart` |

`want`, `steady`, `alone`, `chosen` and `as` are history, for the properties.

| Run | Bounds | Properties |
|---|---|---|
| `ChatBot` | 2 sessions, 3 updates, a restart and a failing write (`Talk`); 3 sessions that are closed (`Close`); 3 repositories on pages of 2, one of which comes or goes (`Pick`) | `TypeOK`, `PlainTextFinds`, `PicksAreAsShown` |

Three updates are a choice, a message and something in between; the third
repository is on the second page. Only safety is stated, without fairness.

What the properties leave out: of two handlers that choose at the same time, or a
message's fallback that meets a choice, the last write of `currentProviderID`
wins. A session that the dashboard creates takes the place of the chosen one. A
button is a position in the list of repositories, so that a change of the list
makes it another repository. A failed write of `bot_state.json` is ignored, and a
torn file read as empty (`bot.go:103`, 116).

## 10. Findings

Each is a run that TLC ends with a counterexample.

1. `SessionKillRestored`: after a restart of rcod, Kill ends the poller of a
   re-attached session and not its process (`manager.go:393`, `552`).
2. `SessionShutdown`: `StopAll` and `monitor` both wait on the Cmd
   (`manager.go:475`, `303`); when the monitor's Wait returns, StopAll blocks and
   rcod does not end.
3. `ChatTornState`: a crash inside `os.WriteFile` (`chat/core.go:466`) leaves a
   file that every later start refuses (`cmd/rcodbot/main.go:109`).
4. `RalphNeverEnds`: when the rebase after a rejected push conflicts, the commit
   stays behind the branch; every later iteration retries a plain `git push`
   first (`ralph/ralph.go:131`), which is rejected, and returns before it asks
   whether the pull request is closed (148). `ClosedPREndsLoop` is what remains:
   the loop ends when the clone contains its branch at some time after the close and
   nobody pushes to it meanwhile.

## 11. Proofs

For every value of the constants, from `ConstantsAssumption`, `ChatAssumption`,
`RalphAssumption`, `AuthAssumption`, `ProviderAssumption` and `BotAssumption`
(sentinels differ from real values, bounds
are naturals, a session lives for some time and is not validated anew in the same
tick). Each theorem is `Spec => []P`, from an inductive invariant whose parts were
first checked by TLC with the bounds above; the step has one case per action.

`SessionManager_proofs`:

* `TypeCorrect`: `TypeInv` adds who owns an incarnation and which session a
  pending request names (`OwnersKnown`, `RequestsKnown`).
* `RunningSessionsAreWatched`: `LinksInv` says that a Cmd, a waiting monitor and
  the waits of StopAll refer to live incarnations of the same session. `WatchInv`
  strengthens the property: a session without a starting or watching incarnation
  has a poller *and no cancellation is pending*. Without the last part a Kill
  just before its cancel would break induction.
* `NoRivals`: `OwnProcess` (until a Restart a monitor waits on its own process,
  which is dead when the monitor goes on) and `Drawn` (an undrawn id appears
  nowhere). Hence an auto-restart starts when nothing else of the session is
  active.
* `FoldersAreExclusive`: `FileIsExclusive` carries the property through a crash:
  the file that Restore reads has one running session per folder too.

and, on top of `LinksInv` and the invariants of `NoRivals`:

* `DiskAlwaysKnowsStatus`: `DiskInv`, about a file that holds the last save, lets an auto-restart lag behind only until
  its monitor saves, rather than as long as its process is starting; a crash
  finds either the lag or equal records.
* `AutoRestartsStayBounded`: `CountInv` counts the incarnations that monitors have
  started. The counter is raised *after* the save of a crash, and saves may fail, so
  the file may have less than memory. It does not matter: what the counter in memory
  must cover is a session of which something is under way, and after a crash of rcod
  nothing is; Restore starts pollers only, which restart nothing. That no rival is at work makes two monitors unable to
  count the same restart.

`ChatCore_proofs`:

* `TypeCorrect`, `ActiveAlwaysLive`: `TypeInv` with `RequestsPlaced`, `MapSound`
  and `FileSound`; the file must be sound because Boot reads it.
* `OneRequestAtATime`: `CoreInv`, which the remaining theorems share.
* `DiskIsRolledBack`, `ViewsSettle` (with `ShownHasRequest` and `FirstIsShown`),
  `ShutdownWaitsForSends` (with `ShutdownInv`).
* `CoreImplementsLock`: `Spec => ImplementsRequestLock`. With `CoreInv` each
  action is a step of the lock or leaves open sessions, workers and begun
  requests alone (`NextLock`); `BusyIsOwned` is what makes a session that is not
  busy have no workers, and Complete empty the set.

* `HistoriesAlwaysKept`: `HistoryInv` has the three parts of the property, and
  what they need: an acknowledged reply is in memory as well as on disk
  (`AcknowledgedInMemory`), because the next save writes the memory over the
  file; the message of a request in flight is the last one of its session
  (`LastWord`), so that the reply is appended to the message it answers.

`RalphLoop_proofs`, for every number of reviews, commits of others, retries and
faults:

* `TypeCorrect`, `ToolRunsBounded`: `TypeInv` adds `AttemptsCounted`, which ties
  the attempt counter to the runs of the tool position by position: in CI mode
  the first run already counts as an attempt.
* `SensitiveStaysLocal`: `SafeInv` adds the index, which survives a failed
  cleanup and goes into the next commit. `BranchStep` sums up what any step does
  to the branch (push, replay, commit, somebody else's push), so that this and
  the next proofs have five cases instead of twenty-five.
* `WorkOnPushedHead`: `PushedInv` adds that at most one commit is unpushed, and
  that a status request with unpushed commits is made under a cancelled context,
  where it fails, or in a rebase that was left behind, where the pull fails as soon
  as something is committed on the detached HEAD.
* `IterationsAreTidy`: `TidyInv` says at which positions the tree may be dirty
  and the index full.
* `ReviewsFixedOnce`: `DatesInv` (a commit is no older than the review it
  addresses, dates grow along the branch and continue in the unpushed commits),
  `UniqueInv` (no version is answered by two commits on the branch, nor by the
  unpushed one), `SeenInv` (no commit of ralph lies above the head the iteration
  asked for, hence a review newer than that head is answered by none).

`AuthSessions_proofs`, for every number of browsers, logins, requests, outages
and restarts:

* `EndedNeverReturn`: `TypeInv` is `TypeOK` without the bounds on tokens and
  times. `SpentInv`: a code is redeemed by one request at most, before there is a
  cookie, so no second callback writes a session. `CopiesInv` and `LivesInv`:
  the copy a validation holds, and every record in the map, have the expiry of
  the cookie; together with updateSession's look into the map (`UpdateKeeps`) a
  validation neither revives nor extends (`SessionsMove`). `RequestMoves` sums up
  how a request goes from place to place, which the steps of all invariants use.
* `LoginsStayOwn`: `JarInv` (a state cookie is that of the browser's last login)
  and `OwnInv`, which carries the property from the callback to the cookie. It
  speaks of the time of the callback, because the browser may begin another login
  before the session is written.

and, with a lemma for what each step does to a request:

* `AccessLossAlwaysNoticed`: `NoticeInv`. Excuses are the answers that are taken for
  an outage (`Excuses`). An answer is used in the tick in which
  it came (`VouchedInv`), so an "ok" is no older than the loss; a session whose
  last validation was answered is due within RevalidateEvery of the loss
  (`DueInv`), and one whose validation was not has an excuse. `GrantsInv` adds
  that the provider issues no token to a user who is gone. It needs a
  RevalidateEvery that is not 0: with 0, an answer and a loss in the same tick
  would violate the property.
* `TokensAlwaysUsable`: `UsableInv`. Without a mishap one request at most
  validates a session. Until it has asked for new tokens its copy has the
  current refresh token, and writing the copy back is harmless; from then on its
  new tokens do, and it writes those or deletes the session (`HasCurrent`).
* `TokensAndTimesAreBounded`: `BoundsInv` is `TypeOK` with `Holds`: a request that is
  about to write a session has an access token to write, its copy's or a new one. That
  a code is redeemed once (`GrantsInv`) bounds the tokens, of which there must be room
  for at least one (`MaxTokens` is not 0).

`Selections_proofs` has induction over sequences in the form the provers can use: a
set of sequences that has the empty one and is closed under `Append` has them all
(`SequenceInduction`, from the well-foundedness of the naturals). From it follow
the recursive equations of `Only`. `SelectSeq` of the standard module has none that
could be cited, which is why the models select with `Only`.

`ProviderThreads_proofs`, for each provider and for output of any length:

* `ThreadsTypes`; `ThreadsContinue`: `SessionInv` (an answered session is still on
  the thread of its answer and its next run resumes it), `StoreInv` (Codex and
  Gemini number their threads) and `RunInv` (what a run was told about the thread
  stays true of its session, whatever is deleted or adopted meanwhile).
  `HistoryInv` says whose messages a history holds; `BusyInv` and `RequestInv` that
  a session has one run at a time.
* `SharedThreads`: `FirstRunInv`. A thread that a first run has created is that
  run's until it completes, but for sessions that adopted it `early`. The property
  itself is then kept by each step.
* `ObserversAreTold`, `RepliesAreComplete`: `LedgerInv`. The parser has not seen
  what is still in the pipe, so that its log and reply can be compared with what the
  tool has done only *after* the lines in the pipe: parsing them all leads to a
  parser that `Matches` the counts. A line that the tool writes extends the parsers
  at the far end, a line that is read takes away the first one, and when a reader
  has caught up the invariant is the property. `Matches` has for each provider how
  items without an id are paired; `ReadingInv` says what a reader knows before and
  after the line that announces the thread.
* `ImagesAreKept`: `ImageInv`.

`ChatBot_proofs`, for every number of sessions, updates, restarts and repositories
and every size of a page:

* `BotTypes`, `ButtonsMeanWhatTheyShow`: `MapInv` (the lists of the managers hold
  each live session once; one of them is active as long as there is one) and
  `ButtonsInv` (the position that a button carries is that of its label among the
  folders there were when the list was drawn, on every page).
* `MessagesFind`: `ChoiceInv`. While a session is chosen, it is the active one of
  the current provider, and every handler that may still write the choice is a
  message on its way to it. The invariant must speak of all handlers, because a
  choice counts only if it was made alone. `JobsInv` carries along each message
  which providers had a session all the time and have been asked in vain.

`LogStream_proofs`, for every size of the buffer, the snapshot and the channels and
any number of clients, processes, subscriptions, events and lines:

* `StreamTypes`: `TypeInv`, with `SlotsInv` (a subscription takes a slot once, so
  there are as many slots as subscriptions were registered) and `ClientsInv`.
* `NothingMissed`: `RingInv` says which slot holds which line of the log, before and
  after the buffer is full; that writing a chunk keeps it is an induction over the
  chunk (`PutUpToExists`, `PutAllRing`), and what a reader gets follows
  (`LinesAreLast`). `CopiersInv` and `ForwardsInv` say that a copier calls nobody
  twice for a line and nobody but those who have registered. Of the lines between a
  copier and a client, `OrderInv` says that those sent come before those that are
  coming, and `SeenInv` that none is missing. `Flow` is what makes their proofs short:
  whatever a step does, a stream keeps its lines or drops some (`FlowKeeps`), or takes
  one that was coming (`FlowTakes`), or a write adds to what is coming
  (`FlowGrows`). `EventsInv` and `ScansInv` are the parts about broadcasts and silence.

Only model-checked: liveness (`DeadSessionIsNoticed`, `ClosedPREndsLoop`,
`RunsEnd`, `SessionsAreForgotten`, `StreamsSettle`, and the counterexamples to
`ShutdownCompletes` and `PREndEndsLoop`), which the prover cannot do. Every safety
property of a passing run is a theorem.

## 12. Not modelled

* The order of main's shutdown, beyond StopAll and `Core.Shutdown`, and the
  dashboard's merge of fetched and streamed state: the two modules left in the
  plan. Components and layout of the dashboard have no protocol.
* The patterns of the event scanner with their throttle, the scan for URLs (what
  its callback saves is in `SessionManager`) and the progress reporter: what they
  tell is text. Two calls of the scanner's Stop at once, by the monitor and
  StopAll, may both close its channel (`session/eventscanner.go:139`).
* A failing Start that deletes a session in which a Restart has started a process
  meanwhile (`session/manager.go:168`): `SessionManager` lets it happen, but no
  property excludes it.
* The runtime commands of the bot and the older bot (`bot/`, `cmd/bot`): each is
  one call of the supervisor, as `SessionManager`'s clients make them.
* The provider registry (filled once, then read), configuration and onboarding
  (parsing and dialogue), runtime paths and build information (lookups), message
  formatting, packaging. The Windows runner differs in how it kills a process and
  is left out.

## 13. Running it

    tlc -workers 2 -config SessionFolders.cfg MCSessionManager
    tlc -workers 2 -config SessionIncarnations.cfg MCSessionManager
    tlc -workers 2 -config ChatRequests.cfg MCChatCore
    tlc -workers 2 -config RalphBranch.cfg RalphLoop
    tlc -workers 2 -config ProviderThreads.cfg MCProviderThreads
    tlc -workers 2 -config AuthSessions.cfg MCAuthSessions
    tlc -workers 2 -config LogStream.cfg MCLogStream
    tlc -workers 2 -config ChatBot.cfg MCChatBot
    tlapm SessionManager_proofs.tla
    tlapm ChatCore_proofs.tla
    tlapm RalphLoop_proofs.tla
    tlapm AuthSessions_proofs.tla
    tlapm Selections_proofs.tla
    tlapm ProviderThreads_proofs.tla
    tlapm ChatBot_proofs.tla
    tlapm LogStream_proofs.tla

`PROJECT.json` names the module and the configuration of every run. The operators
whose comments call them mutants are not part of the models: each is a plausible
bug, and putting it in the place of the definition it mutates makes TLC report
the property it is paired with.
