-------------------------------- MODULE ChatBot --------------------------------
(***************************************************************************)
(* The chat part of the Telegram bot (internal/rcodbot): which session a   *)
(* plain message goes to, the commands and buttons that choose it, and the *)
(* file that keeps the choice.                                             *)
(*                                                                         *)
(* telebot runs the handler of every update in a goroutine of its own, and *)
(* the dashboard works on the same sessions at the same time.  A handler   *)
(* calls the managers of Codex and Gemini one after the other; each call   *)
(* is atomic under the lock of that provider's chat core, and durable when *)
(* it succeeds (ChatCore).  A Gemini that is not configured is one that    *)
(* has no sessions.                                                        *)
(*                                                                         *)
(* Sessions, repositories and updates are numbered, repositories in their  *)
(* alphabetical order.  Texts and layout are left out.                     *)
(***************************************************************************)
EXTENDS FiniteSets, Selections

CONSTANTS
  MaxSessions,  \* bound: sessions created
  MaxUpdates,   \* bound: updates of the user
  MaxRepos,     \* bound: repositories below the base folder
  PageSize,     \* buttons of repositories on a page
  Limits        \* what one behaviour may use of these bounds: a set of records of
                \* sessions, updates, the handlers (ops) they are for, repos,
                \* changes of the repositories, restarts and failing writes

Providers == {"codex", "gemini"}
Ops == {"text", "use", "close", "browse", "new", "pick"}

ASSUME BotAssumption ==
  /\ MaxSessions \in Nat /\ MaxUpdates \in Nat /\ MaxRepos \in Nat
  /\ PageSize \in Nat \ {0}
  /\ Limits \subseteq [sessions : 0 .. MaxSessions, updates : 0 .. MaxUpdates,
                       ops : SUBSET Ops, repos : SUBSET (1 .. MaxRepos),
                       changes : Nat, restarts : Nat, faults : Nat]

Sessions == 1 .. MaxSessions
Updates  == 1 .. MaxUpdates
Repos    == 1 .. MaxRepos

VARIABLES
  limit,     \* the bounds of this behaviour, and what is left of them
  drawn,     \* number of sessions created
  sess,      \* session -> its record
  recent,    \* provider -> its sessions, the latest updated last
  active,    \* provider -> its active session, 0: none
  current,   \* currentProviderID
  saved,     \* what the state file says of it, "torn": does not parse
  repos,     \* the repositories on disk
  buttons,   \* the buttons for repositories in the chat
  updates,   \* number of updates received
  job,       \* update -> its handler
  chosen     \* the session that the user's last choice is known to be, 0: none

coreVars == <<drawn, sess, recent, active>>
botVars  == <<current, saved>>
vars == <<limit, drawn, sess, recent, active, current, saved, repos, buttons, updates,
          job, chosen>>

\* as: what the button said by which the session was created, 0: no button, or
\* the repositories have changed since.
NoSession == [of |-> "none", folder |-> 0, live |-> FALSE, busy |-> FALSE, as |-> 0]

\* want, steady and alone are history: the choice that holds since the message
\* came, the providers that have had a session since, and whether nothing else was
\* going on since.
Idle == [pc |-> "idle", op |-> "none", of |-> "none", id |-> 0, folder |-> 0, as |-> 0,
         want |-> 0, steady |-> {}, alone |-> TRUE]

LiveOf(p) == {s \in Sessions : sess[s].live /\ sess[s].of = p}

\* A handler that has answered.
Done == [Idle EXCEPT !.pc = "done"]

\* A handler that may still choose something.
Choosing == {u \in Updates : job[u].pc \in {"read", "lost", "stillLost", "set", "activate",
                                            "create"}}

TypeOK ==
  /\ limit.restarts \in Nat /\ limit.faults \in Nat /\ limit.changes \in Nat
  /\ drawn \in 0 .. limit.sessions
  /\ updates \in 0 .. limit.updates
  /\ current \in Providers \cup {"none"} /\ saved \in Providers \cup {"none", "torn"}
  /\ repos \subseteq Repos
  /\ chosen \in Sessions \cup {0}
  /\ \A p \in Providers :
       /\ ToSet(recent[p]) = LiveOf(p) /\ Len(recent[p]) = Cardinality(LiveOf(p))
       /\ active[p] \in LiveOf(p) \/ (active[p] = 0 /\ LiveOf(p) = {})
  /\ \A u \in Updates :
       /\ job[u].pc = "idle" => job[u] = Idle
       /\ job[u].pc = "sending" => job[u].id <= drawn

-----------------------------------------------------------------------------
(* The managers.                                                           *)

Without(q, s) == Only(q, Sessions \ {s})

\* The handlers see a change of the active sessions: history.
Noticed(jobs, act) ==
  [u \in Updates |-> [jobs[u] EXCEPT !.steady = {p \in @ : act[p] # 0}]]

\* The choice s no longer holds.
Dropped(jobs, s) ==
  [u \in Updates |-> IF jobs[u].want = s /\ jobs[u].pc # "sending"
                       THEN [jobs[u] EXCEPT !.want = 0] ELSE jobs[u]]

\* CreateSession: the new session is the active one.
Create(p, f, as) ==
  LET s == drawn + 1 IN
  /\ drawn' = s
  /\ sess' = [sess EXCEPT ![s] = [of |-> p, folder |-> f, live |-> TRUE, busy |-> FALSE,
                                  as |-> as]]
  /\ recent' = [recent EXCEPT ![p] = Append(@, s)]
  /\ active' = [active EXCEPT ![p] = s]

\* latestSessionIDLocked.  (The mutant leaves nobody active.)
LatestNone(q) == 0
Latest(q) == IF q = <<>> THEN 0 ELSE Last(q)

\* DeleteSession.
Delete(s) ==
  LET p == sess[s].of
      rest == Without(recent[p], s)
  IN
  /\ sess[s].live
  /\ sess' = [sess EXCEPT ![s].live = FALSE, ![s].busy = FALSE]
  /\ recent' = [recent EXCEPT ![p] = rest]
  /\ active' = [active EXCEPT ![p] = IF @ = s THEN Latest(rest) ELSE @]
  /\ UNCHANGED drawn

\* SetActive.
SetActive(s) ==
  LET p == sess[s].of IN
  /\ sess[s].live
  /\ recent' = [recent EXCEPT ![p] = Append(Without(@, s), s)]
  /\ active' = [active EXCEPT ![p] = s]
  /\ UNCHANGED <<drawn, sess>>

\* The dashboard creates a session, which takes the place of the active one ...
DashboardCreates(p) ==
  /\ drawn < limit.sessions
  /\ \E f \in repos : Create(p, f, 0)
  /\ LET lost == IF chosen # 0 /\ sess[chosen].of = p THEN chosen ELSE 0 IN
     /\ chosen' = IF lost = 0 THEN chosen ELSE 0
     /\ job' = Noticed(IF lost = 0 THEN job ELSE Dropped(job, lost), active')
  /\ UNCHANGED <<limit, botVars, repos, buttons, updates>>

\* ... or deletes one.
DashboardDeletes(s) ==
  /\ Delete(s)
  /\ chosen' = IF chosen = s THEN 0 ELSE chosen
  /\ job' = Noticed(Dropped(job, s), active')
  /\ UNCHANGED <<limit, botVars, repos, buttons, updates>>

-----------------------------------------------------------------------------
(* Buttons for repositories.                                               *)

\* ListGitFolders, sorted.
ListGitFolders == Only([i \in Repos |-> i], repos)

\* FolderPickerMarkup: a page of the list; a button carries the position in the
\* whole list.  (The mutant's carries the position on the page.)
OnPage(start, i) == i
InList(start, i) == start + i
FolderPickerMarkup(p, page) ==
  LET folders == ListGitFolders
      last == (Len(folders) - 1) \div PageSize
      start == PageSize * (IF page > last THEN last ELSE page)
  IN {[of |-> p, index |-> InList(start, i), label |-> folders[start + i], among |-> repos] :
        i \in {j \in 1 .. PageSize : start + j <= Len(folders)}}

-----------------------------------------------------------------------------
(* Updates.                                                                *)

\* A new handler.  Whoever else is choosing is no longer alone.
Received(u, j) ==
  [v \in Updates |->
     CASE v = u /\ j.op = "text" -> [j EXCEPT !.steady = {p \in Providers : active[p] # 0}]
       [] v = u /\ j.op # "text" -> [j EXCEPT !.alone = j = Done \/ Choosing = {}]
       [] v # u -> [job[v] EXCEPT !.alone = @ /\ (job[v].op = "text" \/ v \notin Choosing)]]

Receive(u, op) == u = updates + 1 /\ u <= limit.updates /\ op \in limit.ops /\ updates' = u

\* A command or button that chooses a session ends what was chosen before.
ChoiceBegins(u, j) ==
  /\ chosen' = 0
  /\ job' = [v \in Updates |-> [Received(u, j)[v] EXCEPT
               !.want = IF job[v].pc = "sending" THEN @ ELSE 0]]

\* handleChat reads the current provider.
HandleChat(u) ==
  /\ Receive(u, "text")
  /\ job' = Received(u, [Idle EXCEPT !.pc = "read", !.op = "text", !.of = current,
                                     !.want = chosen])
  /\ UNCHANGED <<limit, coreVars, botVars, repos, buttons, chosen>>

\* handleUse and the button "Use", for a session that the chat has mentioned.
HandleUse(u, s) ==
  /\ Receive(u, "use") /\ s <= drawn
  /\ ChoiceBegins(u, [Idle EXCEPT !.pc = "activate", !.op = "use", !.of = sess[s].of,
                                  !.id = s])
  /\ UNCHANGED <<limit, coreVars, botVars, repos, buttons>>

\* handleClose and the button "Close".  The current provider stays.
HandleClose(u, s) ==
  /\ Receive(u, "close") /\ s <= drawn
  /\ \/ /\ Delete(s)
        /\ chosen' = IF chosen = s THEN 0 ELSE chosen
        /\ job' = Noticed(Dropped(Received(u, Done),
                                  s), active')
     \/ /\ job' = Received(u, Done)
        /\ UNCHANGED <<coreVars, chosen>>
  /\ UNCHANGED <<limit, botVars, repos, buttons>>

\* sendChatFolderPicker and handleChatNavigation: a page of repositories.
Browse(u, p, page) ==
  /\ Receive(u, "browse") /\ repos # {}
  /\ buttons' = buttons \cup FolderPickerMarkup(p, page)
  /\ job' = Received(u, Done)
  /\ UNCHANGED <<limit, coreVars, botVars, repos, chosen>>

\* handleNew with the name of a repository: a button for each provider.
HandleNew(u, f) ==
  LET folders == ListGitFolders
      index == CHOOSE i \in 1 .. Len(folders) : folders[i] = f
  IN
  /\ Receive(u, "new") /\ f \in repos
  /\ buttons' = buttons \cup {[of |-> p, index |-> index, label |-> f, among |-> repos] :
                                p \in Providers}
  /\ job' = Received(u, Done)
  /\ UNCHANGED <<limit, coreVars, botVars, repos, chosen>>

\* handleProviderPick lists the repositories again, and takes the one that is now
\* at the button's position.
HandleProviderPick(u, b) ==
  LET folders == ListGitFolders IN
  /\ Receive(u, "pick")
  /\ ChoiceBegins(u, IF b.index > Len(folders) THEN Done
                     ELSE [Idle EXCEPT !.pc = "create", !.op = "pick", !.of = b.of,
                                       !.folder = folders[b.index],
                                       !.as = IF b.among = repos THEN b.label ELSE 0])
  /\ UNCHANGED <<limit, coreVars, botVars, repos, buttons>>

-----------------------------------------------------------------------------
(* Choosing.                                                               *)

Ended(u) == [job EXCEPT ![u] = Done]
Found(u) == [job EXCEPT ![u].pc = "found", ![u].steady = {}]

\* SetActive of handleUse: the session may be gone, the save may fail.
Activate(u) ==
  /\ job[u].pc = "activate"
  /\ \/ SetActive(job[u].id) /\ job' = [job EXCEPT ![u].pc = "set"]
     \/ UNCHANGED coreVars /\ job' = Ended(u)
  /\ UNCHANGED <<limit, botVars, repos, buttons, updates, chosen>>

\* CreateSession of handleProviderPick: the repository may be gone.
CreatePicked(u) ==
  LET j == job[u] IN
  /\ j.pc = "create"
  /\ \/ /\ j.folder \in repos /\ drawn < limit.sessions
        /\ Create(j.of, j.folder, j.as)
        /\ job' = Noticed([job EXCEPT ![u].pc = "set", ![u].id = drawn + 1], active')
     \/ UNCHANGED coreVars /\ job' = Ended(u)
  /\ UNCHANGED <<limit, botVars, repos, buttons, updates, chosen>>

\* saveStateLocked: a write that fails is ignored; it may leave half a file.
Save(p) ==
  \/ saved' = p /\ UNCHANGED limit
  \/ /\ limit.faults > 0
     /\ limit' = [limit EXCEPT !.faults = @ - 1]
     /\ saved' \in {saved, "torn"}

\* setCurrentProviderID, of a command, a button or a plain message's fallback.
SetCurrent(u) ==
  LET j == job[u] IN
  /\ j.pc = "set"
  /\ current' = j.of
  /\ Save(j.of)
  /\ job' = IF j.op = "text" THEN Found(u) ELSE Ended(u)
  /\ chosen' = IF j.op # "text" /\ j.alone /\ active[j.of] = j.id THEN j.id ELSE chosen
  /\ UNCHANGED <<coreVars, repos, buttons, updates>>

-----------------------------------------------------------------------------
(* A plain message.                                                        *)

\* Active.
HasActive(p) == p \in Providers /\ active[p] # 0

\* The current provider, if it has an active session.
CheckCurrent(u) ==
  /\ job[u].pc = "read"
  /\ job' = IF HasActive(job[u].of) THEN Found(u) ELSE [job EXCEPT ![u].pc = "lost"]
  /\ UNCHANGED <<limit, coreVars, botVars, repos, buttons, updates, chosen>>

\* The fallback: Codex, or else Gemini, becomes the current provider.
FallBackToCodex(u) ==
  /\ job[u].pc = "lost"
  /\ job' = IF HasActive("codex") THEN [job EXCEPT ![u].pc = "set", ![u].of = "codex"]
            ELSE [job EXCEPT ![u].pc = "stillLost"]
  /\ UNCHANGED <<limit, coreVars, botVars, repos, buttons, updates, chosen>>

FallBackToGemini(u) ==
  /\ job[u].pc = "stillLost"
  /\ job' = IF HasActive("gemini") THEN [job EXCEPT ![u].pc = "set", ![u].of = "gemini"]
            ELSE [job EXCEPT ![u].pc = "noSession"]
  /\ UNCHANGED <<limit, coreVars, botVars, repos, buttons, updates, chosen>>

\* ResolveActive: the session may be gone since.
ResolveActive(u) ==
  LET s == active[job[u].of] IN
  /\ job[u].pc = "found"
  /\ job' = IF s # 0 THEN [job EXCEPT ![u].pc = "resolved", ![u].id = s]
                     ELSE Ended(u)
  /\ UNCHANGED <<limit, coreVars, botVars, repos, buttons, updates, chosen>>

\* Send: a session that is gone or busy refuses.
BeginSend(u) ==
  LET s == job[u].id IN
  /\ job[u].pc = "resolved"
  /\ IF sess[s].live /\ ~sess[s].busy
       THEN /\ sess' = [sess EXCEPT ![s].busy = TRUE]
            /\ job' = [job EXCEPT ![u].pc = "sending"]
       ELSE UNCHANGED sess /\ job' = Ended(u)
  /\ UNCHANGED <<limit, drawn, recent, active, botVars, repos, buttons, updates, chosen>>

\* Complete, and the reply under the name of the session.
EndSend(u) ==
  LET s == job[u].id
      p == sess[s].of
  IN
  /\ job[u].pc = "sending"
  /\ sess' = [sess EXCEPT ![s].busy = FALSE]
  /\ recent' = IF sess[s].live THEN [recent EXCEPT ![p] = Append(Without(@, s), s)]
                               ELSE recent
  /\ job' = Ended(u)
  /\ UNCHANGED <<limit, drawn, active, botVars, repos, buttons, updates, chosen>>

-----------------------------------------------------------------------------
(* The rest of the world.                                                  *)

\* Somebody clones or removes a repository.
ReposChange(f) ==
  /\ limit.changes > 0
  /\ limit' = [limit EXCEPT !.changes = @ - 1]
  /\ repos' = IF f \in repos THEN repos \ {f} ELSE repos \cup {f}
  /\ UNCHANGED <<coreVars, botVars, buttons, updates, job, chosen>>

\* loadState: a file that does not parse says nothing.  (The mutant forgets.)
LoadNothing(file) == "none"
LoadState(file) == IF file = "torn" THEN "none" ELSE file

\* rcod is restarted, perhaps in the middle of a write.  The sessions and the
\* active ones are restored.
Restart ==
  /\ limit.restarts > 0
  /\ limit' = [limit EXCEPT !.restarts = @ - 1]
  /\ \/ UNCHANGED saved
     \/ (\E u \in Updates : job[u].pc = "set") /\ saved' = "torn"
  /\ current' = LoadState(saved')
  /\ sess' = [s \in Sessions |-> [sess[s] EXCEPT !.busy = FALSE]]
  /\ job' = [u \in Updates |-> Idle]
  /\ chosen' = IF saved' = current THEN chosen ELSE 0
  /\ UNCHANGED <<drawn, recent, active, repos, buttons, updates>>

-----------------------------------------------------------------------------
Init ==
  /\ limit \in Limits
  /\ drawn = 0
  /\ sess = [s \in Sessions |-> NoSession]
  /\ recent = [p \in Providers |-> <<>>]
  /\ active = [p \in Providers |-> 0]
  /\ current = "none" /\ saved = "none"
  /\ repos = limit.repos
  /\ buttons = {}
  /\ updates = 0
  /\ job = [u \in Updates |-> Idle]
  /\ chosen = 0

\* handleCallback; /use and /close with a session do what the buttons do.
HandleCallback(u) ==
  \/ \E s \in Sessions : HandleUse(u, s) \/ HandleClose(u, s)
  \/ \E p \in Providers, page \in 0 .. MaxRepos \div PageSize : Browse(u, p, page)
  \/ \E b \in buttons : HandleProviderPick(u, b)

UpdateArrives(u) ==
  \/ HandleChat(u) \/ HandleCallback(u)
  \/ \E f \in Repos : HandleNew(u, f)

HandlerStep(u) ==
  \/ Activate(u) \/ CreatePicked(u) \/ SetCurrent(u)
  \/ CheckCurrent(u) \/ FallBackToCodex(u) \/ FallBackToGemini(u)
  \/ ResolveActive(u) \/ BeginSend(u) \/ EndSend(u)

Next ==
  \/ \E p \in Providers : DashboardCreates(p)
  \/ \E s \in Sessions : DashboardDeletes(s)
  \/ \E u \in Updates : UpdateArrives(u) \/ HandlerStep(u)
  \/ \E f \in Repos : ReposChange(f)
  \/ Restart

Spec == Init /\ [][Next]_vars

-----------------------------------------------------------------------------
(* Properties.                                                             *)

\* The session that the user has chosen with /use or a button gets the plain
\* messages that come after it: a message is not handed to another one, whatever
\* other messages, the closing of other sessions, the dashboard's work on the other
\* provider and restarts come in between.  Excepted are choices that overlap with
\* another handler, sessions that the dashboard has created for the same provider,
\* and restarts after a write that failed.  (handleChat, setCurrentProviderID,
\* loadState)
MessagesReachTheChosen ==
  \A u \in Updates :
    (job[u].op = "text" /\ job[u].pc = "sending" /\ job[u].want # 0)
      => job[u].id = job[u].want

\* A plain message is turned away for want of a session only if no provider has
\* had one all the time, although the providers are asked one after the other.
\* (the fallback in handleChat)
NoSessionIsOverlooked ==
  \A u \in Updates : job[u].pc = "noSession" => job[u].steady = {}

PlainTextFinds == MessagesReachTheChosen /\ NoSessionIsOverlooked

\* A session that was created by a button is in the repository that the button
\* shows, on whichever page it is, unless repositories have come or gone since.
\* (FolderPickerMarkup, handleNew, handleProviderPick)
PicksAreAsShown == \A s \in Sessions : sess[s].as # 0 => sess[s].folder = sess[s].as
===============================================================================
