---------------------------- MODULE ProviderThreads ----------------------------
(***************************************************************************)
(* One chat provider - Codex, Claude or Gemini, chosen initially - with    *)
(* the command line tool it runs, the tool's own store of threads, the     *)
(* adoption of threads (codex/adopt.go) and the HTTP handlers that call    *)
(* it, with the images they store.                                         *)
(*                                                                         *)
(* A call of Send or RunCommand is a request.  Its tool writes lines into  *)
(* a pipe, a goroutine parses them, the caller waits for the process: the  *)
(* three go on concurrently, and Wait closes the pipe.                     *)
(*                                                                         *)
(* The session map is the chat core's, seen from its callers: what a       *)
(* region under its lock does is one step here.  Its events, state file    *)
(* and crashes are the subject of ChatCore.                                *)
(*                                                                         *)
(* Sessions, threads and requests are numbered in the order of their       *)
(* creation.  The UUID that createSession draws for session s is thread s; *)
(* the threads that tools create are numbered after those.                 *)
(***************************************************************************)
EXTENDS ToolOutput

CONSTANTS
  Kinds,        \* the providers considered
  MaxSessions,  \* bound: sessions created or adopted
  MaxThreads,   \* bound: threads created by tools
  MaxRequests,  \* bound: calls of Send and RunCommand
  Limits,       \* what one behaviour may use of these bounds: a set of records of
                \* sessions, requests, lines that the tools write, and requests
                \* with an image
  PipeSize,     \* lines that fit into a pipe
  MaxMessages,  \* the limit of a session's history
  Adopters      \* concurrent callers of AdoptSession

ASSUME ProviderAssumption ==
  /\ Kinds \subseteq {"codex", "claude", "gemini"}
  /\ MaxSessions \in Nat /\ MaxThreads \in Nat
  /\ MaxRequests \in Nat
  /\ Limits \subseteq [sessions : 0 .. MaxSessions, requests : 0 .. MaxRequests,
                       lines : Nat, images : Nat]
  /\ PipeSize \in Nat \ {0}
  /\ MaxMessages \in Nat \ {0}

Sessions == 1 .. MaxSessions
Threads  == 1 .. MaxSessions + MaxThreads
Requests == 1 .. MaxRequests

VARIABLES
  kind,      \* the provider
  limit,     \* the bounds of this behaviour
  drawn,     \* number of sessions created so far
  sess,      \* session -> its record
  made,      \* number of threads that tools have created
  store,     \* the threads in the tool's store
  calls,     \* number of requests so far
  req,       \* request -> its record
  promised,  \* lines written, and those the tools are still going to write
  files,     \* the requests whose image is in the upload directory
  adopting,  \* caller of AdoptSession -> the thread it has found adoptable
  cleaned    \* the sessions whose images a delete handler has removed

vars == <<kind, limit, drawn, sess, made, store, calls, req, promised, files, adopting, cleaned>>

Entry(r, is) == [by |-> r, is |-> is]

\* early and answered are history: was the thread adopted while the first run
\* of another session was in it, and in which thread was the last reply said.
\* cut tells that the history has lost messages.
Absent == [live |-> FALSE, thread |-> NoThread, ready |-> FALSE, busy |-> FALSE,
           hist |-> <<>>, early |-> FALSE, answered |-> NoThread, cut |-> FALSE]
Fresh(t, ready, early) ==
  [Absent EXCEPT !.live = TRUE, !.thread = t, !.ready = ready, !.early = early]

\* pc: "idle", "running", "returned" (the tool has), "completed", "answered",
\* "refused".  mode and asked are the arguments of the tool, works is the thread
\* it is in, more whether it is going to write on.  said, begun, ended and due
\* count what the tool has said and done, open and unnamed are the items that have
\* not ended, with an id and without; lost: Wait has closed the pipe on unread
\* lines, or the reader has given up.
Idle == [pc |-> "idle", on |-> 0, op |-> "none", img |-> FALSE, mode |-> "none",
         asked |-> NoThread, works |-> NoThread, proc |-> "none", more |-> FALSE,
         held |-> FALSE, pipe |-> <<>>, reader |-> "none", got |-> NewParser,
         said |-> 0, begun |-> 0, ended |-> 0, open |-> {}, unnamed |-> 0,
         due |-> FALSE, lost |-> FALSE, good |-> FALSE]

Live == {s \in Sessions : sess[s].live}
Running(r) == req[r].pc = "running"
Uses(r) == Running(r) /\ req[r].op = "text"

\* Replace some fields of a request.
Set(r, q) == req' = [req EXCEPT ![r] = q]

TypeOK ==
  /\ kind \in Kinds /\ limit \in Limits
  /\ drawn \in 0 .. MaxSessions /\ made \in 0 .. MaxThreads /\ calls \in 0 .. MaxRequests
  /\ promised \in 0 .. limit.lines
  /\ store \subseteq Threads
  /\ files \subseteq Requests
  /\ adopting \in [Adopters -> Threads \cup {NoThread}]
  /\ cleaned \subseteq Sessions
  /\ \A s \in Sessions :
       /\ sess[s].live => s <= drawn /\ sess[s].thread \in Threads
       /\ sess[s].busy => \E r \in Requests : req[r].on = s /\ req[r].pc \in {"running", "returned"}
       /\ Len(sess[s].hist) <= MaxMessages
  /\ \A r \in Requests :
       /\ req[r].pc \in {"idle", "running", "returned", "completed", "answered", "refused"}
       /\ req[r].pc = "idle" <=> r > calls
       /\ Len(req[r].pipe) <= PipeSize
       /\ req[r].proc \in {"none", "running", "exited", "failed"}
       /\ req[r].reader \in {"none", "reading", "draining", "stopped"}

-----------------------------------------------------------------------------
(* Sessions and adoption.                                                  *)

CreateSession ==
  /\ drawn < limit.sessions
  /\ drawn' = drawn + 1
  /\ sess' = [sess EXCEPT ![drawn + 1] = Fresh(drawn + 1, FALSE, FALSE)]
  /\ UNCHANGED <<kind, limit, made, store, calls, req, promised, files, adopting, cleaned>>

\* The user starts a thread in a terminal, below the base folder and inside a
\* repository; other threads are not adoptable and left out, and so are those that
\* the bound on sessions does not let anybody adopt.
LocalThread ==
  /\ kind = "codex" /\ drawn < limit.sessions
  /\ made < MaxThreads
  /\ made' = made + 1
  /\ store' = store \cup {MaxSessions + made + 1}
  /\ UNCHANGED <<kind, limit, drawn, sess, calls, req, promised, files, adopting, cleaned>>

\* listAdoptableSessions: the threads in Codex's database no session is on.
Adoptable == store \ {sess[s].thread : s \in Live}

\* AdoptSession up to the end of listAdoptableSessions ...
AdoptLists(a) ==
  /\ kind = "codex"
  /\ adopting[a] = NoThread /\ drawn < limit.sessions
  /\ \E t \in Adoptable : adopting' = [adopting EXCEPT ![a] = t]
  /\ UNCHANGED <<kind, limit, drawn, sess, made, store, calls, req, promised, files, cleaned>>

\* The duplicate check of createSession.  (The mutant has lost it.)
UnusedUnchecked(t) == TRUE
Unused(t) == \A s \in Live : sess[s].thread # t

\* ... and CreateSessionWithThread, which looks for duplicates under the lock.
AdoptCreates(a) ==
  LET t == adopting[a]
      early == \E r \in Requests : req[r].pc \in {"running", "returned"} /\ req[r].works = t
  IN
  /\ t # NoThread
  /\ drawn < limit.sessions
  /\ adopting' = [adopting EXCEPT ![a] = NoThread]
  /\ \/ /\ Unused(t)
        /\ drawn' = drawn + 1
        /\ sess' = [sess EXCEPT ![drawn + 1] = Fresh(t, TRUE, early)]
     \/ /\ ~Unused(t)
        /\ UNCHANGED <<drawn, sess>>
  /\ UNCHANGED <<kind, limit, made, store, calls, req, promised, files, cleaned>>

\* DeleteSession, from the bot or from the handler after DeleteCleans.  When its
\* save fails the session stays, which is no step.
DeleteSession(s) ==
  /\ sess[s].live
  /\ sess' = [sess EXCEPT ![s] = Absent]
  /\ UNCHANGED <<kind, limit, drawn, made, store, calls, req, promised, files, adopting, cleaned>>

\* storedAttachmentsFromMessages
Images(s) == {r \in Requests : req[r].img /\
                \E i \in DOMAIN sess[s].hist : sess[s].hist[i] = Entry(r, "user")}

\* handleDeleteChatSession removes the images before it deletes the session.
DeleteCleans(s) ==
  /\ sess[s].live
  /\ Images(s) # {}
  /\ files' = files \ Images(s)
  /\ cleaned' = cleaned \cup {s}
  /\ UNCHANGED <<kind, limit, drawn, sess, made, store, calls, req, promised, adopting>>

-----------------------------------------------------------------------------
(* A request begins.                                                       *)

\* AppendMessageWithLimit.  (The mutant cuts late.)
AppendedCutLate(q, m) ==
  LET all == Append(q, m) IN
  IF Len(q) > MaxMessages THEN SubSeq(all, Len(all) - MaxMessages + 1, Len(all))
                          ELSE all
Appended(q, m) ==
  LET all == Append(q, m) IN
  IF Len(all) > MaxMessages THEN SubSeq(all, Len(all) - MaxMessages + 1, Len(all))
                            ELSE all
Cuts(q) == Len(q) = MaxMessages

\* hasAssistantReply.  (The mutant counts the output of commands.)
AnyReply(hist) == \E i \in DOMAIN hist : hist[i].is \in {"reply", "output"}
HasAssistantReply(hist) == \E i \in DOMAIN hist : hist[i].is = "reply"

\* buildCodexArgs, buildGeminiArgs and buildClaudeArgs: start a thread or resume
\* one.
CodexMode(x)  == IF x.ready /\ x.thread # NoThread THEN "resume" ELSE "new"
GeminiMode(x) == IF x.ready /\ x.thread # NoThread THEN "resume" ELSE "new"
ClaudeMode(x) == IF HasAssistantReply(x.hist) THEN "resume" ELSE "new"

Mode(x) ==
  CASE kind = "codex"  -> CodexMode(x)
    [] kind = "gemini" -> GeminiMode(x)
    [] kind = "claude" -> ClaudeMode(x)

\* BeginRequest
Begun(s, m) == [sess EXCEPT ![s].busy = TRUE, ![s].hist = Appended(@, m),
                            ![s].cut = @ \/ Cuts(sess[s].hist)]

\* parseMultipartSendMessage stores the image before anything else; one that is
\* refused or cannot be written leaves nothing behind.
StoreImage(r, img) == files' = IF img THEN files \cup {r} ELSE files

\* Send up to the start of the tool.  A call that BeginRequest refuses changes
\* nothing, as the handler removes its image again; a tool that cannot be started
\* has no process.
Send(r, s, img) ==
  LET after == Begun(s, Entry(r, "user"))
      started == [Idle EXCEPT !.pc = "running", !.on = s, !.op = "text", !.img = img,
                              !.mode = Mode(after[s]), !.asked = after[s].thread,
                              !.proc = "running", !.reader = "reading"]
  IN
  /\ r = calls + 1 /\ r <= limit.requests
  /\ sess[s].live /\ ~sess[s].busy
  /\ calls' = r
  /\ StoreImage(r, img)
  /\ sess' = after
  /\ \/ Set(r, started)
     \/ Set(r, [started EXCEPT !.pc = "returned", !.proc = "none"])
  /\ UNCHANGED <<kind, limit, drawn, made, store, promised, adopting, cleaned>>

\* Only Codex takes images.
CodexSend(r, s)  == kind = "codex" /\ \E img \in BOOLEAN :
                      (img => r <= limit.images) /\ Send(r, s, img)
ClaudeSend(r, s) == kind = "claude" /\ Send(r, s, FALSE)
GeminiSend(r, s) == kind = "gemini" /\ Send(r, s, FALSE)

\* RunCommand up to the start of bash.
RunCommand(r, s) ==
  LET started == [Idle EXCEPT !.pc = "running", !.on = s, !.op = "bash",
                              !.proc = "running"]
  IN
  /\ r = calls + 1 /\ r <= limit.requests
  /\ sess[s].live /\ ~sess[s].busy
  /\ calls' = r
  /\ sess' = Begun(s, Entry(r, "bash"))
  /\ \/ Set(r, started)
     \/ Set(r, [started EXCEPT !.pc = "returned", !.proc = "none"])
  /\ UNCHANGED <<kind, limit, drawn, made, store, promised, files, adopting, cleaned>>

CodexRun(r, s)  == kind = "codex" /\ RunCommand(r, s)
ClaudeRun(r, s) == kind = "claude" /\ RunCommand(r, s)
GeminiRun(r, s) == kind = "gemini" /\ RunCommand(r, s)

-----------------------------------------------------------------------------
(* The tool.                                                               *)

\* The tool accepts its arguments: it resumes what it knows, and Claude does not
\* give a new thread the id of an old one.  Other new threads are bounded.
Accepts(q) ==
  \/ q.mode = "resume" /\ q.asked \in store
  \/ q.mode = "new" /\ IF kind = "claude" THEN q.asked \notin store
                                         ELSE made < MaxThreads

FirstLine == CASE kind = "codex" -> "thread" [] kind = "gemini" -> "init"
               [] kind = "claude" -> "system"

\* More lines follow only if the bound allows: they are counted in advance.
Promise(more) == promised' = promised + (IF more THEN 1 ELSE 0)

\* The first line: the tool is in its thread, which it may have created.
ToolStarts(r) ==
  LET q == req[r]
      new == q.mode = "new" /\ kind # "claude"
      t == IF new THEN MaxSessions + made + 1 ELSE q.asked
  IN
  /\ Uses(r) /\ q.proc = "running" /\ q.works = NoThread
  /\ Accepts(q)
  /\ made' = IF new THEN made + 1 ELSE made
  /\ store' = store \cup {t}
  /\ \E more \in BOOLEAN :
       /\ more => promised < limit.lines
       /\ Promise(more)
       /\ Set(r, [q EXCEPT !.works = t, !.more = more,
                           !.pipe = Append(@, Line(FirstLine, t))])
  /\ UNCHANGED <<kind, limit, drawn, sess, calls, files, adopting, cleaned>>

\* What the tool may write next, with what it then has said and done.  An item
\* without an id is line 0.
Opens(q, k) == <<Line(k, q.begun + 1),
                 [q EXCEPT !.begun = @ + 1, !.open = @ \cup {q.begun + 1}]>>
Closes(q, k) == {<<Line(k, x), [q EXCEPT !.ended = @ + 1, !.open = @ \ {x}]>> :
                   x \in q.open}
OpensUnnamed(q)  == <<Line("started", 0), [q EXCEPT !.begun = @ + 1, !.unnamed = @ + 1]>>
ClosesUnnamed(q) == <<Line("completed", 0), [q EXCEPT !.ended = @ + 1, !.unnamed = @ - 1]>>
Says(q, k) == <<Line(k, q.said + 1), [q EXCEPT !.said = @ + 1]>>

CodexWrites(q) ==
  {Says(q, "message"), Opens(q, "started"), OpensUnnamed(q),
   <<Line("completed", q.begun + 1), [q EXCEPT !.begun = @ + 1, !.ended = @ + 1]>>}
  \cup Closes(q, "completed")
  \cup (IF q.unnamed > 0 THEN {ClosesUnnamed(q)} ELSE {})
ClaudeWrites(q) ==
  IF q.due THEN {<<Line("assistant", q.said), [q EXCEPT !.due = FALSE]>>}
  ELSE {<<Line("text", q.said + 1), [q EXCEPT !.said = @ + 1, !.due = TRUE]>>,
        Opens(q, "start")}
       \cup Closes(q, "stop")
       \cup (IF q.said > 0 THEN {<<Line("result", q.said), q>>} ELSE {})
GeminiWrites(q) ==
  {Says(q, "delta"), Opens(q, "use")}
  \cup Closes(q, "output")
  \cup {IF q.said = 0 THEN Says(q, "message") ELSE <<Line("message", q.said), q>>}

\* A line longer than the buffer of the scanner says nothing.
Writes(q) ==
  {<<Line("huge", 0), q>>} \cup
  CASE kind = "codex" -> CodexWrites(q) [] kind = "claude" -> ClaudeWrites(q)
    [] kind = "gemini" -> GeminiWrites(q)

ToolWrites(r) ==
  LET q == req[r] IN
  /\ Uses(r) /\ q.proc = "running" /\ q.works # NoThread /\ q.more
  /\ Len(q.pipe) < PipeSize
  /\ \E w \in Writes(q), more \in BOOLEAN :
       /\ w[2].due => more
       /\ more => promised < limit.lines
       /\ Promise(more)
       /\ Set(r, [w[2] EXCEPT !.pipe = Append(@, w[1]), !.more = more])
  /\ UNCHANGED <<kind, limit, drawn, sess, made, store, calls, files, adopting, cleaned>>

\* The tool has written everything and succeeds.
ToolSucceeds(r) ==
  LET q == req[r] IN
  /\ Uses(r) /\ q.proc = "running" /\ q.works # NoThread /\ ~q.more
  /\ Set(r, [q EXCEPT !.proc = "exited"])
  /\ UNCHANGED <<kind, limit, drawn, sess, made, store, calls, promised, files, adopting, cleaned>>

\* It may fail instead, at any point but inside a write; it must when it does not
\* accept its arguments.
ToolFails(r) ==
  LET q == req[r] IN
  /\ Uses(r) /\ q.proc = "running"
  /\ q.more => Len(q.pipe) < PipeSize
  /\ Set(r, [q EXCEPT !.proc = "failed"])
  /\ UNCHANGED <<kind, limit, drawn, sess, made, store, calls, promised, files, adopting, cleaned>>

\* bash ends by itself, or is killed by the timeout: both give a result.  A process
\* it leaves behind may keep the output open.
BashEnds(r) ==
  LET q == req[r] IN
  /\ Running(r) /\ q.op = "bash" /\ q.proc = "running"
  /\ \E h \in BOOLEAN : Set(r, [q EXCEPT !.proc = "exited", !.held = h])
  /\ UNCHANGED <<kind, limit, drawn, sess, made, store, calls, promised, files, adopting, cleaned>>

ChildEnds(r) ==
  /\ req[r].held
  /\ Set(r, [req[r] EXCEPT !.held = FALSE])
  /\ UNCHANGED <<kind, limit, drawn, sess, made, store, calls, promised, files, adopting, cleaned>>

\* The client of the HTTP request goes away: its context kills the process.
ClientLeaves(r) ==
  LET q == req[r] IN
  /\ Running(r) /\ q.proc = "running"
  /\ \E h \in BOOLEAN : /\ h => q.op = "bash"
                        /\ Set(r, [q EXCEPT !.proc = "failed", !.held = h])
  /\ UNCHANGED <<kind, limit, drawn, sess, made, store, calls, promised, files, adopting, cleaned>>

-----------------------------------------------------------------------------
(* The reader and the waiting caller.                                      *)

\* The scanner stops at a line that is too long.  Gemini's parser drains the
\* pipe then, the others leave it alone.
\* (In the mutant no parser drains it.)
AlwaysStops == "stopped"
AfterHuge == IF kind = "gemini" THEN "draining" ELSE "stopped"

ReadLine(r) ==
  LET q == req[r]
      line == Head(q.pipe)
      p == [q EXCEPT !.pipe = Tail(@)]
  IN
  /\ Uses(r) /\ q.pipe # <<>> /\ q.reader \in {"reading", "draining"}
  /\ Set(r, IF q.reader = "draining" THEN p
            ELSE IF line.k = "huge" THEN [p EXCEPT !.reader = AfterHuge, !.lost = TRUE]
            ELSE [p EXCEPT !.got = Parse(kind, q.got, line)])
  /\ UNCHANGED <<kind, limit, drawn, sess, made, store, calls, promised, files, adopting, cleaned>>

\* cmd.Wait returns and closes the pipe, read or not.
WaitReturns(r) ==
  LET q == req[r] IN
  /\ Uses(r) /\ q.proc \in {"exited", "failed"}
  /\ Set(r, [q EXCEPT !.pc = "returned", !.pipe = <<>>, !.lost = @ \/ q.pipe # <<>>])
  /\ UNCHANGED <<kind, limit, drawn, sess, made, store, calls, promised, files, adopting, cleaned>>

\* CombinedOutput returns when bash has ended and its output is closed.
OutputReturns(r) ==
  LET q == req[r] IN
  /\ Running(r) /\ q.op = "bash" /\ q.proc # "running" /\ ~q.held
  /\ Set(r, [q EXCEPT !.pc = "returned"])
  /\ UNCHANGED <<kind, limit, drawn, sess, made, store, calls, promised, files, adopting, cleaned>>

-----------------------------------------------------------------------------
(* The request ends.                                                       *)

\* What runCodex, runClaude and runGemini return.
Returned(thread, q) ==
  [thread |-> thread, ok |-> q.proc = "exited" /\ Reply(kind, q.got) # <<>>]
RunCodex(q)  == Returned(q.got.thread, q)
RunClaude(q) == Returned(NoThread, q)
RunGemini(q) == Returned(q.got.thread, q)

\* bashcmd.Run gives a result whenever bash was started.
RunBash(q) == [thread |-> NoThread, ok |-> q.proc # "none"]

Result(q) ==
  CASE q.op = "bash"   -> RunBash(q)
    [] q.op = "text" /\ kind = "codex"  -> RunCodex(q)
    [] q.op = "text" /\ kind = "claude" -> RunClaude(q)
    [] q.op = "text" /\ kind = "gemini" -> RunGemini(q)

\* The updates that the providers hand to Complete: the thread, also that of a run
\* that failed, and the reply.
Rethreaded(x, q) ==
  IF Result(q).thread = NoThread THEN x
  ELSE [x EXCEPT !.thread = Result(q).thread, !.ready = TRUE]
Replied(x, r, q) ==
  IF ~Result(q).ok THEN x
  ELSE [x EXCEPT !.hist = Appended(@, Entry(r, "reply")), !.cut = @ \/ Cuts(x.hist),
                 !.answered = q.works]

CodexUpdate(x, r, q)  == Replied(Rethreaded(x, q), r, q)
ClaudeUpdate(x, r, q) == Replied(x, r, q)
GeminiUpdate(x, r, q) == Replied(Rethreaded(x, q), r, q)
CommandUpdate(x, r, q) ==
  IF ~Result(q).ok THEN x
  ELSE [x EXCEPT !.hist = Appended(@, Entry(r, "output")), !.cut = @ \/ Cuts(x.hist)]

Updated(x, r, q) ==
  CASE q.op = "bash" -> CommandUpdate(x, r, q)
    [] q.op = "text" /\ kind = "codex"  -> CodexUpdate(x, r, q)
    [] q.op = "text" /\ kind = "claude" -> ClaudeUpdate(x, r, q)
    [] q.op = "text" /\ kind = "gemini" -> GeminiUpdate(x, r, q)

\* Complete: the session may be gone, and the save may fail.
Complete(r) ==
  LET q == req[r]
      s == q.on
  IN
  /\ q.pc = "returned"
  /\ \E saved \in BOOLEAN :
       Set(r, [Idle EXCEPT !.pc = "completed", !.on = s, !.img = q.img,
                           !.good = saved /\ Result(q).ok /\ sess[s].live])
  /\ sess' = IF sess[s].live
             THEN [sess EXCEPT ![s] = [Updated(@, r, q) EXCEPT !.busy = FALSE]]
             ELSE sess
  /\ UNCHANGED <<kind, limit, drawn, made, store, calls, promised, files, adopting, cleaned>>

\* What the handler removes when it reports an error.  (The mutant removes all
\* the images of the session.)
CleanupAll(r) == files \ (Images(req[r].on) \cup {r})
Cleanup(r) == files \ {r}

\* The handler looks the session up again and answers.
Respond(r) ==
  LET q == req[r]
      ok == q.good /\ sess[q.on].live
  IN
  /\ q.pc = "completed"
  /\ Set(r, [q EXCEPT !.pc = IF ok THEN "answered" ELSE "refused", !.good = FALSE])
  /\ files' = IF ok THEN files ELSE Cleanup(r)
  /\ UNCHANGED <<kind, limit, drawn, sess, made, store, calls, promised, adopting, cleaned>>

-----------------------------------------------------------------------------

Init ==
  /\ kind \in Kinds /\ limit \in Limits
  /\ drawn = 0 /\ made = 0 /\ calls = 0 /\ promised = 0
  /\ sess = [s \in Sessions |-> Absent]
  /\ store = {}
  /\ req = [r \in Requests |-> Idle]
  /\ files = {}
  /\ adopting = [a \in Adopters |-> NoThread]
  /\ cleaned = {}

SessionStep(s) ==
  \/ DeleteSession(s) \/ DeleteCleans(s)
  \/ \E r \in Requests : \/ CodexSend(r, s) \/ ClaudeSend(r, s) \/ GeminiSend(r, s)
                         \/ CodexRun(r, s) \/ ClaudeRun(r, s) \/ GeminiRun(r, s)

ToolStep(r) == ToolStarts(r) \/ ToolWrites(r) \/ ToolSucceeds(r) \/ BashEnds(r)
World(r)    == ToolFails(r) \/ ChildEnds(r) \/ ClientLeaves(r)
CallStep(r) == ReadLine(r) \/ WaitReturns(r) \/ OutputReturns(r) \/ Complete(r) \/ Respond(r)

Next ==
  \/ CreateSession \/ LocalThread
  \/ \E a \in Adopters : AdoptLists(a) \/ AdoptCreates(a)
  \/ \E s \in Sessions : SessionStep(s)
  \/ \E r \in Requests : ToolStep(r) \/ World(r) \/ CallStep(r)

Spec == Init /\ [][Next]_vars

\* Goroutines go on.  A tool whose output is read writes all it has to write and
\* ends; one that does not accept its arguments fails; bash ends, at the latest
\* by the timeout.  Each of these steps brings its run nearer to the end.
Rejected(r) == req[r].works = NoThread /\ ~Accepts(req[r]) /\ ToolFails(r)
Fairness == \A r \in Requests : WF_vars(ToolStep(r) \/ Rejected(r) \/ CallStep(r))

FairSpec == Spec /\ Fairness
-----------------------------------------------------------------------------
(* Safety.                                                                 *)

\* createSession looks for duplicates under the lock, but the thread of a first
\* run is recorded only when that run completes (codex/manager.go:238): the run
\* may be in a thread that is adopted meanwhile.  No other order of creations,
\* adoptions, runs and deletions puts two sessions on one thread.
SharedThreadsAreAdoptedEarly ==
  \A s, t \in Live :
    s # t /\ sess[s].thread = sess[t].thread => sess[s].early \/ sess[t].early

\* A conversation goes on: once a session has been given a reply, its next run
\* resumes the thread in which it was said, whatever runs failed or were cut off
\* in between - except that Claude's session needs a reply in the part of its
\* history that is left.  And no run resumes a thread its tool does not know.
ThreadsAreContinued ==
  /\ \A s \in Live : sess[s].answered # NoThread =>
       /\ sess[s].thread = sess[s].answered
       /\ Mode(sess[s]) = "resume" \/ (kind = "claude" /\ sess[s].cut)
  /\ \A r \in Requests : Uses(r) /\ req[r].mode = "resume" => req[r].asked \in store

\* While its reader keeps up, observers of a run see every text and the start and
\* the end of every item, each end after the start of the same index.
Starts(q)   == Emitted(q.got, "start")
Finishes(q) == Emitted(q.got, "finish")
ObserversSeeAll ==
  \A r \in Requests :
    LET q == req[r]
        log == q.got.log
    IN Uses(r) /\ q.pipe = <<>> /\ q.reader = "reading" =>
         /\ Emitted(q.got, "delta") = [n \in 1 .. q.said |-> Event("delta", n)]
         /\ Len(Starts(q)) = q.begun /\ Len(Finishes(q)) = q.ended
         /\ \A i, j \in DOMAIN Starts(q) : Starts(q)[i] = Starts(q)[j] => i = j
         /\ \A i \in DOMAIN log : log[i].e = "finish" =>
              \E j \in 1 .. i - 1 : log[j] = Event("start", log[i].n)

\* The reply of a successful run is all the tool has said, for Claude the last
\* message, for a run that said nothing its raw output - unless Wait has closed
\* the pipe on unread lines (codex/manager.go:370) or a line was too long.
ReplyIsWhatWasSaid ==
  \A r \in Requests :
    LET q == req[r] IN
    q.pc = "returned" /\ q.op = "text" /\ Result(q).ok /\ ~q.lost =>
      Reply(kind, q.got) = IF q.said = 0 THEN RawReply
                           ELSE IF kind = "claude" THEN <<q.said>>
                           ELSE [n \in 1 .. q.said |-> n]

\* An image that was accepted with a message stays as long as its session, and
\* while the tool reads it, unless a delete handler has begun with the session
\* (it may then fail, handlers.go:443); the image of a refused message does not.
ImagesStay ==
  \A r \in Requests :
    LET q == req[r] IN
    /\ q.img /\ (Running(r) \/ q.pc = "answered") /\ sess[q.on].live
       /\ q.on \notin cleaned => r \in files
    /\ q.pc = "refused" => r \notin files

-----------------------------------------------------------------------------
(* Liveness.                                                               *)

\* A run that nobody ends: the reader has given up and the tool waits for room
\* in the pipe; or a process that bash has left behind keeps the output open,
\* which neither the timeout nor a client that leaves can change.
Stuck(r) ==
  LET q == req[r] IN
  \/ q.reader = "stopped" /\ kind # "gemini" /\ Len(q.pipe) = PipeSize
  \/ q.held

\* Every run ends, and frees its session, but for these.
RunsEnd == \A r \in Requests : Running(r) ~> (~Running(r) \/ Stuck(r))
===============================================================================
