------------------------------- MODULE LogStream -------------------------------
(***************************************************************************)
(* The output of one runtime session on its way to the dashboard: the      *)
(* process writes through the event scanner into the ring buffer           *)
(* (session/eventscanner.go, ringbuf.go), WebSocket clients read the last  *)
(* lines and subscribe to the next ones, and the hub broadcasts events to  *)
(* all of them (httpapi/ws.go).                                            *)
(*                                                                         *)
(* Concurrent are the goroutines that copy the output of the session's     *)
(* processes (a Restart may start one before the last has ended), the      *)
(* reader and the writer of each client, a forwarder for each subscription *)
(* and those that emit events.  A step is what one does under one lock or  *)
(* with one channel.                                                       *)
(*                                                                         *)
(* A line is its process and its number in the output of the process.      *)
(***************************************************************************)
EXTENDS Naturals, Sequences, SequencesExt, Selections

CONSTANTS
  Clients,     \* WebSocket connections
  MaxProcs,    \* bound: processes of the session, one after the other
  MaxSubs,     \* bound: subscriptions
  MaxEvents,   \* bound: events broadcast
  Limits,      \* what one behaviour may use of these bounds: a set of records of
               \* clients, procs, subs, events and lines written; idle: the
               \* session's idle_timeout is configured
  Size,        \* lines in the ring buffer
  Backlog,     \* lines a new subscriber is given
  ChanSize,    \* capacity of the channel of a forwarder
  SendSize     \* capacity of the channel of a client

ASSUME StreamAssumption ==
  /\ MaxProcs \in Nat /\ MaxSubs \in Nat /\ MaxEvents \in Nat
  /\ Limits \subseteq [clients : SUBSET Clients, procs : 0 .. MaxProcs, subs : 0 .. MaxSubs,
                       events : 0 .. MaxEvents, lines : Nat, idle : BOOLEAN]
  /\ Size \in Nat \ {0} /\ Backlog \in Nat
  /\ ChanSize \in Nat \ {0} /\ SendSize \in Nat \ {0}

Procs  == 1 .. MaxProcs
Subs   == 1 .. MaxSubs
Events == 1 .. MaxEvents

VARIABLES
  limit,     \* the bounds of this behaviour
  log,       \* all lines in the order of the buffer
  ring,      \* the ring buffer: its slots, pos and full
  listeners, \* the subscribers of the buffer, 0: unsubscribed
  procs,     \* number of processes started
  copier,    \* process -> the goroutine that copies its output
  scan,      \* process -> its event scanner
  fwd,       \* subscription -> its forwarder
  drawn,     \* number of subscriptions
  hub,       \* the clients registered with the hub
  client,    \* client -> its connection
  emitted,   \* number of events
  cast       \* event -> who gets it, and who has yet to

bufferVars == <<log, ring, listeners>>
procVars   == <<procs, copier, scan>>
eventVars  == <<emitted, cast>>
vars == <<limit, log, ring, listeners, procs, copier, scan, fwd, drawn, hub, client,
          emitted, cast>>

NoLine    == [by |-> 0, no |-> 0]
NoCopier  == [pc |-> "none", written |-> 0, chunk |-> <<>>, subs |-> <<>>, left |-> <<>>]
NoScanner == [armed |-> FALSE, ringing |-> FALSE, fired |-> FALSE, stopped |-> FALSE,
              told |-> 0]
NoForward == [pc |-> "none", client |-> "none", slot |-> 0, rest |-> <<>>, chan |-> <<>>,
              since |-> 0, doubled |-> {}, lossy |-> FALSE]
NoClient  == [pc |-> "none", busy |-> 0, subscribed |-> FALSE, send |-> <<>>, got |-> <<>>,
              lossy |-> FALSE]
NoCast    == [to |-> {}, left |-> {}]

LineOf(f, line) == [sub |-> f, line |-> line, event |-> 0]
EventMsg(e)     == [sub |-> 0, line |-> NoLine, event |-> e]

-----------------------------------------------------------------------------
(* The ring buffer.                                                        *)

\* One line of Write: the oldest one is overwritten, full is set at the wrap.
Put(r, line) ==
  LET pos == (r.pos + 1) % Size IN
  [slots |-> [r.slots EXCEPT ![r.pos] = line], pos |-> pos, full |-> r.full \/ pos = 0]

\* i -> the buffer with the first i lines of a chunk put into it.
PutUpTo(r, chunk) ==
  LET put[i \in 0 .. Len(chunk)] == IF i = 0 THEN r ELSE Put(put[i - 1], chunk[i])
  IN put
PutAll(r, chunk) == PutUpTo(r, chunk)[Len(chunk)]

\* Lines(n).
LinesFromPos(r, n) ==
  LET total == IF r.full THEN Size ELSE r.pos
      m == IF n > total THEN total ELSE n
      start == IF r.pos < m THEN 0 ELSE r.pos - m
  IN [i \in 1 .. m |-> r.slots[(start + i - 1) % Size]]
Lines(r, n) ==
  LET total == IF r.full THEN Size ELSE r.pos
      m == IF n > total THEN total ELSE n
      start == IF r.pos < m THEN r.pos + Size - m ELSE r.pos - m
  IN [i \in 1 .. m |-> r.slots[(start + i - 1) % Size]]

\* The function that Subscribe returns: the slot is emptied, not removed.
Closed(slot)       == SubSeq(listeners, 1, slot - 1) \o
                      SubSeq(listeners, slot + 1, Len(listeners))
Unsubscribed(slot) == [listeners EXCEPT ![slot] = 0]

-----------------------------------------------------------------------------
(* The process and its output.                                             *)

\* startProcess: a scanner of its own, its idle timer armed.
StartProcess ==
  LET p == procs + 1 IN
  /\ procs < limit.procs
  /\ procs' = p
  /\ copier' = [copier EXCEPT ![p].pc = "idle"]
  /\ scan' = [scan EXCEPT ![p].armed = limit.idle]
  /\ UNCHANGED <<limit, bufferVars, fwd, drawn, hub, client, eventVars>>

\* RingBuffer.Write, its first half: n lines are put into the buffer.
WriteLines(p, n) ==
  LET k == copier[p].written
      chunk == [i \in 1 .. n |-> [by |-> p, no |-> k + i]]
  IN
  /\ copier[p].pc = "idle"
  /\ Len(log) + n <= limit.lines
  /\ ring' = PutAll(ring, chunk)
  /\ log' = log \o chunk
  /\ copier' = [copier EXCEPT ![p] = [@ EXCEPT !.pc = "written", !.written = k + n,
                                               !.chunk = chunk]]
  /\ UNCHANGED <<limit, listeners, procs, scan, fwd, drawn, hub, client, eventVars>>

\* Its second half: the subscribers are copied, then called line by line: chunk are
\* the lines still to be told, left those who have yet to be told the first of them.
CopySubscribers(p) ==
  LET k == copier[p]
      subs == Only(listeners, Subs)
  IN
  /\ k.pc = "written"
  /\ copier' = [copier EXCEPT ![p] =
       [k EXCEPT !.pc = "calling", !.subs = subs, !.left = subs,
                 !.chunk = IF subs = <<>> THEN <<>> ELSE k.chunk]]
  /\ UNCHANGED <<limit, bufferVars, procs, scan, fwd, drawn, hub, client, eventVars>>

\* The callback of a subscription: a line that does not fit is dropped.
CallSubscriber(p) ==
  LET k == copier[p]
      f == Head(k.left)
      a == fwd[f]
  IN
  /\ k.pc = "calling" /\ k.chunk # <<>>
  /\ copier' = [copier EXCEPT ![p] =
       IF Len(k.left) = 1 THEN [k EXCEPT !.chunk = Tail(k.chunk), !.left = k.subs]
                          ELSE [k EXCEPT !.left = Tail(k.left)]]
  /\ fwd' = [fwd EXCEPT ![f] = IF Len(a.chan) < ChanSize
                                 THEN [a EXCEPT !.chan = Append(a.chan, Head(k.chunk))]
                                 ELSE [a EXCEPT !.lossy = TRUE]]
  /\ UNCHANGED <<limit, bufferVars, procs, scan, drawn, hub, client, eventVars>>

\* eventScanner.Write after the buffer's: the idle state and timer are reset.
ScanOutput(p) ==
  /\ copier[p].pc = "calling" /\ copier[p].chunk = <<>>
  /\ copier' = [copier EXCEPT ![p] = [@ EXCEPT !.pc = "idle", !.subs = <<>>, !.left = <<>>]]
  /\ scan' = [scan EXCEPT ![p] =
       [@ EXCEPT !.fired = FALSE, !.told = 0, !.armed = limit.idle]]
  /\ UNCHANGED <<limit, bufferVars, procs, fwd, drawn, hub, client, eventVars>>

\* broadcast, its first half: the clients are copied.
Cast == IF emitted = limit.events THEN UNCHANGED eventVars
        ELSE /\ emitted' = emitted + 1
             /\ cast' = [cast EXCEPT ![emitted + 1] = [to |-> hub, left |-> hub]]

\* time.AfterFunc: the timer runs out and starts onIdle.
IdleTimer(p) ==
  /\ scan[p].armed
  /\ scan' = [scan EXCEPT ![p].armed = FALSE, ![p].ringing = TRUE]
  /\ UNCHANGED <<limit, bufferVars, procs, copier, fwd, drawn, hub, client, eventVars>>

\* onIdle: told once for each period without output, unless stopped.
MayTell(s)      == ~s.fired /\ ~s.stopped
OnIdle(p) ==
  LET s == scan[p] IN
  /\ s.ringing
  /\ scan' = [scan EXCEPT ![p] =
       [s EXCEPT !.ringing = FALSE, !.fired = TRUE,
                 !.told = IF MayTell(s) THEN s.told + 1 ELSE s.told]]
  /\ IF MayTell(s) THEN Cast ELSE UNCHANGED eventVars
  /\ UNCHANGED <<limit, bufferVars, procs, copier, fwd, drawn, hub, client>>

\* monitor: Wait returns when the output has been copied, and the session's
\* scanner is stopped, which is the one of the process started last.
ProcessEnds(p) ==
  /\ copier[p].pc = "idle"
  /\ copier' = [copier EXCEPT ![p].pc = "ended"]
  /\ scan' = [scan EXCEPT ![procs].stopped = TRUE, ![procs].armed = FALSE]
  /\ UNCHANGED <<limit, bufferVars, procs, fwd, drawn, hub, client, eventVars>>

-----------------------------------------------------------------------------
(* Clients.                                                                *)

\* A message for a client whose channel is full is dropped.
SentAnyway(c, msg) == [client EXCEPT ![c].send = Append(@, msg)]
Sent(c, msg) ==
  IF Len(client[c].send) < SendSize
    THEN [client EXCEPT ![c].send = Append(@, msg)]
    ELSE [client EXCEPT ![c].lossy = TRUE]

\* Lines that are in the buffer and whose subscribers have not been copied.
Untold(p) == IF copier[p].pc = "written" THEN ToSet(copier[p].chunk) ELSE {}

\* handleWS and addClient.
HandleWS(c) ==
  /\ c \in limit.clients /\ client[c].pc = "none"
  /\ client' = [client EXCEPT ![c].pc = "open"]
  /\ hub' = hub \cup {c}
  /\ UNCHANGED <<limit, bufferVars, procVars, fwd, drawn, eventVars>>

\* wsReader reads a subscribe; subscribeClientToSession takes its snapshot.
Subscribe(c) ==
  LET f == drawn + 1 IN
  /\ client[c].pc = "open" /\ client[c].busy = 0 /\ drawn < limit.subs /\ procs > 0
  /\ drawn' = f
  /\ client' = [client EXCEPT ![c].subscribed = TRUE, ![c].busy = f]
  /\ fwd' = [fwd EXCEPT ![f] =
       [@ EXCEPT !.pc = "snapshot", !.client = c, !.rest = Lines(ring, Backlog),
                 !.doubled = UNION {Untold(p) : p \in Procs}]]
  /\ UNCHANGED <<limit, bufferVars, procVars, hub, eventVars>>

\* SubscribeLogs.
SubscribeLogs(f) ==
  /\ fwd[f].pc = "snapshot"
  /\ listeners' = Append(listeners, f)
  /\ fwd' = [fwd EXCEPT ![f].pc = "backfill", ![f].slot = Len(listeners) + 1,
                        ![f].since = Len(log)]
  /\ UNCHANGED <<limit, log, ring, procVars, drawn, hub, client, eventVars>>

\* The snapshot is sent line by line, then the forwarder is started.
Backfill(f) ==
  LET c == fwd[f].client IN
  /\ fwd[f].pc = "backfill"
  /\ IF fwd[f].rest # <<>>
       THEN /\ client' = Sent(c, LineOf(f, Head(fwd[f].rest)))
            /\ fwd' = [fwd EXCEPT ![f].rest = Tail(@)]
       ELSE /\ client' = [client EXCEPT ![c].busy = 0]
            /\ fwd' = [fwd EXCEPT ![f].pc = "live"]
  /\ UNCHANGED <<limit, bufferVars, procVars, drawn, hub, eventVars>>

\* The forwarder of a client that has unsubscribed notices it with a line.
Forward(f) ==
  LET c == fwd[f].client IN
  /\ fwd[f].pc = "live" /\ fwd[f].chan # <<>>
  /\ IF client[c].subscribed
       THEN /\ client' = Sent(c, LineOf(f, Head(fwd[f].chan)))
            /\ fwd' = [fwd EXCEPT ![f].chan = Tail(@)]
            /\ UNCHANGED listeners
       ELSE /\ listeners' = Unsubscribed(fwd[f].slot)
            /\ fwd' = [fwd EXCEPT ![f].pc = "ended", ![f].chan = <<>>]
            /\ UNCHANGED client
  /\ UNCHANGED <<limit, log, ring, procVars, drawn, hub, eventVars>>

\* The forwarder of a connection that is being closed.
ForwardDone(f) ==
  /\ fwd[f].pc = "live" /\ client[fwd[f].client].pc \in {"closing", "gone"}
  /\ listeners' = Unsubscribed(fwd[f].slot)
  /\ fwd' = [fwd EXCEPT ![f].pc = "ended", ![f].chan = <<>>]
  /\ UNCHANGED <<limit, log, ring, procVars, drawn, hub, client, eventVars>>

\* wsReader reads an unsubscribe.
Unsubscribe(c) ==
  /\ client[c].pc = "open" /\ client[c].busy = 0 /\ client[c].subscribed
  /\ client' = [client EXCEPT ![c].subscribed = FALSE]
  /\ UNCHANGED <<limit, bufferVars, procVars, fwd, drawn, hub, eventVars>>

\* wsWriter.
WsWriter(c) ==
  /\ client[c].pc = "open" /\ client[c].send # <<>>
  /\ client' = [client EXCEPT ![c].got = Append(@, Head(client[c].send)),
                              ![c].send = Tail(@)]
  /\ UNCHANGED <<limit, bufferVars, procVars, fwd, drawn, hub, eventVars>>

\* The client leaves, a write fails or the hub is stopped: the context is done.
Disconnect(c) ==
  /\ client[c].pc = "open"
  /\ client' = [client EXCEPT ![c].pc = "closing"]
  /\ UNCHANGED <<limit, bufferVars, procVars, fwd, drawn, hub, eventVars>>

\* wsReader returns, once it has dealt with its last message: removeClient.
RemoveClient(c) ==
  /\ client[c].pc = "closing" /\ client[c].busy = 0
  /\ client' = [client EXCEPT ![c].pc = "gone"]
  /\ hub' = hub \ {c}
  /\ UNCHANGED <<limit, bufferVars, procVars, fwd, drawn, eventVars>>

\* handleChatEvent and the notifications of the runtime.
HandleChatEvent ==
  /\ emitted < limit.events /\ Cast
  /\ UNCHANGED <<limit, bufferVars, procVars, fwd, drawn, hub, client>>

\* broadcast, its second half, client by client.
Broadcast(e, c) ==
  /\ c \in cast[e].left
  /\ cast' = [cast EXCEPT ![e].left = @ \ {c}]
  /\ client' = Sent(c, EventMsg(e))
  /\ UNCHANGED <<limit, bufferVars, procVars, fwd, drawn, hub, emitted>>

-----------------------------------------------------------------------------
Init ==
  /\ limit \in Limits
  /\ log = <<>>
  /\ ring = [slots |-> [i \in 0 .. Size - 1 |-> NoLine], pos |-> 0, full |-> FALSE]
  /\ listeners = <<>>
  /\ procs = 0
  /\ copier = [p \in Procs |-> NoCopier]
  /\ scan = [p \in Procs |-> NoScanner]
  /\ fwd = [f \in Subs |-> NoForward]
  /\ drawn = 0
  /\ hub = {}
  /\ client = [c \in Clients |-> NoClient]
  /\ emitted = 0
  /\ cast = [e \in Events |-> NoCast]

CopierStep(p) == CopySubscribers(p) \/ CallSubscriber(p) \/ ScanOutput(p)
IdleStep(p)   == IdleTimer(p) \/ OnIdle(p)
ReaderStep(f) == SubscribeLogs(f) \/ Backfill(f)

Next ==
  \/ StartProcess
  \/ \E p \in Procs : \/ \E n \in 0 .. limit.lines : WriteLines(p, n)
                      \/ CopierStep(p) \/ IdleStep(p) \/ ProcessEnds(p)
  \/ \E f \in Subs : ReaderStep(f) \/ Forward(f) \/ ForwardDone(f)
  \/ \E c \in Clients : \/ HandleWS(c) \/ Subscribe(c) \/ Unsubscribe(c)
                        \/ WsWriter(c) \/ Disconnect(c) \/ RemoveClient(c)
                        \/ \E e \in Events : Broadcast(e, c)
  \/ HandleChatEvent

Spec == Init /\ [][Next]_vars

\* Goroutines are scheduled and timers run out.  Processes need not write or
\* end, clients need not ask for anything or leave.
Fairness ==
  /\ \A p \in Procs : WF_vars(CopierStep(p)) /\ WF_vars(IdleStep(p))
  /\ \A f \in Subs : WF_vars(ReaderStep(f)) /\ WF_vars(ForwardDone(f))
  /\ \A c \in Clients : WF_vars(RemoveClient(c))

FairSpec == Spec /\ Fairness

-----------------------------------------------------------------------------
Line    == [by : Procs, no : Nat \ {0}]
Message == [sub : {0} \cup Subs, line : Line \cup {NoLine}, event : {0} \cup Events]

(* Every variable has its type, and no channel holds more than its capacity. *)
TypeOK ==
  /\ limit \in Limits
  /\ log \in Seq(Line)
  /\ ring \in [slots : [0 .. Size - 1 -> Line \cup {NoLine}], pos : 0 .. Size - 1,
               full : BOOLEAN]
  /\ listeners \in Seq({0} \cup Subs)
  /\ procs \in 0 .. MaxProcs /\ drawn \in 0 .. MaxSubs /\ emitted \in 0 .. MaxEvents
  /\ \A p \in Procs :
       /\ copier[p].pc \in {"none", "idle", "written", "calling", "ended"}
       /\ copier[p].written \in Nat /\ copier[p].chunk \in Seq(Line)
       /\ copier[p].subs \in Seq(Subs) /\ copier[p].left \in Seq(Subs)
       /\ scan[p] \in [armed : BOOLEAN, ringing : BOOLEAN, fired : BOOLEAN,
                       stopped : BOOLEAN, told : Nat]
  /\ \A f \in Subs :
       /\ fwd[f].pc \in {"none", "snapshot", "backfill", "live", "ended"}
       /\ fwd[f].client \in Clients \cup {"none"}
       /\ fwd[f].slot \in 0 .. MaxSubs
       /\ fwd[f].rest \in Seq(Line)
       /\ fwd[f].chan \in Seq(Line) /\ Len(fwd[f].chan) <= ChanSize
  /\ hub \subseteq Clients
  /\ \A c \in Clients :
       /\ client[c].pc \in {"none", "open", "closing", "gone"}
       /\ client[c].busy \in {0} \cup Subs
       /\ client[c].send \in Seq(Message) /\ Len(client[c].send) <= SendSize
       /\ client[c].got \in Seq(Message)
  /\ cast \in [Events -> [to : SUBSET Clients, left : SUBSET Clients]]

-----------------------------------------------------------------------------
LastOf(s, n) == SubSeq(s, IF Len(s) > n THEN Len(s) - n + 1 ELSE 1, Len(s))

\* The lines of subscription f among the messages of a client.
OfSub(f)   == [sub : {f}, line : Line, event : {0}]
Told(q, f) == LET msgs == Only(q, OfSub(f)) IN [i \in 1 .. Len(msgs) |-> msgs[i].line]

\* What the client of subscription f has received of it or is going to.
Queue(c)  == client[c].got \o client[c].send
Stream(f) == Told(Queue(fwd[f].client), f) \o fwd[f].rest \o fwd[f].chan

\* Lines that the copier of p is still going to call it with.
Coming(p, f) ==
  {copier[p].chunk[i] : i \in {j \in DOMAIN copier[p].chunk :
     \/ copier[p].pc = "written"
     \/ f \in ToSet(IF j = 1 THEN copier[p].left ELSE copier[p].subs)}}

(* The logs of a session, read over HTTP or by the bot, are the last lines   *)
(* that were written, however often the buffer has wrapped (Lines,           *)
(* ringbuf.go:76).                                                           *)
LogsAreTheLast == \A n \in 0 .. Size + 1 : Lines(ring, n) = LastOf(log, IF n < Size THEN n ELSE Size)

(* A live subscription gets every line written after it was made, unless a   *)
(* full channel dropped one; the lines of a process arrive in their order,   *)
(* and a line arrives twice only if it was in the buffer when the snapshot   *)
(* was taken and its subscribers had not yet been copied (ws.go:257,         *)
(* ringbuf.go:56).                                                           *)
SubscribersSeeAll ==
  \A f \in Subs :
    fwd[f].pc \in {"backfill", "live"} =>
      LET s == Stream(f) IN
      /\ ~fwd[f].lossy /\ ~client[fwd[f].client].lossy =>
           \A i \in fwd[f].since + 1 .. Len(log) : log[i] \in ToSet(s) \cup UNION {Coming(p, f) : p \in Procs}
      /\ \A i, j \in DOMAIN s :
           i < j /\ s[i].by = s[j].by /\ s[i].no >= s[j].no => s[j] \in fwd[f].doubled

(* An event reaches every client that was connected when it was broadcast,   *)
(* unless its channel was full (broadcast, ws.go:152).                       *)
EventsReachClients ==
  \A e \in 1 .. emitted : \A c \in cast[e].to :
    \/ client[c].lossy \/ c \in cast[e].left
    \/ EventMsg(e) \in ToSet(Queue(c))

(* A silence is told once (onIdle, eventscanner.go:126).                     *)
SilenceIsToldOnce == \A p \in Procs : scan[p].told <= 1

(* The dashboard misses nothing but what full channels drop: the four parts  *)
(* above.                                                                    *)
NothingIsMissed ==
  LogsAreTheLast /\ SubscribersSeeAll /\ EventsReachClients /\ SilenceIsToldOnce

(* A connection that is being closed is forgotten: its forwarders end, and   *)
(* neither the buffer nor the hub keeps it (ws.go:281, 195).  A process that *)
(* stays silent is reported, unless a monitor has stopped its scanner.       *)
StreamsSettle ==
  /\ \A c \in Clients :
       client[c].pc = "closing" ~>
         c \notin hub /\ \A f \in Subs : fwd[f].client = c =>
                           fwd[f].pc = "ended" /\ f \notin ToSet(listeners)
  /\ \A p \in Procs :
       scan[p].armed ~> scan[p].told = 1 \/ scan[p].stopped \/ copier[p].pc # "idle"
===============================================================================
