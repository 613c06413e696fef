------------------------ MODULE ProviderThreads_proofs ------------------------
(***************************************************************************)
(* Proofs about one chat provider: its threads are shared only as stated,  *)
(* conversations go on, observers and callers of a run are told all that   *)
(* the tool has said and done, and images stay.                            *)
(*                                                                         *)
(* Inv is inductive.  Its parts are about sessions, histories, the store,  *)
(* busy sessions, requests, the arguments of runs, first runs, the reader, *)
(* images, and the ledger of a run: parsing the lines that are still in    *)
(* the pipe leads the parser of a reader that keeps up to one that matches *)
(* what the tool has said and done.                                        *)
(***************************************************************************)
EXTENDS ProviderThreads, Selections_proofs

-----------------------------------------------------------------------------
(* Parsers.                                                                *)

Opening   == {"thread", "init", "system"}
Later     == {"huge", "message", "assistant", "result", "delta", "text", "started",
              "completed", "start", "stop", "use", "output"}
LineType  == [k : Opening \cup Later, id : Nat]
EventType == [e : {"delta", "start", "finish"}, n : Nat]
KeyType   == {"id", "anonymous"} \X Nat
ParserType ==
  [thread : Nat, response : Seq(Nat), partial : Seq(Nat), raw : BOOLEAN,
   tools : SUBSET (KeyType \X Nat), next : Nat, anonymous : Nat, queue : Seq(KeyType),
   log : Seq(EventType)]

\* An event in the log leaves the rest of the parser alone.
LEMMA EmitType ==
  ASSUME NEW p \in ParserType, NEW e \in {"delta", "start", "finish"}, NEW n \in Nat
  PROVE  /\ Emit(p, e, n) \in ParserType
         /\ Emit(p, e, n).log = Append(p.log, Event(e, n))
         /\ Emit(p, e, n).thread = p.thread /\ Emit(p, e, n).raw = p.raw
         /\ Emit(p, e, n).response = p.response /\ Emit(p, e, n).partial = p.partial
         /\ Emit(p, e, n).tools = p.tools /\ Emit(p, e, n).next = p.next
         /\ Emit(p, e, n).anonymous = p.anonymous /\ Emit(p, e, n).queue = p.queue
<1>1. Event(e, n) \in EventType
  BY DEF Event, EventType
<1>2. Append(p.log, Event(e, n)) \in Seq(EventType)
  BY <1>1 DEF ParserType
<1> HIDE DEF EventType
<1> QED BY <1>2 DEF Emit, ParserType

\* The index of a tool that the parser knows.
LEMMA IndexType ==
  ASSUME NEW p \in ParserType, NEW k, Known(p, k)
  PROVE  /\ Index(p, k) \in Nat
         /\ <<k, Index(p, k)>> \in p.tools
<1> DEFINE x == CHOOSE t \in p.tools : t[1] = k
<1>1. x \in p.tools /\ x[1] = k
  BY DEF Known
<1>2. x \in KeyType \X Nat
  BY <1>1 DEF ParserType
<1>3. \A y \in KeyType \X Nat : y = <<y[1], y[2]>> /\ y[2] \in Nat
  OBVIOUS
<1>4. Index(p, k) = x[2]
  BY DEF Index
<1> HIDE DEF x
<1> QED BY <1>1, <1>2, <1>3, <1>4

\* Codex.
LEMMA ToolKeyType ==
  ASSUME NEW p \in ParserType, NEW line \in LineType
  PROVE  /\ ToolKey(p, line) \in KeyType
         /\ Queued(p, line) \in ParserType
         /\ Queued(p, line).thread = p.thread /\ Queued(p, line).raw = p.raw
         /\ Queued(p, line).response = p.response /\ Queued(p, line).log = p.log
         /\ Queued(p, line).tools = p.tools /\ Queued(p, line).next = p.next
<1>1. ToolKey(p, line) \in KeyType
  <2>1. \A n \in Nat : Key(n) \in KeyType /\ Unnamed(n) \in KeyType
    BY DEF Key, Unnamed, KeyType
  <2>2. p.anonymous \in Nat /\ line.id \in Nat /\ p.queue \in Seq(KeyType)
    BY DEF ParserType, LineType
  <2>3. p.queue # <<>> => Head(p.queue) \in KeyType
    BY <2>2
  <2> QED BY <2>1, <2>2, <2>3 DEF ToolKey
<1>2. p.queue \in Seq(KeyType) /\ Append(p.queue, ToolKey(p, line)) \in Seq(KeyType)
  BY <1>1 DEF ParserType
<1>3. p.queue # <<>> => Tail(p.queue) \in Seq(KeyType)
  BY <1>2
<1>4. ASSUME NEW a \in Nat, NEW q \in Seq(KeyType)
      PROVE  LET x == [p EXCEPT !.anonymous = a, !.queue = q] IN
             /\ x \in ParserType /\ x.thread = p.thread /\ x.raw = p.raw
             /\ x.response = p.response /\ x.log = p.log /\ x.tools = p.tools
             /\ x.next = p.next
  BY DEF ParserType
<1>5. p.queue # <<>> =>
        [p EXCEPT !.queue = Tail(@)] = [p EXCEPT !.anonymous = p.anonymous, !.queue = Tail(p.queue)]
  BY DEF ParserType
<1>6. p.anonymous \in Nat
  BY DEF ParserType
<1>7. CASE line.id # 0
  BY <1>1, <1>7 DEF Queued
<1>8. CASE line.id = 0 /\ line.k = "completed" /\ p.queue # <<>>
  <2>1. Queued(p, line) = [p EXCEPT !.anonymous = p.anonymous, !.queue = Tail(p.queue)]
    BY <1>5, <1>8 DEF Queued
  <2> QED BY <1>1, <1>3, <1>4, <1>6, <1>8, <2>1
<1>9. CASE line.id = 0 /\ ~(line.k = "completed" /\ p.queue # <<>>)
  <2> DEFINE q == IF line.k = "started" THEN Append(p.queue, ToolKey(p, line)) ELSE p.queue
  <2>1. Queued(p, line) = [p EXCEPT !.anonymous = p.anonymous + 1, !.queue = q]
    BY <1>9 DEF Queued
  <2>2. q \in Seq(KeyType)
    BY <1>2
  <2> HIDE DEF q
  <2>3. p.anonymous + 1 \in Nat
    BY <1>6
  <2> DEFINE a == p.anonymous + 1
  <2> HIDE DEF a
  <2>4. Queued(p, line) = [p EXCEPT !.anonymous = a, !.queue = q] /\ a \in Nat
    BY <2>1, <2>3 DEF a
  <2> DEFINE x == [p EXCEPT !.anonymous = a, !.queue = q]
  <2>5. /\ x \in ParserType /\ x.thread = p.thread /\ x.raw = p.raw
        /\ x.response = p.response /\ x.log = p.log /\ x.tools = p.tools
        /\ x.next = p.next
    BY <1>4, <2>2, <2>4
  <2> HIDE DEF x
  <2>6. Queued(p, line) = x
    BY <2>4 DEF x
  <2> QED BY <1>1, <2>5, <2>6
<1> QED BY <1>7, <1>8, <1>9

\* ensureTool: afterwards the tool is known, and a new one has its start.
LEMMA EnsureToolType ==
  ASSUME NEW p \in ParserType, NEW key \in KeyType
  PROVE  /\ EnsureTool(p, key) \in ParserType /\ Known(EnsureTool(p, key), key)
         /\ EnsureTool(p, key).thread = p.thread /\ EnsureTool(p, key).raw = p.raw
         /\ EnsureTool(p, key).response = p.response
         /\ EnsureTool(p, key).queue = p.queue /\ EnsureTool(p, key).anonymous = p.anonymous
         /\ ~Known(p, key) =>
              /\ EnsureTool(p, key).tools = p.tools \cup {<<key, p.next>>}
              /\ EnsureTool(p, key).next = p.next + 1
              /\ EnsureTool(p, key).log = Append(p.log, Event("start", p.next))
<1> DEFINE q == [p EXCEPT !.tools = @ \cup {<<key, p.next>>}, !.next = @ + 1]
<1>1. /\ q \in ParserType /\ q.tools = p.tools \cup {<<key, p.next>>} /\ q.next = p.next + 1
      /\ q.thread = p.thread /\ q.raw = p.raw /\ q.response = p.response
      /\ q.queue = p.queue /\ q.anonymous = p.anonymous /\ q.log = p.log
  <2>1. /\ p.tools \cup {<<key, p.next>>} \in SUBSET (KeyType \X Nat)
        /\ p.next + 1 \in Nat
    BY DEF ParserType
  <2>2. ASSUME NEW T \in SUBSET (KeyType \X Nat), NEW n \in Nat
        PROVE  LET x == [p EXCEPT !.tools = T, !.next = n] IN
               /\ x \in ParserType /\ x.tools = T /\ x.next = n
               /\ x.thread = p.thread /\ x.raw = p.raw /\ x.response = p.response
               /\ x.queue = p.queue /\ x.anonymous = p.anonymous /\ x.log = p.log
    BY DEF ParserType
  <2> HIDE DEF q
  <2>3. q = [p EXCEPT !.tools = p.tools \cup {<<key, p.next>>}, !.next = p.next + 1]
    BY DEF q
  <2> QED BY <2>1, <2>2, <2>3
<1>2. EnsureTool(p, key) = IF Known(p, key) THEN p ELSE Emit(q, "start", p.next)
  BY DEF EnsureTool
<1> HIDE DEF q
<1>3. p.next \in Nat
  BY DEF ParserType
<1>4. <<key, p.next>>[1] = key
  OBVIOUS
<1>5. CASE Known(p, key)
  BY <1>2, <1>5
<1>6. CASE ~Known(p, key)
  <2>1. EnsureTool(p, key) = Emit(q, "start", p.next)
    BY <1>2, <1>6
  <2>2. <<key, p.next>> \in Emit(q, "start", p.next).tools
    BY <1>1, <1>3, EmitType
  <2>3. Known(EnsureTool(p, key), key)
    BY <1>4, <2>1, <2>2 DEF Known
  <2>4. /\ Emit(q, "start", p.next) \in ParserType
        /\ Emit(q, "start", p.next).log = Append(q.log, Event("start", p.next))
        /\ Emit(q, "start", p.next).thread = q.thread
        /\ Emit(q, "start", p.next).raw = q.raw
        /\ Emit(q, "start", p.next).response = q.response
        /\ Emit(q, "start", p.next).tools = q.tools
        /\ Emit(q, "start", p.next).next = q.next
        /\ Emit(q, "start", p.next).anonymous = q.anonymous
        /\ Emit(q, "start", p.next).queue = q.queue
    BY <1>1, <1>3, EmitType
  <2> QED BY <1>1, <2>1, <2>3, <2>4
<1> QED BY <1>5, <1>6

\* An item keeps the thread and the response.
LEMMA CodexItemType ==
  ASSUME NEW p \in ParserType, NEW line \in LineType
  PROVE  /\ CodexItem(p, line) \in ParserType
         /\ CodexItem(p, line).thread = p.thread /\ CodexItem(p, line).raw = p.raw
         /\ CodexItem(p, line).response = p.response
<1> DEFINE key == ToolKey(p, line)
           u == Queued(p, line)
           q == EnsureTool(u, key)
<1>1. key \in KeyType /\ u \in ParserType /\ u.thread = p.thread /\ u.raw = p.raw
      /\ u.response = p.response
  BY ToolKeyType
<1>2. /\ q \in ParserType /\ Known(q, key)
      /\ q.thread = p.thread /\ q.raw = p.raw /\ q.response = p.response
  <2> HIDE DEF key, u
  <2>1. /\ q \in ParserType /\ Known(q, key)
        /\ q.thread = u.thread /\ q.raw = u.raw /\ q.response = u.response
    BY <1>1, EnsureToolType
  <2> HIDE DEF q
  <2> QED BY <1>1, <2>1
<1>3. CodexItem(p, line) = IF line.k = "completed" THEN Emit(q, "finish", Index(q, key)) ELSE q
  BY DEF CodexItem
<1> HIDE DEF key, u, q
<1>4. Index(q, key) \in Nat
  BY <1>2, IndexType
<1> DEFINE f == Emit(q, "finish", Index(q, key))
<1>5. f \in ParserType /\ f.thread = q.thread /\ f.raw = q.raw /\ f.response = q.response
  BY <1>2, <1>4, EmitType
<1> HIDE DEF f
<1>6. CodexItem(p, line) = f \/ CodexItem(p, line) = q
  BY <1>3 DEF f
<1> QED BY <1>2, <1>5, <1>6

\* What a parser makes of a line is a parser, with the thread the line announces.
Announces(knd, line) == (knd = "codex" /\ line.k = "thread") \/ (knd = "gemini" /\ line.k = "init")

\* Of the lines of Codex, one sets the thread.
LEMMA CodexLineType ==
  ASSUME NEW p \in ParserType, NEW line \in LineType
  PROVE  /\ CodexLine(p, line) \in ParserType
         /\ CodexLine(p, line).thread = IF line.k = "thread" THEN line.id ELSE p.thread
         /\ CodexLine(p, line).raw = p.raw
<1>1. line.id \in Nat
  BY DEF LineType
<1>2. CASE line.k = "thread"
  BY <1>1, <1>2 DEF CodexLine, ParserType
<1>3. CASE line.k = "message"
  <2> DEFINE u == [p EXCEPT !.response = Joined(p, line.id)]
             x == Emit(u, "delta", line.id)
  <2>1. Joined(p, line.id) \in Seq(Nat)
    BY <1>1 DEF Joined, ParserType
  <2>2. u \in ParserType /\ u.thread = p.thread /\ u.raw = p.raw
    BY <2>1 DEF ParserType
  <2>3. CodexLine(p, line) = x
    BY <1>3 DEF CodexLine
  <2> HIDE DEF u
  <2>4. x \in ParserType /\ x.thread = u.thread /\ x.raw = u.raw
    BY <1>1, <2>2, EmitType
  <2> HIDE DEF x
  <2> QED BY <1>3, <2>2, <2>3, <2>4
<1>4. CASE line.k \notin {"thread", "message"}
  BY <1>4, CodexItemType DEF CodexLine
<1> QED BY <1>2, <1>3, <1>4

\* Of those of Claude, none.
LEMMA ClaudeLineType ==
  ASSUME NEW p \in ParserType, NEW line \in LineType
  PROVE  /\ ClaudeLine(p, line) \in ParserType
         /\ ClaudeLine(p, line).thread = p.thread
         /\ ClaudeLine(p, line).raw = p.raw
<1> DEFINE key == Key(line.id)
<1>1. line.id \in Nat /\ key \in KeyType
  BY DEF LineType, Key, KeyType
<1>2. ASSUME NEW a \in Seq(Nat), NEW T \in SUBSET (KeyType \X Nat), NEW e \in {"delta", "start", "finish"}
      PROVE  LET u == Emit([p EXCEPT !.partial = a], e, line.id)
                 v == Emit([p EXCEPT !.tools = T], e, line.id)
                 w == [p EXCEPT !.response = a]
             IN /\ u \in ParserType /\ u.thread = p.thread /\ u.raw = p.raw
                /\ v \in ParserType /\ v.thread = p.thread /\ v.raw = p.raw
                /\ w \in ParserType /\ w.thread = p.thread /\ w.raw = p.raw
  <2> DEFINE u1 == [p EXCEPT !.partial = a]
             v1 == [p EXCEPT !.tools = T]
             w == [p EXCEPT !.response = a]
  <2>1. /\ u1 \in ParserType /\ u1.thread = p.thread /\ u1.raw = p.raw
        /\ v1 \in ParserType /\ v1.thread = p.thread /\ v1.raw = p.raw
        /\ w \in ParserType /\ w.thread = p.thread /\ w.raw = p.raw
    BY DEF ParserType
  <2> HIDE DEF u1, v1, w
  <2>2. /\ Emit(u1, e, line.id) \in ParserType /\ Emit(u1, e, line.id).thread = u1.thread
        /\ Emit(u1, e, line.id).raw = u1.raw
        /\ Emit(v1, e, line.id) \in ParserType /\ Emit(v1, e, line.id).thread = v1.thread
        /\ Emit(v1, e, line.id).raw = v1.raw
    BY <1>1, <2>1, EmitType
  <2> QED BY <2>1, <2>2 DEF u1, v1, w
<1>3. /\ Append(p.partial, line.id) \in Seq(Nat) /\ <<line.id>> \in Seq(Nat)
      /\ p.tools \cup {<<key, line.id>>} \in SUBSET (KeyType \X Nat)
      /\ p.tools \ {<<key, line.id>>} \in SUBSET (KeyType \X Nat)
  BY <1>1 DEF ParserType
<1>4. CASE line.k = "text"
  BY <1>2, <1>3, <1>4 DEF ClaudeLine
<1>5. CASE line.k = "start"
  BY <1>2, <1>3, <1>5 DEF ClaudeLine
<1>6. CASE line.k = "stop"
  BY <1>2, <1>3, <1>6 DEF ClaudeLine
<1>7. CASE line.k \in {"assistant", "result"}
  BY <1>2, <1>3, <1>7 DEF ClaudeLine
<1>8. CASE line.k \notin {"text", "start", "stop", "assistant", "result"}
  BY <1>8 DEF ClaudeLine
<1> QED BY <1>4, <1>5, <1>6, <1>7, <1>8

\* Of those of Gemini, one.
LEMMA GeminiLineType ==
  ASSUME NEW p \in ParserType, NEW line \in LineType
  PROVE  /\ GeminiLine(p, line) \in ParserType
         /\ GeminiLine(p, line).thread = IF line.k = "init" THEN line.id ELSE p.thread
         /\ GeminiLine(p, line).raw = p.raw
<1> DEFINE key   == Key(line.id)
           say   == Emit([p EXCEPT !.partial = Append(@, line.id)], "delta", line.id)
           other == {t \in p.tools : t[1] # key}
           use   == Emit([p EXCEPT !.tools = other \cup {<<key, p.next>>}, !.next = @ + 1],
                         "start", p.next)
           out   == Emit([p EXCEPT !.tools = other], "finish", Index(p, key))
<1>1. line.id \in Nat /\ key \in KeyType /\ p.next \in Nat /\ p.next + 1 \in Nat
  BY DEF LineType, Key, KeyType, ParserType
<1>2. say \in ParserType /\ say.thread = p.thread /\ say.raw = p.raw
  <2> DEFINE u == [p EXCEPT !.partial = Append(@, line.id)]
  <2>0. Append(p.partial, line.id) \in Seq(Nat)
    BY <1>1 DEF ParserType
  <2>1. u \in ParserType /\ u.thread = p.thread /\ u.raw = p.raw
    BY <2>0 DEF ParserType
  <2> HIDE DEF u
  <2>2. /\ Emit(u, "delta", line.id) \in ParserType
        /\ Emit(u, "delta", line.id).thread = u.thread
        /\ Emit(u, "delta", line.id).raw = u.raw
    BY <1>1, <2>1, EmitType
  <2> QED BY <2>1, <2>2 DEF u
<1>3. use \in ParserType /\ use.thread = p.thread /\ use.raw = p.raw
  <2> DEFINE tools == other \cup {<<key, p.next>>}
             u == [p EXCEPT !.tools = tools, !.next = @ + 1]
  <2>1. tools \in SUBSET (KeyType \X Nat)
    BY <1>1 DEF ParserType
  <2> HIDE DEF tools
  <2>2. u \in ParserType /\ u.thread = p.thread /\ u.raw = p.raw
    BY <1>1, <2>1 DEF ParserType
  <2> HIDE DEF u
  <2>3. /\ Emit(u, "start", p.next) \in ParserType
        /\ Emit(u, "start", p.next).thread = u.thread
        /\ Emit(u, "start", p.next).raw = u.raw
    BY <1>1, <2>2, EmitType
  <2> QED BY <2>2, <2>3 DEF u, tools
<1>4. ASSUME Known(p, key)
      PROVE  out \in ParserType /\ out.thread = p.thread /\ out.raw = p.raw
  <2> DEFINE u == [p EXCEPT !.tools = other]
             n == Index(p, key)
  <2>1. other \in SUBSET (KeyType \X Nat)
    BY DEF ParserType
  <2> HIDE DEF other
  <2>2. u \in ParserType /\ u.thread = p.thread /\ u.raw = p.raw
    BY <2>1 DEF ParserType
  <2>3. n \in Nat
    BY <1>4, IndexType
  <2> HIDE DEF u, n
  <2>4. /\ Emit(u, "finish", n) \in ParserType
        /\ Emit(u, "finish", n).thread = u.thread
        /\ Emit(u, "finish", n).raw = u.raw
    BY <2>2, <2>3, EmitType
  <2> QED BY <2>2, <2>4 DEF u, n
<1>5. GeminiLine(p, line) =
        CASE line.k = "init"    -> [p EXCEPT !.thread = line.id]
          [] line.k = "delta"   -> say
          [] line.k = "message" -> IF p.partial = <<>> THEN say ELSE p
          [] line.k = "use"     -> use
          [] line.k = "output"  -> IF Known(p, key) THEN out ELSE p
          [] OTHER              -> p
  BY DEF GeminiLine
<1> HIDE DEF key, say, use, out
<1>6. CASE line.k = "init"
  BY <1>1, <1>5, <1>6 DEF ParserType
<1>7. CASE line.k \in {"delta", "message"}
  BY <1>2, <1>5, <1>7
<1>8. CASE line.k \in {"use", "output"}
  BY <1>3, <1>4, <1>5, <1>8
<1>9. CASE line.k \notin {"init", "delta", "message", "use", "output"}
  BY <1>5, <1>9
<1> QED BY <1>6, <1>7, <1>8, <1>9

\* A line that is read leaves a parser with raw output, and a thread if it announces one.
LEMMA ParseType ==
  ASSUME NEW p \in ParserType, NEW line \in LineType,
         NEW knd \in {"codex", "claude", "gemini"}
  PROVE  /\ Parse(knd, p, line) \in ParserType
         /\ Parse(knd, p, line).raw
         /\ Parse(knd, p, line).thread = IF Announces(knd, line) THEN line.id ELSE p.thread
<1> DEFINE q == [p EXCEPT !.raw = TRUE]
<1>1. q \in ParserType /\ q.raw /\ q.thread = p.thread
  BY DEF ParserType
<1>2. Parse(knd, p, line) = CASE knd = "codex"  -> CodexLine(q, line)
                              [] knd = "claude" -> ClaudeLine(q, line)
                              [] knd = "gemini" -> GeminiLine(q, line)
  BY DEF Parse
<1> HIDE DEF q
<1>3. CASE knd = "codex"
  BY <1>1, <1>2, <1>3, CodexLineType DEF Announces
<1>4. CASE knd = "claude"
  BY <1>1, <1>2, <1>4, ClaudeLineType DEF Announces
<1>5. CASE knd = "gemini"
  BY <1>1, <1>2, <1>5, GeminiLineType DEF Announces
<1> QED BY <1>3, <1>4, <1>5

-----------------------------------------------------------------------------
(* Types.                                                                  *)

SomeThread == Threads \cup {NoThread}
EntryType  == [by : Requests, is : {"user", "bash", "reply", "output"}]
SessionType ==
  [live : BOOLEAN, thread : SomeThread, ready : BOOLEAN, busy : BOOLEAN, hist : Seq(EntryType),
   early : BOOLEAN, answered : SomeThread, cut : BOOLEAN]
PcType == {"idle", "running", "returned", "completed", "answered", "refused"}
ProcType == {"none", "running", "exited", "failed"}
ReaderType == {"none", "reading", "draining", "stopped"}
RequestType ==
  [pc : PcType, on : Nat, op : {"none", "text", "bash"}, img : BOOLEAN,
   mode : {"none", "new", "resume"}, asked : SomeThread, works : SomeThread,
   proc : ProcType, more : BOOLEAN, held : BOOLEAN,
   pipe : Seq(LineType), reader : ReaderType,
   got : ParserType, said : Nat, begun : Nat, ended : Nat, open : SUBSET Nat,
   unnamed : Nat, due : BOOLEAN, lost : BOOLEAN, good : BOOLEAN]

Active(r) == req[r].pc \in {"running", "returned"}

TypeInv ==
  /\ kind \in Kinds /\ limit \in Limits
  /\ drawn \in 0 .. limit.sessions /\ made \in 0 .. MaxThreads
  /\ calls \in 0 .. limit.requests /\ promised \in 0 .. limit.lines
  /\ sess \in [Sessions -> SessionType]
  /\ store \in SUBSET Threads
  /\ req \in [Requests -> RequestType]
  /\ files \in SUBSET Requests
  /\ adopting \in [Adopters -> SomeThread]
  /\ cleaned \in SUBSET Sessions

\* The bounds of a behaviour are within those of the module.
LEMMA LimitsFacts ==
  ASSUME TypeInv
  PROVE  /\ kind \in {"codex", "claude", "gemini"}
         /\ limit.sessions \in 0 .. MaxSessions /\ limit.requests \in 0 .. MaxRequests
         /\ limit.lines \in Nat /\ MaxSessions \in Nat /\ MaxThreads \in Nat
         /\ MaxRequests \in Nat /\ PipeSize \in Nat \ {0} /\ MaxMessages \in Nat \ {0}
         /\ drawn \in 0 .. MaxSessions /\ calls \in 0 .. MaxRequests
         /\ Sessions \subseteq Threads /\ Sessions \subseteq Nat /\ Threads \subseteq Nat
BY ProviderAssumption DEF TypeInv, Sessions, Threads

\* Records that the module starts from.
LEMMA BlankTypes ==
  ASSUME MaxSessions \in Nat, MaxThreads \in Nat
  PROVE  /\ NewParser \in ParserType /\ ~NewParser.raw /\ NewParser.thread = NoThread
         /\ Idle \in RequestType /\ Absent \in SessionType
         /\ \A t \in SomeThread, ready, early \in BOOLEAN :
              Fresh(t, ready, early) \in SessionType
<1>1. /\ {} \in SUBSET (KeyType \X Nat) /\ <<>> \in Seq(Nat) /\ <<>> \in Seq(KeyType)
      /\ <<>> \in Seq(EventType) /\ <<>> \in Seq(LineType) /\ <<>> \in Seq(EntryType)
      /\ {} \in SUBSET Nat
  OBVIOUS
<1>2. NewParser \in ParserType /\ ~NewParser.raw /\ NewParser.thread = NoThread
  BY <1>1 DEF NewParser, ParserType, NoThread
<1>3. NoThread \in SomeThread
  BY DEF SomeThread
<1>4. Idle \in RequestType
  BY <1>1, <1>2, <1>3 DEF Idle, RequestType, PcType, ProcType, ReaderType
<1>5. Absent \in SessionType
  BY <1>1, <1>3 DEF Absent, SessionType
<1>6. ASSUME NEW t \in SomeThread, NEW ready \in BOOLEAN, NEW early \in BOOLEAN
      PROVE  Fresh(t, ready, early) \in SessionType
  BY <1>1, <1>3 DEF Fresh, Absent, SessionType
<1> QED BY <1>2, <1>4, <1>5, <1>6

\* AppendMessageWithLimit: the new message is the last one, the others are messages
\* of before, and all of them stay until the limit is reached.
LEMMA AppendedFacts ==
  ASSUME NEW q \in Seq(EntryType), Len(q) <= MaxMessages, NEW m \in EntryType,
         MaxMessages \in Nat \ {0}
  PROVE  /\ Appended(q, m) \in Seq(EntryType) /\ Len(Appended(q, m)) <= MaxMessages
         /\ \A i \in DOMAIN Appended(q, m) :
              Appended(q, m)[i] = m \/ \E j \in DOMAIN q : q[j] = Appended(q, m)[i]
         /\ \E i \in DOMAIN Appended(q, m) : Appended(q, m)[i] = m
         /\ ~Cuts(q) => \A j \in DOMAIN q : \E i \in DOMAIN Appended(q, m) : Appended(q, m)[i] = q[j]
<1> DEFINE all == Append(q, m)
           n == Len(all)
           cut == SubSeq(all, n - MaxMessages + 1, n)
<1>1. /\ all \in Seq(EntryType) /\ n = Len(q) + 1 /\ Len(q) \in Nat /\ all[n] = m
      /\ \A j \in 1 .. Len(q) : all[j] = q[j]
      /\ DOMAIN all = 1 .. n /\ DOMAIN q = 1 .. Len(q)
  OBVIOUS
<1> HIDE DEF all, n
<1>2. CASE n > MaxMessages
  <2>1. Appended(q, m) = cut
    BY <1>2 DEF Appended, all, n
  <2>2. Len(q) = MaxMessages /\ n - MaxMessages + 1 = 2 /\ n = MaxMessages + 1
    <3> HIDE DEF cut
    <3>1. n = Len(q) + 1 /\ Len(q) \in Nat
      BY <1>1
    <3>2. Len(q) <= MaxMessages /\ n > MaxMessages /\ MaxMessages \in Nat
      BY <1>2
    <3> QED BY <3>1, <3>2
  <2>3. /\ cut \in Seq(EntryType) /\ Len(cut) = MaxMessages
        /\ \A i \in 1 .. MaxMessages : cut[i] = all[i + 1]
    BY <1>1, <2>2 DEF n
  <2>4. DOMAIN cut = 1 .. MaxMessages /\ cut[MaxMessages] = m
    <3>1. all[MaxMessages + 1] = m /\ MaxMessages \in 1 .. MaxMessages
      BY <1>1, <2>2
    <3> HIDE DEF cut
    <3>2. cut[MaxMessages] = all[MaxMessages + 1]
      BY <2>3, <3>1
    <3>3. DOMAIN cut = 1 .. MaxMessages
      BY <2>3
    <3> QED BY <3>1, <3>2, <3>3
  <2>5. Cuts(q)
    BY <2>2 DEF Cuts
  <2> HIDE DEF cut
  <2>6. ASSUME NEW i \in 1 .. MaxMessages
        PROVE  cut[i] = m \/ \E j \in DOMAIN q : q[j] = cut[i]
    <3>1. CASE i = MaxMessages
      BY <2>4, <3>1
    <3>2. CASE i < MaxMessages
      <4>1. cut[i] = q[i + 1] /\ i + 1 \in 1 .. Len(q)
        BY <1>1, <2>2, <2>3, <3>2
      <4> QED BY <1>1, <4>1
    <3> QED BY <3>1, <3>2
  <2> QED BY <2>1, <2>3, <2>4, <2>5, <2>6
<1>3. CASE n <= MaxMessages
  <2>1. Appended(q, m) = all
    BY <1>1, <1>3 DEF Appended, all, n
  <2>2. ~Cuts(q)
    BY <1>1, <1>3 DEF Cuts
  <2> QED BY <1>1, <1>3, <2>1, <2>2 DEF n
<1> QED BY <1>1, <1>2, <1>3

-----------------------------------------------------------------------------
(* What the tool writes.                                                   *)

Tally(q, said, begun, ended, open, unnamed, due) ==
  [q EXCEPT !.said = said, !.begun = begun, !.ended = ended, !.open = open,
            !.unnamed = unnamed, !.due = due]

\* A record with other tallies keeps the rest.
LEMMA TallyType ==
  ASSUME NEW q \in RequestType, NEW said \in Nat, NEW begun \in Nat, NEW ended \in Nat,
         NEW open \in SUBSET Nat, NEW unnamed \in Nat, NEW due \in BOOLEAN
  PROVE  LET w == Tally(q, said, begun, ended, open, unnamed, due) IN
         /\ w \in RequestType /\ w.pc = q.pc /\ w.on = q.on /\ w.op = q.op /\ w.img = q.img
         /\ w.mode = q.mode /\ w.asked = q.asked /\ w.works = q.works /\ w.proc = q.proc
         /\ w.more = q.more /\ w.held = q.held /\ w.pipe = q.pipe /\ w.reader = q.reader
         /\ w.got = q.got /\ w.lost = q.lost /\ w.good = q.good
         /\ w.said = said /\ w.begun = begun /\ w.ended = ended /\ w.open = open
         /\ w.unnamed = unnamed /\ w.due = due
BY DEF Tally, RequestType

\* A line of the tool's and what it then has said and done.
IsWrite(q, w) ==
  /\ w[1] \in LineType /\ w[1].k \in Later
  /\ \E said, begun, ended, unnamed \in Nat, open \in SUBSET Nat, due \in BOOLEAN :
       w[2] = Tally(q, said, begun, ended, open, unnamed, due)

\* What the tool's lines do to the tallies.
TallyForms(q) ==
  /\ q = Tally(q, q.said, q.begun, q.ended, q.open, q.unnamed, q.due)
  /\ [q EXCEPT !.said = @ + 1] =
       Tally(q, q.said + 1, q.begun, q.ended, q.open, q.unnamed, q.due)
  /\ [q EXCEPT !.said = @ + 1, !.due = TRUE] =
       Tally(q, q.said + 1, q.begun, q.ended, q.open, q.unnamed, TRUE)
  /\ [q EXCEPT !.due = FALSE] =
       Tally(q, q.said, q.begun, q.ended, q.open, q.unnamed, FALSE)
  /\ [q EXCEPT !.begun = @ + 1, !.open = @ \cup {q.begun + 1}] =
       Tally(q, q.said, q.begun + 1, q.ended, q.open \cup {q.begun + 1}, q.unnamed, q.due)
  /\ [q EXCEPT !.begun = @ + 1, !.unnamed = @ + 1] =
       Tally(q, q.said, q.begun + 1, q.ended, q.open, q.unnamed + 1, q.due)
  /\ [q EXCEPT !.ended = @ + 1, !.unnamed = @ - 1] =
       Tally(q, q.said, q.begun, q.ended + 1, q.open, q.unnamed - 1, q.due)
  /\ [q EXCEPT !.begun = @ + 1, !.ended = @ + 1] =
       Tally(q, q.said, q.begun + 1, q.ended + 1, q.open, q.unnamed, q.due)
  /\ \A x : [q EXCEPT !.ended = @ + 1, !.open = @ \ {x}] =
              Tally(q, q.said, q.begun, q.ended + 1, q.open \ {x}, q.unnamed, q.due)

\* All updates in Writes are of the form of Tally.
LEMMA TallyFormsHold ==
  ASSUME NEW q \in RequestType
  PROVE  TallyForms(q)
BY DEF TallyForms, Tally, RequestType

\* Whatever a tool writes is a later line with new tallies.
LEMMA WritesFacts ==
  ASSUME NEW q \in RequestType, NEW w \in Writes(q), kind \in {"codex", "claude", "gemini"}
  PROVE  IsWrite(q, w)
<1>1. /\ q.said \in Nat /\ q.begun \in Nat /\ q.ended \in Nat /\ q.unnamed \in Nat
      /\ q.open \in SUBSET Nat /\ q.due \in BOOLEAN
  BY DEF RequestType
<1>2. \A k \in Later, n \in Nat : Line(k, n) \in LineType /\ Line(k, n).k = k
  BY DEF Line, LineType
<1>3. TallyForms(q)
  BY TallyFormsHold
<1>a. ASSUME NEW k \in Later, NEW n \in Nat, NEW said \in Nat,
             NEW begun \in Nat, NEW ended \in Nat, NEW unnamed \in Nat,
             NEW open \in SUBSET Nat, NEW due \in BOOLEAN
      PROVE  IsWrite(q, <<Line(k, n), Tally(q, said, begun, ended, open, unnamed, due)>>)
  <2> DEFINE l == Line(k, n)
             t == Tally(q, said, begun, ended, open, unnamed, due)
  <2>1. l \in LineType /\ l.k \in Later
    BY <1>2
  <2>2. \E said1, begun1, ended1, unnamed1 \in Nat, open1 \in SUBSET Nat, due1 \in BOOLEAN :
          t = Tally(q, said1, begun1, ended1, open1, unnamed1, due1)
    BY Zenon
  <2> HIDE DEF l, t
  <2>3. <<l, t>>[1] = l /\ <<l, t>>[2] = t
    OBVIOUS
  <2>4. IsWrite(q, <<l, t>>)
    BY <2>1, <2>2, <2>3, Zenon DEF IsWrite
  <2> QED BY <2>4 DEF l, t
<1>4. ASSUME NEW n \in Nat, NEW k \in {"huge", "message", "assistant", "result"}
      PROVE  IsWrite(q, <<Line(k, n), q>>)
  <2>1. IsWrite(q, <<Line(k, n), Tally(q, q.said, q.begun, q.ended, q.open, q.unnamed, q.due)>>)
    BY <1>1, <1>a DEF Later
  <2> QED BY <1>3, <2>1 DEF TallyForms
<1>5. ASSUME NEW k \in {"message", "delta"}
      PROVE  IsWrite(q, Says(q, k))
  <2>0. q.said + 1 \in Nat /\ k \in Later
    BY <1>1 DEF Later
  <2>1. IsWrite(q, <<Line(k, q.said + 1),
               Tally(q, q.said + 1, q.begun, q.ended, q.open, q.unnamed, q.due)>>)
    BY <1>1, <1>a, <2>0
  <2> QED BY <1>3, <2>1 DEF TallyForms, Says
<1>6. ASSUME NEW k \in {"started", "start", "use"}
      PROVE  IsWrite(q, Opens(q, k))
  <2>1. q.open \cup {q.begun + 1} \in SUBSET Nat /\ q.begun + 1 \in Nat /\ k \in Later
    BY <1>1 DEF Later
  <2>2. IsWrite(q, <<Line(k, q.begun + 1), Tally(q, q.said, q.begun + 1, q.ended,
                                           q.open \cup {q.begun + 1}, q.unnamed, q.due)>>)
    BY <1>1, <1>a, <2>1
  <2> QED BY <1>3, <2>2 DEF TallyForms, Opens
<1>7. ASSUME NEW k \in {"completed", "stop", "output"}, NEW x \in Closes(q, k)
      PROVE  IsWrite(q, x)
  <2>1. PICK id \in q.open : x = <<Line(k, id), [q EXCEPT !.ended = @ + 1, !.open = @ \ {id}]>>
    BY DEF Closes
  <2>2. id \in Nat /\ q.ended + 1 \in Nat /\ q.open \ {id} \in SUBSET Nat
    BY <1>1
  <2>3. IsWrite(q, <<Line(k, id), Tally(q, q.said, q.begun, q.ended + 1, q.open \ {id},
                                  q.unnamed, q.due)>>)
    BY <1>1, <1>a, <2>2 DEF Later
  <2> QED BY <1>3, <2>1, <2>3 DEF TallyForms
<1>8. IsWrite(q, OpensUnnamed(q)) /\ (q.unnamed > 0 => IsWrite(q, ClosesUnnamed(q)))
  <2>1. /\ q.begun + 1 \in Nat /\ q.ended + 1 \in Nat /\ q.unnamed + 1 \in Nat
        /\ (q.unnamed > 0 => q.unnamed - 1 \in Nat)
    BY <1>1
  <2>2. IsWrite(q, <<Line("started", 0), Tally(q, q.said, q.begun + 1, q.ended, q.open,
                                         q.unnamed + 1, q.due)>>)
    BY <1>1, <1>a, <2>1 DEF Later
  <2>3. ASSUME q.unnamed > 0
        PROVE  IsWrite(q, <<Line("completed", 0), Tally(q, q.said, q.begun, q.ended + 1, q.open,
                                                  q.unnamed - 1, q.due)>>)
    BY <1>1, <1>a, <2>1, <2>3 DEF Later
  <2> QED BY <1>3, <2>2, <2>3 DEF TallyForms, OpensUnnamed, ClosesUnnamed
<1>9. /\ IsWrite(q, <<Line("completed", q.begun + 1), [q EXCEPT !.begun = @ + 1, !.ended = @ + 1]>>)
      /\ IsWrite(q, <<Line("assistant", q.said), [q EXCEPT !.due = FALSE]>>)
      /\ IsWrite(q, <<Line("text", q.said + 1), [q EXCEPT !.said = @ + 1, !.due = TRUE]>>)
  <2>1. q.begun + 1 \in Nat /\ q.ended + 1 \in Nat /\ q.said + 1 \in Nat
    BY <1>1
  <2>2. IsWrite(q, <<Line("completed", q.begun + 1),
               Tally(q, q.said, q.begun + 1, q.ended + 1, q.open, q.unnamed, q.due)>>)
    BY <1>1, <1>a, <2>1 DEF Later
  <2>3. IsWrite(q, <<Line("assistant", q.said),
               Tally(q, q.said, q.begun, q.ended, q.open, q.unnamed, FALSE)>>)
    BY <1>1, <1>a DEF Later
  <2>4. IsWrite(q, <<Line("text", q.said + 1),
               Tally(q, q.said + 1, q.begun, q.ended, q.open, q.unnamed, TRUE)>>)
    BY <1>1, <1>a, <2>1 DEF Later
  <2> QED BY <1>3, <2>2, <2>3, <2>4 DEF TallyForms
<1>10. CASE kind = "codex" /\ w \in CodexWrites(q)
  BY <1>5, <1>6, <1>7, <1>8, <1>9, <1>10 DEF CodexWrites
<1>11. CASE kind = "claude" /\ w \in ClaudeWrites(q)
  BY <1>1, <1>4, <1>6, <1>7, <1>9, <1>11 DEF ClaudeWrites
<1>12. CASE kind = "gemini" /\ w \in GeminiWrites(q)
  BY <1>1, <1>4, <1>5, <1>6, <1>7, <1>12 DEF GeminiWrites
<1>13. CASE w = <<Line("huge", 0), q>>
  BY <1>4, <1>13
<1> QED BY <1>10, <1>11, <1>12, <1>13 DEF Writes

-----------------------------------------------------------------------------
(* Steps of a run that leave its session, its thread and its mode alone.   *)

SameRun(p, q) ==
  /\ q.on = p.on /\ q.op = p.op /\ q.img = p.img /\ q.mode = p.mode
  /\ q.asked = p.asked /\ q.works = p.works
  /\ q.pc = p.pc \/ (p.pc = "running" /\ q.pc = "returned")

Proceeds(r) ==
  /\ req'[r] \in RequestType /\ SameRun(req[r], req'[r])
  /\ req' = [req EXCEPT ![r] = req'[r]]
  /\ promised' \in 0 .. limit.lines
  /\ UNCHANGED <<kind, limit, drawn, sess, made, store, calls, files, adopting, cleaned>>

\* Setting a record of the same run is such a step.
LEMMA SetProceeds ==
  ASSUME TypeInv, NEW r \in Requests, NEW q \in RequestType, SameRun(req[r], q), Set(r, q),
         promised' \in 0 .. limit.lines,
         UNCHANGED <<kind, limit, drawn, sess, made, store, calls, files, adopting, cleaned>>
  PROVE  Proceeds(r) /\ req'[r] = q
BY DEF TypeInv, Set, Proceeds

\* What ToolWrites does.
WritesOn(p, q, w, more) ==
  /\ IsWrite(p, w) /\ w[2] \in RequestType /\ (w[2].due => more)
  /\ q = [w[2] EXCEPT !.pipe = Append(p.pipe, w[1]), !.more = more]
  /\ q.pipe = Append(p.pipe, w[1]) /\ q.got = p.got
  /\ q.reader = p.reader /\ q.proc = p.proc /\ q.pc = p.pc /\ q.lost = p.lost
  /\ q.more = more /\ q.due = w[2].due /\ q.said = w[2].said /\ q.begun = w[2].begun
  /\ q.ended = w[2].ended /\ q.open = w[2].open /\ q.unnamed = w[2].unnamed

\* A line that is written goes to the end of the pipe.
LEMMA ToolWritesMoves ==
  ASSUME TypeInv, NEW r \in Requests, ToolWrites(r)
  PROVE  /\ Proceeds(r)
         /\ Len(req[r].pipe) < PipeSize /\ req[r].works # NoThread /\ req[r].more
         /\ Uses(r) /\ req[r].proc = "running"
         /\ \E w \in Writes(req[r]), more \in BOOLEAN : WritesOn(req[r], req'[r], w, more)
<1> DEFINE p == req[r]
<1>1. p \in RequestType /\ kind \in {"codex", "claude", "gemini"} /\ limit.lines \in Nat
      /\ promised \in 0 .. limit.lines
  BY LimitsFacts DEF TypeInv
<1>2. PICK w \in Writes(p), more \in BOOLEAN :
        /\ w[2].due => more
        /\ more => promised < limit.lines
        /\ Promise(more)
        /\ Set(r, [w[2] EXCEPT !.pipe = Append(@, w[1]), !.more = more])
  BY DEF ToolWrites
<1>3. IsWrite(p, w)
  BY <1>1, WritesFacts
<1>4. PICK said, begun, ended, unnamed \in Nat, open \in SUBSET Nat, due \in BOOLEAN :
        w[2] = Tally(p, said, begun, ended, open, unnamed, due)
  BY <1>3 DEF IsWrite
<1> DEFINE v == w[2]
           q == [v EXCEPT !.pipe = Append(@, w[1]), !.more = more]
           pipe == Append(p.pipe, w[1])
<1>5. /\ v \in RequestType /\ v.pc = p.pc /\ v.on = p.on /\ v.op = p.op /\ v.img = p.img
      /\ v.mode = p.mode /\ v.asked = p.asked /\ v.works = p.works /\ v.proc = p.proc
      /\ v.pipe = p.pipe /\ v.reader = p.reader /\ v.got = p.got /\ v.lost = p.lost
  BY <1>1, <1>4, TallyType
<1>6. pipe \in Seq(LineType)
  BY <1>1, <1>3 DEF IsWrite, RequestType
<1>7. Set(r, q) /\ (v.due => more) /\ (more => promised < limit.lines) /\ Promise(more)
  BY <1>2
<1> HIDE DEF v, p, pipe
<1>8. /\ q \in RequestType /\ q.pipe = pipe /\ q.more = more
      /\ q.pc = v.pc /\ q.on = v.on /\ q.op = v.op /\ q.img = v.img
      /\ q.mode = v.mode /\ q.asked = v.asked /\ q.works = v.works /\ q.proc = v.proc
      /\ q.reader = v.reader /\ q.got = v.got /\ q.lost = v.lost
      /\ q.due = v.due /\ q.said = v.said /\ q.begun = v.begun
      /\ q.ended = v.ended /\ q.open = v.open /\ q.unnamed = v.unnamed
      /\ q = [v EXCEPT !.pipe = pipe, !.more = more]
  <2>1. Append(v.pipe, w[1]) = pipe
    BY <1>5 DEF pipe
  <2> QED BY <1>5, <1>6, <2>1 DEF RequestType
<1>9. SameRun(p, q)
  BY <1>5, <1>8 DEF SameRun
<1>10. promised' \in 0 .. limit.lines
  BY <1>1, <1>7 DEF Promise
<1>11. /\ UNCHANGED <<kind, limit, drawn, sess, made, store, calls, files, adopting, cleaned>>
       /\ Len(p.pipe) < PipeSize /\ p.works # NoThread /\ p.more
       /\ Uses(r) /\ p.proc = "running"
  BY DEF ToolWrites, p
<1> HIDE DEF q
<1>12. Proceeds(r) /\ req'[r] = q
  BY <1>7, <1>8, <1>9, <1>10, <1>11, SetProceeds DEF p
<1>13. v = w[2] /\ pipe = Append(req[r].pipe, w[1]) /\ p = req[r] /\ w \in Writes(req[r])
  BY DEF v, pipe, p
<1>14. WritesOn(req[r], req'[r], w, more)
  BY <1>3, <1>5, <1>7, <1>8, <1>12, <1>13 DEF WritesOn
<1>15. /\ Proceeds(r)
       /\ Len(req[r].pipe) < PipeSize /\ req[r].works # NoThread /\ req[r].more
       /\ Uses(r) /\ req[r].proc = "running"
  BY <1>11, <1>12 DEF p
<1>16. \E x \in Writes(req[r]), m \in BOOLEAN : WritesOn(req[r], req'[r], x, m)
  BY <1>13, <1>14, Zenon
<1> QED BY <1>15, <1>16

\* Steps that change nothing of a run but these parts.
Ended(q, proc, h) == [q EXCEPT !.proc = proc, !.held = h]
Read(q, reader, pipe, got, lost, pc) ==
  [q EXCEPT !.reader = reader, !.pipe = pipe, !.got = got, !.lost = lost, !.pc = pc]

\* A record whose process has changed.
LEMMA EndedType ==
  ASSUME NEW q \in RequestType, NEW proc \in ProcType, NEW h \in BOOLEAN
  PROVE  LET w == Ended(q, proc, h) IN
         /\ w \in RequestType /\ w.pc = q.pc /\ w.on = q.on /\ w.op = q.op /\ w.img = q.img
         /\ w.mode = q.mode /\ w.asked = q.asked /\ w.works = q.works /\ w.more = q.more
         /\ w.pipe = q.pipe /\ w.reader = q.reader /\ w.got = q.got /\ w.lost = q.lost
         /\ w.said = q.said /\ w.begun = q.begun /\ w.ended = q.ended /\ w.open = q.open
         /\ w.unnamed = q.unnamed /\ w.due = q.due /\ w.good = q.good
         /\ w.proc = proc /\ w.held = h
BY DEF RequestType, Ended

\* A record whose reader has moved.
LEMMA ReadType ==
  ASSUME NEW q \in RequestType, NEW reader \in ReaderType,
         NEW pipe \in Seq(LineType), NEW got \in ParserType, NEW lost \in BOOLEAN,
         NEW pc \in PcType
  PROVE  LET w == Read(q, reader, pipe, got, lost, pc) IN
         /\ w \in RequestType /\ w.on = q.on /\ w.op = q.op /\ w.img = q.img
         /\ w.mode = q.mode /\ w.asked = q.asked /\ w.works = q.works /\ w.more = q.more
         /\ w.said = q.said /\ w.begun = q.begun /\ w.ended = q.ended /\ w.open = q.open
         /\ w.unnamed = q.unnamed /\ w.due = q.due /\ w.good = q.good
         /\ w.proc = q.proc /\ w.held = q.held /\ w.reader = reader /\ w.pipe = pipe
         /\ w.got = got /\ w.lost = lost /\ w.pc = pc
BY DEF RequestType, Read

SameTally(p, q) ==
  /\ q.said = p.said /\ q.begun = p.begun /\ q.ended = p.ended /\ q.open = p.open
  /\ q.unnamed = p.unnamed /\ q.due = p.due /\ q.more = p.more
SameReading(p, q) ==
  /\ q.reader = p.reader /\ q.pipe = p.pipe /\ q.got = p.got /\ q.lost = p.lost
  /\ q.pc = p.pc /\ SameTally(p, q)

ProcessStep(r) ==
  ToolSucceeds(r) \/ ToolFails(r) \/ BashEnds(r) \/ ChildEnds(r) \/ ClientLeaves(r)

\* Steps of the process leave the reading alone; a tool succeeds when it has no more to write.
LEMMA ProcessMoves ==
  ASSUME TypeInv, NEW r \in Requests, ProcessStep(r)
  PROVE  /\ Proceeds(r) /\ SameReading(req[r], req'[r])
         /\ \/ req'[r].proc # "exited" \/ req'[r].proc = req[r].proc \/ req[r].op = "bash"
            \/ ~req[r].more /\ req[r].works # NoThread
<1> DEFINE p == req[r]
<1>1. p \in RequestType /\ limit.lines \in Nat /\ promised \in 0 .. limit.lines
  BY LimitsFacts DEF TypeInv
<1>2. p.proc \in ProcType /\ p.held \in BOOLEAN
  BY <1>1 DEF RequestType, Ended, Read
<1>3. /\ UNCHANGED <<kind, limit, drawn, sess, made, store, calls, promised, files, adopting,
                     cleaned>>
      /\ \E proc \in ProcType, h \in BOOLEAN :
           /\ Set(r, Ended(p, proc, h))
           /\ \/ proc # "exited" \/ proc = p.proc \/ p.op = "bash"
              \/ ~p.more /\ p.works # NoThread
  <2>1. /\ \A a : [p EXCEPT !.proc = a] = Ended(p, a, p.held)
        /\ \A a : [p EXCEPT !.held = a] = Ended(p, p.proc, a)
        /\ \A a, h : [p EXCEPT !.proc = a, !.held = h] = Ended(p, a, h)
    BY <1>1 DEF RequestType, Ended, Read
  <2>2. CASE ToolSucceeds(r)
    <3>1. Set(r, Ended(p, "exited", p.held)) /\ ~p.more /\ p.works # NoThread
      BY <2>1, <2>2 DEF ToolSucceeds
    <3>2. UNCHANGED <<kind, limit, drawn, sess, made, store, calls, promised, files, adopting,
                      cleaned>>
      BY <2>2 DEF ToolSucceeds
    <3> QED BY <1>2, <3>1, <3>2 DEF ProcType
  <2>3. CASE ToolFails(r)
    BY <1>2, <2>1, <2>3 DEF ToolFails, ProcType
  <2>4. CASE BashEnds(r)
    <3>1. PICK h \in BOOLEAN : Set(r, Ended(p, "exited", h))
      BY <2>1, <2>4 DEF BashEnds
    <3>2. /\ p.op = "bash"
          /\ UNCHANGED <<kind, limit, drawn, sess, made, store, calls, promised, files, adopting,
                         cleaned>>
      BY <2>4 DEF BashEnds
    <3> QED BY <1>2, <3>1, <3>2 DEF ProcType
  <2>5. CASE ChildEnds(r)
    BY <1>2, <2>1, <2>5 DEF ChildEnds
  <2>6. CASE ClientLeaves(r)
    <3>1. PICK h \in BOOLEAN : Set(r, Ended(p, "failed", h))
      BY <2>1, <2>6 DEF ClientLeaves
    <3>2. UNCHANGED <<kind, limit, drawn, sess, made, store, calls, promised, files, adopting,
                      cleaned>>
      BY <2>6 DEF ClientLeaves
    <3> QED BY <1>2, <3>1, <3>2 DEF ProcType
  <2> QED BY <2>2, <2>3, <2>4, <2>5, <2>6 DEF ProcessStep
<1>4. PICK proc \in ProcType, h \in BOOLEAN :
        /\ Set(r, Ended(p, proc, h))
        /\ \/ proc # "exited" \/ proc = p.proc \/ p.op = "bash"
           \/ ~p.more /\ p.works # NoThread
  BY <1>3
<1> DEFINE w == Ended(p, proc, h)
<1>5. /\ w \in RequestType /\ w.pc = p.pc /\ w.on = p.on /\ w.op = p.op /\ w.img = p.img
      /\ w.mode = p.mode /\ w.asked = p.asked /\ w.works = p.works /\ w.more = p.more
      /\ w.pipe = p.pipe /\ w.reader = p.reader /\ w.got = p.got /\ w.lost = p.lost
      /\ w.said = p.said /\ w.begun = p.begun /\ w.ended = p.ended /\ w.open = p.open
      /\ w.unnamed = p.unnamed /\ w.due = p.due /\ w.good = p.good
      /\ w.proc = proc /\ w.held = h
  <2> HIDE DEF w, p
  <2>1. p \in RequestType /\ proc \in ProcType /\ h \in BOOLEAN
    BY <1>1, <1>4
  <2> QED BY <2>1, EndedType DEF w
<1>6. Set(r, w)
  BY <1>4
<1>7. promised' \in 0 .. limit.lines
  BY <1>1, <1>3
<1> HIDE DEF w
<1>8. SameRun(p, w) /\ SameReading(p, w)
  BY <1>5 DEF SameRun, SameReading, SameTally
<1>9. Proceeds(r) /\ req'[r] = w
  BY <1>3, <1>5, <1>6, <1>7, <1>8, SetProceeds
<1> QED BY <1>4, <1>5, <1>8, <1>9

\* What the reader does.
LEMMA ReadLineMoves ==
  ASSUME TypeInv, NEW r \in Requests, ReadLine(r)
  PROVE  LET p == req[r]
             q == req'[r]
         IN
         /\ Proceeds(r) /\ SameTally(p, q) /\ q.pc = p.pc /\ q.proc = p.proc /\ Uses(r)
         /\ p.pipe # <<>> /\ q.pipe = Tail(p.pipe) /\ p.reader \in {"reading", "draining"}
         /\ \/ /\ p.reader = "draining"
               /\ q.reader = p.reader /\ q.got = p.got /\ q.lost = p.lost
            \/ /\ p.reader = "reading" /\ Head(p.pipe).k = "huge"
               /\ q.reader \in {"draining", "stopped"} /\ q.got = p.got /\ q.lost
            \/ /\ p.reader = "reading" /\ Head(p.pipe).k # "huge"
               /\ q.reader = p.reader /\ q.lost = p.lost
               /\ q.got = Parse(kind, p.got, Head(p.pipe))
<1> DEFINE p == req[r]
           line == Head(p.pipe)
           rest == Tail(p.pipe)
<1>1. /\ p \in RequestType /\ limit.lines \in Nat /\ promised \in 0 .. limit.lines
      /\ kind \in {"codex", "claude", "gemini"}
  BY LimitsFacts DEF TypeInv
<1>2. /\ p.pc \in PcType /\ p.reader \in ReaderType
      /\ p.pipe \in Seq(LineType) /\ p.got \in ParserType /\ p.lost \in BOOLEAN
  BY <1>1 DEF RequestType, Ended, Read
<1>3. /\ UNCHANGED <<kind, limit, drawn, sess, made, store, calls, promised, files, adopting,
                     cleaned>>
      /\ Uses(r) /\ p.pipe # <<>> /\ p.reader \in {"reading", "draining"}
      /\ Set(r, IF p.reader = "draining" THEN [p EXCEPT !.pipe = rest]
                ELSE IF line.k = "huge"
                     THEN [p EXCEPT !.pipe = rest, !.reader = AfterHuge, !.lost = TRUE]
                     ELSE [p EXCEPT !.pipe = rest, !.got = Parse(kind, p.got, line)])
  <2>1. UNCHANGED <<kind, limit, drawn, sess, made, store, calls, promised, files, adopting,
                    cleaned>>
        /\ Uses(r) /\ p.pipe # <<>> /\ p.reader \in {"reading", "draining"}
    BY DEF ReadLine
  <2>2. Set(r, IF p.reader = "draining" THEN [p EXCEPT !.pipe = rest]
               ELSE IF line.k = "huge"
                    THEN [[p EXCEPT !.pipe = rest] EXCEPT !.reader = AfterHuge, !.lost = TRUE]
                    ELSE [[p EXCEPT !.pipe = rest] EXCEPT !.got = Parse(kind, p.got, line)])
    BY DEF ReadLine
  <2> HIDE DEF rest, line
  <2> QED BY <1>1, <2>1, <2>2 DEF RequestType, Ended, Read
<1>4. rest \in Seq(LineType) /\ line \in LineType
  BY <1>2, <1>3
<1>5. /\ AfterHuge \in {"draining", "stopped"} /\ Parse(kind, p.got, line) \in ParserType
  BY <1>1, <1>2, <1>4, ParseType DEF AfterHuge
<1> HIDE DEF rest, line
<1>6. PICK reader \in ReaderType, got \in ParserType,
           lost \in BOOLEAN :
        /\ Set(r, Read(p, reader, rest, got, lost, p.pc))
        /\ \/ /\ p.reader = "draining" /\ reader = p.reader /\ got = p.got /\ lost = p.lost
           \/ /\ p.reader = "reading" /\ line.k = "huge"
              /\ reader \in {"draining", "stopped"} /\ got = p.got /\ lost
           \/ /\ p.reader = "reading" /\ line.k # "huge" /\ reader = p.reader /\ lost = p.lost
              /\ got = Parse(kind, p.got, line)
  <2>1. /\ [p EXCEPT !.pipe = rest] = Read(p, p.reader, rest, p.got, p.lost, p.pc)
        /\ [p EXCEPT !.pipe = rest, !.reader = AfterHuge, !.lost = TRUE] =
             Read(p, AfterHuge, rest, p.got, TRUE, p.pc)
        /\ [p EXCEPT !.pipe = rest, !.got = Parse(kind, p.got, line)] =
             Read(p, p.reader, rest, Parse(kind, p.got, line), p.lost, p.pc)
    BY <1>1 DEF RequestType, Ended, Read
  <2>2. CASE p.reader = "draining"
    BY <1>2, <1>3, <2>1, <2>2
  <2>3. CASE p.reader = "reading" /\ line.k = "huge"
    BY <1>2, <1>3, <1>5, <2>1, <2>3 DEF ReaderType
  <2>4. CASE p.reader = "reading" /\ line.k # "huge"
    BY <1>2, <1>3, <1>5, <2>1, <2>4
  <2> QED BY <1>3, <2>2, <2>3, <2>4
<1> DEFINE w == Read(p, reader, rest, got, lost, p.pc)
<1>7. /\ w \in RequestType /\ w.on = p.on /\ w.op = p.op /\ w.img = p.img
      /\ w.mode = p.mode /\ w.asked = p.asked /\ w.works = p.works /\ w.more = p.more
      /\ w.said = p.said /\ w.begun = p.begun /\ w.ended = p.ended /\ w.open = p.open
      /\ w.unnamed = p.unnamed /\ w.due = p.due /\ w.good = p.good
      /\ w.proc = p.proc /\ w.held = p.held /\ w.reader = reader /\ w.pipe = rest
      /\ w.got = got /\ w.lost = lost /\ w.pc = p.pc
  <2> HIDE DEF w, p
  <2>1. /\ p \in RequestType /\ reader \in ReaderType
        /\ rest \in Seq(LineType) /\ got \in ParserType /\ lost \in BOOLEAN /\ p.pc \in PcType
    BY <1>1, <1>2, <1>4, <1>6
  <2> QED BY <2>1, ReadType DEF w
<1>8. promised' \in 0 .. limit.lines /\ Set(r, w)
  BY <1>1, <1>3, <1>6
<1> HIDE DEF w
<1>9. SameRun(p, w) /\ SameTally(p, w)
  BY <1>7 DEF SameRun, SameTally
<1>10. Proceeds(r) /\ req'[r] = w
  BY <1>3, <1>7, <1>8, <1>9, SetProceeds
<1> QED BY <1>3, <1>6, <1>7, <1>9, <1>10 DEF rest, line

\* What the waiting caller does.
LEMMA ReturnMoves ==
  ASSUME TypeInv, NEW r \in Requests, WaitReturns(r) \/ OutputReturns(r)
  PROVE  LET p == req[r]
             q == req'[r]
         IN
         /\ Proceeds(r) /\ SameTally(p, q) /\ p.pc = "running" /\ q.pc = "returned"
         /\ q.proc = p.proc /\ q.reader = p.reader /\ q.got = p.got
         /\ p.op = "text" => q.pipe = <<>> /\ (q.lost <=> p.lost \/ p.pipe # <<>>)
         /\ p.op = "bash" => q.pipe = p.pipe
<1> DEFINE p == req[r]
<1>1. p \in RequestType /\ limit.lines \in Nat /\ promised \in 0 .. limit.lines
  BY LimitsFacts DEF TypeInv
<1>2. /\ "returned" \in PcType /\ p.reader \in ReaderType
      /\ p.pipe \in Seq(LineType) /\ p.got \in ParserType /\ p.lost \in BOOLEAN
      /\ <<>> \in Seq(LineType)
  BY <1>1 DEF RequestType, PcType
<1>3. /\ UNCHANGED <<kind, limit, drawn, sess, made, store, calls, promised, files, adopting,
                     cleaned>>
      /\ p.pc = "running"
      /\ \E pipe \in Seq(LineType), lost \in BOOLEAN :
           /\ Set(r, Read(p, p.reader, pipe, p.got, lost, "returned"))
           /\ p.op = "text" => pipe = <<>> /\ (lost <=> p.lost \/ p.pipe # <<>>)
           /\ p.op = "bash" => pipe = p.pipe
  <2>1. /\ \A x : [p EXCEPT !.pc = "returned", !.pipe = <<>>, !.lost = x] =
                Read(p, p.reader, <<>>, p.got, x, "returned")
        /\ [p EXCEPT !.pc = "returned"] =
             Read(p, p.reader, p.pipe, p.got, p.lost, "returned")
    BY <1>1 DEF RequestType, Ended, Read
  <2>2. CASE WaitReturns(r)
    <3>1. /\ p.pc = "running" /\ p.op = "text"
          /\ UNCHANGED <<kind, limit, drawn, sess, made, store, calls, promised, files, adopting,
                         cleaned>>
      BY <2>2 DEF WaitReturns, Uses, Running
    <3> DEFINE lost == p.lost \/ p.pipe # <<>>
    <3>2. Set(r, [p EXCEPT !.pc = "returned", !.pipe = <<>>, !.lost = lost])
      BY <1>1, <2>2 DEF WaitReturns, RequestType
    <3>3. lost \in BOOLEAN
      OBVIOUS
    <3>4. Set(r, Read(p, p.reader, <<>>, p.got, lost, "returned"))
      BY <2>1, <3>2
    <3> QED BY <1>2, <3>1, <3>3, <3>4
  <2>3. CASE OutputReturns(r)
    BY <1>2, <2>1, <2>3 DEF OutputReturns, Running
  <2> QED BY <2>2, <2>3
<1>4. PICK pipe \in Seq(LineType), lost \in BOOLEAN :
        /\ Set(r, Read(p, p.reader, pipe, p.got, lost, "returned"))
        /\ p.op = "text" => pipe = <<>> /\ (lost <=> p.lost \/ p.pipe # <<>>)
        /\ p.op = "bash" => pipe = p.pipe
  BY <1>3
<1> DEFINE w == Read(p, p.reader, pipe, p.got, lost, "returned")
<1>5. /\ w \in RequestType /\ w.on = p.on /\ w.op = p.op /\ w.img = p.img
      /\ w.mode = p.mode /\ w.asked = p.asked /\ w.works = p.works /\ w.more = p.more
      /\ w.said = p.said /\ w.begun = p.begun /\ w.ended = p.ended /\ w.open = p.open
      /\ w.unnamed = p.unnamed /\ w.due = p.due /\ w.good = p.good
      /\ w.proc = p.proc /\ w.held = p.held /\ w.reader = p.reader /\ w.pipe = pipe
      /\ w.got = p.got /\ w.lost = lost /\ w.pc = "returned"
  <2> HIDE DEF w, p
  <2>1. /\ p \in RequestType /\ p.reader \in ReaderType
        /\ pipe \in Seq(LineType) /\ p.got \in ParserType /\ lost \in BOOLEAN
        /\ "returned" \in PcType
    BY <1>1, <1>2, <1>4
  <2> QED BY <2>1, ReadType DEF w
<1>6. promised' \in 0 .. limit.lines /\ Set(r, w)
  BY <1>1, <1>3, <1>4
<1> HIDE DEF w
<1>7. SameRun(p, w) /\ SameTally(p, w)
  BY <1>3, <1>5 DEF SameRun, SameTally
<1>8. Proceeds(r) /\ req'[r] = w
  BY <1>3, <1>5, <1>6, <1>7, SetProceeds
<1> QED BY <1>3, <1>4, <1>5, <1>7, <1>8

Talks(r) == Active(r) /\ req[r].op = "text"

-----------------------------------------------------------------------------
(* The other steps of a request.                                           *)

Tool(q, t, more, pipe) == [q EXCEPT !.works = t, !.more = more, !.pipe = pipe]
Blank(q) ==
  /\ q.works = NoThread /\ q.more = FALSE /\ q.held = FALSE /\ q.pipe = <<>>
  /\ q.got = NewParser /\ q.said = 0 /\ q.begun = 0 /\ q.ended = 0 /\ q.open = {}
  /\ q.unnamed = 0 /\ q.due = FALSE /\ q.lost = FALSE

\* A record whose tool is in its thread.
LEMMA ToolType ==
  ASSUME NEW q \in RequestType, NEW t \in SomeThread, NEW more \in BOOLEAN,
         NEW pipe \in Seq(LineType)
  PROVE  LET w == Tool(q, t, more, pipe) IN
         /\ w \in RequestType /\ w.pc = q.pc /\ w.on = q.on /\ w.op = q.op /\ w.img = q.img
         /\ w.mode = q.mode /\ w.asked = q.asked /\ w.proc = q.proc /\ w.held = q.held
         /\ w.reader = q.reader /\ w.got = q.got /\ w.lost = q.lost
         /\ w.said = q.said /\ w.begun = q.begun /\ w.ended = q.ended /\ w.open = q.open
         /\ w.unnamed = q.unnamed /\ w.due = q.due /\ w.good = q.good
         /\ w.works = t /\ w.more = more /\ w.pipe = pipe
BY DEF RequestType, Tool

\* A request that has just begun, completed or been answered.
BeganText(s, img, mode, asked, pc, proc) ==
  [Idle EXCEPT !.pc = pc, !.on = s, !.op = "text", !.img = img, !.mode = mode,
               !.asked = asked, !.proc = proc, !.reader = "reading"]
BeganBash(s, pc, proc) ==
  [Idle EXCEPT !.pc = pc, !.on = s, !.op = "bash", !.proc = proc]
Completed(s, img, good) ==
  [Idle EXCEPT !.pc = "completed", !.on = s, !.img = img, !.good = good]
Answered(q, pc) == [q EXCEPT !.pc = pc, !.good = FALSE]

\* The record of a message that begins.
LEMMA BeganTextType ==
  ASSUME MaxSessions \in Nat, MaxThreads \in Nat, NEW s \in Nat, NEW img \in BOOLEAN,
         NEW mode \in {"new", "resume"}, NEW asked \in SomeThread,
         NEW pc \in PcType, NEW proc \in ProcType
  PROVE  LET w == BeganText(s, img, mode, asked, pc, proc) IN
         /\ w \in RequestType /\ w.pc = pc /\ w.on = s /\ w.op = "text" /\ w.img = img
         /\ w.mode = mode /\ w.asked = asked /\ w.proc = proc /\ w.reader = "reading"
         /\ Blank(w)
<1> DEFINE u == [Idle EXCEPT !.pc = pc, !.on = s, !.op = "text", !.img = img]
           w == [u EXCEPT !.mode = mode, !.asked = asked, !.proc = proc, !.reader = "reading"]
<1>1. Idle \in RequestType /\ Blank(Idle)
  BY BlankTypes DEF Idle, Blank
<1>2. /\ u \in RequestType /\ u.pc = pc /\ u.on = s /\ u.op = "text" /\ u.img = img /\ Blank(u)
  BY <1>1 DEF RequestType, Blank
<1> HIDE DEF u
<1>3. /\ w \in RequestType /\ w.pc = u.pc /\ w.on = u.on /\ w.op = u.op /\ w.img = u.img
      /\ w.mode = mode /\ w.asked = asked /\ w.proc = proc /\ w.reader = "reading"
      /\ Blank(w)
  BY <1>2 DEF RequestType, Blank, ReaderType
<1>4. w = BeganText(s, img, mode, asked, pc, proc)
  BY DEF u, BeganText
<1> HIDE DEF w
<1> QED BY <1>2, <1>3, <1>4

\* The record of a command that begins.
LEMMA BeganBashType ==
  ASSUME MaxSessions \in Nat, MaxThreads \in Nat, NEW s \in Nat, NEW pc \in PcType,
         NEW proc \in ProcType
  PROVE  LET w == BeganBash(s, pc, proc) IN
         /\ w \in RequestType /\ w.pc = pc /\ w.on = s /\ w.op = "bash" /\ w.img = FALSE
         /\ w.mode = "none" /\ w.proc = proc /\ Blank(w)
<1>1. Idle \in RequestType /\ Blank(Idle) /\ Idle.img = FALSE /\ Idle.mode = "none"
  BY BlankTypes DEF Idle, Blank
<1> QED BY <1>1 DEF BeganBash, RequestType, Blank

\* A record that Complete has set.
LEMMA CompletedType ==
  ASSUME MaxSessions \in Nat, MaxThreads \in Nat, NEW s \in Nat, NEW img \in BOOLEAN,
         NEW good \in BOOLEAN
  PROVE  LET w == Completed(s, img, good) IN
         /\ w \in RequestType /\ w.pc = "completed" /\ w.on = s /\ w.img = img
         /\ w.mode = "none" /\ Blank(w)
<1>1. Idle \in RequestType /\ Blank(Idle) /\ Idle.mode = "none"
  BY BlankTypes DEF Idle, Blank
<1> QED BY <1>1 DEF Completed, RequestType, Blank, PcType

\* A record that Respond has set.
LEMMA AnsweredType ==
  ASSUME NEW q \in RequestType, NEW pc \in PcType
  PROVE  LET w == Answered(q, pc) IN
         /\ w \in RequestType /\ w.pc = pc /\ w.on = q.on /\ w.img = q.img /\ w.mode = q.mode
         /\ w.works = q.works /\ w.pipe = q.pipe /\ w.op = q.op
BY DEF Answered, RequestType

-----------------------------------------------------------------------------
(* The inductive invariant, in parts.                                      *)

\* Sessions: what is gone is blank, a thread of a session's own has its number, a
\* thread of the tool's is in the store; a session that was answered is still on
\* that thread and its next run resumes it.
SessionInv ==
  \A s \in Sessions :
    LET x == sess[s] IN
    /\ Len(x.hist) <= MaxMessages
    /\ ~x.live => x = Absent
    /\ x.live => s <= drawn /\ x.thread # NoThread /\ (x.ready \/ x.thread = s)
    /\ x.ready => kind # "claude" /\ x.thread > MaxSessions /\ x.thread \in store
    /\ x.answered # NoThread =>
         /\ x.thread = x.answered
         /\ IF kind = "claude" THEN x.cut \/ HasAssistantReply(x.hist) ELSE x.ready
    /\ kind = "claude" /\ HasAssistantReply(x.hist) => x.thread \in store

\* A user's message in a history is that of a request on the session.
HistoryInv ==
  \A s \in Sessions : \A i \in DOMAIN sess[s].hist :
    LET m == sess[s].hist[i] IN
    m.is = "user" => m.by <= calls /\ req[m.by].on = s

\* Threads that Codex and Gemini create are numbered, and only those of Codex are
\* adopted.
StoreInv ==
  /\ kind # "claude" => \A t \in store : t > MaxSessions /\ t <= MaxSessions + made
  /\ \A a \in Adopters : adopting[a] # NoThread => kind = "codex" /\ adopting[a] \in store

\* A session is busy exactly while a request is active on it, and there is one.
BusyInv ==
  /\ \A s \in Sessions : sess[s].busy => \E r \in Requests : Active(r) /\ req[r].on = s
  /\ \A r \in Requests : Active(r) /\ sess[req[r].on].live => sess[req[r].on].busy
  /\ \A p, r \in Requests : Active(p) /\ Active(r) /\ req[p].on = req[r].on => p = r

RequestInv ==
  \A r \in Requests :
    LET q == req[r] IN
    /\ q.pc = "idle" <=> r > calls
    /\ q.pc = "idle" => q = Idle
    /\ q.pc # "idle" => q.on \in 1 .. drawn
    /\ Len(q.pipe) <= PipeSize
    /\ Active(r) => q.op \in {"text", "bash"}
    /\ Active(r) /\ q.op = "bash" => q.works = NoThread /\ q.mode = "none"

\* What the arguments of a run say stays true of its session, and the thread that
\* the tool is in is the one it was asked to resume, or a new one.
RunInv ==
  \A r \in Requests : Talks(r) =>
    LET q == req[r]
        x == sess[q.on]
    IN
    /\ q.mode \in {"new", "resume"}
    /\ q.mode = "resume" => q.asked \in store
    /\ q.asked # NoThread
    /\ x.live => q.asked = x.thread
    /\ x.live /\ kind # "claude" /\ q.mode = "new" => ~x.ready
    /\ q.works # NoThread =>
         /\ q.works \in store
         /\ IF kind = "claude" \/ q.mode = "resume" THEN q.works = q.asked
                                                   ELSE q.works > MaxSessions

\* A thread that a run has created is its own until the run completes, but for
\* sessions that adopt it early.
First(r) == Talks(r) /\ kind # "claude" /\ req[r].mode = "new" /\ req[r].works # NoThread
FirstRunInv ==
  /\ \A p, r \in Requests : First(p) /\ First(r) /\ req[p].works = req[r].works => p = r
  /\ \A r \in Requests, s \in Sessions :
       First(r) /\ sess[s].live /\ sess[s].thread = req[r].works => sess[s].early

\* The reader has seen nothing, or the line that announces the thread.
ReadingInv ==
  \A r \in Requests : Talks(r) =>
    LET q == req[r] IN
    /\ q.works = NoThread =>
         /\ q.got = NewParser /\ q.pipe = <<>> /\ q.reader = "reading" /\ ~q.lost
         /\ q.said = 0 /\ q.begun = 0 /\ q.ended = 0 /\ q.open = {} /\ q.unnamed = 0 /\ ~q.due
    /\ ~q.got.raw => q.got = NewParser
    /\ ~q.got.raw /\ Running(r) /\ q.works # NoThread =>
         q.reader = "reading" /\ q.pipe # <<>> /\ q.pipe[1] = Line(FirstLine, q.works)
    /\ q.got.raw /\ kind # "claude" => q.got.thread = q.works
    /\ \A i \in DOMAIN q.pipe : q.pipe[i].k \in Opening => q.pipe[i].id = q.works
    /\ q.pc = "returned" => q.pipe = <<>>
    /\ ~q.lost => q.reader = "reading"
    /\ Running(r) /\ q.reader = "reading" => ~q.lost
    /\ q.due => q.more
    /\ q.proc = "exited" => ~q.more

\* An image stays until a delete handler or the handler of its own message takes it.
ImageInv ==
  \A r \in Requests :
    LET q == req[r] IN
    /\ q.img /\ q.pc \in {"running", "returned", "completed", "answered"}
       /\ sess[q.on].live /\ q.on \notin cleaned => r \in files
    /\ q.pc = "refused" => r \notin files

-----------------------------------------------------------------------------
\* The numbers of the first messages, and the events of their deltas.
UpTo(n) == [i \in 1 .. n |-> i]
Deltas(n) == [i \in 1 .. n |-> Event("delta", i)]

\* The number that the next start of an item carries.
NextStart(q) == IF kind = "claude" THEN q.begun + 1 ELSE q.begun

\* A log of that many texts, starts and ends of items, each end after its start,
\* whose starts carry numbers below next.
EventsOf(e) == [e : {e}, n : Nat]
EndsAfterStarts(log) ==
  \A i \in DOMAIN log : log[i].e = "finish" =>
    \E j \in 1 .. i - 1 : log[j] = Event("start", log[i].n)
LogOk(log, said, begun, ended, next) ==
  /\ Only(log, EventsOf("delta")) = Deltas(said)
  /\ Len(Only(log, EventsOf("start"))) = begun
  /\ Len(Only(log, EventsOf("finish"))) = ended
  /\ \A i \in DOMAIN Only(log, EventsOf("start")) : Only(log, EventsOf("start"))[i].n < next
  /\ \A i, j \in DOMAIN Only(log, EventsOf("start")) :
       Only(log, EventsOf("start"))[i] = Only(log, EventsOf("start"))[j] => i = j
  /\ EndsAfterStarts(log)

\* The tools of a parser that has read all lines of a run: every one has had its
\* start, and those that are open are known.
Started(tools, log) ==
  \A t \in tools : \E j \in DOMAIN log : log[j] = Event("start", t[2])
CodexToolsMatch(p, q) ==
  /\ Len(p.queue) = q.unnamed
  /\ \A i \in DOMAIN p.queue : Known(p, p.queue[i])
  /\ \A n \in Nat : Known(p, Key(n)) => n <= q.begun
  /\ \A n \in Nat : Known(p, Unnamed(n)) => n < p.anonymous
ToolsMatch(p, q) ==
  /\ Started(p.tools, p.log)
  /\ \A x \in q.open : x # 0 /\ Known(p, Key(x))
  /\ kind = "claude" => \A x \in q.open : <<Key(x), x>> \in p.tools
  /\ kind # "claude" => p.next = q.begun
  /\ kind = "codex" => CodexToolsMatch(p, q)

\* Its response.
ResponseMatches(p, q) ==
  CASE kind = "codex" -> p.response = UpTo(q.said)
    [] kind = "gemini" -> p.partial = UpTo(q.said)
    [] kind = "claude" -> /\ p.partial = UpTo(q.said)
                          /\ q.said = 0 => p.response = <<>> /\ ~q.due
                          /\ q.said # 0 /\ ~q.due => p.response = <<q.said>>

Matches(p, q) ==
  /\ LogOk(p.log, q.said, q.begun, q.ended, NextStart(q))
  /\ ToolsMatch(p, q) /\ ResponseMatches(p, q)

NoHuge(pipe) == \A i \in DOMAIN pipe : pipe[i].k # "huge"

\* Parsing all lines of a pipe leads from parser p to one that matches q.
Passes(ps, p, pipe) ==
  /\ ps \in [0 .. Len(pipe) -> ParserType] /\ ps[0] = p
  /\ \A i \in 1 .. Len(pipe) : ps[i] = Parse(kind, ps[i - 1], pipe[i])
Leads(p, pipe, q) == \E ps : Passes(ps, p, pipe) /\ Matches(ps[Len(pipe)], q)

\* What a reader that keeps up is going to know is what the tool has said and done.
LedgerInv ==
  \A r \in Requests :
    Talks(r) /\ ~req[r].lost /\ NoHuge(req[r].pipe) => Leads(req[r].got, req[r].pipe, req[r])

Inv ==
  /\ TypeInv /\ SessionInv /\ HistoryInv /\ StoreInv /\ BusyInv /\ RequestInv /\ RunInv
  /\ FirstRunInv /\ ReadingInv /\ ImageInv /\ LedgerInv

\* The first line: the thread is the one asked for, or new and numbered after all others.
LEMMA ToolStartsMoves ==
  ASSUME TypeInv, RunInv, NEW r \in Requests, ToolStarts(r)
  PROVE  LET p == req[r]
             q == req'[r]
             new == p.mode = "new" /\ kind # "claude"
         IN
         /\ q \in RequestType /\ req' = [req EXCEPT ![r] = q]
         /\ Uses(r) /\ p.proc = "running" /\ p.works = NoThread
         /\ q.works \in Threads /\ store' = store \cup {q.works}
         /\ new => /\ made < MaxThreads /\ made' = made + 1 /\ q.works = MaxSessions + made + 1
         /\ ~new => made' = made /\ q.works = p.asked /\ (kind = "claude" \/ p.asked \in store)
         /\ q.pipe = Append(p.pipe, Line(FirstLine, q.works)) /\ q.more \in BOOLEAN
         /\ q.pc = p.pc /\ q.on = p.on /\ q.op = p.op /\ q.img = p.img
         /\ q.mode = p.mode /\ q.asked = p.asked /\ q.proc = p.proc /\ q.held = p.held
         /\ q.reader = p.reader /\ q.got = p.got /\ q.lost = p.lost
         /\ q.said = p.said /\ q.begun = p.begun /\ q.ended = p.ended /\ q.open = p.open
         /\ q.unnamed = p.unnamed /\ q.due = p.due
         /\ promised' \in 0 .. limit.lines
         /\ UNCHANGED <<kind, limit, drawn, sess, calls, files, adopting, cleaned>>
<1> DEFINE p == req[r]
           new == p.mode = "new" /\ kind # "claude"
           t == IF new THEN MaxSessions + made + 1 ELSE p.asked
<1>1. /\ p \in RequestType /\ limit.lines \in Nat /\ promised \in 0 .. limit.lines
      /\ kind \in {"codex", "claude", "gemini"} /\ store \in SUBSET Threads
      /\ made \in 0 .. MaxThreads /\ MaxSessions \in Nat /\ MaxThreads \in Nat
  BY LimitsFacts DEF TypeInv
<1>2. /\ Uses(r) /\ p.proc = "running" /\ p.works = NoThread /\ Accepts(p)
      /\ made' = IF new THEN made + 1 ELSE made
      /\ store' = store \cup {t}
      /\ UNCHANGED <<kind, limit, drawn, sess, calls, files, adopting, cleaned>>
  BY DEF ToolStarts
<1>3. PICK more \in BOOLEAN :
        /\ more => promised < limit.lines
        /\ Promise(more)
        /\ Set(r, [p EXCEPT !.works = t, !.more = more,
                            !.pipe = Append(@, Line(FirstLine, t))])
  BY DEF ToolStarts
<1>4. Talks(r)
  BY <1>2 DEF Talks, Uses, Running, Active
<1>5. p.mode \in {"new", "resume"} /\ p.asked # NoThread
  BY <1>4 DEF RunInv
<1>6. /\ new => made < MaxThreads
      /\ ~new => kind = "claude" \/ p.asked \in store
  BY <1>1, <1>2, <1>5 DEF Accepts
<1>7. t \in Threads /\ t \in SomeThread
  <2>1. CASE new
    BY <1>1, <1>6, <2>1 DEF Threads, SomeThread
  <2>2. CASE ~new
    BY <1>1, <1>5, <2>2 DEF SomeThread, RequestType
  <2> QED BY <2>1, <2>2
<1>8. /\ new => t = MaxSessions + made + 1 /\ made' = made + 1
      /\ ~new => t = p.asked /\ made' = made
  BY <1>2
<1> DEFINE pipe == Append(p.pipe, Line(FirstLine, t))
<1>9. pipe \in Seq(LineType)
  <2>1. FirstLine \in Opening
    BY <1>1 DEF FirstLine, Opening
  <2>2. Line(FirstLine, t) \in LineType
    BY <1>1, <1>7, <2>1 DEF Line, LineType, Threads
  <2>3. p.pipe \in Seq(LineType)
    BY <1>1 DEF RequestType
  <2> QED BY <2>2, <2>3
<1> HIDE DEF t, new, pipe
<1> DEFINE w == Tool(p, t, more, pipe)
<1>10. Set(r, w)
  <2>1. [p EXCEPT !.works = t, !.more = more, !.pipe = Append(@, Line(FirstLine, t))] = w
    BY <1>1 DEF Tool, pipe, RequestType
  <2> QED BY <1>3, <2>1
<1>11. /\ w \in RequestType /\ w.pc = p.pc /\ w.on = p.on /\ w.op = p.op /\ w.img = p.img
       /\ w.mode = p.mode /\ w.asked = p.asked /\ w.proc = p.proc /\ w.held = p.held
       /\ w.reader = p.reader /\ w.got = p.got /\ w.lost = p.lost
       /\ w.said = p.said /\ w.begun = p.begun /\ w.ended = p.ended /\ w.open = p.open
       /\ w.unnamed = p.unnamed /\ w.due = p.due /\ w.good = p.good
       /\ w.works = t /\ w.more = more /\ w.pipe = pipe
  <2> HIDE DEF p
  <2> QED BY <1>1, <1>7, <1>9, ToolType
<1> HIDE DEF w
<1>12. req' = [req EXCEPT ![r] = w] /\ req'[r] = w
  BY <1>10 DEF Set, TypeInv
<1>13. promised' \in 0 .. limit.lines
  BY <1>1, <1>3 DEF Promise
<1> QED BY <1>2, <1>6, <1>7, <1>8, <1>11, <1>12, <1>13 DEF new, pipe

-----------------------------------------------------------------------------
Begins(r, s) == CodexSend(r, s) \/ ClaudeSend(r, s) \/ GeminiSend(r, s)
                \/ CodexRun(r, s) \/ ClaudeRun(r, s) \/ GeminiRun(r, s)

\* The session after BeginRequest.
BeginsOn(s, m) ==
  LET x == sess[s]
      y == Begun(s, m)[s]
  IN
  /\ Begun(s, m) = [sess EXCEPT ![s] = y]
  /\ y \in SessionType /\ y.live = x.live /\ y.thread = x.thread /\ y.ready = x.ready
  /\ y.busy = TRUE /\ y.early = x.early /\ y.answered = x.answered
  /\ y.hist = Appended(x.hist, m) /\ (y.cut <=> x.cut \/ Cuts(x.hist))

\* BeginRequest makes the session busy and appends to its history.
LEMMA BegunFacts ==
  ASSUME TypeInv, SessionInv, NEW s \in Sessions, NEW m \in EntryType
  PROVE  BeginsOn(s, m)
<1> DEFINE x == sess[s]
           h == Appended(x.hist, m)
           cut == x.cut \/ Cuts(x.hist)
           y == [x EXCEPT !.busy = TRUE, !.hist = h, !.cut = cut]
<1>1. /\ x \in SessionType /\ x.hist \in Seq(EntryType) /\ Len(x.hist) <= MaxMessages
      /\ sess \in [Sessions -> SessionType] /\ MaxMessages \in Nat \ {0}
  BY LimitsFacts DEF TypeInv, SessionInv, SessionType
<1>3. h \in Seq(EntryType)
  <2> HIDE DEF x
  <2> QED BY <1>1, AppendedFacts
<1>4. cut \in BOOLEAN
  OBVIOUS
<1> HIDE DEF h, cut
<1>5. /\ y \in SessionType /\ y.live = x.live /\ y.thread = x.thread /\ y.ready = x.ready
      /\ y.busy = TRUE /\ y.early = x.early /\ y.answered = x.answered
      /\ y.hist = h /\ y.cut = cut
  BY <1>1, <1>3, <1>4 DEF SessionType
<1>6. Begun(s, m) = [sess EXCEPT ![s] = y]
  BY <1>1 DEF Begun, h, cut, SessionType
<1> HIDE DEF y
<1>7. Begun(s, m)[s] = y
  BY <1>1, <1>6
<1> QED BY <1>5, <1>6, <1>7 DEF h, cut, BeginsOn

\* A request that begins is the next one, blank, on a session that was not busy.
LEMMA BeginsMoves ==
  ASSUME TypeInv, SessionInv, NEW r \in Requests, NEW s \in Sessions, Begins(r, s)
  PROVE  LET q == req'[r] IN
         /\ r = calls + 1 /\ r <= limit.requests /\ calls' = r
         /\ sess[s].live /\ ~sess[s].busy
         /\ q \in RequestType /\ req' = [req EXCEPT ![r] = q]
         /\ q.pc \in {"running", "returned"} /\ q.on = s /\ Blank(q)
         /\ q.proc \in {"running", "none"}
         /\ \/ /\ q.op = "text" /\ sess' = Begun(s, Entry(r, "user"))
               /\ q.reader = "reading" /\ q.mode = Mode(Begun(s, Entry(r, "user"))[s])
               /\ q.asked = sess[s].thread
               /\ files' = IF q.img THEN files \cup {r} ELSE files
            \/ /\ q.op = "bash" /\ sess' = Begun(s, Entry(r, "bash"))
               /\ q.mode = "none" /\ files' = files /\ ~q.img
         /\ UNCHANGED <<kind, limit, drawn, made, store, promised, adopting, cleaned>>
<1>1. /\ kind \in {"codex", "claude", "gemini"} /\ MaxSessions \in Nat /\ MaxThreads \in Nat
      /\ s \in Nat
  BY LimitsFacts
<1>2. ASSUME NEW img \in BOOLEAN, Send(r, s, img)
      PROVE  LET q == req'[r] IN
             /\ r = calls + 1 /\ r <= limit.requests /\ calls' = r
             /\ sess[s].live /\ ~sess[s].busy
             /\ q \in RequestType /\ req' = [req EXCEPT ![r] = q]
             /\ q.pc \in {"running", "returned"} /\ q.on = s /\ Blank(q)
             /\ q.proc \in {"running", "none"}
             /\ q.op = "text" /\ sess' = Begun(s, Entry(r, "user"))
             /\ q.reader = "reading" /\ q.mode = Mode(Begun(s, Entry(r, "user"))[s])
             /\ q.asked = sess[s].thread
             /\ files' = IF q.img THEN files \cup {r} ELSE files
             /\ UNCHANGED <<kind, limit, drawn, made, store, promised, adopting, cleaned>>
  <2> DEFINE y == Begun(s, Entry(r, "user"))[s]
             mode == Mode(y)
  <2>1. y \in SessionType /\ y.thread = sess[s].thread
    <3>1. Entry(r, "user") \in EntryType
      BY DEF Entry, EntryType
    <3>2. BeginsOn(s, Entry(r, "user"))
      BY <3>1, BegunFacts
    <3> QED BY <3>2 DEF BeginsOn
  <2>2. mode \in {"new", "resume"} /\ y.thread \in SomeThread
    BY <1>1, <2>1 DEF Mode, CodexMode, GeminiMode, ClaudeMode, SessionType
  <2>3. /\ r = calls + 1 /\ r <= limit.requests /\ calls' = r
        /\ sess[s].live /\ ~sess[s].busy /\ sess' = Begun(s, Entry(r, "user"))
        /\ files' = IF img THEN files \cup {r} ELSE files
        /\ UNCHANGED <<kind, limit, drawn, made, store, promised, adopting, cleaned>>
    BY <1>2 DEF Send, StoreImage
  <2> DEFINE started == [Idle EXCEPT !.pc = "running", !.on = s, !.op = "text", !.img = img,
                                     !.mode = mode, !.asked = y.thread, !.proc = "running",
                                     !.reader = "reading"]
  <2>4. Set(r, started) \/ Set(r, [started EXCEPT !.pc = "returned", !.proc = "none"])
    BY <1>2 DEF Send
  <2> HIDE DEF mode, y
  <2>5. /\ started = BeganText(s, img, mode, y.thread, "running", "running")
        /\ [started EXCEPT !.pc = "returned", !.proc = "none"] =
             BeganText(s, img, mode, y.thread, "returned", "none")
    <3>1. Idle \in RequestType
      BY <1>1, BlankTypes
    <3> QED BY <3>1 DEF BeganText, RequestType
  <2> HIDE DEF started
  <2>6. PICK pc \in {"running", "returned"}, proc \in {"running", "none"} :
          Set(r, BeganText(s, img, mode, y.thread, pc, proc))
    BY <2>4, <2>5
  <2> DEFINE w == BeganText(s, img, mode, y.thread, pc, proc)
  <2>7. /\ w \in RequestType /\ w.pc = pc /\ w.on = s /\ w.op = "text" /\ w.img = img
        /\ w.mode = mode /\ w.asked = y.thread /\ w.proc = proc /\ w.reader = "reading"
        /\ Blank(w)
    <3>1. pc \in PcType /\ proc \in ProcType
      BY DEF PcType, ProcType
    <3> QED BY <1>1, <2>2, <3>1, BeganTextType
  <2>8. Set(r, w)
    BY <2>6
  <2> HIDE DEF w
  <2>9. req' = [req EXCEPT ![r] = w] /\ req'[r] = w
    BY <2>8 DEF Set, TypeInv
  <2> QED BY <2>1, <2>3, <2>7, <2>9 DEF mode, y
<1>3. ASSUME RunCommand(r, s)
      PROVE  LET q == req'[r] IN
             /\ r = calls + 1 /\ r <= limit.requests /\ calls' = r
             /\ sess[s].live /\ ~sess[s].busy
             /\ q \in RequestType /\ req' = [req EXCEPT ![r] = q]
             /\ q.pc \in {"running", "returned"} /\ q.on = s /\ Blank(q)
             /\ q.proc \in {"running", "none"}
             /\ q.op = "bash" /\ sess' = Begun(s, Entry(r, "bash"))
             /\ q.mode = "none" /\ files' = files /\ ~q.img
             /\ UNCHANGED <<kind, limit, drawn, made, store, promised, adopting, cleaned>>
  <2>1. /\ r = calls + 1 /\ r <= limit.requests /\ calls' = r
        /\ sess[s].live /\ ~sess[s].busy /\ sess' = Begun(s, Entry(r, "bash"))
        /\ files' = files
        /\ UNCHANGED <<kind, limit, drawn, made, store, promised, adopting, cleaned>>
    BY <1>3 DEF RunCommand
  <2> DEFINE started == [Idle EXCEPT !.pc = "running", !.on = s, !.op = "bash",
                                     !.proc = "running"]
  <2>2. Set(r, started) \/ Set(r, [started EXCEPT !.pc = "returned", !.proc = "none"])
    BY <1>3 DEF RunCommand
  <2>3. /\ started = BeganBash(s, "running", "running")
        /\ [started EXCEPT !.pc = "returned", !.proc = "none"] = BeganBash(s, "returned", "none")
    BY DEF BeganBash, Idle
  <2> HIDE DEF started
  <2>4. PICK pc \in {"running", "returned"}, proc \in {"running", "none"} :
          Set(r, BeganBash(s, pc, proc))
    BY <2>2, <2>3
  <2> DEFINE w == BeganBash(s, pc, proc)
  <2>5. /\ w \in RequestType /\ w.pc = pc /\ w.on = s /\ w.op = "bash" /\ w.img = FALSE
        /\ w.mode = "none" /\ w.proc = proc /\ Blank(w)
    <3>1. pc \in PcType /\ proc \in ProcType
      BY DEF PcType, ProcType
    <3> QED BY <1>1, <3>1, BeganBashType
  <2>6. Set(r, w)
    BY <2>4
  <2> HIDE DEF w
  <2>7. req' = [req EXCEPT ![r] = w] /\ req'[r] = w
    BY <2>6 DEF Set, TypeInv
  <2> QED BY <2>1, <2>5, <2>7
<1>4. (\E img \in BOOLEAN : Send(r, s, img)) \/ RunCommand(r, s)
  BY DEF Begins, CodexSend, ClaudeSend, GeminiSend, CodexRun, ClaudeRun, GeminiRun
<1> QED BY <1>2, <1>3, <1>4

\* What a run's updates do to its session x: the thread, then the reply.
LEMMA RethreadedFacts ==
  ASSUME NEW x \in SessionType, NEW q, Result(q).thread \in SomeThread
  PROVE  LET u == Rethreaded(x, q)
             t == Result(q).thread
         IN
         /\ u \in SessionType /\ u.live = x.live /\ u.busy = x.busy /\ u.hist = x.hist
         /\ u.early = x.early /\ u.answered = x.answered /\ u.cut = x.cut
         /\ u.thread = (IF t = NoThread THEN x.thread ELSE t)
         /\ u.ready <=> x.ready \/ t # NoThread
<1> DEFINE t == Result(q).thread
<1> HIDE DEF t
<1>1. Rethreaded(x, q) = IF t = NoThread THEN x ELSE [x EXCEPT !.thread = t, !.ready = TRUE]
  BY DEF Rethreaded, t
<1>2. t \in SomeThread
  BY DEF t
<1>3. CASE t = NoThread
  BY <1>1, <1>3 DEF t
<1>4. CASE t # NoThread
  BY <1>1, <1>2, <1>4 DEF SessionType, t
<1> QED BY <1>3, <1>4

\* An update appends a message and may record where the reply was said.
Saying(x, m, t) ==
  [x EXCEPT !.hist = Appended(x.hist, m), !.cut = x.cut \/ Cuts(x.hist), !.answered = t]

\* A reply keeps the thread of the session.
LEMMA SayingFacts ==
  ASSUME NEW x \in SessionType, Len(x.hist) <= MaxMessages, MaxMessages \in Nat \ {0},
         NEW m \in EntryType, NEW t \in SomeThread
  PROVE  LET u == Saying(x, m, t) IN
         /\ u \in SessionType /\ u.live = x.live /\ u.busy = x.busy /\ u.thread = x.thread
         /\ u.ready = x.ready /\ u.early = x.early /\ u.answered = t
         /\ u.hist = Appended(x.hist, m) /\ (u.cut <=> x.cut \/ Cuts(x.hist))
<1> DEFINE h == Appended(x.hist, m)
           c == x.cut \/ Cuts(x.hist)
<1>1. h \in Seq(EntryType) /\ c \in BOOLEAN
  <2>1. x.hist \in Seq(EntryType)
    BY DEF SessionType
  <2> QED BY <2>1, AppendedFacts
<1>2. Saying(x, m, t) = [x EXCEPT !.hist = h, !.cut = c, !.answered = t]
  BY DEF Saying
<1> HIDE DEF h, c
<1>3. LET u == Saying(x, m, t) IN
      /\ u \in SessionType /\ u.live = x.live /\ u.busy = x.busy /\ u.thread = x.thread
      /\ u.ready = x.ready /\ u.early = x.early /\ u.answered = t /\ u.hist = h /\ u.cut = c
  BY <1>1, <1>2 DEF SessionType
<1> QED BY <1>3 DEF h, c

\* What Complete does to a session that is still there.
Completion(r, q, x, y) ==
  /\ y \in SessionType /\ y.live /\ y.busy = FALSE /\ y.early = x.early
  /\ \/ /\ q.op = "bash" \/ kind = "claude"
        /\ y.thread = x.thread /\ y.ready = x.ready
     \/ /\ q.op = "text" /\ kind # "claude"
        /\ y.thread = (IF q.got.thread = NoThread THEN x.thread ELSE q.got.thread)
        /\ y.ready <=> x.ready \/ q.got.thread # NoThread
  /\ \/ y.hist = x.hist /\ y.answered = x.answered /\ y.cut = x.cut
     \/ /\ q.op = "bash" /\ y.answered = x.answered
        /\ y.hist = Appended(x.hist, Entry(r, "output")) /\ (y.cut <=> x.cut \/ Cuts(x.hist))
     \/ /\ q.op = "text" /\ Reply(kind, q.got) # <<>>
        /\ y.answered = q.works
        /\ y.hist = Appended(x.hist, Entry(r, "reply")) /\ (y.cut <=> x.cut \/ Cuts(x.hist))

\* The updates that are handed to Complete are such a completion.
LEMMA UpdatedFacts ==
  ASSUME TypeInv, NEW r \in Requests, NEW q \in RequestType, NEW x \in SessionType, x.live,
         Len(x.hist) <= MaxMessages,
         q.op \in {"text", "bash"},
         q.op = "text" /\ kind # "claude" => q.got.thread \in SomeThread
  PROVE  Completion(r, q, x, [Updated(x, r, q) EXCEPT !.busy = FALSE])
<1> DEFINE t == Result(q).thread
           u == Rethreaded(x, q)
           v == Updated(x, r, q)
           y == [v EXCEPT !.busy = FALSE]
<1>1. /\ kind \in {"codex", "claude", "gemini"} /\ MaxMessages \in Nat \ {0}
      /\ q.works \in SomeThread /\ x.answered \in SomeThread /\ NoThread \in SomeThread
  BY LimitsFacts DEF RequestType, SessionType, SomeThread
<1>2. ASSUME NEW is \in {"user", "bash", "reply", "output"}
      PROVE  Entry(r, is) \in EntryType
  BY DEF Entry, EntryType
<1>b. ASSUME NEW w \in SessionType
      PROVE  /\ [w EXCEPT !.busy = FALSE] \in SessionType
             /\ LET z == [w EXCEPT !.busy = FALSE] IN
                /\ z.live = w.live /\ z.thread = w.thread /\ z.ready = w.ready /\ z.busy = FALSE
                /\ z.hist = w.hist /\ z.early = w.early /\ z.answered = w.answered
                /\ z.cut = w.cut
  BY DEF SessionType
<1>3. CASE q.op = "bash"
  <2> DEFINE m == Entry(r, "output")
  <2>1. v = IF ~Result(q).ok THEN x ELSE Saying(x, m, x.answered)
    <3>1. v = IF ~Result(q).ok THEN x
              ELSE [x EXCEPT !.hist = Appended(x.hist, m), !.cut = x.cut \/ Cuts(x.hist)]
      BY <1>3 DEF Updated, CommandUpdate
    <3>2. [x EXCEPT !.hist = Appended(x.hist, m), !.cut = x.cut \/ Cuts(x.hist)] =
            Saying(x, m, x.answered)
      BY DEF Saying, SessionType
    <3> QED BY <3>1, <3>2
  <2>2. CASE v = x
    <3> HIDE DEF v
    <3>1. y \in SessionType /\ y.live = x.live /\ y.thread = x.thread /\ y.ready = x.ready
          /\ y.busy = FALSE
          /\ y.hist = x.hist /\ y.early = x.early /\ y.answered = x.answered /\ y.cut = x.cut
      BY <1>b, <2>2
    <3> HIDE DEF y
    <3>2. Completion(r, q, x, y)
      BY <1>3, <3>1 DEF Completion
    <3> QED BY <3>2 DEF y, v
  <2>3. CASE v = Saying(x, m, x.answered)
    <3>1. m \in EntryType
      BY <1>2
    <3> HIDE DEF v, m
    <3>2. /\ v \in SessionType /\ v.live = x.live /\ v.thread = x.thread /\ v.ready = x.ready
          /\ v.early = x.early /\ v.answered = x.answered
          /\ v.hist = Appended(x.hist, m) /\ (v.cut <=> x.cut \/ Cuts(x.hist))
      <4> DEFINE a == x.answered
      <4>1. a \in SomeThread /\ MaxMessages \in Nat \ {0}
        BY <1>1
      <4>2. v = Saying(x, m, a)
        BY <2>3
      <4> HIDE DEF a
      <4>3. LET w == Saying(x, m, a) IN
            /\ w \in SessionType /\ w.live = x.live /\ w.thread = x.thread /\ w.ready = x.ready
            /\ w.early = x.early /\ w.answered = a
            /\ w.hist = Appended(x.hist, m) /\ (w.cut <=> x.cut \/ Cuts(x.hist))
        BY <3>1, <4>1, SayingFacts
      <4> QED BY <4>2, <4>3 DEF a
    <3>3. y \in SessionType /\ y.live = v.live /\ y.thread = v.thread /\ y.ready = v.ready
          /\ y.busy = FALSE
          /\ y.hist = v.hist /\ y.early = v.early /\ y.answered = v.answered /\ y.cut = v.cut
      BY <1>b, <3>2
    <3> HIDE DEF y
    <3>4. Completion(r, q, x, y)
      BY <1>3, <3>2, <3>3 DEF Completion, m
    <3> QED BY <3>4 DEF y, v
  <2> QED BY <2>1, <2>2, <2>3
<1>4. CASE q.op = "text"
  <2> DEFINE m == Entry(r, "reply")
             w == IF kind = "claude" THEN x ELSE u
  <2>0. q.op # "bash"
    BY <1>4
  <2>1. /\ Result(q).ok => Reply(kind, q.got) # <<>>
        /\ kind # "claude" => t = q.got.thread
    BY <1>1, <1>4, <2>0 DEF Result, RunCodex, RunClaude, RunGemini, Returned
  <2>2. v = Replied(w, r, q)
    BY <1>1, <1>4, <2>0 DEF Updated, CodexUpdate, ClaudeUpdate, GeminiUpdate
  <2> HIDE DEF v
  <2>3. /\ w \in SessionType /\ w.live = x.live /\ w.busy = x.busy /\ w.hist = x.hist
        /\ w.early = x.early /\ w.answered = x.answered /\ w.cut = x.cut
        /\ kind = "claude" => w.thread = x.thread /\ w.ready = x.ready
        /\ kind # "claude" =>
             /\ w.thread = (IF t = NoThread THEN x.thread ELSE t)
             /\ w.ready <=> x.ready \/ t # NoThread
    <3>1. CASE kind = "claude"
      BY <3>1
    <3>2. CASE kind # "claude"
      <4>1. t \in SomeThread
        BY <1>4, <2>1, <3>2
      <4>2. /\ u \in SessionType /\ u.live = x.live /\ u.busy = x.busy /\ u.hist = x.hist
            /\ u.early = x.early /\ u.answered = x.answered /\ u.cut = x.cut
            /\ u.thread = (IF t = NoThread THEN x.thread ELSE t)
            /\ u.ready <=> x.ready \/ t # NoThread
        BY <4>1, RethreadedFacts
      <4> HIDE DEF u, t
      <4> QED BY <3>2, <4>2
    <3> QED BY <3>1, <3>2
  <2>4. v = IF ~Result(q).ok THEN w ELSE Saying(w, m, q.works)
    BY <2>2 DEF Replied, Saying
  <2>5. CASE ~Result(q).ok
    <3>1. v = w
      BY <2>4, <2>5
    <3> HIDE DEF w, t
    <3>2. y \in SessionType /\ y.live = w.live /\ y.thread = w.thread /\ y.ready = w.ready
          /\ y.busy = FALSE
          /\ y.hist = w.hist /\ y.early = w.early /\ y.answered = w.answered /\ y.cut = w.cut
      <4>1. v \in SessionType
        BY <2>3, <3>1
      <4>2. y \in SessionType /\ y.live = v.live /\ y.thread = v.thread /\ y.ready = v.ready
            /\ y.busy = FALSE
            /\ y.hist = v.hist /\ y.early = v.early /\ y.answered = v.answered
            /\ y.cut = v.cut
        BY <1>b, <4>1
      <4> QED BY <3>1, <4>2
    <3> HIDE DEF y
    <3>3. Completion(r, q, x, y)
      BY <1>4, <2>1, <2>3, <3>2 DEF Completion
    <3> QED BY <3>3 DEF y, v
  <2>6. CASE Result(q).ok
    <3>1. v = Saying(w, m, q.works) /\ m \in EntryType
      BY <1>2, <2>4, <2>6
    <3> HIDE DEF w, t, m
    <3>2. /\ v \in SessionType /\ v.live = w.live /\ v.thread = w.thread /\ v.ready = w.ready
          /\ v.early = w.early /\ v.answered = q.works
          /\ v.hist = Appended(w.hist, m) /\ (v.cut <=> w.cut \/ Cuts(w.hist))
      BY <1>1, <2>3, <3>1, SayingFacts
    <3>3. y \in SessionType /\ y.live = v.live /\ y.thread = v.thread /\ y.ready = v.ready
          /\ y.busy = FALSE
          /\ y.hist = v.hist /\ y.early = v.early /\ y.answered = v.answered /\ y.cut = v.cut
      BY <1>b, <3>2
    <3> HIDE DEF y
    <3>4. /\ y \in SessionType /\ y.live /\ y.busy = FALSE /\ y.early = x.early
          /\ y.answered = q.works /\ Reply(kind, q.got) # <<>>
          /\ y.hist = Appended(x.hist, Entry(r, "reply")) /\ (y.cut <=> x.cut \/ Cuts(x.hist))
      BY <2>1, <2>3, <2>6, <3>2, <3>3 DEF m
    <3>5. \/ /\ q.op = "bash" \/ kind = "claude"
             /\ y.thread = x.thread /\ y.ready = x.ready
          \/ /\ q.op = "text" /\ kind # "claude"
             /\ y.thread = (IF q.got.thread = NoThread THEN x.thread ELSE q.got.thread)
             /\ y.ready <=> x.ready \/ q.got.thread # NoThread
      BY <1>4, <2>1, <2>3, <3>2, <3>3
    <3>6. Completion(r, q, x, y)
      BY <1>4, <3>4, <3>5 DEF Completion
    <3> QED BY <3>6 DEF y, v
  <2> QED BY <2>5, <2>6
<1> QED BY <1>3, <1>4

\* What Complete does to the request and to its session.
LEMMA CompleteMoves ==
  ASSUME TypeInv, SessionInv, RequestInv, ReadingInv, NEW r \in Requests, Complete(r)
  PROVE  LET p == req[r]
             q == req'[r]
             s == p.on
         IN
         /\ p.pc = "returned" /\ p.op \in {"text", "bash"} /\ s \in Sessions
         /\ q \in RequestType /\ req' = [req EXCEPT ![r] = q]
         /\ q.pc = "completed" /\ q.on = s /\ q.img = p.img /\ q.mode = "none" /\ Blank(q)
         /\ sess[s].live => /\ sess' = [sess EXCEPT ![s] = sess'[s]]
                            /\ Completion(r, p, sess[s], sess'[s])
         /\ ~sess[s].live => sess' = sess
         /\ UNCHANGED <<kind, limit, drawn, made, store, calls, promised, files, adopting,
                        cleaned>>
<1> DEFINE p == req[r]
           s == p.on
<1>1. /\ p \in RequestType /\ p.got \in ParserType /\ p.works \in SomeThread
      /\ p.img \in BOOLEAN /\ p.on \in Nat
      /\ sess \in [Sessions -> SessionType] /\ kind \in {"codex", "claude", "gemini"}
      /\ MaxSessions \in Nat /\ MaxThreads \in Nat /\ drawn \in 0 .. MaxSessions
  BY LimitsFacts DEF TypeInv, RequestType
<1>2. p.pc = "returned"
  BY DEF Complete
<1>3. Active(r)
  BY <1>2 DEF Active
<1>4. p.op \in {"text", "bash"} /\ s \in 1 .. drawn
  BY <1>2, <1>3 DEF RequestInv
<1>5. s \in Sessions
  BY <1>1, <1>4 DEF Sessions
<1>6. UNCHANGED <<kind, limit, drawn, made, store, calls, promised, files, adopting, cleaned>>
  BY DEF Complete
<1>7. PICK good \in BOOLEAN : Set(r, Completed(s, p.img, good))
  <2>1. PICK saved \in BOOLEAN :
          Set(r, [Idle EXCEPT !.pc = "completed", !.on = s, !.img = p.img,
                              !.good = saved /\ Result(p).ok /\ sess[s].live])
    BY DEF Complete
  <2> DEFINE good == saved /\ Result(p).ok /\ sess[s].live
  <2>2. good \in BOOLEAN
    OBVIOUS
  <2>3. Set(r, Completed(s, p.img, good))
    BY <2>1 DEF Completed
  <2> HIDE DEF good
  <2> QED BY <2>2, <2>3
<1> DEFINE w == Completed(s, p.img, good)
<1>8. /\ w \in RequestType /\ w.pc = "completed" /\ w.on = s /\ w.img = p.img
      /\ w.mode = "none" /\ Blank(w)
  BY <1>1, CompletedType
<1>9. Set(r, w)
  BY <1>7
<1> HIDE DEF w
<1>10. req' = [req EXCEPT ![r] = w] /\ req'[r] = w
  BY <1>9 DEF Set, TypeInv
<1>11. sess' = IF sess[s].live
               THEN [sess EXCEPT ![s] = [Updated(sess[s], r, p) EXCEPT !.busy = FALSE]]
               ELSE sess
  BY <1>1, <1>5 DEF Complete
<1>12. p.op = "text" /\ kind # "claude" => p.got.thread \in SomeThread
  <2>1. ASSUME p.op = "text", kind # "claude" PROVE p.got.thread \in SomeThread
    <3>1. Talks(r)
      BY <1>3, <2>1 DEF Talks
    <3>2. /\ ~p.got.raw => p.got = NewParser
          /\ p.got.raw => p.got.thread = p.works
      BY <2>1, <3>1 DEF ReadingInv
    <3> QED BY <1>1, <3>2, BlankTypes DEF SomeThread
  <2> QED BY <2>1
<1>13. ASSUME sess[s].live
       PROVE  /\ sess' = [sess EXCEPT ![s] = sess'[s]]
              /\ Completion(r, p, sess[s], sess'[s])
  <2> DEFINE x == sess[s]
             y == [Updated(x, r, p) EXCEPT !.busy = FALSE]
  <2>1. x \in SessionType /\ Len(x.hist) <= MaxMessages
    BY <1>1, <1>5 DEF SessionInv
  <2>2. Completion(r, p, x, y)
    <3>1. x.live
      BY <1>13
    <3> HIDE DEF x, p
    <3> QED BY <1>1, <1>4, <1>12, <2>1, <3>1, UpdatedFacts
  <2>3. sess' = [sess EXCEPT ![s] = y]
    BY <1>11, <1>13
  <2> HIDE DEF y
  <2>4. sess'[s] = y
    BY <1>1, <1>5, <2>3
  <2> QED BY <2>2, <2>3, <2>4
<1> QED BY <1>2, <1>4, <1>5, <1>6, <1>8, <1>10, <1>11, <1>13

\* What Respond does.
LEMMA RespondMoves ==
  ASSUME TypeInv, NEW r \in Requests, Respond(r)
  PROVE  LET p == req[r]
             q == req'[r]
         IN
         /\ p.pc = "completed" /\ q \in RequestType /\ req' = [req EXCEPT ![r] = q]
         /\ q.on = p.on /\ q.img = p.img /\ q.mode = p.mode /\ q.works = p.works
         /\ q.pipe = p.pipe /\ q.op = p.op
         /\ \/ q.pc = "answered" /\ files' = files
            \/ q.pc = "refused" /\ files' = files \ {r}
         /\ UNCHANGED <<kind, limit, drawn, sess, made, store, calls, promised, adopting, cleaned>>
<1> DEFINE p == req[r]
<1>1. p \in RequestType
  BY DEF TypeInv
<1>2. PICK pc \in {"answered", "refused"} :
        /\ Set(r, Answered(p, pc))
        /\ files' = IF pc = "answered" THEN files ELSE files \ {r}
  <2>1. CASE p.good /\ sess[p.on].live
    <3>1. Set(r, Answered(p, "answered")) /\ files' = files
      BY <2>1 DEF Respond, Answered
    <3> QED BY <3>1
  <2>2. CASE ~(p.good /\ sess[p.on].live)
    <3>1. Set(r, Answered(p, "refused")) /\ files' = files \ {r}
      BY <2>2 DEF Respond, Answered, Cleanup
    <3> QED BY <3>1
  <2> QED BY <2>1, <2>2
<1> DEFINE w == Answered(p, pc)
<1>3. /\ w \in RequestType /\ w.pc = pc /\ w.on = p.on /\ w.img = p.img /\ w.mode = p.mode
      /\ w.works = p.works /\ w.pipe = p.pipe /\ w.op = p.op
  <2>1. pc \in PcType
    BY DEF PcType
  <2> QED BY <1>1, <2>1, AnsweredType
<1>4. Set(r, w)
  BY <1>2
<1> HIDE DEF w
<1>5. req' = [req EXCEPT ![r] = w] /\ req'[r] = w
  BY <1>4 DEF Set, TypeInv
<1>6. /\ p.pc = "completed"
      /\ UNCHANGED <<kind, limit, drawn, sess, made, store, calls, promised, adopting, cleaned>>
  BY DEF Respond
<1> QED BY <1>2, <1>3, <1>5, <1>6

-----------------------------------------------------------------------------
(* The steps, by what they do.                                             *)

Moves(r) ==
  ToolWrites(r) \/ ProcessStep(r) \/ ReadLine(r) \/ WaitReturns(r) \/ OutputReturns(r)

\* These leave session, thread and mode alone.
LEMMA MovesProceed ==
  ASSUME TypeInv, NEW r \in Requests, Moves(r)
  PROVE  Proceeds(r)
BY ToolWritesMoves, ProcessMoves, ReadLineMoves, ReturnMoves DEF Moves

StepCases ==
  \/ CreateSession \/ LocalThread
  \/ \E a \in Adopters : AdoptLists(a) \/ AdoptCreates(a)
  \/ \E s \in Sessions : DeleteSession(s) \/ DeleteCleans(s)
  \/ \E r \in Requests, s \in Sessions : Begins(r, s)
  \/ \E r \in Requests : ToolStarts(r) \/ Complete(r) \/ Respond(r) \/ Moves(r)

\* Next, in the order in which the proofs split it.
LEMMA NextIsCases ==
  ASSUME Next
  PROVE  StepCases
<1>1. ASSUME NEW r \in Requests, ToolStep(r) \/ World(r) \/ CallStep(r)
      PROVE  ToolStarts(r) \/ Complete(r) \/ Respond(r) \/ Moves(r)
  BY <1>1 DEF ToolStep, World, CallStep, Moves, ProcessStep
<1>2. ASSUME NEW s \in Sessions, SessionStep(s)
      PROVE  DeleteSession(s) \/ DeleteCleans(s) \/ \E r \in Requests : Begins(r, s)
  BY <1>2 DEF SessionStep, Begins
<1>3. CASE \E s \in Sessions : SessionStep(s)
  BY <1>2, <1>3 DEF StepCases
<1>4. CASE \E r \in Requests : ToolStep(r) \/ World(r) \/ CallStep(r)
  BY <1>1, <1>4 DEF StepCases
<1> QED BY <1>3, <1>4 DEF Next, StepCases

\* A new session has the next number; what it looks like.
LEMMA NewSessionFacts ==
  ASSUME TypeInv, drawn < limit.sessions, NEW t \in Threads, NEW ready \in BOOLEAN,
         NEW early \in BOOLEAN
  PROVE  LET x == Fresh(t, ready, early) IN
         /\ drawn + 1 \in Sessions /\ drawn + 1 \in 0 .. limit.sessions
         /\ x \in SessionType /\ x.live /\ x.thread = t /\ x.ready = ready /\ x.early = early
         /\ x.busy = FALSE /\ x.hist = <<>> /\ x.answered = NoThread /\ x.cut = FALSE
         /\ t # NoThread
<1>1. drawn + 1 \in Sessions /\ drawn + 1 \in 0 .. limit.sessions
  BY LimitsFacts DEF Sessions, TypeInv
<1>2. Fresh(t, ready, early) \in SessionType
  BY LimitsFacts, BlankTypes DEF SomeThread
<1>3. t # NoThread
  BY LimitsFacts DEF Threads, NoThread
<1> QED BY <1>1, <1>2, <1>3 DEF Fresh, Absent

-----------------------------------------------------------------------------
\* Every step keeps the types.
LEMMA TypeStep ==
  ASSUME Inv, Next
  PROVE  TypeInv'
<1>1. /\ TypeInv /\ SessionInv /\ RequestInv /\ RunInv /\ ReadingInv /\ StoreInv
  BY DEF Inv
<1>2. /\ MaxSessions \in Nat /\ MaxThreads \in Nat /\ MaxRequests \in Nat
      /\ limit.sessions \in 0 .. MaxSessions /\ limit.requests \in 0 .. MaxRequests
      /\ drawn \in 0 .. MaxSessions /\ Sessions \subseteq Threads
  BY <1>1, LimitsFacts
<1>3. CASE CreateSession
  <2>1. drawn + 1 \in Sessions /\ drawn + 1 \in 0 .. limit.sessions
        /\ Fresh(drawn + 1, FALSE, FALSE) \in SessionType
    <3>1. drawn + 1 \in Threads /\ drawn < limit.sessions
      BY <1>2, <1>3 DEF CreateSession, Threads
    <3>2. FALSE \in BOOLEAN
      OBVIOUS
    <3> QED BY <1>1, <3>1, <3>2, NewSessionFacts, Zenon
  <2> QED BY <1>1, <1>3, <2>1 DEF CreateSession, TypeInv
<1>4. CASE LocalThread
  <2>1. MaxSessions + made + 1 \in Threads /\ made + 1 \in 0 .. MaxThreads
    BY <1>1, <1>2, <1>4 DEF LocalThread, Threads, TypeInv
  <2> QED BY <1>1, <1>4, <2>1 DEF LocalThread, TypeInv
<1>5. ASSUME NEW a \in Adopters, AdoptLists(a)
      PROVE  TypeInv'
  <2>1. PICK t \in Adoptable : adopting' = [adopting EXCEPT ![a] = t]
    BY <1>5 DEF AdoptLists
  <2>2. t \in SomeThread
    BY <1>1 DEF Adoptable, SomeThread, TypeInv
  <2> QED BY <1>1, <1>5, <2>1, <2>2 DEF AdoptLists, TypeInv
<1>6. ASSUME NEW a \in Adopters, AdoptCreates(a)
      PROVE  TypeInv'
  <2> DEFINE t == adopting[a]
             early == \E r \in Requests : req[r].pc \in {"running", "returned"} /\ req[r].works = t
  <2>1. t \in Threads
    BY <1>1, <1>6 DEF AdoptCreates, TypeInv, SomeThread
  <2>2. early \in BOOLEAN
    OBVIOUS
  <2>3. /\ drawn < limit.sessions
        /\ adopting' = [adopting EXCEPT ![a] = NoThread]
        /\ \/ /\ drawn' = drawn + 1
              /\ sess' = [sess EXCEPT ![drawn + 1] = Fresh(t, TRUE, early)]
           \/ UNCHANGED <<drawn, sess>>
        /\ UNCHANGED <<kind, limit, made, store, calls, req, promised, files, cleaned>>
    BY <1>6 DEF AdoptCreates
  <2> HIDE DEF t, early
  <2>4. /\ drawn + 1 \in Sessions /\ drawn + 1 \in 0 .. limit.sessions
        /\ Fresh(t, TRUE, early) \in SessionType
    BY <1>1, <2>1, <2>2, <2>3, NewSessionFacts
  <2>5. NoThread \in SomeThread
    BY DEF SomeThread
  <2> QED BY <1>1, <2>3, <2>4, <2>5 DEF TypeInv
<1>7. ASSUME NEW s \in Sessions, DeleteSession(s)
      PROVE  TypeInv'
  <2>1. Absent \in SessionType
    BY <1>2, BlankTypes
  <2> QED BY <1>1, <1>7, <2>1 DEF DeleteSession, TypeInv
<1>8. ASSUME NEW s \in Sessions, DeleteCleans(s)
      PROVE  TypeInv'
  BY <1>1, <1>8 DEF DeleteCleans, TypeInv
<1>9. ASSUME NEW r \in Requests, NEW s \in Sessions, Begins(r, s)
      PROVE  TypeInv'
  <2>1. \A is \in {"user", "bash"} : Begun(s, Entry(r, is)) \in [Sessions -> SessionType]
    <3>1. ASSUME NEW is \in {"user", "bash"}
          PROVE  BeginsOn(s, Entry(r, is))
      <4>1. Entry(r, is) \in EntryType
        BY DEF Entry, EntryType
      <4> QED BY <1>1, <4>1, BegunFacts
    <3> QED BY <1>1, <3>1 DEF TypeInv, BeginsOn
  <2>2. /\ r <= limit.requests /\ calls' = r
        /\ req'[r] \in RequestType /\ req' = [req EXCEPT ![r] = req'[r]]
        /\ \E is \in {"user", "bash"} : sess' = Begun(s, Entry(r, is))
        /\ files' = files \/ files' = files \cup {r}
        /\ UNCHANGED <<kind, limit, drawn, made, store, promised, adopting, cleaned>>
    BY <1>1, <1>9, BeginsMoves, Zenon
  <2>3. calls' \in 0 .. limit.requests
    BY <1>2, <2>2 DEF Requests
  <2> QED BY <1>1, <2>1, <2>2, <2>3 DEF TypeInv
<1>10. ASSUME NEW r \in Requests, ToolStarts(r)
       PROVE  TypeInv'
  <2>1. /\ req'[r] \in RequestType /\ req' = [req EXCEPT ![r] = req'[r]]
        /\ req'[r].works \in Threads /\ store' = store \cup {req'[r].works}
        /\ made' = made \/ (made < MaxThreads /\ made' = made + 1)
        /\ promised' \in 0 .. limit.lines
        /\ UNCHANGED <<kind, limit, drawn, sess, calls, files, adopting, cleaned>>
    BY <1>1, <1>10, ToolStartsMoves
  <2> QED BY <1>1, <1>2, <2>1 DEF TypeInv
<1>11. ASSUME NEW r \in Requests, Complete(r)
       PROVE  TypeInv'
  <2> DEFINE s == req[r].on
  <2>1. /\ s \in Sessions
        /\ req'[r] \in RequestType /\ req' = [req EXCEPT ![r] = req'[r]]
        /\ sess[s].live => /\ sess' = [sess EXCEPT ![s] = sess'[s]]
                           /\ Completion(r, req[r], sess[s], sess'[s])
        /\ ~sess[s].live => sess' = sess
        /\ UNCHANGED <<kind, limit, drawn, made, store, calls, promised, files, adopting, cleaned>>
    BY <1>1, <1>11, CompleteMoves
  <2>2. sess' \in [Sessions -> SessionType]
    BY <1>1, <2>1 DEF Completion, TypeInv
  <2> QED BY <1>1, <2>1, <2>2 DEF TypeInv
<1>12. ASSUME NEW r \in Requests, Respond(r)
       PROVE  TypeInv'
  <2>1. /\ req'[r] \in RequestType /\ req' = [req EXCEPT ![r] = req'[r]]
        /\ files' = files \/ files' = files \ {r}
        /\ UNCHANGED <<kind, limit, drawn, sess, made, store, calls, promised, adopting, cleaned>>
    BY <1>1, <1>12, RespondMoves
  <2> QED BY <1>1, <2>1 DEF TypeInv
<1>13. ASSUME NEW r \in Requests, Moves(r)
       PROVE  TypeInv'
  <2>1. Proceeds(r)
    BY <1>1, <1>13, MovesProceed
  <2> QED BY <1>1, <2>1 DEF Proceeds, TypeInv
<1>14. StepCases
  BY NextIsCases
<1> QED
  BY <1>3, <1>4, <1>5, <1>6, <1>7, <1>8, <1>9, <1>10, <1>11, <1>12, <1>13, <1>14 DEF StepCases

\* Steps within a run, seen from all requests.
LEMMA ProceedsFacts ==
  ASSUME TypeInv, NEW r \in Requests, Proceeds(r), NEW q \in Requests
  PROVE  /\ SameRun(req[q], req'[q])
         /\ Active(q)' <=> Active(q)
         /\ Talks(q)' <=> Talks(q)
         /\ First(q)' <=> First(q)
<1>1. req'[q] = IF q = r THEN req'[r] ELSE req[q]
  BY DEF Proceeds, TypeInv
<1>2. SameRun(req[q], req'[q])
  BY <1>1 DEF Proceeds, SameRun
<1>3. kind' = kind
  BY DEF Proceeds
<1> QED BY <1>2, <1>3 DEF SameRun, Active, Talks, First

-----------------------------------------------------------------------------
(* Sessions.                                                               *)

\* SessionInv for one session x with number s.
SessionOk(s, x) ==
  /\ Len(x.hist) <= MaxMessages
  /\ ~x.live => x = Absent
  /\ x.live => s <= drawn /\ x.thread # NoThread /\ (x.ready \/ x.thread = s)
  /\ x.ready => kind # "claude" /\ x.thread > MaxSessions /\ x.thread \in store
  /\ x.answered # NoThread =>
       /\ x.thread = x.answered
       /\ IF kind = "claude" THEN x.cut \/ HasAssistantReply(x.hist) ELSE x.ready
  /\ kind = "claude" /\ HasAssistantReply(x.hist) => x.thread \in store

\* The invariant of all sessions is that of each.
LEMMA SessionInvParts == SessionInv <=> \A s \in Sessions : SessionOk(s, sess[s])
BY DEF SessionInv, SessionOk

\* A session that nothing is done to.
LEMMA SessionStays ==
  ASSUME NEW s \in Sessions, SessionOk(s, sess[s]), sess'[s] = sess[s], kind' = kind,
         drawn \in Nat, drawn' = drawn \/ drawn' = drawn + 1, store \subseteq store',
         MaxSessions \in Nat
  PROVE  SessionOk(s, sess[s])'
<1>1. s \in Nat
  BY DEF Sessions
<1> QED BY <1>1 DEF SessionOk

\* A message that is appended keeps the last reply, unless it cuts the history.
LEMMA RepliesStay ==
  ASSUME NEW h \in Seq(EntryType), Len(h) <= MaxMessages, NEW m \in EntryType,
         MaxMessages \in Nat \ {0}
  PROVE  /\ HasAssistantReply(Appended(h, m)) => m.is = "reply" \/ HasAssistantReply(h)
         /\ m.is = "reply" => HasAssistantReply(Appended(h, m))
         /\ HasAssistantReply(h) => HasAssistantReply(Appended(h, m)) \/ Cuts(h)
         /\ Len(Appended(h, m)) <= MaxMessages
<1> DEFINE a == Appended(h, m)
<1>1. /\ Len(a) <= MaxMessages
      /\ \A i \in DOMAIN a : a[i] = m \/ \E j \in DOMAIN h : h[j] = a[i]
      /\ \E i \in DOMAIN a : a[i] = m
      /\ ~Cuts(h) => \A j \in DOMAIN h : \E i \in DOMAIN a : a[i] = h[j]
  BY AppendedFacts
<1> HIDE DEF a
<1>2. HasAssistantReply(a) => m.is = "reply" \/ HasAssistantReply(h)
  BY <1>1 DEF HasAssistantReply
<1>3. m.is = "reply" => HasAssistantReply(a)
  BY <1>1 DEF HasAssistantReply
<1>4. HasAssistantReply(h) => HasAssistantReply(a) \/ Cuts(h)
  BY <1>1 DEF HasAssistantReply
<1> QED BY <1>1, <1>2, <1>3, <1>4 DEF a

\* Every step keeps what is said of sessions: the interesting ones are Complete, which sets
\* the thread and what was answered, and DeleteSession.
LEMMA SessionInvStep ==
  ASSUME Inv, Next
  PROVE  SessionInv'
<1>1. /\ TypeInv /\ SessionInv /\ RequestInv /\ RunInv /\ ReadingInv /\ StoreInv /\ BusyInv
  BY DEF Inv
<1>2. /\ MaxSessions \in Nat /\ MaxThreads \in Nat /\ MaxMessages \in Nat \ {0}
      /\ drawn \in Nat /\ made \in Nat /\ Sessions \subseteq Nat
      /\ sess \in [Sessions -> SessionType] /\ kind \in {"codex", "claude", "gemini"}
  BY <1>1, LimitsFacts DEF TypeInv
<1>3. \A s \in Sessions : SessionOk(s, sess[s])
  BY <1>1, SessionInvParts
<1>s. SUFFICES \A s \in Sessions : SessionOk(s, sess[s])'
  BY DEF SessionInv, SessionOk
<1>4. CASE CreateSession
  <2>1. drawn + 1 \in Sessions /\ Sessions \subseteq Threads /\ drawn < limit.sessions
    BY <1>1, <1>4, LimitsFacts DEF CreateSession, Sessions
  <2>n. PICK n \in Sessions : n = drawn + 1
    BY <2>1
  <2> DEFINE x == Fresh(n, FALSE, FALSE)
  <2>2. /\ x.live /\ x.thread = n /\ x.ready = FALSE /\ x.hist = <<>>
        /\ x.answered = NoThread
    BY DEF Fresh, Absent
  <2>3. ~HasAssistantReply(<<>>) /\ Len(<<>>) = 0
    BY DEF HasAssistantReply
  <2>4. drawn' = n /\ sess' = [sess EXCEPT ![n] = x] /\ UNCHANGED <<kind, store>>
    BY <1>4, <2>n DEF CreateSession
  <2> HIDE DEF x
  <2>5. SessionOk(n, sess[n])'
    BY <1>2, <2>n, <2>2, <2>3, <2>4 DEF SessionOk, NoThread
  <2>6. ASSUME NEW s \in Sessions, s # n PROVE SessionOk(s, sess[s])'
    <3>1. sess'[s] = sess[s] /\ drawn' = drawn + 1 /\ kind' = kind /\ store \subseteq store'
      BY <1>2, <2>n, <2>4, <2>6
    <3> QED BY <1>2, <1>3, <3>1, SessionStays
  <2> QED BY <2>5, <2>6
<1>5. CASE LocalThread
  <2>1. ASSUME NEW s \in Sessions PROVE SessionOk(s, sess[s])'
    <3>1. sess'[s] = sess[s] /\ drawn' = drawn /\ kind' = kind /\ store \subseteq store'
      BY <1>5 DEF LocalThread
    <3> QED BY <1>2, <1>3, <3>1, SessionStays
  <2> QED BY <2>1
<1>6. ASSUME NEW a \in Adopters, AdoptLists(a)
      PROVE  \A s \in Sessions : SessionOk(s, sess[s])'
  <2>1. ASSUME NEW s \in Sessions PROVE SessionOk(s, sess[s])'
    <3>1. sess'[s] = sess[s] /\ drawn' = drawn /\ kind' = kind /\ store \subseteq store'
      BY <1>6 DEF AdoptLists
    <3> QED BY <1>2, <1>3, <3>1, SessionStays
  <2> QED BY <2>1
<1>7. ASSUME NEW a \in Adopters, AdoptCreates(a)
      PROVE  \A s \in Sessions : SessionOk(s, sess[s])'
  <2> DEFINE t == adopting[a]
             early == \E r \in Requests : req[r].pc \in {"running", "returned"} /\ req[r].works = t
             x == Fresh(t, TRUE, early)
  <2>1. t # NoThread /\ kind = "codex" /\ t \in store /\ t > MaxSessions
    BY <1>1, <1>7 DEF AdoptCreates, StoreInv
  <2>2. CASE UNCHANGED <<drawn, sess>>
    <3>1. ASSUME NEW s \in Sessions PROVE SessionOk(s, sess[s])'
      <4>1. sess'[s] = sess[s] /\ drawn' = drawn /\ kind' = kind /\ store \subseteq store'
        BY <1>7, <2>2 DEF AdoptCreates
      <4> QED BY <1>2, <1>3, <4>1, SessionStays
    <3> QED BY <3>1
  <2>3. CASE drawn' = drawn + 1 /\ sess' = [sess EXCEPT ![drawn + 1] = x]
    <3>1. UNCHANGED <<kind, store>> /\ drawn + 1 \in Sessions
      BY <1>1, <1>7, LimitsFacts DEF AdoptCreates, Sessions
    <3>n. PICK n \in Sessions : n = drawn + 1
      BY <3>1
    <3>2. /\ x.live /\ x.thread = t /\ x.ready = TRUE /\ x.hist = <<>>
          /\ x.answered = NoThread
      BY DEF Fresh, Absent
    <3>3. ~HasAssistantReply(<<>>) /\ Len(<<>>) = 0
      BY DEF HasAssistantReply
    <3> HIDE DEF x, t
    <3>4. SessionOk(n, sess[n])'
      BY <1>2, <2>1, <2>3, <3>n, <3>1, <3>2, <3>3 DEF SessionOk, NoThread
    <3>5. ASSUME NEW s \in Sessions, s # n PROVE SessionOk(s, sess[s])'
      <4>1. sess'[s] = sess[s] /\ drawn' = drawn + 1 /\ kind' = kind /\ store \subseteq store'
        BY <1>2, <2>3, <3>n, <3>1, <3>5
      <4> QED BY <1>2, <1>3, <4>1, SessionStays
    <3> QED BY <3>4, <3>5
  <2> QED BY <1>7, <2>2, <2>3 DEF AdoptCreates
<1>8. ASSUME NEW d \in Sessions, DeleteSession(d)
      PROVE  \A s \in Sessions : SessionOk(s, sess[s])'
  <2>1. sess' = [sess EXCEPT ![d] = Absent] /\ UNCHANGED <<kind, drawn, store>>
    BY <1>8 DEF DeleteSession
  <2>2. /\ ~Absent.live /\ ~Absent.ready /\ Absent.hist = <<>> /\ Absent.answered = NoThread
        /\ ~HasAssistantReply(<<>>) /\ Len(<<>>) = 0
    BY DEF Absent, HasAssistantReply
  <2>3. SessionOk(d, sess[d])'
    BY <1>2, <2>1, <2>2 DEF SessionOk
  <2>4. ASSUME NEW s \in Sessions, s # d PROVE SessionOk(s, sess[s])'
    <3>1. sess'[s] = sess[s] /\ drawn' = drawn /\ kind' = kind /\ store \subseteq store'
      BY <1>2, <2>1, <2>4
    <3> QED BY <1>2, <1>3, <3>1, SessionStays
  <2> QED BY <2>3, <2>4
<1>9. ASSUME NEW d \in Sessions, DeleteCleans(d)
      PROVE  \A s \in Sessions : SessionOk(s, sess[s])'
  <2>1. ASSUME NEW s \in Sessions PROVE SessionOk(s, sess[s])'
    <3>1. sess'[s] = sess[s] /\ drawn' = drawn /\ kind' = kind /\ store \subseteq store'
      BY <1>9 DEF DeleteCleans
    <3> QED BY <1>2, <1>3, <3>1, SessionStays
  <2> QED BY <2>1
<1>10. ASSUME NEW r \in Requests, NEW b \in Sessions, Begins(r, b)
       PROVE  \A s \in Sessions : SessionOk(s, sess[s])'
  <2>1. /\ sess[b].live /\ UNCHANGED <<kind, drawn, store>>
        /\ \/ sess' = Begun(b, Entry(r, "user"))
           \/ sess' = Begun(b, Entry(r, "bash"))
    BY <1>1, <1>10, BeginsMoves
  <2>2. PICK m \in {Entry(r, "user"), Entry(r, "bash")} : sess' = Begun(b, m)
    BY <2>1
  <2>3. m \in EntryType /\ m.is # "reply"
    BY DEF Entry, EntryType
  <2>4. BeginsOn(b, m)
    BY <1>1, <2>3, BegunFacts
  <2> DEFINE x == sess[b]
             y == sess'[b]
  <2>5. /\ sess' = [sess EXCEPT ![b] = y]
        /\ y.live = x.live /\ y.thread = x.thread /\ y.ready = x.ready
        /\ y.answered = x.answered
        /\ y.hist = Appended(x.hist, m) /\ (y.cut <=> x.cut \/ Cuts(x.hist))
    BY <2>2, <2>4 DEF BeginsOn
  <2>6. SessionOk(b, x) /\ x.hist \in Seq(EntryType) /\ x.live
    BY <1>2, <1>3, <2>1 DEF SessionType
  <2> HIDE DEF x, y
  <2>7. Len(x.hist) <= MaxMessages
    BY <2>6 DEF SessionOk
  <2>8. /\ HasAssistantReply(y.hist) => HasAssistantReply(x.hist)
        /\ HasAssistantReply(x.hist) => HasAssistantReply(y.hist) \/ Cuts(x.hist)
        /\ Len(y.hist) <= MaxMessages
    BY <1>2, <2>3, <2>5, <2>6, <2>7, RepliesStay
  <2>9. SessionOk(b, y)
    BY <2>5, <2>6, <2>8 DEF SessionOk
  <2>10. SessionOk(b, sess[b])'
    BY <2>1, <2>9 DEF SessionOk, y
  <2>11. ASSUME NEW s \in Sessions, s # b PROVE SessionOk(s, sess[s])'
    <3>1. sess'[s] = sess[s] /\ drawn' = drawn /\ kind' = kind /\ store \subseteq store'
      BY <1>2, <2>1, <2>5, <2>11
    <3> QED BY <1>2, <1>3, <3>1, SessionStays
  <2> QED BY <2>10, <2>11
<1>11. ASSUME NEW r \in Requests, ToolStarts(r)
       PROVE  \A s \in Sessions : SessionOk(s, sess[s])'
  <2>0. /\ store' = store \cup {req'[r].works} /\ UNCHANGED <<kind, drawn, sess>>
    BY <1>1, <1>11, ToolStartsMoves
  <2>1. ASSUME NEW s \in Sessions PROVE SessionOk(s, sess[s])'
    <3>1. sess'[s] = sess[s] /\ drawn' = drawn /\ kind' = kind /\ store \subseteq store'
      BY <2>0
    <3> QED BY <1>2, <1>3, <3>1, SessionStays
  <2> QED BY <2>1
<1>12. ASSUME NEW r \in Requests, Complete(r)
       PROVE  \A s \in Sessions : SessionOk(s, sess[s])'
  <2> DEFINE p == req[r]
  <2>c. PICK c \in Sessions : c = p.on
    BY <1>1, <1>12, CompleteMoves
  <2> DEFINE x == sess[c]
             y == sess'[c]
  <2>1. /\ p.pc = "returned" /\ p.op \in {"text", "bash"} /\ c \in Sessions
        /\ x.live => sess' = [sess EXCEPT ![c] = y] /\ Completion(r, p, x, y)
        /\ ~x.live => sess' = sess
        /\ UNCHANGED <<kind, drawn, store>>
    BY <1>1, <1>12, <2>c, CompleteMoves
  <2>2. ASSUME NEW s \in Sessions, s # c \/ ~x.live PROVE SessionOk(s, sess[s])'
    <3>1. sess'[s] = sess[s] /\ drawn' = drawn /\ kind' = kind /\ store \subseteq store'
      BY <1>2, <2>1, <2>2
    <3> QED BY <1>2, <1>3, <3>1, SessionStays
  <2>3. ASSUME x.live PROVE SessionOk(c, sess[c])'
    <3>1. SessionOk(c, x) /\ x.hist \in Seq(EntryType)
      BY <1>2, <1>3, <2>1 DEF SessionType
    <3>2. Completion(r, p, x, y)
      BY <2>1, <2>3
    <3>3. Active(r) /\ (p.op = "text" => Talks(r))
      BY <2>1 DEF Active, Talks
    <3>4. p.op = "text" =>
            /\ p.mode \in {"new", "resume"} /\ p.asked = x.thread
            /\ kind # "claude" /\ p.mode = "new" => ~x.ready
            /\ p.works # NoThread =>
                 /\ p.works \in store
                 /\ IF kind = "claude" \/ p.mode = "resume" THEN p.works = p.asked
                                                           ELSE p.works > MaxSessions
      BY <1>1, <2>c, <2>3, <3>3 DEF RunInv
    <3>5. p.op = "text" =>
            /\ p.works = NoThread => p.got = NewParser
            /\ ~p.got.raw => p.got = NewParser
            /\ p.got.raw /\ kind # "claude" => p.got.thread = p.works
      BY <1>1, <3>3 DEF ReadingInv
    <3>6. NewParser.thread = NoThread /\ ~NewParser.raw /\ Reply(kind, NewParser) = <<>>
      BY <1>2 DEF NewParser, Reply, Response, ClaudeResponse
    <3>7. p.op = "text" /\ kind # "claude" =>
            p.got.thread = NoThread \/ (p.got.thread = p.works /\ p.works # NoThread)
      BY <3>5, <3>6
    <3>8. p.op = "text" /\ Reply(kind, p.got) # <<>> =>
            p.works # NoThread /\ (kind # "claude" => p.got.thread = p.works)
      BY <3>5, <3>6
    <3>9. /\ Entry(r, "reply") \in EntryType /\ Entry(r, "output") \in EntryType
          /\ Entry(r, "reply").is = "reply" /\ Entry(r, "output").is # "reply"
      BY DEF Entry, EntryType
    <3>10. x.thread \in Nat /\ x.thread # NoThread /\ c \in Nat /\ Len(x.hist) <= MaxMessages
      BY <1>2, <2>1, <2>3, <3>1, LimitsFacts, <1>1 DEF SessionOk, SessionType, SomeThread, NoThread
    <3> HIDE DEF p, x, y
    <3>11. /\ y.live /\ y.thread # NoThread /\ (y.ready \/ y.thread = c)
           /\ y.ready => kind # "claude" /\ y.thread > MaxSessions /\ y.thread \in store
      <4>1. /\ x.ready \/ x.thread = c
            /\ x.ready => kind # "claude" /\ x.thread > MaxSessions /\ x.thread \in store
        BY <2>3, <3>1 DEF SessionOk
      <4>2. y.live
        BY <3>2 DEF Completion
      <4>3. CASE y.thread = x.thread /\ y.ready = x.ready
        BY <3>10, <4>1, <4>2, <4>3
      <4>4. CASE /\ p.op = "text" /\ kind # "claude"
                 /\ y.thread = (IF p.got.thread = NoThread THEN x.thread ELSE p.got.thread)
                 /\ y.ready <=> x.ready \/ p.got.thread # NoThread
        <5>1. CASE p.got.thread = NoThread
          BY <3>10, <4>1, <4>2, <4>4, <5>1
        <5>2. CASE p.got.thread # NoThread
          <6>1. p.got.thread = p.works /\ y.thread = p.works /\ y.ready /\ p.works # NoThread
            BY <3>7, <4>4, <5>2
          <6>2. p.works \in store /\ (p.mode = "resume" => p.works = x.thread)
                /\ (p.mode = "new" => p.works > MaxSessions)
            BY <3>4, <4>4, <6>1
          <6>3. p.works > MaxSessions
            BY <1>1, <4>4, <6>2 DEF StoreInv
          <6> QED BY <4>2, <4>4, <6>1, <6>2, <6>3
        <5> QED BY <5>1, <5>2
      <4> QED BY <3>2, <4>3, <4>4 DEF Completion
    <3>12. CASE y.hist = x.hist /\ y.answered = x.answered /\ y.cut = x.cut
      <4>1. x.answered # NoThread => y.thread = x.thread /\ (kind # "claude" => y.ready)
        <5>1. SUFFICES ASSUME x.answered # NoThread
                       PROVE  y.thread = x.thread /\ (kind # "claude" => y.ready)
          OBVIOUS
        <5>2. kind # "claude" => x.ready
          BY <3>1, <5>1 DEF SessionOk
        <5>3. p.op = "text" /\ kind # "claude" /\ p.got.thread # NoThread => p.works = x.thread
          BY <3>4, <3>7, <5>2
        <5> QED BY <3>2, <3>7, <5>2, <5>3 DEF Completion
      <4>2. kind = "claude" => y.thread = x.thread
        BY <3>2 DEF Completion
      <4> QED BY <2>1, <2>3, <3>1, <3>11, <3>12, <4>1, <4>2 DEF SessionOk, y
    <3>13. CASE /\ p.op = "bash" /\ y.answered = x.answered
                /\ y.hist = Appended(x.hist, Entry(r, "output"))
                /\ (y.cut <=> x.cut \/ Cuts(x.hist))
      <4>1. y.thread = x.thread /\ y.ready = x.ready
        BY <3>2, <3>13 DEF Completion
      <4>2. /\ HasAssistantReply(y.hist) => HasAssistantReply(x.hist)
            /\ HasAssistantReply(x.hist) => HasAssistantReply(y.hist) \/ Cuts(x.hist)
            /\ Len(y.hist) <= MaxMessages
        BY <1>2, <3>1, <3>9, <3>10, <3>13, RepliesStay
      <4> QED BY <2>1, <2>3, <3>1, <3>11, <3>13, <4>1, <4>2 DEF SessionOk, y
    <3>14. CASE /\ p.op = "text" /\ Reply(kind, p.got) # <<>>
                /\ y.answered = p.works
                /\ y.hist = Appended(x.hist, Entry(r, "reply"))
                /\ (y.cut <=> x.cut \/ Cuts(x.hist))
      <4>1. HasAssistantReply(y.hist) /\ Len(y.hist) <= MaxMessages
        BY <1>2, <3>1, <3>9, <3>10, <3>14, RepliesStay
      <4>2. y.thread = p.works /\ p.works \in store /\ (kind # "claude" => y.ready)
        BY <3>2, <3>4, <3>8, <3>14 DEF Completion
      <4>3. /\ y.answered = p.works
            /\ c <= drawn
        BY <2>3, <3>1, <3>14 DEF SessionOk
      <4>4. SessionOk(c, y)
        BY <3>11, <4>1, <4>2, <4>3 DEF SessionOk
      <4> QED BY <2>1, <4>4 DEF SessionOk, y
    <3> QED BY <3>2, <3>12, <3>13, <3>14 DEF Completion
  <2> QED BY <2>2, <2>3
<1>13. ASSUME NEW r \in Requests, Respond(r) \/ Moves(r)
       PROVE  \A s \in Sessions : SessionOk(s, sess[s])'
  <2>0. UNCHANGED <<kind, drawn, sess, store>>
    BY <1>1, <1>13, RespondMoves, MovesProceed DEF Proceeds
  <2>1. ASSUME NEW s \in Sessions PROVE SessionOk(s, sess[s])'
    <3>1. sess'[s] = sess[s] /\ drawn' = drawn /\ kind' = kind /\ store \subseteq store'
      BY <2>0
    <3> QED BY <1>2, <1>3, <3>1, SessionStays
  <2> QED BY <2>1
<1>14. StepCases
  BY NextIsCases
<1> QED
  BY <1>4, <1>5, <1>6, <1>7, <1>8, <1>9, <1>10, <1>11, <1>12, <1>13, <1>14 DEF StepCases

-----------------------------------------------------------------------------
(* Requests, histories and the store.                                      *)

\* RequestInv for one request q with number r.
RequestOk(r, q) ==
  /\ q.pc = "idle" <=> r > calls
  /\ q.pc = "idle" => q = Idle
  /\ q.pc # "idle" => q.on \in 1 .. drawn
  /\ Len(q.pipe) <= PipeSize
  /\ q.pc \in {"running", "returned"} =>
       q.op = "text" \/ (q.op = "bash" /\ q.works = NoThread /\ q.mode = "none")

\* The invariant of all requests is that of each.
LEMMA RequestInvParts == RequestInv <=> \A r \in Requests : RequestOk(r, req[r])
BY DEF RequestInv, RequestOk, Active

\* It depends on drawn and calls only so far.
LEMMA RequestStays ==
  ASSUME NEW r \in Requests, RequestOk(r, req[r]), req'[r] = req[r], drawn \in Nat, calls \in Nat,
         drawn' = drawn \/ drawn' = drawn + 1,
         calls' = calls \/ (calls' = calls + 1 /\ r # calls + 1)
  PROVE  RequestOk(r, req[r])'
<1>1. r \in Nat
  BY DEF Requests
<1>2. r > calls <=> r > calls'
  BY <1>1
<1> QED BY <1>1, <1>2 DEF RequestOk

\* Every step keeps what is said of requests.
LEMMA RequestInvStep ==
  ASSUME Inv, Next
  PROVE  RequestInv'
<1>1. TypeInv /\ SessionInv /\ RequestInv /\ RunInv /\ ReadingInv
  BY DEF Inv
<1>2. /\ MaxSessions \in Nat /\ drawn \in Nat /\ calls \in Nat /\ PipeSize \in Nat \ {0}
      /\ req \in [Requests -> RequestType] /\ Requests \subseteq Nat
  BY <1>1, LimitsFacts DEF TypeInv, Requests
<1>3. \A r \in Requests : RequestOk(r, req[r])
  BY <1>1, RequestInvParts
<1>4. SUFFICES \A r \in Requests : RequestOk(r, req[r])'
  BY DEF RequestInv, RequestOk, Active
<1>5. ASSUME req' = req, calls' = calls, drawn' = drawn \/ drawn' = drawn + 1
      PROVE  \A r \in Requests : RequestOk(r, req[r])'
  BY <1>2, <1>3, <1>5, RequestStays
<1>6. CASE CreateSession \/ LocalThread
  BY <1>5, <1>6 DEF CreateSession, LocalThread
<1>7. ASSUME NEW a \in Adopters, AdoptLists(a) \/ AdoptCreates(a)
      PROVE  \A r \in Requests : RequestOk(r, req[r])'
  <2>1. req' = req /\ calls' = calls /\ (drawn' = drawn \/ drawn' = drawn + 1)
    BY <1>7 DEF AdoptLists, AdoptCreates
  <2> QED BY <1>5, <2>1
<1>8. ASSUME NEW s \in Sessions, DeleteSession(s) \/ DeleteCleans(s)
      PROVE  \A r \in Requests : RequestOk(r, req[r])'
  BY <1>5, <1>8 DEF DeleteSession, DeleteCleans
\* All other steps are steps of one request.
<1>9. ASSUME NEW r \in Requests, RequestOk(r, req[r])', req' = [req EXCEPT ![r] = req'[r]],
             drawn' = drawn, calls' = calls \/ (calls' = calls + 1 /\ r = calls + 1)
      PROVE  \A q \in Requests : RequestOk(q, req[q])'
  <2>1. ASSUME NEW q \in Requests, q # r PROVE RequestOk(q, req[q])'
    <3>1. req'[q] = req[q] /\ RequestOk(q, req[q])
      BY <1>2, <1>3, <1>9, <2>1
    <3> QED BY <1>2, <1>9, <2>1, <3>1, RequestStays
  <2> QED BY <1>9, <2>1
<1>10. ASSUME NEW r \in Requests, NEW s \in Sessions, Begins(r, s)
       PROVE  \A q \in Requests : RequestOk(q, req[q])'
  <2>1. /\ r = calls + 1 /\ calls' = r /\ sess[s].live /\ drawn' = drawn
        /\ req' = [req EXCEPT ![r] = req'[r]]
        /\ req'[r].pc \in {"running", "returned"} /\ req'[r].on = s /\ Blank(req'[r])
        /\ req'[r].op = "text" \/ (req'[r].op = "bash" /\ req'[r].mode = "none")
    BY <1>1, <1>10, BeginsMoves, Zenon
  <2>2. s \in 1 .. drawn
    <3>1. s <= drawn
      BY <1>1, <2>1 DEF SessionInv
    <3> QED BY <1>2, <3>1 DEF Sessions
  <2>3. RequestOk(r, req[r])'
    <3>1. ~(r > calls') /\ Len(<<>>) = 0
      BY <1>2, <2>1
    <3>2. req'[r].pipe = <<>> /\ req'[r].works = NoThread
      BY <2>1 DEF Blank
    <3> QED BY <1>2, <2>1, <2>2, <3>1, <3>2 DEF RequestOk
  <2> QED BY <1>9, <2>1, <2>3
<1>11. ASSUME NEW r \in Requests, ToolStarts(r)
       PROVE  \A q \in Requests : RequestOk(q, req[q])'
  <2>1. /\ req' = [req EXCEPT ![r] = req'[r]] /\ UNCHANGED <<drawn, calls>>
        /\ Uses(r) /\ req[r].works = NoThread
        /\ req'[r].pc = req[r].pc /\ req'[r].on = req[r].on /\ req'[r].op = req[r].op
        /\ req'[r].pipe = Append(req[r].pipe, Line(FirstLine, req'[r].works))
    BY <1>1, <1>11, ToolStartsMoves
  <2>2. Talks(r)
    BY <2>1 DEF Talks, Uses, Running, Active
  <2>3. req[r].pipe = <<>>
    BY <1>1, <2>1, <2>2 DEF ReadingInv
  <2>4. Len(req'[r].pipe) = 1
    BY <2>1, <2>3
  <2>5. RequestOk(r, req[r])'
    BY <1>2, <1>3, <2>1, <2>4 DEF RequestOk, Uses, Running
  <2> QED BY <1>9, <2>1, <2>5
<1>12. ASSUME NEW r \in Requests, Complete(r)
       PROVE  \A q \in Requests : RequestOk(q, req[q])'
  <2>1. /\ req[r].pc = "returned" /\ req' = [req EXCEPT ![r] = req'[r]]
        /\ UNCHANGED <<drawn, calls>>
        /\ req'[r].pc = "completed" /\ req'[r].on = req[r].on /\ Blank(req'[r])
    BY <1>1, <1>12, CompleteMoves
  <2>2. Len(req'[r].pipe) = 0
    BY <2>1 DEF Blank
  <2>3. RequestOk(r, req[r])'
    BY <1>2, <1>3, <2>1, <2>2 DEF RequestOk
  <2> QED BY <1>9, <2>1, <2>3
<1>13. ASSUME NEW r \in Requests, Respond(r)
       PROVE  \A q \in Requests : RequestOk(q, req[q])'
  <2>1. /\ req[r].pc = "completed" /\ req' = [req EXCEPT ![r] = req'[r]]
        /\ UNCHANGED <<drawn, calls>> /\ req'[r].pc \in {"answered", "refused"}
        /\ req'[r].on = req[r].on /\ req'[r].pipe = req[r].pipe
    BY <1>1, <1>13, RespondMoves
  <2>2. RequestOk(r, req[r])'
    BY <1>3, <2>1 DEF RequestOk
  <2> QED BY <1>9, <2>1, <2>2
<1>14. ASSUME NEW r \in Requests, Moves(r)
       PROVE  \A q \in Requests : RequestOk(q, req[q])'
  <2>1. Proceeds(r)
    BY <1>1, <1>14, MovesProceed
  <2>2. /\ req' = [req EXCEPT ![r] = req'[r]] /\ UNCHANGED <<drawn, calls>>
        /\ SameRun(req[r], req'[r])
    BY <2>1 DEF Proceeds
  <2>3. RequestOk(r, req[r]) /\ req[r].pipe \in Seq(LineType)
    BY <1>2, <1>3 DEF RequestType
  <2>4. req[r].pc # "idle"
    <3>1. CASE req[r].held
      <4>1. req[r] # Idle
        BY <3>1 DEF Idle
      <4> QED BY <2>3, <4>1 DEF RequestOk
    <3>2. CASE ~req[r].held
      BY <1>14, <3>2 DEF Moves, ProcessStep, ToolWrites, ToolSucceeds, ToolFails, BashEnds,
         ChildEnds, ClientLeaves, ReadLine, WaitReturns, OutputReturns, Uses, Running
    <3> QED BY <3>1, <3>2
  <2>5. Len(req'[r].pipe) <= PipeSize
    <3> DEFINE p == req[r]
               q == req'[r]
    <3>1. Len(p.pipe) <= PipeSize /\ Len(p.pipe) \in Nat
      BY <2>3 DEF RequestOk
    <3>2. CASE ToolWrites(r)
      <4>1. Len(p.pipe) < PipeSize /\ \E l : q.pipe = Append(p.pipe, l)
        BY <1>1, <3>2, ToolWritesMoves DEF WritesOn
      <4> QED BY <1>2, <2>3, <3>1, <4>1
    <3>3. CASE ProcessStep(r)
      BY <1>1, <3>1, <3>3, ProcessMoves DEF SameReading
    <3>4. CASE ReadLine(r)
      <4>1. p.pipe # <<>> /\ q.pipe = Tail(p.pipe)
        BY <1>1, <3>4, ReadLineMoves
      <4>2. Len(q.pipe) = Len(p.pipe) - 1
        BY <2>3, <4>1
      <4> QED BY <1>2, <3>1, <4>2
    <3>5. CASE WaitReturns(r) \/ OutputReturns(r)
      <4>1. /\ p.pc = "running" /\ (p.op = "text" => q.pipe = <<>>)
            /\ (p.op = "bash" => q.pipe = p.pipe)
        BY <1>1, <3>5, ReturnMoves
      <4>2. p.op = "text" \/ p.op = "bash"
        BY <2>3, <4>1 DEF RequestOk
      <4>3. Len(<<>>) = 0
        OBVIOUS
      <4> QED BY <1>2, <3>1, <4>1, <4>2, <4>3
    <3> QED BY <1>14, <3>2, <3>3, <3>4, <3>5 DEF Moves
  <2>6. RequestOk(r, req[r])'
    BY <2>2, <2>3, <2>4, <2>5 DEF RequestOk, SameRun
  <2> QED BY <1>9, <2>2, <2>6
<1>15. StepCases
  BY NextIsCases
<1> QED
  BY <1>6, <1>7, <1>8, <1>10, <1>11, <1>12, <1>13, <1>14, <1>15 DEF StepCases

\* Every step keeps what is said of the store and of adopters.
LEMMA StoreInvStep ==
  ASSUME Inv, Next
  PROVE  StoreInv'
<1>1. TypeInv /\ SessionInv /\ RequestInv /\ RunInv /\ ReadingInv /\ StoreInv
  BY DEF Inv
<1>2. /\ MaxSessions \in Nat /\ MaxThreads \in Nat /\ made \in Nat /\ Threads \subseteq Nat
      /\ store \subseteq Threads /\ adopting \in [Adopters -> SomeThread]
  BY <1>1, LimitsFacts DEF TypeInv
<1>3. \A t \in store : t \in Nat
  BY <1>2
<1>4. CASE LocalThread
  BY <1>1, <1>2, <1>3, <1>4 DEF LocalThread, StoreInv
<1>5. ASSUME NEW a \in Adopters, AdoptLists(a)
      PROVE  StoreInv'
  <2>1. PICK t \in Adoptable : adopting' = [adopting EXCEPT ![a] = t]
    BY <1>5 DEF AdoptLists
  <2>2. t \in store /\ kind = "codex" /\ UNCHANGED <<kind, store, made>>
    BY <1>5 DEF AdoptLists, Adoptable
  <2> QED BY <1>1, <1>2, <2>1, <2>2 DEF StoreInv
<1>6. ASSUME NEW a \in Adopters, AdoptCreates(a)
      PROVE  StoreInv'
  BY <1>1, <1>2, <1>6 DEF AdoptCreates, StoreInv
<1>7. ASSUME NEW r \in Requests, ToolStarts(r)
      PROVE  StoreInv'
  <2>1. LET p == req[r]
            q == req'[r]
            new == p.mode = "new" /\ kind # "claude"
        IN
        /\ store' = store \cup {q.works} /\ UNCHANGED <<kind, adopting>>
        /\ new => made' = made + 1 /\ q.works = MaxSessions + made + 1
        /\ ~new => made' = made /\ q.works = p.asked /\ (kind = "claude" \/ p.asked \in store)
    BY <1>1, <1>7, ToolStartsMoves
  <2> QED BY <1>1, <1>2, <1>3, <2>1 DEF StoreInv
<1>8. ASSUME UNCHANGED <<kind, store, made, adopting>>
      PROVE  StoreInv'
  BY <1>1, <1>8 DEF StoreInv
<1>9. CASE CreateSession
  BY <1>8, <1>9 DEF CreateSession
<1>10. ASSUME NEW s \in Sessions, DeleteSession(s) \/ DeleteCleans(s)
       PROVE  StoreInv'
  BY <1>8, <1>10 DEF DeleteSession, DeleteCleans
<1>11. ASSUME NEW r \in Requests, NEW s \in Sessions, Begins(r, s)
       PROVE  StoreInv'
  <2>1. UNCHANGED <<kind, store, made, adopting>>
    BY <1>1, <1>11, BeginsMoves
  <2> QED BY <1>8, <2>1
<1>12. ASSUME NEW r \in Requests, Complete(r) \/ Respond(r) \/ Moves(r)
       PROVE  StoreInv'
  <2>1. UNCHANGED <<kind, store, made, adopting>>
    BY <1>1, <1>12, CompleteMoves, RespondMoves, MovesProceed DEF Proceeds
  <2> QED BY <1>8, <2>1
<1>13. StepCases
  BY NextIsCases
<1> QED
  BY <1>4, <1>5, <1>6, <1>7, <1>9, <1>10, <1>11, <1>12, <1>13 DEF StepCases

\* A step leaves the session of every request that has begun, and only Begin begins one.
LEMMA RequestsStay ==
  ASSUME Inv, Next
  PROVE  /\ calls \in Nat /\ (calls' = calls \/ calls' = calls + 1)
         /\ \A q \in Requests : q <= calls => req'[q].on = req[q].on
<1>1. TypeInv /\ SessionInv /\ RequestInv /\ RunInv /\ ReadingInv /\ StoreInv
  BY DEF Inv
<1>2. calls \in Nat /\ req \in [Requests -> RequestType] /\ Requests \subseteq Nat
  BY <1>1, LimitsFacts DEF TypeInv, Requests
<1>3. CASE CreateSession \/ LocalThread
  BY <1>2, <1>3 DEF CreateSession, LocalThread
<1>4. CASE \E a \in Adopters : AdoptLists(a) \/ AdoptCreates(a)
  BY <1>2, <1>4 DEF AdoptLists, AdoptCreates
<1>5. CASE \E s \in Sessions : DeleteSession(s) \/ DeleteCleans(s)
  BY <1>2, <1>5 DEF DeleteSession, DeleteCleans
<1>6. ASSUME NEW r \in Requests, req' = [req EXCEPT ![r] = req'[r]], req'[r].on = req[r].on
      PROVE  \A q \in Requests : q <= calls => req'[q].on = req[q].on
  BY <1>2, <1>6
<1>7. ASSUME NEW r \in Requests, NEW s \in Sessions, Begins(r, s)
      PROVE  /\ calls' = calls + 1
             /\ \A q \in Requests : q <= calls => req'[q].on = req[q].on
  <2>1. r = calls + 1 /\ calls' = r /\ req' = [req EXCEPT ![r] = req'[r]]
    BY <1>1, <1>7, BeginsMoves
  <2> QED BY <1>2, <2>1
<1>8. ASSUME NEW r \in Requests, ToolStarts(r) \/ Complete(r) \/ Respond(r) \/ Moves(r)
      PROVE  /\ calls' = calls
             /\ \A q \in Requests : q <= calls => req'[q].on = req[q].on
  <2>1. calls' = calls /\ req' = [req EXCEPT ![r] = req'[r]] /\ req'[r].on = req[r].on
    BY <1>1, <1>8, ToolStartsMoves, CompleteMoves, RespondMoves, MovesProceed
       DEF Proceeds, SameRun
  <2> QED BY <1>6, <2>1
<1>9. StepCases
  BY NextIsCases
<1> QED BY <1>2, <1>3, <1>4, <1>5, <1>7, <1>8, <1>9 DEF StepCases

\* Every step keeps the entries of histories those of requests on the session.
LEMMA HistoryInvStep ==
  ASSUME Inv, Next
  PROVE  HistoryInv'
<1>1. TypeInv /\ SessionInv /\ RequestInv /\ RunInv /\ ReadingInv /\ HistoryInv
  BY DEF Inv
<1>2. /\ sess \in [Sessions -> SessionType] /\ MaxMessages \in Nat \ {0}
      /\ Requests \subseteq Nat
  BY <1>1, LimitsFacts DEF TypeInv, Requests
<1>3. /\ calls \in Nat /\ (calls' = calls \/ calls' = calls + 1)
      /\ \A q \in Requests : q <= calls => req'[q].on = req[q].on
  BY RequestsStay
\* An entry of before stays true.
<1>4. ASSUME NEW s \in Sessions, NEW i \in DOMAIN sess[s].hist, sess[s].hist[i].is = "user"
      PROVE  sess[s].hist[i].by <= calls' /\ req'[sess[s].hist[i].by].on = s
  <2> DEFINE h == sess[s].hist
             b == h[i].by
  <2>1. h \in Seq(EntryType) /\ i \in DOMAIN h
    BY <1>2 DEF SessionType
  <2>2. b <= calls /\ req[b].on = s
    BY <1>1, <1>4 DEF HistoryInv
  <2> HIDE DEF h
  <2>3. h[i] \in EntryType
    BY <2>1
  <2>4. b \in Requests
    BY <2>3 DEF EntryType
  <2> HIDE DEF b
  <2>5. b <= calls' /\ req'[b].on = s
    BY <1>2, <1>3, <2>2, <2>4
  <2> QED BY <2>5 DEF b, h
<1>5. SUFFICES ASSUME NEW s \in Sessions, NEW i \in DOMAIN sess'[s].hist,
                      sess'[s].hist[i].is = "user"
               PROVE  sess'[s].hist[i].by <= calls' /\ req'[sess'[s].hist[i].by].on = s
  BY DEF HistoryInv
<1> DEFINE m == sess'[s].hist[i]
           Good == m.by <= calls' /\ req'[m.by].on = s
<1>6. ASSUME sess'[s].hist = sess[s].hist
      PROVE  Good
  BY <1>4, <1>5, <1>6
<1>7. ASSUME sess'[s].hist = <<>>
      PROVE  Good
  BY <1>5, <1>7
<1>8. ASSUME NEW e \in EntryType, sess'[s].hist = Appended(sess[s].hist, e),
             e.is = "user" => e.by <= calls' /\ req'[e.by].on = s
      PROVE  Good
  <2>1. sess[s].hist \in Seq(EntryType) /\ Len(sess[s].hist) <= MaxMessages
    BY <1>1, <1>2 DEF SessionType, SessionInv
  <2>2. m = e \/ \E j \in DOMAIN sess[s].hist : sess[s].hist[j] = m
    BY <1>2, <1>5, <1>8, <2>1, AppendedFacts
  <2> QED BY <1>4, <1>5, <1>8, <2>2
<1> HIDE DEF Good, m
<1>9. ASSUME CreateSession
      PROVE  Good
  <2>1. sess'[s] = sess[s] \/ sess'[s] = Fresh(drawn + 1, FALSE, FALSE)
    BY <1>2, <1>9 DEF CreateSession
  <2> QED BY <1>6, <1>7, <2>1 DEF Fresh, Absent
<1>10. ASSUME LocalThread
       PROVE  Good
  BY <1>6, <1>10 DEF LocalThread
<1>11. ASSUME NEW a \in Adopters, AdoptLists(a) \/ AdoptCreates(a)
       PROVE  Good
  <2>1. sess'[s] = sess[s] \/ \E t, early : sess'[s] = Fresh(t, TRUE, early)
    <3> DEFINE early == \E r \in Requests : req[r].pc \in {"running", "returned"}
                                             /\ req[r].works = adopting[a]
    <3>1. sess' = sess \/ sess' = [sess EXCEPT ![drawn + 1] = Fresh(adopting[a], TRUE, early)]
      BY <1>11 DEF AdoptLists, AdoptCreates
    <3> HIDE DEF early
    <3> QED BY <1>2, <3>1
  <2>2. ASSUME NEW t, NEW early PROVE Fresh(t, TRUE, early).hist = <<>>
    BY DEF Fresh, Absent
  <2> QED BY <1>6, <1>7, <2>1, <2>2
<1>12. ASSUME NEW d \in Sessions, DeleteSession(d) \/ DeleteCleans(d)
       PROVE  Good
  <2>1. sess'[s] = sess[s] \/ sess'[s] = Absent
    BY <1>2, <1>12 DEF DeleteSession, DeleteCleans
  <2> QED BY <1>6, <1>7, <2>1 DEF Absent
<1>13. ASSUME NEW r \in Requests, NEW b \in Sessions, Begins(r, b)
       PROVE  Good
  <2>1. /\ calls' = r /\ req'[r].on = b
        /\ \/ sess' = Begun(b, Entry(r, "user"))
           \/ sess' = Begun(b, Entry(r, "bash"))
    BY <1>1, <1>13, BeginsMoves
  <2>2. PICK e \in {Entry(r, "user"), Entry(r, "bash")} : sess' = Begun(b, e)
    BY <2>1
  <2>3. e \in EntryType /\ e.by = r
    BY DEF Entry, EntryType
  <2>4. BeginsOn(b, e)
    BY <1>1, <2>3, BegunFacts
  <2>5. sess' = [sess EXCEPT ![b] = sess'[b]] /\ sess'[b].hist = Appended(sess[b].hist, e)
    BY <2>2, <2>4 DEF BeginsOn
  <2>6. CASE s = b
    BY <1>2, <1>8, <2>1, <2>3, <2>5, <2>6
  <2>7. CASE s # b
    BY <1>2, <1>6, <2>5, <2>7
  <2> QED BY <2>6, <2>7
<1>14. ASSUME NEW r \in Requests, Complete(r)
       PROVE  Good
  <2>1. PICK c \in Sessions : c = req[r].on
    BY <1>1, <1>14, CompleteMoves
  <2>2. \/ sess' = [sess EXCEPT ![c] = sess'[c]] /\ Completion(r, req[r], sess[c], sess'[c])
        \/ sess' = sess
    BY <1>1, <1>14, <2>1, CompleteMoves
  <2>3. CASE s # c \/ sess' = sess
    BY <1>2, <1>6, <2>2, <2>3
  <2>4. CASE s = c /\ sess' # sess
    <3>1. Completion(r, req[r], sess[s], sess'[s])
      BY <2>2, <2>4
    <3>2. \/ sess'[s].hist = sess[s].hist
          \/ sess'[s].hist = Appended(sess[s].hist, Entry(r, "output"))
          \/ sess'[s].hist = Appended(sess[s].hist, Entry(r, "reply"))
      BY <3>1 DEF Completion
    <3>3. /\ Entry(r, "reply") \in EntryType /\ Entry(r, "output") \in EntryType
          /\ Entry(r, "reply").is # "user" /\ Entry(r, "output").is # "user"
      BY DEF Entry, EntryType
    <3> QED BY <1>6, <1>8, <3>2, <3>3
  <2> QED BY <2>3, <2>4
<1>15. ASSUME NEW r \in Requests, ToolStarts(r) \/ Respond(r) \/ Moves(r)
       PROVE  Good
  <2>1. sess' = sess
    BY <1>1, <1>15, ToolStartsMoves, RespondMoves, MovesProceed DEF Proceeds
  <2> QED BY <1>6, <2>1
<1>16. StepCases
  BY NextIsCases
<1>17. Good
  BY <1>9, <1>10, <1>11, <1>12, <1>13, <1>14, <1>15, <1>16 DEF StepCases
<1> QED BY <1>17 DEF Good, m

\* Steps that leave the sessions and what a request is about alone.
LEMMA QuietRequests ==
  ASSUME Inv, NEW r \in Requests, Respond(r) \/ Moves(r), NEW q \in Requests
  PROVE  /\ req'[q].on = req[q].on /\ req'[q].img = req[q].img /\ req'[q].op = req[q].op
         /\ req'[q].mode = req[q].mode /\ req'[q].works = req[q].works
         /\ Moves(r) => req'[q].asked = req[q].asked
         /\ Active(q)' <=> Active(q)
         /\ Talks(q)' <=> Talks(q)
         /\ Talks(q) => req'[q].asked = req[q].asked
         /\ First(q)' <=> First(q)
         /\ UNCHANGED <<kind, limit, drawn, sess, made, store, calls, adopting, cleaned>>
<1>1. TypeInv /\ req \in [Requests -> RequestType]
  BY DEF Inv, TypeInv
<1>2. CASE Respond(r)
  <2>1. /\ req[r].pc = "completed" /\ req' = [req EXCEPT ![r] = req'[r]]
        /\ req'[r].on = req[r].on /\ req'[r].img = req[r].img /\ req'[r].mode = req[r].mode
        /\ req'[r].works = req[r].works /\ req'[r].op = req[r].op
        /\ req'[r].pc \in {"answered", "refused"}
        /\ UNCHANGED <<kind, limit, drawn, sess, made, store, calls, adopting, cleaned>>
    BY <1>1, <1>2, RespondMoves
  <2>2. req'[q] = IF q = r THEN req'[r] ELSE req[q]
    BY <1>1, <2>1
  <2>3. ~Moves(r)
    <3>1. ~ChildEnds(r) \/ req[r].held
      BY DEF ChildEnds
    <3>2. ASSUME ChildEnds(r) PROVE FALSE
      <4>1. req'[r] = [req[r] EXCEPT !.held = FALSE]
        BY <1>1, <3>2 DEF ChildEnds, Set
      <4>2. req'[r].pc = req[r].pc
        BY <1>1, <4>1 DEF RequestType
      <4> QED BY <2>1, <4>2
    <3> QED BY <2>1, <3>2 DEF Moves, ProcessStep, ToolWrites, ToolSucceeds, ToolFails, BashEnds,
         ClientLeaves, ReadLine, WaitReturns, OutputReturns, Uses, Running
  <2> QED BY <2>1, <2>2, <2>3 DEF Active, Talks, First
<1>3. CASE Moves(r)
  <2>1. Proceeds(r)
    BY <1>1, <1>3, MovesProceed
  <2>2. /\ SameRun(req[q], req'[q])
        /\ Active(q)' <=> Active(q)
        /\ Talks(q)' <=> Talks(q)
        /\ First(q)' <=> First(q)
    BY <1>1, <2>1, ProceedsFacts
  <2> QED BY <2>1, <2>2 DEF SameRun, Proceeds
<1> QED BY <1>2, <1>3

\* Facts about a request that has begun.
LEMMA ActiveFacts ==
  ASSUME Inv, NEW r \in Requests
  PROVE  /\ req[r].pc # "idle" => r <= calls /\ req[r].on \in Sessions /\ req[r].on <= drawn
         /\ req[r].img => req[r].pc # "idle"
         /\ Active(r) => req[r].pc # "idle"
<1>1. TypeInv /\ RequestInv
  BY DEF Inv
<1>2. drawn \in 0 .. MaxSessions /\ MaxSessions \in Nat /\ calls \in Nat /\ r \in Nat
  BY <1>1, LimitsFacts DEF Requests
<1>3. RequestOk(r, req[r])
  BY <1>1, RequestInvParts
<1>4. ~Idle.img
  BY DEF Idle
<1> QED BY <1>2, <1>3, <1>4 DEF RequestOk, Sessions, Active

\* Every step keeps one active request on a busy session, and none on another.
LEMMA BusyInvStep ==
  ASSUME Inv, Next
  PROVE  BusyInv'
<1>1. TypeInv /\ SessionInv /\ RequestInv /\ RunInv /\ ReadingInv /\ BusyInv
  BY DEF Inv
<1>2. /\ sess \in [Sessions -> SessionType] /\ req \in [Requests -> RequestType]
      /\ Requests \subseteq Nat /\ drawn \in Nat /\ MaxSessions \in Nat
  BY <1>1, LimitsFacts DEF TypeInv, Requests
\* Requests that stay as they are: what their sessions may do.
<1>3. ASSUME \A r \in Requests : req'[r].on = req[r].on /\ (Active(r)' <=> Active(r)),
             \A s \in Sessions : sess'[s].busy => sess[s].busy,
             \A s \in Sessions : (\E r \in Requests : Active(r) /\ req[r].on = s) =>
               /\ sess'[s].live => sess[s].live
               /\ sess'[s].live /\ sess[s].busy => sess'[s].busy
      PROVE  BusyInv'
  <2>1. ASSUME NEW s \in Sessions, sess'[s].busy
        PROVE  \E r \in Requests : Active(r)' /\ req'[r].on = s
    BY <1>1, <1>3, <2>1 DEF BusyInv
  <2>2. ASSUME NEW r \in Requests, Active(r)', sess'[req'[r].on].live
        PROVE  sess'[req'[r].on].busy
    <3>1. Active(r) /\ req'[r].on = req[r].on
      BY <1>3, <2>2
    <3>2. req[r].on \in Sessions
      BY <3>1, ActiveFacts
    <3>3. sess[req[r].on].live
      BY <1>3, <2>2, <3>1, <3>2
    <3>4. sess[req[r].on].busy
      BY <1>1, <3>1, <3>3 DEF BusyInv
    <3> QED BY <1>3, <2>2, <3>1, <3>2, <3>4
  <2>3. ASSUME NEW p \in Requests, NEW r \in Requests, Active(p)', Active(r)',
               req'[p].on = req'[r].on
        PROVE  p = r
    BY <1>1, <1>3, <2>3 DEF BusyInv
  <2> QED BY <2>1, <2>2, <2>3 DEF BusyInv
<1>4. ASSUME req' = req,
             \A s \in Sessions : \/ sess'[s] = sess[s] \/ sess'[s] = Absent
                                 \/ s > drawn /\ sess'[s].busy = FALSE
      PROVE  BusyInv'
  <2>1. \A r \in Requests : Active(r)' <=> Active(r)
    BY <1>4 DEF Active
  <2>2. ~Absent.busy /\ ~Absent.live
    BY DEF Absent
  <2>3. \A r \in Requests : Active(r) => req[r].on <= drawn
    BY ActiveFacts
  <2>4. \A s \in Sessions : sess'[s].busy => sess[s].busy
    BY <1>4, <2>2
  <2>5. \A s \in Sessions : (\E r \in Requests : Active(r) /\ req[r].on = s) =>
          sess'[s] = sess[s] \/ sess'[s] = Absent
    BY <1>2, <1>4, <2>3 DEF Sessions
  <2> QED BY <1>3, <1>4, <2>1, <2>2, <2>4, <2>5
<1>5. CASE CreateSession
  <2>1. \A s \in Sessions : sess'[s] = sess[s] \/
          (s = drawn + 1 /\ sess'[s] = Fresh(drawn + 1, FALSE, FALSE))
    BY <1>2, <1>5 DEF CreateSession
  <2>2. Fresh(drawn + 1, FALSE, FALSE).busy = FALSE
    BY DEF Fresh, Absent
  <2>3. req' = req
    BY <1>5 DEF CreateSession
  <2>4. \A s \in Sessions : sess'[s] = sess[s] \/ (s > drawn /\ sess'[s].busy = FALSE)
    <3> DEFINE x == Fresh(drawn + 1, FALSE, FALSE)
    <3> HIDE DEF x
    <3>1. \A s \in Sessions : sess'[s] = sess[s] \/ (s = drawn + 1 /\ sess'[s] = x)
      BY <2>1 DEF x
    <3>2. x.busy = FALSE
      BY <2>2 DEF x
    <3> QED BY <1>2, <3>1, <3>2
  <2> QED BY <1>4, <2>3, <2>4
<1>6. CASE LocalThread
  BY <1>4, <1>6 DEF LocalThread
<1>7. ASSUME NEW a \in Adopters, AdoptLists(a) \/ AdoptCreates(a)
      PROVE  BusyInv'
  <2>1. ASSUME NEW t, NEW early PROVE Fresh(t, TRUE, early).busy = FALSE
    BY DEF Fresh, Absent
  <2>2. \A s \in Sessions : sess'[s] = sess[s] \/ (s = drawn + 1 /\ sess'[s].busy = FALSE)
    <3> DEFINE early == \E r \in Requests : req[r].pc \in {"running", "returned"}
                                             /\ req[r].works = adopting[a]
    <3>1. sess' = sess \/ sess' = [sess EXCEPT ![drawn + 1] = Fresh(adopting[a], TRUE, early)]
      BY <1>7 DEF AdoptLists, AdoptCreates
    <3> DEFINE x == Fresh(adopting[a], TRUE, early)
    <3>2. x.busy = FALSE
      BY <2>1
    <3>3. sess' = sess \/ sess' = [sess EXCEPT ![drawn + 1] = x]
      BY <3>1
    <3> HIDE DEF early, x
    <3> QED BY <1>2, <3>2, <3>3
  <2>3. req' = req
    BY <1>7 DEF AdoptLists, AdoptCreates
  <2>4. \A s \in Sessions : sess'[s] = sess[s] \/ (s > drawn /\ sess'[s].busy = FALSE)
    BY <1>2, <2>2 DEF Sessions
  <2> QED BY <1>4, <2>3, <2>4
<1>8. ASSUME NEW d \in Sessions, DeleteSession(d) \/ DeleteCleans(d)
      PROVE  BusyInv'
  <2>1. \A s \in Sessions : sess'[s] = sess[s] \/ sess'[s] = Absent
    BY <1>2, <1>8 DEF DeleteSession, DeleteCleans
  <2>2. req' = req
    BY <1>8 DEF DeleteSession, DeleteCleans
  <2> QED BY <1>4, <2>1, <2>2
<1>9. ASSUME NEW r \in Requests, NEW b \in Sessions, Begins(r, b)
      PROVE  BusyInv'
  <2>1. /\ r = calls + 1 /\ sess[b].live /\ ~sess[b].busy
        /\ req' = [req EXCEPT ![r] = req'[r]]
        /\ req'[r].pc \in {"running", "returned"} /\ req'[r].on = b
        /\ \E m \in {Entry(r, "user"), Entry(r, "bash")} : sess' = Begun(b, m)
    BY <1>1, <1>9, BeginsMoves, Zenon
  <2>2. sess' = [sess EXCEPT ![b] = sess'[b]] /\ sess'[b].busy
    <3>1. PICK m \in {Entry(r, "user"), Entry(r, "bash")} : sess' = Begun(b, m)
      BY <2>1
    <3>2. m \in EntryType
      BY DEF Entry, EntryType
    <3>3. BeginsOn(b, m)
      BY <1>1, <3>2, BegunFacts
    <3> QED BY <3>1, <3>3 DEF BeginsOn
  <2>3. ~Active(r)
    BY <1>1, <1>2, <2>1, ActiveFacts DEF TypeInv
  <2>4. \A q \in Requests : Active(q) => req[q].on # b
    BY <1>1, <2>1 DEF BusyInv
  <2>5. \A q \in Requests : q # r => req'[q] = req[q] /\ (Active(q)' <=> Active(q))
    BY <1>2, <2>1 DEF Active
  <2>6. Active(r)'
    BY <2>1 DEF Active
  <2>7. ASSUME NEW s \in Sessions, sess'[s].busy
        PROVE  \E q \in Requests : Active(q)' /\ req'[q].on = s
    <3>1. CASE s = b
      BY <2>1, <2>6, <3>1
    <3>2. CASE s # b
      <4>1. sess[s].busy
        BY <1>2, <2>2, <2>7, <3>2
      <4>2. PICK q \in Requests : Active(q) /\ req[q].on = s
        BY <1>1, <4>1 DEF BusyInv
      <4>3. q # r
        BY <2>3, <4>2
      <4> QED BY <2>5, <4>2, <4>3
    <3> QED BY <3>1, <3>2
  <2>8. ASSUME NEW q \in Requests, Active(q)', sess'[req'[q].on].live
        PROVE  sess'[req'[q].on].busy
    <3>1. CASE q = r
      BY <2>1, <2>2, <3>1
    <3>2. CASE q # r
      <4>1. Active(q) /\ req'[q].on = req[q].on
        BY <2>5, <2>8, <3>2
      <4>2. req[q].on \in Sessions /\ req[q].on # b
        BY <2>4, <4>1, ActiveFacts
      <4>3. sess'[req[q].on] = sess[req[q].on]
        BY <1>2, <2>2, <4>2
      <4> QED BY <1>1, <2>8, <4>1, <4>3 DEF BusyInv
    <3> QED BY <3>1, <3>2
  <2>9. ASSUME NEW p \in Requests, NEW q \in Requests, Active(p)', Active(q)',
               req'[p].on = req'[q].on
        PROVE  p = q
    BY <1>1, <2>1, <2>4, <2>5, <2>9 DEF BusyInv
  <2> QED BY <2>7, <2>8, <2>9 DEF BusyInv
<1>10. ASSUME NEW r \in Requests, ToolStarts(r)
       PROVE  BusyInv'
  <2>1. /\ req' = [req EXCEPT ![r] = req'[r]] /\ sess' = sess
        /\ req'[r].pc = req[r].pc /\ req'[r].on = req[r].on
    BY <1>1, <1>10, ToolStartsMoves
  <2>2. \A q \in Requests : req'[q].on = req[q].on /\ (Active(q)' <=> Active(q))
    BY <1>2, <2>1 DEF Active
  <2> QED BY <1>3, <2>1, <2>2
<1>11. ASSUME NEW r \in Requests, Complete(r)
       PROVE  BusyInv'
  <2>1. PICK c \in Sessions : c = req[r].on
    BY <1>1, <1>11, CompleteMoves
  <2>2. /\ req[r].pc = "returned" /\ req' = [req EXCEPT ![r] = req'[r]]
        /\ req'[r].pc = "completed" /\ req'[r].on = c
        /\ sess[c].live => /\ sess' = [sess EXCEPT ![c] = sess'[c]]
                           /\ Completion(r, req[r], sess[c], sess'[c])
        /\ ~sess[c].live => sess' = sess
    BY <1>1, <1>11, <2>1, CompleteMoves
  <2>3. \A q \in Requests : q # r => req'[q] = req[q] /\ (Active(q)' <=> Active(q))
    BY <1>2, <2>2 DEF Active
  <2>4. Active(r) /\ ~Active(r)'
    BY <2>2 DEF Active
  <2>5. \A q \in Requests : Active(q)' => q # r /\ Active(q) /\ req[q].on # c
    BY <1>1, <2>1, <2>3, <2>4 DEF BusyInv
  <2>6. \A s \in Sessions : s # c => sess'[s] = sess[s]
    BY <1>2, <2>2
  <2>7. ~sess'[c].busy
    <3>1. CASE sess[c].live
      BY <2>2, <3>1 DEF Completion
    <3>2. CASE ~sess[c].live
      <4>1. sess[c] = Absent
        BY <1>1, <3>2 DEF SessionInv
      <4> QED BY <2>2, <3>2, <4>1 DEF Absent
    <3> QED BY <3>1, <3>2
  <2>8. ASSUME NEW s \in Sessions, sess'[s].busy
        PROVE  \E q \in Requests : Active(q)' /\ req'[q].on = s
    <3>1. s # c /\ sess[s].busy
      BY <2>6, <2>7, <2>8
    <3>2. PICK q \in Requests : Active(q) /\ req[q].on = s
      BY <1>1, <3>1 DEF BusyInv
    <3> QED BY <2>1, <2>3, <3>1, <3>2
  <2>9. ASSUME NEW q \in Requests, Active(q)', sess'[req'[q].on].live
        PROVE  sess'[req'[q].on].busy
    <3>1. q # r /\ Active(q) /\ req[q].on # c /\ req'[q] = req[q]
      BY <2>3, <2>5, <2>9
    <3>2. req[q].on \in Sessions
      BY <3>1, ActiveFacts
    <3> QED BY <1>1, <2>6, <2>9, <3>1, <3>2 DEF BusyInv
  <2>10. ASSUME NEW p \in Requests, NEW q \in Requests, Active(p)', Active(q)',
                req'[p].on = req'[q].on
         PROVE  p = q
    BY <1>1, <2>3, <2>5, <2>10 DEF BusyInv
  <2> QED BY <2>8, <2>9, <2>10 DEF BusyInv
<1>12. ASSUME NEW r \in Requests, Respond(r) \/ Moves(r)
       PROVE  BusyInv'
  <2>1. sess' = sess /\ \A q \in Requests : req'[q].on = req[q].on /\ (Active(q)' <=> Active(q))
    BY <1>12, QuietRequests
  <2> QED BY <1>3, <2>1
<1>13. StepCases
  BY NextIsCases
<1> QED
  BY <1>5, <1>6, <1>7, <1>8, <1>9, <1>10, <1>11, <1>12, <1>13 DEF StepCases

\* What a step does to sessions, as far as runs can tell: a session is as before, new,
\* gone, or is begun or completed.
LEMMA SessionsChange ==
  ASSUME Inv, CreateSession \/ LocalThread \/ (\E a \in Adopters : AdoptLists(a) \/ AdoptCreates(a))
                \/ (\E d \in Sessions : DeleteSession(d) \/ DeleteCleans(d))
  PROVE  /\ req' = req /\ kind' = kind /\ store \subseteq store'
         /\ \A s \in Sessions :
              \/ sess'[s] = sess[s]
              \/ sess'[s] = Absent
              \/ /\ s > drawn /\ sess'[s].thread \in Threads
                 /\ \/ sess'[s].thread = s
                    \/ /\ sess'[s].thread > MaxSessions
                       /\ (\E r \in Requests : Active(r) /\ req[r].works = sess'[s].thread)
                            => sess'[s].early
<1>1. /\ TypeInv /\ StoreInv /\ sess \in [Sessions -> SessionType] /\ drawn \in 0 .. MaxSessions
      /\ MaxSessions \in Nat /\ Sessions \subseteq Threads
  BY LimitsFacts DEF Inv, TypeInv
<1>2. CASE CreateSession
  <2> DEFINE x == Fresh(drawn + 1, FALSE, FALSE)
  <2>1. sess' = [sess EXCEPT ![drawn + 1] = x] /\ UNCHANGED <<req, kind, store>>
    BY <1>2 DEF CreateSession
  <2>2. x.thread = drawn + 1
    BY DEF Fresh, Absent
  <2> HIDE DEF x
  <2> QED BY <1>1, <2>1, <2>2 DEF Sessions
<1>3. CASE LocalThread
  BY <1>3 DEF LocalThread
<1>4. ASSUME NEW a \in Adopters, AdoptLists(a)
      PROVE  UNCHANGED <<req, kind, store, sess>>
  BY <1>4 DEF AdoptLists
<1>5. ASSUME NEW a \in Adopters, AdoptCreates(a)
      PROVE  /\ UNCHANGED <<req, kind, store>>
             /\ \A s \in Sessions :
                  \/ sess'[s] = sess[s]
                  \/ /\ s > drawn /\ sess'[s].thread \in Threads
                     /\ sess'[s].thread > MaxSessions
                     /\ (\E r \in Requests : Active(r) /\ req[r].works = sess'[s].thread)
                          => sess'[s].early
  <2> DEFINE t == adopting[a]
             early == \E r \in Requests : req[r].pc \in {"running", "returned"} /\ req[r].works = t
             x == Fresh(t, TRUE, early)
  <2>1. UNCHANGED <<req, kind, store>> /\ t \in store /\ t > MaxSessions
    BY <1>1, <1>5 DEF AdoptCreates, StoreInv
  <2>2. sess' = sess \/ sess' = [sess EXCEPT ![drawn + 1] = x]
    BY <1>5 DEF AdoptCreates
  <2>3. x.thread = t /\ (early => x.early)
    BY DEF Fresh, Absent
  <2>4. early <=> \E r \in Requests : Active(r) /\ req[r].works = t
    BY DEF Active
  <2>5. t \in Threads
    BY <1>1, <2>1 DEF TypeInv
  <2> HIDE DEF x, early, t
  <2>6. \A s \in Sessions : sess'[s] = sess[s] \/ (s = drawn + 1 /\ sess'[s] = x)
    BY <1>1, <2>2
  <2>7. \A s \in Sessions : s = drawn + 1 => s > drawn
    BY <1>1
  <2> QED BY <2>1, <2>3, <2>4, <2>5, <2>6, <2>7
<1>6. ASSUME NEW d \in Sessions, DeleteSession(d) \/ DeleteCleans(d)
      PROVE  /\ UNCHANGED <<req, kind, store>>
             /\ \A s \in Sessions : sess'[s] = sess[s] \/ sess'[s] = Absent
  BY <1>1, <1>6 DEF DeleteSession, DeleteCleans
<1> QED BY <1>2, <1>3, <1>4, <1>5, <1>6

\* What Begin leaves of the other requests and sessions.
LEMMA BeginsApart ==
  ASSUME Inv, NEW r \in Requests, NEW b \in Sessions, Begins(r, b)
  PROVE  /\ req[r].pc = "idle" /\ req' = [req EXCEPT ![r] = req'[r]]
         /\ sess' = [sess EXCEPT ![b] = sess'[b]]
         /\ sess'[b].live /\ sess[b].live /\ sess'[b].thread = sess[b].thread
         /\ sess'[b].ready = sess[b].ready /\ sess'[b].early = sess[b].early
         /\ \A q \in Requests : Active(q) => req[q].on # b
         /\ \A q \in Requests : q # r => req'[q] = req[q]
         /\ UNCHANGED <<kind, store, cleaned>>
<1>1. /\ TypeInv /\ SessionInv /\ BusyInv /\ RequestInv
      /\ req \in [Requests -> RequestType] /\ Requests \subseteq Nat /\ calls \in Nat
  BY LimitsFacts DEF Inv, TypeInv, Requests
<1>2. /\ r = calls + 1 /\ sess[b].live /\ ~sess[b].busy
      /\ req' = [req EXCEPT ![r] = req'[r]]
      /\ \E m \in {Entry(r, "user"), Entry(r, "bash")} : sess' = Begun(b, m)
      /\ UNCHANGED <<kind, store, cleaned>>
  BY <1>1, BeginsMoves, Zenon
<1>3. PICK m \in {Entry(r, "user"), Entry(r, "bash")} : sess' = Begun(b, m)
  BY <1>2
<1>4. m \in EntryType
  BY DEF Entry, EntryType
<1>5. BeginsOn(b, m)
  BY <1>1, <1>4, BegunFacts
<1>6. /\ sess' = [sess EXCEPT ![b] = sess'[b]]
      /\ sess'[b].live /\ sess'[b].thread = sess[b].thread
      /\ sess'[b].ready = sess[b].ready /\ sess'[b].early = sess[b].early
  BY <1>2, <1>3, <1>5 DEF BeginsOn
<1>7. req[r].pc = "idle"
  BY <1>1, <1>2 DEF RequestInv
<1>8. \A q \in Requests : Active(q) => req[q].on # b
  BY <1>1, <1>2 DEF BusyInv
<1>9. \A q \in Requests : q # r => req'[q] = req[q]
  BY <1>1, <1>2
<1> QED BY <1>2, <1>6, <1>7, <1>8, <1>9

\* What Complete leaves of them.
LEMMA CompleteApart ==
  ASSUME Inv, NEW r \in Requests, Complete(r)
  PROVE  /\ req[r].on \in Sessions /\ Active(r) /\ ~Active(r)' /\ ~Talks(r)' /\ ~First(r)'
         /\ req'[r].pc = "completed" /\ req[r].pc = "returned"
         /\ req'[r].on = req[r].on /\ req'[r].img = req[r].img
         /\ \A q \in Requests : q # r => req'[q] = req[q]
         /\ \A q \in Requests : q # r /\ Active(q) => req[q].on # req[r].on
         /\ \A s \in Sessions : s # req[r].on => sess'[s] = sess[s]
         /\ \A s \in Sessions : sess'[s].live <=> sess[s].live
         /\ \A s \in Sessions : sess'[s].early = sess[s].early
         /\ UNCHANGED <<kind, store, files, cleaned>>
<1>1. /\ TypeInv /\ SessionInv /\ BusyInv /\ RequestInv /\ ReadingInv
      /\ req \in [Requests -> RequestType] /\ sess \in [Sessions -> SessionType]
  BY DEF Inv, TypeInv
<1>2. PICK c \in Sessions : c = req[r].on
  BY <1>1, CompleteMoves
<1>3. /\ req[r].pc = "returned" /\ req' = [req EXCEPT ![r] = req'[r]]
      /\ req'[r].pc = "completed" /\ req'[r].on = c /\ req'[r].img = req[r].img
      /\ sess[c].live => /\ sess' = [sess EXCEPT ![c] = sess'[c]]
                         /\ Completion(r, req[r], sess[c], sess'[c])
      /\ ~sess[c].live => sess' = sess
      /\ UNCHANGED <<kind, store, files, cleaned>>
  BY <1>1, <1>2, CompleteMoves
<1>4. Active(r) /\ ~Active(r)' /\ ~Talks(r)' /\ ~First(r)'
  BY <1>3 DEF Active, Talks, First
<1>5. /\ \A q \in Requests : q # r => req'[q] = req[q]
      /\ \A s \in Sessions : s # c => sess'[s] = sess[s]
  BY <1>1, <1>3
<1>6. \A q \in Requests : q # r /\ Active(q) => req[q].on # c
  BY <1>1, <1>2, <1>4 DEF BusyInv
<1>7. (sess'[c].live <=> sess[c].live) /\ sess'[c].early = sess[c].early
  BY <1>3 DEF Completion
<1> QED BY <1>2, <1>3, <1>4, <1>5, <1>6, <1>7

\* Every step keeps images; Respond removes that of its own message.
LEMMA ImageInvStep ==
  ASSUME Inv, Next
  PROVE  ImageInv'
<1>1. TypeInv /\ RequestInv /\ HistoryInv /\ ImageInv /\ RunInv
  BY DEF Inv
<1>2. /\ req \in [Requests -> RequestType] /\ files \in SUBSET Requests
      /\ Requests \subseteq Nat /\ drawn \in Nat /\ Sessions \subseteq Nat
  BY <1>1, LimitsFacts DEF TypeInv, Requests
<1> DEFINE Shown(q) == q.img /\ q.pc \in {"running", "returned", "completed", "answered"}
<1>3. CASE CreateSession \/ LocalThread \/ (\E a \in Adopters : AdoptLists(a) \/ AdoptCreates(a))
             \/ (\E d \in Sessions : DeleteSession(d))
  <2>1. files' = files /\ cleaned' = cleaned
    BY <1>3 DEF CreateSession, LocalThread, AdoptLists, AdoptCreates, DeleteSession
  <2>2. /\ req' = req
        /\ \A s \in Sessions : sess'[s] = sess[s] \/ sess'[s] = Absent \/ s > drawn
    BY <1>3, SessionsChange
  <2>3. ASSUME NEW r \in Requests, Shown(req[r]), sess'[req[r].on].live
        PROVE  sess[req[r].on].live
    <3>1. req[r].on \in Sessions /\ req[r].on <= drawn
      BY <2>3, ActiveFacts
    <3>2. ~Absent.live
      BY DEF Absent
    <3>3. PICK c \in Sessions : c = req[r].on
      BY <3>1
    <3>4. sess'[c].live /\ ~(c > drawn)
      BY <1>2, <2>2, <2>3, <3>1, <3>3
    <3>5. sess'[c] = sess[c]
      BY <2>2, <3>2, <3>4
    <3> QED BY <3>3, <3>4, <3>5
  <2> QED BY <1>1, <2>1, <2>2, <2>3 DEF ImageInv
<1>4. ASSUME NEW d \in Sessions, DeleteCleans(d)
      PROVE  ImageInv'
  <2>1. UNCHANGED <<req, sess>> /\ files' = files \ Images(d) /\ cleaned' = cleaned \cup {d}
    BY <1>4 DEF DeleteCleans
  <2>2. ASSUME NEW r \in Images(d) PROVE req[r].on = d
    <3>1. PICK i \in DOMAIN sess[d].hist : sess[d].hist[i] = Entry(r, "user")
      BY DEF Images
    <3>2. Entry(r, "user").is = "user" /\ Entry(r, "user").by = r
      BY DEF Entry
    <3> QED BY <1>1, <3>1, <3>2 DEF HistoryInv
  <2> QED BY <1>1, <2>1, <2>2 DEF ImageInv
<1>5. ASSUME NEW r \in Requests, NEW b \in Sessions, Begins(r, b)
      PROVE  ImageInv'
  <2>1. /\ req[r].pc = "idle"
        /\ \A q \in Requests : q # r => req'[q] = req[q]
        /\ \A s \in Sessions : sess'[s].live <=> sess[s].live
        /\ cleaned' = cleaned
    <3>1. /\ req[r].pc = "idle" /\ sess' = [sess EXCEPT ![b] = sess'[b]]
          /\ sess'[b].live /\ sess[b].live /\ cleaned' = cleaned
          /\ \A q \in Requests : q # r => req'[q] = req[q]
      BY <1>5, BeginsApart
    <3>2. sess \in [Sessions -> SessionType]
      BY <1>1 DEF TypeInv
    <3>3. \A s \in Sessions : s # b => sess'[s] = sess[s]
      BY <3>1, <3>2
    <3> QED BY <3>1, <3>3
  <2>2. /\ req'[r].pc \in {"running", "returned"}
        /\ files' = (IF req'[r].img THEN files \cup {r} ELSE files)
    BY <1>1, <1>5, BeginsMoves DEF Inv
  <2>3. ASSUME NEW q \in Requests, Shown(req'[q]), sess'[req'[q].on].live,
               req'[q].on \notin cleaned'
        PROVE  q \in files'
    <3>1. CASE q = r
      BY <2>2, <2>3, <3>1
    <3>2. CASE q # r
      <4>1. req'[q] = req[q] /\ Shown(req[q])
        BY <2>1, <2>3, <3>2
      <4>2. req[q].on \in Sessions
        BY <4>1, ActiveFacts
      <4>3. sess[req[q].on].live /\ req[q].on \notin cleaned
        BY <2>1, <2>3, <4>1, <4>2
      <4>4. q \in files
        BY <1>1, <4>1, <4>3 DEF ImageInv
      <4> QED BY <2>2, <4>4
    <3> QED BY <3>1, <3>2
  <2>4. ASSUME NEW q \in Requests, req'[q].pc = "refused"
        PROVE  q \notin files'
    <3>1. q # r /\ req[q].pc = "refused"
      BY <2>1, <2>2, <2>4
    <3> QED BY <1>1, <2>2, <3>1 DEF ImageInv
  <2> QED BY <2>3, <2>4 DEF ImageInv
<1>6. ASSUME NEW r \in Requests, ToolStarts(r)
      PROVE  ImageInv'
  <2>1. /\ req' = [req EXCEPT ![r] = req'[r]] /\ UNCHANGED <<sess, files, cleaned>>
        /\ req'[r].pc = req[r].pc /\ req'[r].on = req[r].on /\ req'[r].img = req[r].img
    BY <1>1, <1>6, ToolStartsMoves
  <2>2. \A q \in Requests : req'[q].pc = req[q].pc /\ req'[q].on = req[q].on
                            /\ req'[q].img = req[q].img
    BY <1>2, <2>1
  <2> QED BY <1>1, <2>1, <2>2 DEF ImageInv
<1>7. ASSUME NEW r \in Requests, Complete(r)
      PROVE  ImageInv'
  <2>1. /\ req'[r].pc = "completed" /\ req[r].pc = "returned"
        /\ req'[r].on = req[r].on /\ req'[r].img = req[r].img /\ req[r].on \in Sessions
        /\ \A q \in Requests : q # r => req'[q] = req[q]
        /\ \A s \in Sessions : sess'[s].live <=> sess[s].live
        /\ UNCHANGED <<files, cleaned>>
    BY <1>7, CompleteApart
  <2>2. ASSUME NEW q \in Requests, Shown(req'[q]), sess'[req'[q].on].live,
               req'[q].on \notin cleaned'
        PROVE  q \in files'
    <3>1. Shown(req[q]) /\ req'[q].on = req[q].on
      BY <2>1, <2>2
    <3>2. req[q].on \in Sessions
      BY <3>1, ActiveFacts
    <3>3. sess[req[q].on].live /\ req[q].on \notin cleaned
      BY <2>1, <2>2, <3>1, <3>2
    <3> QED BY <1>1, <2>1, <3>1, <3>3 DEF ImageInv
  <2>3. ASSUME NEW q \in Requests, req'[q].pc = "refused"
        PROVE  q \notin files'
    BY <1>1, <2>1, <2>3 DEF ImageInv
  <2> QED BY <2>2, <2>3 DEF ImageInv
<1>8. ASSUME NEW r \in Requests, Respond(r)
      PROVE  ImageInv'
  <2>1. /\ req[r].pc = "completed" /\ req' = [req EXCEPT ![r] = req'[r]]
        /\ req'[r].on = req[r].on /\ req'[r].img = req[r].img
        /\ \/ req'[r].pc = "answered" /\ files' = files
           \/ req'[r].pc = "refused" /\ files' = files \ {r}
        /\ UNCHANGED <<sess, cleaned>>
    BY <1>1, <1>8, RespondMoves
  <2>2. \A q \in Requests : q # r => req'[q] = req[q]
    BY <1>2, <2>1
  <2> QED BY <1>1, <2>1, <2>2 DEF ImageInv
<1>9. ASSUME NEW r \in Requests, Moves(r)
      PROVE  ImageInv'
  <2>1. Proceeds(r)
    BY <1>1, <1>9, MovesProceed
  <2>2. /\ UNCHANGED <<sess, files, cleaned>>
        /\ \A q \in Requests : SameRun(req[q], req'[q])
    BY <1>1, <2>1, ProceedsFacts DEF Proceeds
  <2> QED BY <1>1, <2>2 DEF ImageInv, SameRun
<1>10. StepCases
  BY NextIsCases
<1> QED BY <1>3, <1>4, <1>5, <1>6, <1>7, <1>8, <1>9, <1>10 DEF StepCases

-----------------------------------------------------------------------------
(* Runs and their threads.                                                 *)

\* RunInv for one request.
RunOk(r) ==
  Talks(r) =>
    LET q == req[r]
        x == sess[q.on]
    IN
    /\ q.mode \in {"new", "resume"}
    /\ q.mode = "resume" => q.asked \in store
    /\ q.asked # NoThread
    /\ x.live => q.asked = x.thread
    /\ x.live /\ kind # "claude" /\ q.mode = "new" => ~x.ready
    /\ q.works # NoThread =>
         /\ q.works \in store
         /\ IF kind = "claude" \/ q.mode = "resume" THEN q.works = q.asked
                                                   ELSE q.works > MaxSessions

\* A run that goes on, while its session stays on its thread.
LEMMA RunStays ==
  ASSUME Inv, NEW r \in Requests,
         Talks(r)' => /\ Talks(r) /\ req'[r].on = req[r].on /\ req'[r].mode = req[r].mode
                      /\ req'[r].asked = req[r].asked /\ req'[r].works = req[r].works,
         kind' = kind, store \subseteq store',
         \A s \in Sessions : Talks(r) /\ s = req[r].on /\ sess'[s].live =>
           sess[s].live /\ sess'[s].thread = sess[s].thread /\ sess'[s].ready = sess[s].ready
  PROVE  RunOk(r)'
<1> SUFFICES ASSUME Talks(r)' PROVE RunOk(r)'
  BY DEF RunOk
<1>1. Talks(r) /\ Active(r) /\ RunOk(r)
  BY DEF Inv, RunInv, RunOk, Talks
<1>2. PICK c \in Sessions : c = req[r].on
  BY <1>1, ActiveFacts
<1>3. sess'[c].live =>
        sess[c].live /\ sess'[c].thread = sess[c].thread /\ sess'[c].ready = sess[c].ready
  BY <1>1, <1>2
<1> QED BY <1>1, <1>2, <1>3 DEF RunOk

\* Every step keeps the arguments of a run true of its session: what could change the
\* session meanwhile finds it busy, or deletes it.
LEMMA RunInvStep ==
  ASSUME Inv, Next
  PROVE  RunInv'
<1>1. TypeInv /\ SessionInv /\ RequestInv /\ RunInv /\ BusyInv /\ StoreInv
  BY DEF Inv
<1>2. /\ sess \in [Sessions -> SessionType] /\ req \in [Requests -> RequestType]
      /\ kind \in {"codex", "claude", "gemini"} /\ MaxMessages \in Nat \ {0}
      /\ MaxSessions \in Nat /\ made \in Nat
  BY <1>1, LimitsFacts DEF TypeInv
<1>s. SUFFICES \A q \in Requests : RunOk(q)'
  BY DEF RunInv, RunOk
<1>3. CASE CreateSession \/ LocalThread \/ (\E a \in Adopters : AdoptLists(a) \/ AdoptCreates(a))
             \/ (\E d \in Sessions : DeleteSession(d) \/ DeleteCleans(d))
  <2>1. /\ req' = req /\ kind' = kind /\ store \subseteq store'
        /\ \A s \in Sessions : sess'[s] = sess[s] \/ sess'[s] = Absent \/ s > drawn
    BY <1>3, SessionsChange
  <2>2. ASSUME NEW q \in Requests PROVE RunOk(q)'
    <3>1. Talks(q)' <=> Talks(q)
      BY <2>1 DEF Talks, Active
    <3>2. ASSUME NEW s \in Sessions, Talks(q), s = req[q].on, sess'[s].live
          PROVE  sess'[s] = sess[s]
      <4>1. s <= drawn /\ s \in Nat /\ drawn \in Nat
        BY <1>1, <3>2, ActiveFacts, LimitsFacts DEF Talks
      <4>2. ~Absent.live /\ ~(s > drawn)
        BY <4>1 DEF Absent
      <4> QED BY <2>1, <3>2, <4>2
    <3> QED BY <2>1, <3>1, <3>2, RunStays
  <2> QED BY <2>2
<1>4. ASSUME NEW r \in Requests, NEW b \in Sessions, Begins(r, b)
      PROVE  \A q \in Requests : RunOk(q)'
  <2>1. /\ \A q \in Requests : q # r => req'[q] = req[q]
        /\ sess' = [sess EXCEPT ![b] = sess'[b]]
        /\ \A q \in Requests : Active(q) => req[q].on # b
        /\ UNCHANGED <<kind, store>>
    BY <1>4, BeginsApart
  <2>2. ASSUME NEW q \in Requests, q # r PROVE RunOk(q)'
    <3>1. Talks(q)' <=> Talks(q)
      BY <2>1, <2>2 DEF Talks, Active
    <3>2. ASSUME NEW s \in Sessions, Talks(q), s = req[q].on
          PROVE  sess'[s] = sess[s]
      BY <1>2, <2>1, <3>2 DEF Talks
    <3>3. req'[q] = req[q] /\ kind' = kind /\ store \subseteq store'
      BY <2>1, <2>2
    <3>4. \A s \in Sessions : Talks(q) /\ s = req[q].on /\ sess'[s].live =>
           sess[s].live /\ sess'[s].thread = sess[s].thread /\ sess'[s].ready = sess[s].ready
      BY <3>2
    <3> QED BY <3>1, <3>3, <3>4, RunStays
  <2>3. ASSUME Talks(r)' PROVE RunOk(r)'
    <3> DEFINE m == Entry(r, "user")
    <3>1. /\ req'[r].on = b /\ Blank(req'[r])
          /\ sess' = Begun(b, m) /\ req'[r].mode = Mode(Begun(b, m)[b])
          /\ req'[r].asked = sess[b].thread /\ sess[b].live
      BY <1>1, <1>4, <2>3, BeginsMoves DEF Talks
    <3>2. m \in EntryType /\ m.is # "reply"
      BY DEF Entry, EntryType
    <3>3. BeginsOn(b, m)
      BY <1>1, <3>2, BegunFacts
    <3> DEFINE x == sess[b]
               y == sess'[b]
    <3>4. /\ y.live = x.live /\ y.thread = x.thread /\ y.ready = x.ready
          /\ y.hist = Appended(x.hist, m) /\ y \in SessionType
      BY <3>1, <3>3 DEF BeginsOn
    <3>5. SessionOk(b, x) /\ x.hist \in Seq(EntryType) /\ Len(x.hist) <= MaxMessages
      BY <1>1, <1>2, SessionInvParts DEF SessionOk, SessionType
    <3>6. HasAssistantReply(y.hist) => HasAssistantReply(x.hist)
      <4> HIDE DEF x, y, m
      <4> QED BY <1>2, <3>2, <3>4, <3>5, RepliesStay
    <3>7. /\ x.thread # NoThread
          /\ x.ready => x.thread \in store
          /\ kind = "claude" /\ HasAssistantReply(x.hist) => x.thread \in store
      BY <3>1, <3>5 DEF SessionOk
    <3>8. /\ req'[r].mode \in {"new", "resume"}
          /\ req'[r].mode = "resume" => x.thread \in store
          /\ kind # "claude" /\ req'[r].mode = "new" => ~x.ready
      <4>1. req'[r].mode = Mode(y)
        BY <3>1
      <4> HIDE DEF x, y
      <4> QED BY <1>2, <3>4, <3>6, <3>7, <4>1 DEF Mode, CodexMode, GeminiMode, ClaudeMode
    <3>9. req'[r].works = NoThread
      BY <3>1 DEF Blank
    <3> QED BY <2>1, <3>1, <3>4, <3>7, <3>8, <3>9 DEF RunOk
  <2>4. ~Talks(r)' => RunOk(r)'
    BY DEF RunOk
  <2> QED BY <2>2, <2>3, <2>4
<1>5. ASSUME NEW r \in Requests, ToolStarts(r)
      PROVE  \A q \in Requests : RunOk(q)'
  <2>1. /\ req' = [req EXCEPT ![r] = req'[r]] /\ Uses(r)
        /\ store' = store \cup {req'[r].works} /\ UNCHANGED <<kind, sess>>
        /\ req'[r].pc = req[r].pc /\ req'[r].on = req[r].on /\ req'[r].op = req[r].op
        /\ req'[r].mode = req[r].mode /\ req'[r].asked = req[r].asked
        /\ req[r].mode = "new" /\ kind # "claude" => req'[r].works = MaxSessions + made + 1
        /\ ~(req[r].mode = "new" /\ kind # "claude") => req'[r].works = req[r].asked
    BY <1>1, <1>5, ToolStartsMoves
  <2>2. ASSUME NEW q \in Requests, q # r PROVE RunOk(q)'
    <3>1. req'[q] = req[q] /\ (Talks(q)' <=> Talks(q))
      BY <1>2, <2>1, <2>2 DEF Talks, Active
    <3> QED BY <2>1, <3>1, RunStays
  <2>3. RunOk(r)'
    <3>1. Talks(r)
      BY <2>1 DEF Talks, Uses, Running, Active
    <3>2. RunOk(r)
      BY <1>1 DEF RunInv, RunOk
    <3>3. MaxSessions + made + 1 > MaxSessions
      BY <1>2
    <3> QED BY <2>1, <3>1, <3>2, <3>3 DEF RunOk
  <2> QED BY <2>2, <2>3
<1>6. ASSUME NEW r \in Requests, Complete(r)
      PROVE  \A q \in Requests : RunOk(q)'
  <2>1. /\ ~Talks(r)' /\ UNCHANGED <<kind, store>>
        /\ \A q \in Requests : q # r => req'[q] = req[q]
        /\ \A q \in Requests : q # r /\ Active(q) => req[q].on # req[r].on
        /\ \A s \in Sessions : s # req[r].on => sess'[s] = sess[s]
    BY <1>6, CompleteApart
  <2>2. ASSUME NEW q \in Requests, q # r PROVE RunOk(q)'
    <3>1. req'[q] = req[q] /\ (Talks(q)' <=> Talks(q))
      BY <2>1, <2>2 DEF Talks, Active
    <3>2. ASSUME NEW s \in Sessions, Talks(q), s = req[q].on
          PROVE  sess'[s] = sess[s]
      BY <2>1, <2>2, <3>2 DEF Talks
    <3>3. \A s \in Sessions : Talks(q) /\ s = req[q].on /\ sess'[s].live =>
           sess[s].live /\ sess'[s].thread = sess[s].thread /\ sess'[s].ready = sess[s].ready
      BY <3>2
    <3> QED BY <2>1, <3>1, <3>3, RunStays
  <2>3. RunOk(r)'
    BY <2>1 DEF RunOk
  <2> QED BY <2>2, <2>3
<1>7. ASSUME NEW r \in Requests, Respond(r) \/ Moves(r)
      PROVE  \A q \in Requests : RunOk(q)'
  <2>2. ASSUME NEW q \in Requests PROVE RunOk(q)'
    <3>1. /\ req'[q].on = req[q].on /\ req'[q].mode = req[q].mode
          /\ req'[q].works = req[q].works
          /\ Talks(q)' <=> Talks(q)
          /\ Talks(q) => req'[q].asked = req[q].asked
          /\ UNCHANGED <<kind, sess, store>>
      BY <1>7, QuietRequests
    <3> QED BY <3>1, RunStays
  <2> QED BY <2>2
<1>10. StepCases
  BY NextIsCases
<1> QED BY <1>3, <1>4, <1>5, <1>6, <1>7, <1>10 DEF StepCases

-----------------------------------------------------------------------------
\* The thread of a first run is one that a tool has created, and in the store.
LEMMA FirstFacts ==
  ASSUME Inv, NEW r \in Requests, First(r)
  PROVE  /\ req[r].works \in store /\ req[r].works > MaxSessions /\ Active(r) /\ Talks(r)
         /\ kind # "claude"
BY DEF Inv, RunInv, First, Talks

\* First runs that stay as they are, while sessions keep their threads.
LEMMA FirstRunsStay ==
  ASSUME Inv, \A r \in Requests : First(r)' => First(r) /\ req'[r].works = req[r].works,
         \A r \in Requests, s \in Sessions :
           First(r) /\ First(r)' /\ sess'[s].live /\ sess'[s].thread = req[r].works =>
             \/ sess'[s].early
             \/ sess[s].live /\ sess[s].thread = req[r].works /\ sess'[s].early = sess[s].early
  PROVE  FirstRunInv'
<1>1. FirstRunInv
  BY DEF Inv
<1>2. ASSUME NEW p \in Requests, NEW r \in Requests, First(p)', First(r)',
             req'[p].works = req'[r].works
      PROVE  p = r
  BY <1>1, <1>2 DEF FirstRunInv
<1>3. ASSUME NEW r \in Requests, NEW s \in Sessions, First(r)', sess'[s].live,
             sess'[s].thread = req'[r].works
      PROVE  sess'[s].early
  <2>1. First(r) /\ sess'[s].thread = req[r].works
    BY <1>3
  <2>2. CASE sess[s].live /\ sess[s].thread = req[r].works /\ sess'[s].early = sess[s].early
    BY <1>1, <2>1, <2>2 DEF FirstRunInv
  <2> QED BY <1>3, <2>1, <2>2
<1> QED BY <1>2, <1>3 DEF FirstRunInv

\* Every step keeps the thread of a first run its own.
LEMMA FirstRunInvStep ==
  ASSUME Inv, Next
  PROVE  FirstRunInv'
<1>1. TypeInv /\ SessionInv /\ RequestInv /\ RunInv /\ BusyInv /\ StoreInv /\ FirstRunInv /\ ReadingInv
  BY DEF Inv
<1>2. /\ sess \in [Sessions -> SessionType] /\ req \in [Requests -> RequestType]
      /\ MaxSessions \in Nat /\ made \in Nat /\ Threads \subseteq Nat /\ store \subseteq Threads
  BY <1>1, LimitsFacts DEF TypeInv
<1>3. CASE CreateSession \/ LocalThread \/ (\E a \in Adopters : AdoptLists(a) \/ AdoptCreates(a))
             \/ (\E d \in Sessions : DeleteSession(d) \/ DeleteCleans(d))
  <2>1. /\ req' = req /\ kind' = kind
        /\ \A s \in Sessions :
              \/ sess'[s] = sess[s]
              \/ sess'[s] = Absent
              \/ /\ s > drawn /\ sess'[s].thread \in Threads
                 /\ \/ sess'[s].thread = s
                    \/ /\ sess'[s].thread > MaxSessions
                       /\ (\E r \in Requests : Active(r) /\ req[r].works = sess'[s].thread)
                            => sess'[s].early
    BY <1>3, SessionsChange
  <2>2. \A r \in Requests : (First(r)' <=> First(r)) /\ req'[r] = req[r]
    BY <2>1 DEF First, Talks, Active
  <2>3. ASSUME NEW r \in Requests, NEW s \in Sessions, First(r), sess'[s].live,
               sess'[s].thread = req[r].works
        PROVE  \/ sess'[s].early
               \/ sess[s].live /\ sess[s].thread = req[r].works /\ sess'[s].early = sess[s].early
    <3>1. req[r].works > MaxSessions /\ Active(r)
      BY <2>3, FirstFacts
    <3>2. s \in Nat /\ s <= MaxSessions
      BY <1>2 DEF Sessions
    <3>3. sess'[s].thread # s
      BY <1>2, <2>3, <3>1, <3>2
    <3>4. ~Absent.live
      BY DEF Absent
    <3> QED BY <2>1, <2>3, <3>1, <3>3, <3>4
  <2> QED BY <2>2, <2>3, FirstRunsStay
<1>4. ASSUME NEW r \in Requests, NEW b \in Sessions, Begins(r, b)
      PROVE  FirstRunInv'
  <2>1. /\ \A q \in Requests : q # r => req'[q] = req[q]
        /\ sess' = [sess EXCEPT ![b] = sess'[b]]
        /\ sess[b].live /\ sess'[b].thread = sess[b].thread /\ sess'[b].early = sess[b].early
        /\ kind' = kind
    BY <1>4, BeginsApart
  <2>2. Blank(req'[r])
    BY <1>1, <1>4, BeginsMoves
  <2>3. ~First(r)'
    BY <2>2 DEF Blank, First
  <2>4. \A q \in Requests : First(q)' => First(q) /\ req'[q].works = req[q].works
    BY <2>1, <2>3 DEF First, Talks, Active
  <2>5. \A s \in Sessions : s # b => sess'[s] = sess[s]
    BY <1>2, <2>1
  <2> QED BY <2>1, <2>4, <2>5, FirstRunsStay
<1>5. ASSUME NEW r \in Requests, ToolStarts(r)
      PROVE  FirstRunInv'
  <2> DEFINE n == MaxSessions + made + 1
  <2>1. /\ req' = [req EXCEPT ![r] = req'[r]] /\ UNCHANGED <<kind, sess>>
        /\ req'[r].mode = req[r].mode
        /\ req[r].mode = "new" /\ kind # "claude" => req'[r].works = MaxSessions + made + 1
    BY <1>1, <1>5, ToolStartsMoves
  <2>2. \A q \in Requests : q # r => (First(q)' <=> First(q)) /\ req'[q] = req[q]
    BY <1>2, <2>1 DEF First, Talks, Active
  <2>3. First(r)' => req'[r].works = n /\ kind # "claude"
    BY <2>1 DEF First
  <2>4. n > MaxSessions /\ (kind # "claude" => n \notin store)
    BY <1>1, <1>2 DEF StoreInv
  <2> HIDE DEF n
  <2>5. ASSUME NEW p \in Requests, NEW q \in Requests, First(p)', First(q)',
               req'[p].works = req'[q].works
        PROVE  p = q
    <3>1. CASE p # r /\ q # r
      BY <1>1, <2>2, <2>5, <3>1 DEF FirstRunInv
    <3>2. CASE p = r /\ q # r
      BY <2>2, <2>3, <2>4, <2>5, <3>2, FirstFacts
    <3>3. CASE p # r /\ q = r
      BY <2>2, <2>3, <2>4, <2>5, <3>3, FirstFacts
    <3> QED BY <3>1, <3>2, <3>3
  <2>6. ASSUME NEW q \in Requests, NEW s \in Sessions, First(q)', sess'[s].live,
               sess'[s].thread = req'[q].works
        PROVE  sess'[s].early
    <3>1. sess'[s] = sess[s]
      BY <2>1
    <3>2. CASE q # r
      BY <1>1, <2>2, <2>6, <3>1, <3>2 DEF FirstRunInv
    <3>3. CASE q = r
      <4>1. sess[s].live /\ sess[s].thread = n /\ kind # "claude"
        BY <2>3, <2>6, <3>1, <3>3
      <4>2. sess[s].ready \/ sess[s].thread = s
        BY <1>1, <4>1 DEF SessionInv
      <4>3. sess[s].ready => sess[s].thread \in store
        BY <1>1 DEF SessionInv
      <4>4. s # n
        <5>1. s \in Nat /\ s <= MaxSessions
          BY <1>2 DEF Sessions
        <5> QED BY <1>2, <2>4, <5>1 DEF n
      <4> QED BY <2>4, <4>1, <4>2, <4>3, <4>4
    <3> QED BY <3>2, <3>3
  <2> QED BY <2>5, <2>6 DEF FirstRunInv
<1>6. ASSUME NEW r \in Requests, Complete(r)
      PROVE  FirstRunInv'
  <2>1. /\ ~First(r)' /\ UNCHANGED <<kind, store>> /\ Active(r)
        /\ \A q \in Requests : q # r => req'[q] = req[q]
        /\ \A s \in Sessions : s # req[r].on => sess'[s] = sess[s]
        /\ \A s \in Sessions : sess'[s].early = sess[s].early
        /\ \A s \in Sessions : sess'[s].live <=> sess[s].live
    BY <1>6, CompleteApart
  <2>2. PICK c \in Sessions : c = req[r].on
    BY <1>6, CompleteApart
  <2>3. \A q \in Requests : First(q)' => First(q) /\ req'[q].works = req[q].works /\ q # r
    BY <2>1 DEF First, Talks, Active
  <2>4. ASSUME NEW q \in Requests, First(q), First(q)', sess'[c].live,
               sess'[c].thread = req[q].works
        PROVE  sess[c].thread = req[q].works
    <3>1. sess[c].live
      BY <2>1, <2>4
    <3>2. Completion(r, req[r], sess[c], sess'[c])
      BY <1>1, <1>6, <2>2, <3>1, CompleteMoves
    <3>3. sess'[c].thread = sess[c].thread \/
            /\ req[r].op = "text" /\ kind # "claude" /\ req[r].got.thread # NoThread
            /\ sess'[c].thread = req[r].got.thread
      BY <3>2 DEF Completion
    <3>4. CASE /\ req[r].op = "text" /\ kind # "claude" /\ req[r].got.thread # NoThread
               /\ sess'[c].thread = req[r].got.thread
      <4>1. Talks(r)
        BY <2>1, <3>4 DEF Talks
      <4>2. NewParser.thread = NoThread
        BY DEF NewParser
      <4>3. req[r].got.thread = req[r].works /\ req[r].works # NoThread
        BY <1>1, <3>4, <4>1, <4>2 DEF ReadingInv
      <4>4. ~First(r)
        BY <1>1, <2>3, <2>4, <3>4, <4>3 DEF FirstRunInv
      <4>5. req[r].mode = "resume"
        BY <1>1, <3>4, <4>1, <4>3, <4>4 DEF First, RunInv
      <4>6. req[r].works = req[r].asked /\ req[r].asked = sess[c].thread
        BY <1>1, <2>2, <3>1, <4>1, <4>3, <4>5 DEF RunInv
      <4> QED BY <2>4, <3>4, <4>3, <4>6
    <3> QED BY <2>4, <3>3, <3>4
  <2>5. ASSUME NEW q \in Requests, NEW s \in Sessions, First(q), First(q)', sess'[s].live,
               sess'[s].thread = req[q].works
        PROVE  sess[s].live /\ sess[s].thread = req[q].works /\ sess'[s].early = sess[s].early
    <3>1. CASE s = c
      BY <2>1, <2>4, <2>5, <3>1
    <3>2. CASE s # c
      BY <2>1, <2>2, <2>5, <3>2
    <3> QED BY <3>1, <3>2
  <2> QED BY <2>3, <2>5, FirstRunsStay
<1>7. ASSUME NEW r \in Requests, Respond(r) \/ Moves(r)
      PROVE  FirstRunInv'
  <2>1. ASSUME NEW q \in Requests
        PROVE  /\ req'[q].works = req[q].works
               /\ First(q)' <=> First(q)
               /\ UNCHANGED sess
    BY <1>7, QuietRequests
  <2>2. UNCHANGED sess
    BY <2>1
  <2> QED BY <2>1, <2>2, FirstRunsStay
<1>10. StepCases
  BY NextIsCases
<1> QED BY <1>3, <1>4, <1>5, <1>6, <1>7, <1>10 DEF StepCases

-----------------------------------------------------------------------------
(* The reader of a run.                                                    *)

\* ReadingInv for the record q of one request, under provider knd, whose tools'
\* first line is of kind first.
ReadingOk(q, knd, first) ==
  /\ q.works = NoThread =>
       /\ q.got = NewParser /\ q.pipe = <<>> /\ q.reader = "reading" /\ ~q.lost
       /\ q.said = 0 /\ q.begun = 0 /\ q.ended = 0 /\ q.open = {} /\ q.unnamed = 0 /\ ~q.due
  /\ ~q.got.raw => q.got = NewParser
  /\ ~q.got.raw /\ q.pc = "running" /\ q.works # NoThread =>
       q.reader = "reading" /\ q.pipe # <<>> /\ q.pipe[1] = Line(first, q.works)
  /\ q.got.raw /\ knd # "claude" => q.got.thread = q.works
  /\ \A i \in DOMAIN q.pipe : q.pipe[i].k \in Opening => q.pipe[i].id = q.works
  /\ q.pc = "returned" => q.pipe = <<>>
  /\ ~q.lost => q.reader = "reading"
  /\ q.pc = "running" /\ q.reader = "reading" => ~q.lost
  /\ q.due => q.more
  /\ q.proc = "exited" => ~q.more

\* The invariant of all runs is that of each.
LEMMA ReadingInvParts ==
  ReadingInv <=> \A r \in Requests : Talks(r) => ReadingOk(req[r], kind, FirstLine)
BY DEF ReadingInv, ReadingOk, Running

\* Of the runs of tools, a step begins or moves at most one.
Apart(r) == \A q \in Requests : q # r /\ Talks(q)' => Talks(q) /\ req'[q] = req[q]
Quiet == \A q \in Requests : Talks(q)' => Talks(q) /\ req'[q] = req[q]
One == \E r \in Requests :
         /\ (\E b \in Sessions : Begins(r, b)) \/ ToolStarts(r) \/ Moves(r)
         /\ Apart(r)

\* So all that a proof about runs has to look at is the step of one of them.
LEMMA OneRunMoves ==
  ASSUME Inv, Next
  PROVE  /\ kind' = kind
         /\ Quiet \/ One
<1>1. TypeInv /\ SessionInv /\ RunInv /\ req \in [Requests -> RequestType]
  BY DEF Inv, TypeInv
<1>2. ASSUME NEW r \in Requests, \A q \in Requests : q # r => req'[q] = req[q]
      PROVE  Apart(r)
  BY <1>2 DEF Talks, Active, Apart
<1>3. CASE CreateSession \/ LocalThread \/ (\E a \in Adopters : AdoptLists(a) \/ AdoptCreates(a))
             \/ (\E d \in Sessions : DeleteSession(d) \/ DeleteCleans(d))
  <2>1. req' = req /\ kind' = kind
    BY <1>3, SessionsChange
  <2>2. Quiet
    BY <2>1 DEF Talks, Active, Quiet
  <2> QED BY <2>1, <2>2
<1>4. ASSUME NEW r \in Requests, NEW b \in Sessions, Begins(r, b)
      PROVE  kind' = kind /\ One
  <2>1. kind' = kind /\ \A q \in Requests : q # r => req'[q] = req[q]
    BY <1>4, BeginsApart
  <2>2. Apart(r)
    BY <1>2, <2>1
  <2> QED BY <1>4, <2>1, <2>2 DEF One
<1>5. ASSUME NEW r \in Requests, ToolStarts(r)
      PROVE  kind' = kind /\ One
  <2>1. kind' = kind /\ req' = [req EXCEPT ![r] = req'[r]]
    BY <1>1, <1>5, ToolStartsMoves
  <2>2. \A q \in Requests : q # r => req'[q] = req[q]
    BY <1>1, <2>1
  <2>3. Apart(r)
    BY <1>2, <2>2
  <2> QED BY <1>5, <2>1, <2>3 DEF One
<1>6. ASSUME NEW r \in Requests, Complete(r)
      PROVE  kind' = kind /\ Quiet
  <2>1. kind' = kind /\ ~Talks(r)' /\ \A q \in Requests : q # r => req'[q] = req[q]
    BY <1>6, CompleteApart
  <2>2. Apart(r)
    BY <1>2, <2>1
  <2> QED BY <2>1, <2>2 DEF Apart, Quiet
<1>7. ASSUME NEW r \in Requests, Respond(r)
      PROVE  kind' = kind /\ Quiet
  <2>1. /\ kind' = kind /\ req' = [req EXCEPT ![r] = req'[r]]
        /\ req'[r].pc \in {"answered", "refused"}
    BY <1>1, <1>7, RespondMoves
  <2>2. ~Talks(r)' /\ \A q \in Requests : q # r => req'[q] = req[q]
    BY <1>1, <2>1 DEF Talks, Active
  <2>3. Apart(r)
    BY <1>2, <2>2
  <2> QED BY <2>1, <2>2, <2>3 DEF Apart, Quiet
<1>8. ASSUME NEW r \in Requests, Moves(r)
      PROVE  kind' = kind /\ One
  <2>1. Proceeds(r)
    BY <1>1, <1>8, MovesProceed
  <2>2. kind' = kind /\ \A q \in Requests : q # r => req'[q] = req[q]
    BY <1>1, <2>1 DEF Proceeds
  <2>3. Apart(r)
    BY <1>2, <2>2
  <2> QED BY <1>8, <2>2, <2>3 DEF One
<1>10. StepCases
  BY NextIsCases
<1> QED BY <1>3, <1>4, <1>5, <1>6, <1>7, <1>8, <1>10 DEF StepCases

\* Every step keeps what is said of readers.
LEMMA ReadingInvStep ==
  ASSUME Inv, Next
  PROVE  ReadingInv'
<1>1. /\ TypeInv /\ SessionInv /\ RunInv /\ RequestInv /\ req \in [Requests -> RequestType]
      /\ kind \in {"codex", "claude", "gemini"}
      /\ \A r \in Requests : Talks(r) => ReadingOk(req[r], kind, FirstLine)
  BY ReadingInvParts, LimitsFacts DEF Inv, TypeInv
<1>2. kind' = kind /\ FirstLine' = FirstLine
  BY OneRunMoves DEF FirstLine
<1>3. /\ FirstLine \in Opening /\ "huge" \notin Opening
      /\ \A n : Line(FirstLine, n).k = FirstLine /\ Line(FirstLine, n).id = n
      /\ kind # "claude" => \A n : Announces(kind, Line(FirstLine, n))
      /\ \A k \in Later : k \notin Opening
      /\ \A line : Announces(kind, line) => line.k \in Opening
  BY <1>1 DEF FirstLine, Opening, Line, Announces, Later
<1>4. ASSUME NEW r \in Requests, NEW b \in Sessions, Begins(r, b), Talks(r)'
      PROVE  ReadingOk(req'[r], kind, FirstLine)
  <2>1. /\ Blank(req'[r]) /\ req'[r].proc \in {"running", "none"} /\ req'[r].reader = "reading"
        /\ req'[r].pc \in {"running", "returned"}
    BY <1>1, <1>4, BeginsMoves DEF Talks
  <2>2. ~NewParser.raw
    BY DEF NewParser
  <2>3. DOMAIN <<>> = {}
    OBVIOUS
  <2> QED BY <2>1, <2>2, <2>3 DEF ReadingOk, Blank
<1>5. ASSUME NEW r \in Requests, ToolStarts(r)
      PROVE  ReadingOk(req'[r], kind, FirstLine)
  <2> DEFINE p == req[r]
             q == req'[r]
  <2>1. /\ q.pipe = Append(p.pipe, Line(FirstLine, q.works))
        /\ p.works = NoThread /\ q.works \in Threads /\ p.proc = "running" /\ q.proc = p.proc
        /\ q.pc = p.pc /\ q.reader = p.reader /\ q.got = p.got /\ q.lost = p.lost
        /\ q.due = p.due /\ Uses(r)
    BY <1>1, <1>5, ToolStartsMoves
  <2>2. Talks(r) /\ p.pc = "running"
    BY <2>1 DEF Uses, Running, Talks, Active
  <2>3. ReadingOk(p, kind, FirstLine)
    BY <1>1, <2>2
  <2>4. /\ p.pipe = <<>> /\ p.got = NewParser /\ p.reader = "reading" /\ ~p.lost /\ ~p.due
    BY <2>1, <2>3 DEF ReadingOk
  <2>5. q.works # NoThread
    BY <1>1, <2>1, LimitsFacts DEF Threads, NoThread
  <2> HIDE DEF p, q
  <2>6. q.pipe = <<Line(FirstLine, q.works)>>
    BY <2>1, <2>4
  <2>7. /\ q.pipe # <<>> /\ q.pipe[1] = Line(FirstLine, q.works)
        /\ \A i \in DOMAIN q.pipe : q.pipe[i].id = q.works
    BY <1>3, <2>6
  <2>8. ~NewParser.raw
    BY DEF NewParser
  <2>9. ReadingOk(q, kind, FirstLine)
    BY <2>1, <2>2, <2>4, <2>5, <2>7, <2>8 DEF ReadingOk
  <2> QED BY <2>9 DEF q
<1>6. ASSUME NEW r \in Requests, ToolWrites(r)
      PROVE  ReadingOk(req'[r], kind, FirstLine)
  <2> DEFINE p == req[r]
             q == req'[r]
  <2>1. /\ Proceeds(r) /\ p.works # NoThread /\ p.more /\ Uses(r) /\ p.proc = "running"
        /\ \E w \in Writes(p), more \in BOOLEAN : WritesOn(p, q, w, more)
    BY <1>1, <1>6, ToolWritesMoves
  <2>2. PICK w \in Writes(p), more \in BOOLEAN : WritesOn(p, q, w, more)
    BY <2>1
  <2>3. Talks(r) /\ p.pc = "running"
    BY <2>1 DEF Uses, Running, Talks, Active
  <2>4. ReadingOk(p, kind, FirstLine) /\ p.pipe \in Seq(LineType)
    BY <1>1, <2>3 DEF RequestType
  <2>5. q.works = p.works
    BY <2>1 DEF Proceeds, SameRun
  <2> HIDE DEF p, q
  <2>6. /\ q.pipe = Append(p.pipe, w[1]) /\ q.got = p.got
        /\ q.reader = p.reader /\ q.proc = p.proc /\ q.pc = p.pc /\ q.lost = p.lost
        /\ w[1] \in LineType /\ w[1].k \notin Opening /\ (q.due => q.more)
    BY <1>3, <2>2 DEF WritesOn, IsWrite
  <2>7. /\ DOMAIN q.pipe = 1 .. Len(p.pipe) + 1 /\ DOMAIN p.pipe = 1 .. Len(p.pipe)
        /\ \A i \in DOMAIN p.pipe : q.pipe[i] = p.pipe[i]
        /\ q.pipe[Len(p.pipe) + 1] = w[1] /\ Len(p.pipe) \in Nat
        /\ p.pipe # <<>> => 1 \in DOMAIN p.pipe
        /\ q.pipe # <<>>
    <3> HIDE DEF LineType
    <3> QED BY <2>4, <2>6
  <2>8. \A i \in DOMAIN q.pipe : i \in DOMAIN p.pipe \/ i = Len(p.pipe) + 1
    <3>1. Len(p.pipe) \in Nat
      BY <2>7
    <3> QED BY <2>7, <3>1
  <2>9. \A i \in DOMAIN q.pipe : q.pipe[i].k \in Opening => q.pipe[i].id = q.works
    BY <2>4, <2>5, <2>6, <2>7, <2>8 DEF ReadingOk
  <2>10. p.proc = "running" /\ p.works # NoThread
    BY <2>1 DEF p
  <2>11. ReadingOk(q, kind, FirstLine)
    BY <2>3, <2>4, <2>5, <2>6, <2>7, <2>9, <2>10 DEF ReadingOk
  <2> QED BY <2>11 DEF q
<1>7. ASSUME NEW r \in Requests, ProcessStep(r), Talks(r)'
      PROVE  ReadingOk(req'[r], kind, FirstLine)
  <2> DEFINE p == req[r]
             q == req'[r]
  <2>1. /\ Proceeds(r) /\ SameReading(p, q)
        /\ \/ q.proc # "exited" \/ q.proc = p.proc \/ p.op = "bash"
           \/ ~p.more /\ p.works # NoThread
    BY <1>1, <1>7, ProcessMoves
  <2>2. Talks(r) /\ SameRun(p, q)
    BY <1>1, <1>7, <2>1, ProceedsFacts
  <2>3. ReadingOk(p, kind, FirstLine) /\ p.op = "text"
    BY <1>1, <2>2 DEF Talks
  <2> HIDE DEF p, q
  <2>4. ReadingOk(q, kind, FirstLine)
    BY <2>1, <2>2, <2>3 DEF ReadingOk, SameReading, SameTally, SameRun
  <2> QED BY <2>4 DEF q
<1>8. ASSUME NEW r \in Requests, ReadLine(r)
      PROVE  ReadingOk(req'[r], kind, FirstLine)
  <2> DEFINE p == req[r]
             q == req'[r]
  <2>1. /\ Proceeds(r) /\ SameTally(p, q) /\ q.pc = p.pc /\ q.proc = p.proc /\ Uses(r)
        /\ p.pipe # <<>> /\ q.pipe = Tail(p.pipe) /\ p.reader \in {"reading", "draining"}
        /\ \/ /\ p.reader = "draining"
              /\ q.reader = p.reader /\ q.got = p.got /\ q.lost = p.lost
           \/ /\ p.reader = "reading" /\ Head(p.pipe).k = "huge"
              /\ q.reader \in {"draining", "stopped"} /\ q.got = p.got /\ q.lost
           \/ /\ p.reader = "reading" /\ Head(p.pipe).k # "huge"
              /\ q.reader = p.reader /\ q.lost = p.lost
              /\ q.got = Parse(kind, p.got, Head(p.pipe))
    BY <1>1, <1>8, ReadLineMoves
  <2>2. Talks(r) /\ p.pc = "running"
    BY <2>1 DEF Uses, Running, Talks, Active
  <2>3. /\ ReadingOk(p, kind, FirstLine) /\ p.pipe \in Seq(LineType)
        /\ p.got \in ParserType
    BY <1>1, <2>2 DEF RequestType
  <2>4. SameRun(p, q)
    BY <2>1 DEF Proceeds
  <2> DEFINE line == Head(p.pipe)
  <2> HIDE DEF p, q
  <2>5. /\ line \in LineType /\ line = p.pipe[1] /\ 1 \in DOMAIN p.pipe
        /\ \A i \in DOMAIN q.pipe : i + 1 \in DOMAIN p.pipe /\ q.pipe[i] = p.pipe[i + 1]
    <3> HIDE DEF LineType
    <3> QED BY <2>1, <2>3
  <2> HIDE DEF line
  <2>6. \A i \in DOMAIN q.pipe : q.pipe[i].k \in Opening => q.pipe[i].id = q.works
    BY <2>3, <2>4, <2>5 DEF ReadingOk, SameRun
  <2>7. p.works # NoThread
    BY <2>1, <2>3 DEF ReadingOk
  <2>8. /\ q.works = p.works /\ q.due = p.due /\ q.more = p.more /\ q.proc = p.proc
        /\ q.pc = "running"
    BY <2>1, <2>2, <2>4 DEF SameRun, SameTally
  <2>9. ~p.got.raw => line = Line(FirstLine, p.works) /\ p.reader = "reading"
    BY <2>2, <2>3, <2>5, <2>7 DEF ReadingOk
  <2>10. CASE q.got = p.got /\ p.got.raw /\ (q.reader = "reading" => ~q.lost)
               /\ (q.reader # "reading" => q.lost)
    <3>1. kind # "claude" => p.got.thread = p.works
      BY <2>3, <2>10 DEF ReadingOk
    <3>2. (q.due => q.more) /\ (q.proc = "exited" => ~q.more)
      BY <2>3, <2>8 DEF ReadingOk
    <3>3. q.got.raw /\ q.got.thread = p.got.thread /\ q.pc # "returned" /\ q.works # NoThread
      BY <2>7, <2>8, <2>10
    <3>4. ReadingOk(q, kind, FirstLine)
      BY <2>6, <2>8, <2>10, <3>1, <3>2, <3>3 DEF ReadingOk
    <3> QED BY <3>4 DEF q
  <2>11. CASE p.reader = "draining" /\ q.reader = p.reader /\ q.got = p.got /\ q.lost = p.lost
    <3>1. p.got.raw
      BY <2>9, <2>11
    <3>2. q.lost
      BY <2>3, <2>11 DEF ReadingOk
    <3> QED BY <2>10, <2>11, <3>1, <3>2
  <2>12. CASE line.k = "huge" /\ q.reader \in {"draining", "stopped"} /\ q.got = p.got /\ q.lost
    <3>1. p.got.raw
      BY <1>3, <2>9, <2>12
    <3> QED BY <2>10, <2>12, <3>1
  <2>13. CASE /\ p.reader = "reading" /\ line.k # "huge"
              /\ q.reader = p.reader /\ q.lost = p.lost /\ q.got = Parse(kind, p.got, line)
    <3>1. q.got.raw /\ q.got.thread = IF Announces(kind, line) THEN line.id ELSE p.got.thread
      <4> DEFINE g == p.got
      <4>1. g \in ParserType /\ line \in LineType
        BY <2>3, <2>5
      <4> HIDE DEF g
      <4>2. /\ Parse(kind, g, line).raw
            /\ Parse(kind, g, line).thread = IF Announces(kind, line) THEN line.id ELSE g.thread
        BY <1>1, <4>1, ParseType
      <4> QED BY <2>13, <4>2 DEF g
    <3>2. kind # "claude" => q.got.thread = q.works
      <4>1. CASE ~p.got.raw
        BY <1>3, <2>8, <2>9, <3>1, <4>1
      <4>2. CASE p.got.raw
        <5>1. kind # "claude" => p.got.thread = p.works
          BY <2>3, <4>2 DEF ReadingOk
        <5>2. line.k \in Opening => line.id = p.works
          BY <2>3, <2>5 DEF ReadingOk
        <5> QED BY <1>3, <2>8, <3>1, <5>1, <5>2
      <4> QED BY <4>1, <4>2
    <3>3. ~q.lost
      BY <2>2, <2>3, <2>13 DEF ReadingOk
    <3>4. ReadingOk(q, kind, FirstLine)
      BY <2>3, <2>6, <2>7, <2>8, <2>13, <3>1, <3>2, <3>3 DEF ReadingOk
    <3> QED BY <3>4 DEF q
  <2> QED BY <2>1, <2>11, <2>12, <2>13 DEF line, p, q
<1>9. ASSUME NEW r \in Requests, WaitReturns(r) \/ OutputReturns(r), Talks(r)'
      PROVE  ReadingOk(req'[r], kind, FirstLine)
  <2> DEFINE p == req[r]
             q == req'[r]
  <2>1. /\ Proceeds(r) /\ SameTally(p, q) /\ p.pc = "running" /\ q.pc = "returned"
        /\ q.proc = p.proc /\ q.reader = p.reader /\ q.got = p.got
        /\ p.op = "text" => q.pipe = <<>> /\ (q.lost <=> p.lost \/ p.pipe # <<>>)
    BY <1>1, <1>9, ReturnMoves
  <2>2. Talks(r) /\ SameRun(p, q)
    BY <1>1, <1>9, <2>1, ProceedsFacts
  <2>3. ReadingOk(p, kind, FirstLine) /\ p.op = "text"
    BY <1>1, <2>2 DEF Talks
  <2>4. DOMAIN <<>> = {}
    OBVIOUS
  <2> HIDE DEF p, q
  <2>5. ReadingOk(q, kind, FirstLine)
    BY <2>1, <2>2, <2>3, <2>4 DEF ReadingOk, SameTally, SameRun
  <2> QED BY <2>5 DEF q
<1>10. ASSUME NEW r \in Requests, Moves(r), Talks(r)'
       PROVE  ReadingOk(req'[r], kind, FirstLine)
  BY <1>6, <1>7, <1>8, <1>9, <1>10 DEF Moves
<1>11. ASSUME NEW q \in Requests, Talks(q)'
       PROVE  ReadingOk(req'[q], kind, FirstLine)
  <2>1. CASE Talks(q) /\ req'[q] = req[q]
    BY <1>1, <2>1
  <2>2. CASE (\E b \in Sessions : Begins(q, b)) \/ ToolStarts(q) \/ Moves(q)
    BY <1>4, <1>5, <1>10, <1>11, <2>2
  <2> QED BY <1>11, <2>1, <2>2, OneRunMoves DEF Quiet, One, Apart
<1>12. ReadingInv' <=> \A r \in Requests : Talks(r)' => ReadingOk(req'[r], kind', FirstLine')
  BY DEF ReadingInv, ReadingOk, Running
<1> QED BY <1>2, <1>11, <1>12

-----------------------------------------------------------------------------
(* Logs.                                                                   *)

\* The next number and the next delta.
LEMMA UpToNext ==
  ASSUME NEW n \in Nat
  PROVE  /\ UpTo(n + 1) = Append(UpTo(n), n + 1) /\ UpTo(n) \in Seq(Nat)
         /\ Deltas(n + 1) = Append(Deltas(n), Event("delta", n + 1))
         /\ (UpTo(n) = <<>> <=> n = 0) /\ Deltas(0) = <<>> /\ UpTo(0) = <<>>
<1>1. UpTo(n) \in Seq(Nat) /\ Len(UpTo(n)) = n
  BY DEF UpTo
<1>2. UpTo(n + 1) = Append(UpTo(n), n + 1)
  BY DEF UpTo
<1>3. Deltas(n + 1) = Append(Deltas(n), Event("delta", n + 1))
  <2> DEFINE f(i) == Event("delta", i)
  <2> HIDE DEF f
  <2>1. [i \in 1 .. n + 1 |-> f(i)] = Append([i \in 1 .. n |-> f(i)], f(n + 1))
    OBVIOUS
  <2> QED BY <2>1 DEF Deltas, f
<1>4. Deltas(0) = <<>> /\ UpTo(0) = <<>>
  BY DEF Deltas, UpTo
<1>5. UpTo(n) = <<>> <=> n = 0
  BY <1>1, <1>4
<1> QED BY <1>1, <1>2, <1>3, <1>4, <1>5

\* A log with one more event.
LEMMA LoggedFacts ==
  ASSUME NEW log \in Seq(EventType), NEW e \in {"delta", "start", "finish"}, NEW n \in Nat
  PROVE  LET a == Append(log, Event(e, n)) IN
         /\ Event(e, n).e = e /\ Event(e, n).n = n
         /\ a \in Seq(EventType) /\ Len(log) \in Nat
         /\ DOMAIN log = 1 .. Len(log) /\ DOMAIN a = 1 .. Len(log) + 1
         /\ a[Len(log) + 1] = Event(e, n)
         /\ \A i \in DOMAIN log : a[i] = log[i]
<1> DEFINE x == Event(e, n)
           a == Append(log, x)
<1>1. x \in EventType /\ x.e = e /\ x.n = n
  BY DEF Event, EventType
<1> HIDE DEF x
<1>2. /\ a \in Seq(EventType) /\ Len(log) \in Nat
      /\ DOMAIN log = 1 .. Len(log) /\ DOMAIN a = 1 .. Len(log) + 1
      /\ a[Len(log) + 1] = x
      /\ \A i \in DOMAIN log : a[i] = log[i]
  <2> HIDE DEF EventType
  <2> QED BY <1>1
<1> QED BY <1>1, <1>2 DEF x

\* The starts of items are before their ends, also in a longer log.
LEMMA EndsStayAfterStarts ==
  ASSUME NEW log \in Seq(EventType), NEW e \in {"delta", "start", "finish"}, NEW n \in Nat,
         EndsAfterStarts(log),
         e = "finish" => \E j \in DOMAIN log : log[j] = Event("start", n)
  PROVE  EndsAfterStarts(Append(log, Event(e, n)))
<1> DEFINE a == Append(log, Event(e, n))
<1> SUFFICES ASSUME NEW i \in DOMAIN a, a[i].e = "finish"
             PROVE  \E j \in 1 .. i - 1 : a[j] = Event("start", a[i].n)
  BY DEF EndsAfterStarts
<1> DEFINE l == Len(log)
<1>1. /\ Event(e, n).e = e /\ Event(e, n).n = n
      /\ l \in Nat /\ DOMAIN log = 1 .. l /\ DOMAIN a = 1 .. l + 1
      /\ a[l + 1] = Event(e, n)
      /\ \A k \in DOMAIN log : a[k] = log[k]
  BY LoggedFacts
<1> HIDE DEF l, a
<1>2. CASE i \in DOMAIN log
  <2>1. PICK j \in 1 .. i - 1 : log[j] = Event("start", log[i].n)
    BY <1>1, <1>2 DEF EndsAfterStarts
  <2>2. j \in DOMAIN log
    BY <1>1, <1>2
  <2> QED BY <1>1, <1>2, <2>1, <2>2
<1>3. CASE i = l + 1
  <2>1. e = "finish" /\ a[i].n = n
    BY <1>1, <1>3
  <2>2. PICK j \in DOMAIN log : log[j] = Event("start", n)
    BY <2>1
  <2>3. j \in 1 .. i - 1 /\ a[j] = log[j]
    BY <1>1, <1>3
  <2> QED BY <2>1, <2>2, <2>3
<1> QED BY <1>1, <1>2, <1>3

\* The same, of what is selected from the log only.
LEMMA LoggedSelections ==
  ASSUME NEW log \in Seq(EventType), NEW e \in {"delta", "start", "finish"}, NEW n \in Nat,
         NEW f \in {"delta", "start", "finish"}
  PROVE  Only(Append(log, Event(e, n)), EventsOf(f)) =
           IF f = e THEN Append(Only(log, EventsOf(f)), Event(e, n)) ELSE Only(log, EventsOf(f))
<1> DEFINE x == Event(e, n)
           S == EventsOf(f)
<1>1. x \in EventType
  BY DEF Event, EventType
<1>2. x \in S <=> f = e
  BY DEF Event, EventsOf
<1> HIDE DEF x, S
<1>3. Only(Append(log, x), S) = IF x \in S THEN Append(Only(log, S), x) ELSE Only(log, S)
  BY <1>1, OnlyAppend
<1> QED BY <1>2, <1>3 DEF x, S

\* A delta is appended to a log.
LEMMA LogDelta ==
  ASSUME NEW log \in Seq(EventType), NEW said \in Nat, NEW begun \in Nat, NEW ended \in Nat,
         NEW next \in Nat, LogOk(log, said, begun, ended, next)
  PROVE  LogOk(Append(log, Event("delta", said + 1)), said + 1, begun, ended, next)
<1> DEFINE a == Append(log, Event("delta", said + 1))
<1>1. /\ Only(a, EventsOf("delta")) = Append(Only(log, EventsOf("delta")), Event("delta", said + 1))
      /\ Only(a, EventsOf("start")) = Only(log, EventsOf("start"))
      /\ Only(a, EventsOf("finish")) = Only(log, EventsOf("finish"))
  <2>1. said + 1 \in Nat
    OBVIOUS
  <2> QED BY <2>1, LoggedSelections
<1>2. EndsAfterStarts(a)
  <2>1. EndsAfterStarts(log)
    BY DEF LogOk
  <2>2. said + 1 \in Nat
    OBVIOUS
  <2> QED BY <2>1, <2>2, EndsStayAfterStarts
<1> HIDE DEF a
<1>3. LogOk(a, said + 1, begun, ended, next)
  BY <1>1, <1>2, UpToNext DEF LogOk
<1> QED BY <1>3 DEF a

\* A start is, with the next number.
LEMMA LogStart ==
  ASSUME NEW log \in Seq(EventType), NEW said \in Nat, NEW begun \in Nat, NEW ended \in Nat,
         NEW next \in Nat, LogOk(log, said, begun, ended, next)
  PROVE  LogOk(Append(log, Event("start", next)), said, begun + 1, ended, next + 1)
<1> DEFINE x == Event("start", next)
           a == Append(log, x)
           s == Only(log, EventsOf("start"))
           t == Only(a, EventsOf("start"))
<1>1. /\ Only(a, EventsOf("delta")) = Only(log, EventsOf("delta"))
      /\ t = Append(s, x)
      /\ Only(a, EventsOf("finish")) = Only(log, EventsOf("finish"))
      /\ x.n = next
  <2>1. x.n = next
    BY DEF Event
  <2> QED BY <2>1, LoggedSelections
<1>2. EndsAfterStarts(a)
  <2>1. EndsAfterStarts(log)
    BY DEF LogOk
  <2> QED BY <2>1, EndsStayAfterStarts
<1>3. s \in Seq(EventType \cap EventsOf("start"))
  BY OnlyType
<1>4. /\ Len(s) = begun
      /\ \A i \in DOMAIN s : s[i].n < next
      /\ \A i, j \in DOMAIN s : s[i] = s[j] => i = j
  BY DEF LogOk
<1> HIDE DEF a, s, t, x
<1>5. /\ Len(t) = begun + 1 /\ DOMAIN t = 1 .. begun + 1 /\ DOMAIN s = 1 .. begun
      /\ t[begun + 1] = x /\ \A i \in 1 .. begun : t[i] = s[i]
  <2> DEFINE S == EventType \cap EventsOf("start")
  <2> HIDE DEF S
  <2>1. s \in Seq(S)
    BY <1>3 DEF S
  <2> QED BY <1>1, <1>4, <2>1
<1>6. \A i \in DOMAIN t : t[i].n < next + 1
  BY <1>1, <1>4, <1>5, <1>3 DEF EventType
<1>7. \A i \in DOMAIN s : t[i] # x
  BY <1>1, <1>4, <1>5
<1>8. \A i, j \in DOMAIN t : t[i] = t[j] => i = j
  BY <1>4, <1>5, <1>7
<1>9. Only(log, EventsOf("delta")) = Deltas(said) /\ Len(Only(log, EventsOf("finish"))) = ended
  BY DEF LogOk
<1>10. LogOk(a, said, begun + 1, ended, next + 1)
  BY <1>1, <1>2, <1>5, <1>6, <1>8, <1>9 DEF LogOk, t
<1> QED BY <1>10 DEF a, x

\* An end is, after its start.
LEMMA LogFinish ==
  ASSUME NEW log \in Seq(EventType), NEW said \in Nat, NEW begun \in Nat, NEW ended \in Nat,
         NEW next \in Nat, LogOk(log, said, begun, ended, next), NEW n \in Nat,
         \E j \in DOMAIN log : log[j] = Event("start", n)
  PROVE  LogOk(Append(log, Event("finish", n)), said, begun, ended + 1, next)
<1> DEFINE a == Append(log, Event("finish", n))
           f == Only(log, EventsOf("finish"))
<1>1. /\ Only(a, EventsOf("delta")) = Only(log, EventsOf("delta"))
      /\ Only(a, EventsOf("start")) = Only(log, EventsOf("start"))
      /\ Only(a, EventsOf("finish")) = Append(f, Event("finish", n))
  BY LoggedSelections
<1>2. EndsAfterStarts(a)
  <2>1. EndsAfterStarts(log)
    BY DEF LogOk
  <2> QED BY <2>1, EndsStayAfterStarts
<1>3. f \in Seq(EventType \cap EventsOf("finish"))
  BY OnlyType
<1>4. Len(Append(f, Event("finish", n))) = ended + 1
  <2> DEFINE S == EventType \cap EventsOf("finish")
  <2> HIDE DEF S, f
  <2>1. f \in Seq(S) /\ Len(f) = ended
    BY <1>3 DEF S, LogOk, f
  <2> QED BY <2>1
<1> HIDE DEF a, f
<1>5. LogOk(a, said, begun, ended + 1, next)
  BY <1>1, <1>2, <1>4 DEF LogOk
<1> QED BY <1>5 DEF a

-----------------------------------------------------------------------------
(* Tools.                                                                  *)

\* Keys are different for different items.
LEMMA KeysDiffer ==
  /\ \A m, n : Key(m) = Key(n) => m = n
  /\ \A m, n : Unnamed(m) = Unnamed(n) => m = n
  /\ \A m, n : Key(m) # Unnamed(n)
  /\ \A n \in Nat : Key(n) \in KeyType /\ Unnamed(n) \in KeyType
BY DEF Key, Unnamed, KeyType

\* A parser with one more tool.
LEMMA KnownMore ==
  ASSUME NEW p, NEW v, NEW key, NEW n, v.tools = p.tools \cup {<<key, n>>}
  PROVE  \A k : Known(v, k) <=> Known(p, k) \/ k = key
<1>1. <<key, n>>[1] = key
  OBVIOUS
<1> QED BY <1>1 DEF Known

\* A parser with the same tools.
LEMMA KnownSame ==
  ASSUME NEW p, NEW v, v.tools = p.tools
  PROVE  \A k : Known(v, k) <=> Known(p, k)
BY DEF Known

\* Tools that had their start still have it when the log grows.
LEMMA StartedStays ==
  ASSUME NEW tools \in SUBSET (KeyType \X Nat), NEW log \in Seq(EventType),
         NEW e \in {"delta", "start", "finish"}, NEW n \in Nat, Started(tools, log)
  PROVE  /\ Started(tools, Append(log, Event(e, n)))
         /\ \A key : e = "start" => Started(tools \cup {<<key, n>>}, Append(log, Event(e, n)))
<1> DEFINE a == Append(log, Event(e, n))
           l == Len(log)
<1>1. /\ l \in Nat /\ DOMAIN log = 1 .. l /\ DOMAIN a = 1 .. l + 1
      /\ a[l + 1] = Event(e, n)
      /\ \A k \in DOMAIN log : a[k] = log[k]
  BY LoggedFacts
<1> HIDE DEF a, l
<1>2. ASSUME NEW t \in tools
      PROVE  \E j \in DOMAIN a : a[j] = Event("start", t[2])
  <2>1. PICK j \in DOMAIN log : log[j] = Event("start", t[2])
    BY DEF Started
  <2>2. j \in DOMAIN a /\ a[j] = log[j]
    BY <1>1
  <2> QED BY <2>1, <2>2
<1>3. ASSUME NEW key, e = "start"
      PROVE  \E j \in DOMAIN a : a[j] = Event("start", <<key, n>>[2])
  <2>1. <<key, n>>[2] = n /\ l + 1 \in DOMAIN a
    BY <1>1
  <2> QED BY <1>1, <1>3, <2>1
<1>4. Started(tools, a)
  BY <1>2 DEF Started
<1>5. ASSUME NEW key, e = "start"
      PROVE  Started(tools \cup {<<key, n>>}, a)
  BY <1>2, <1>3, <1>5 DEF Started
<1> QED BY <1>4, <1>5 DEF a

\* What a tool is told of: its start is in the log.
LEMMA KnownStarted ==
  ASSUME NEW p \in ParserType, NEW k, Known(p, k), Started(p.tools, p.log)
  PROVE  /\ Index(p, k) \in Nat
         /\ \E j \in DOMAIN p.log : p.log[j] = Event("start", Index(p, k))
<1> DEFINE t == <<k, Index(p, k)>>
<1>1. t \in p.tools /\ t[2] = Index(p, k) /\ Index(p, k) \in Nat
  BY IndexType
<1> HIDE DEF t
<1>2. \E j \in DOMAIN p.log : p.log[j] = Event("start", t[2])
  BY <1>1 DEF Started
<1> QED BY <1>1, <1>2

-----------------------------------------------------------------------------
(* What the lines of a tool do to the tallies.                             *)

\* A record with these tallies.
Tallies(q, said, begun, ended, open, unnamed, due) ==
  /\ q.said = said /\ q.begun = begun /\ q.ended = ended /\ q.open = open
  /\ q.unnamed = unnamed /\ q.due = due

TallyTypes(q) ==
  /\ q.said \in Nat /\ q.begun \in Nat /\ q.ended \in Nat /\ q.open \in SUBSET Nat
  /\ q.unnamed \in Nat /\ q.due \in BOOLEAN

\* Matches looks at the tallies only.
LEMMA MatchesTallies ==
  ASSUME NEW p, NEW q, NEW v, Matches(p, q),
         v.said = q.said, v.begun = q.begun, v.ended = q.ended, v.open = q.open,
         v.unnamed = q.unnamed, v.due = q.due
  PROVE  Matches(p, v)
BY DEF Matches, NextStart, ToolsMatch, CodexToolsMatch, ResponseMatches

\* A parser whose raw flag, thread or response alone changes.
LEMMA MatchesParser ==
  ASSUME NEW p, NEW q, NEW v, Matches(p, q),
         v.log = p.log, v.tools = p.tools, v.next = p.next, v.anonymous = p.anonymous,
         v.queue = p.queue, v.partial = p.partial, v.response = p.response
  PROVE  Matches(v, q)
<1>1. \A k : Known(v, k) <=> Known(p, k)
  BY KnownSame
<1> QED BY <1>1 DEF Matches, ToolsMatch, CodexToolsMatch, ResponseMatches

\* What is said.
LEMMA SaidMatches ==
  ASSUME NEW p \in ParserType, NEW q, TallyTypes(q), Matches(p, q), NEW v, NEW w,
         v.log = Append(p.log, Event("delta", q.said + 1)),
         v.tools = p.tools, v.next = p.next, v.anonymous = p.anonymous, v.queue = p.queue,
         w.said = q.said + 1, w.begun = q.begun, w.ended = q.ended, w.open = q.open,
         w.unnamed = q.unnamed
  PROVE  /\ LogOk(v.log, w.said, w.begun, w.ended, NextStart(w))
         /\ ToolsMatch(v, w)
<1> DEFINE next == NextStart(q)
<1>1. /\ q.said \in Nat /\ q.begun \in Nat /\ q.ended \in Nat /\ q.said + 1 \in Nat
      /\ next \in Nat /\ NextStart(w) = next
      /\ p.log \in Seq(EventType) /\ p.tools \in SUBSET (KeyType \X Nat)
  <2>1. p.log \in Seq(EventType) /\ p.tools \in SUBSET (KeyType \X Nat)
    BY DEF ParserType
  <2>2. q.said \in Nat /\ q.begun \in Nat /\ q.ended \in Nat
    BY DEF TallyTypes
  <2>3. NextStart(q) \in Nat /\ NextStart(w) = NextStart(q)
    BY <2>2 DEF NextStart
  <2> QED BY <2>1, <2>2, <2>3
<1>2. LogOk(p.log, q.said, q.begun, q.ended, next)
  BY DEF Matches
<1> HIDE DEF next
<1>3. LogOk(v.log, w.said, w.begun, w.ended, NextStart(w))
  BY <1>1, <1>2, LogDelta
<1>4. Started(v.tools, v.log)
  <2>1. Started(p.tools, p.log)
    BY DEF Matches, ToolsMatch
  <2>2. Started(p.tools, Append(p.log, Event("delta", q.said + 1)))
    BY <1>1, <2>1, StartedStays
  <2> QED BY <2>2
<1>5. \A k : Known(v, k) <=> Known(p, k)
  BY KnownSame
<1>6. ToolsMatch(v, w)
  BY <1>4, <1>5 DEF Matches, ToolsMatch, CodexToolsMatch
<1> QED BY <1>3, <1>6

\* The start of an item in the log.
LEMMA BegunLog ==
  ASSUME NEW p \in ParserType, NEW q, TallyTypes(q), Matches(p, q), NEW w, NEW log, NEW n, NEW key,
         n = NextStart(q), log = Append(p.log, Event("start", n)),
         w.said = q.said, w.begun = q.begun + 1, w.ended = q.ended
  PROVE  /\ LogOk(log, w.said, w.begun, w.ended, NextStart(w))
         /\ Started(p.tools, log) /\ Started(p.tools \cup {<<key, n>>}, log)
<1>1. /\ q.said \in Nat /\ q.begun \in Nat /\ q.ended \in Nat
      /\ n \in Nat /\ NextStart(w) = n + 1
      /\ p.log \in Seq(EventType) /\ p.tools \in SUBSET (KeyType \X Nat)
  BY DEF TallyTypes, NextStart, ParserType
<1>2. LogOk(p.log, q.said, q.begun, q.ended, n) /\ Started(p.tools, p.log)
  BY DEF Matches, ToolsMatch
<1>3. LogOk(Append(p.log, Event("start", n)), q.said, q.begun + 1, q.ended, n + 1)
  BY <1>1, <1>2, LogStart
<1>4. /\ Started(p.tools, Append(p.log, Event("start", n)))
      /\ Started(p.tools \cup {<<key, n>>}, Append(p.log, Event("start", n)))
  BY <1>1, <1>2, StartedStays
<1> QED BY <1>1, <1>3, <1>4

\* The end of an item in the log.
LEMMA EndedLog ==
  ASSUME NEW p \in ParserType, NEW q, TallyTypes(q),
         LogOk(p.log, q.said, q.begun, q.ended, NextStart(q)), Started(p.tools, p.log),
         NEW w, NEW log, NEW n \in Nat, NEW tools, tools \subseteq p.tools,
         \E j \in DOMAIN p.log : p.log[j] = Event("start", n),
         log = Append(p.log, Event("finish", n)),
         w.said = q.said, w.begun = q.begun, w.ended = q.ended + 1
  PROVE  /\ LogOk(log, w.said, w.begun, w.ended, NextStart(w))
         /\ Started(tools, log)
<1> DEFINE next == NextStart(q)
<1>1. /\ q.said \in Nat /\ q.begun \in Nat /\ q.ended \in Nat
      /\ next \in Nat /\ NextStart(w) = next
      /\ p.log \in Seq(EventType) /\ p.tools \in SUBSET (KeyType \X Nat)
  <2>1. p.log \in Seq(EventType) /\ p.tools \in SUBSET (KeyType \X Nat)
    BY DEF ParserType
  <2>2. q.said \in Nat /\ q.begun \in Nat /\ q.ended \in Nat
    BY DEF TallyTypes
  <2>3. NextStart(q) \in Nat /\ NextStart(w) = NextStart(q)
    BY <2>2 DEF NextStart
  <2> QED BY <2>1, <2>2, <2>3
<1> HIDE DEF next
<1>2. LogOk(p.log, q.said, q.begun, q.ended, next)
  BY DEF next
<1>3. LogOk(Append(p.log, Event("finish", n)), q.said, q.begun, q.ended + 1, next)
  BY <1>1, <1>2, LogFinish
<1>4. Started(p.tools, Append(p.log, Event("finish", n)))
  BY <1>1, StartedStays
<1>5. Started(tools, Append(p.log, Event("finish", n)))
  BY <1>4 DEF Started
<1> QED BY <1>1, <1>3, <1>5

-----------------------------------------------------------------------------
(* Codex.                                                                  *)

\* A message.
LEMMA CodexSays ==
  ASSUME kind = "codex", NEW p \in ParserType, NEW q, TallyTypes(q), Matches(p, q), NEW w,
         Tallies(w, q.said + 1, q.begun, q.ended, q.open, q.unnamed, q.due)
  PROVE  Matches(CodexLine(p, Line("message", q.said + 1)), w)
<1> DEFINE n == q.said + 1
           a == Append(p.response, n)
           u == [p EXCEPT !.response = a]
           v == Emit(u, "delta", n)
<1>1. n \in Nat /\ q.said \in Nat
  BY DEF TallyTypes
<1>2. CodexLine(p, Line("message", n)) = v
  BY DEF CodexLine, Line, Joined
<1>3. a \in Seq(Nat)
  BY <1>1 DEF ParserType
<1> HIDE DEF a
<1>4. /\ u \in ParserType /\ u.log = p.log /\ u.tools = p.tools /\ u.next = p.next
      /\ u.anonymous = p.anonymous /\ u.queue = p.queue /\ u.response = a
  BY <1>3 DEF ParserType
<1> HIDE DEF u
<1>5. /\ v.log = Append(u.log, Event("delta", n)) /\ v.tools = u.tools /\ v.next = u.next
      /\ v.anonymous = u.anonymous /\ v.queue = u.queue /\ v.response = u.response
  BY <1>1, <1>4, EmitType
<1> HIDE DEF v
<1>6. /\ w.said = n /\ w.begun = q.begun /\ w.ended = q.ended /\ w.open = q.open
      /\ w.unnamed = q.unnamed
  BY DEF Tallies
<1>7. LogOk(v.log, w.said, w.begun, w.ended, NextStart(w)) /\ ToolsMatch(v, w)
  BY <1>4, <1>5, <1>6, SaidMatches
<1>8. p.response = UpTo(q.said)
  BY DEF Matches, ResponseMatches
<1>9. v.response = UpTo(w.said)
  BY <1>1, <1>4, <1>5, <1>6, <1>8, UpToNext DEF a
<1>10. Matches(v, w)
  BY <1>7, <1>9 DEF Matches, ResponseMatches
<1> QED BY <1>2, <1>10

\* An item that the parser has not heard of: u is the parser with its queue done.
NewItem(p, q, u, w, key) ==
  \/ /\ key = Key(q.begun + 1) /\ u.queue = p.queue /\ u.anonymous = p.anonymous
     /\ w.unnamed = q.unnamed /\ w.open \subseteq q.open \cup {q.begun + 1}
  \/ /\ key = Unnamed(p.anonymous) /\ u.queue = Append(p.queue, key)
     /\ u.anonymous = p.anonymous + 1
     /\ w.unnamed = q.unnamed + 1 /\ w.open = q.open

\* Its key is a new one.
LEMMA NewItemUnknown ==
  ASSUME kind = "codex", NEW p \in ParserType, NEW q, TallyTypes(q), Matches(p, q)
  PROVE  ~Known(p, Key(q.begun + 1)) /\ ~Known(p, Unnamed(p.anonymous))
<1>1. q.begun \in Nat /\ q.begun + 1 \in Nat /\ p.anonymous \in Nat
  BY DEF TallyTypes, ParserType
<1>2. CodexToolsMatch(p, q)
  BY DEF Matches, ToolsMatch
<1>3. ~Known(p, Key(q.begun + 1))
  BY <1>1, <1>2 DEF CodexToolsMatch
<1>4. ~Known(p, Unnamed(p.anonymous))
  BY <1>1, <1>2 DEF CodexToolsMatch
<1> QED BY <1>3, <1>4

\* An item starts.
LEMMA CodexBegins ==
  ASSUME kind = "codex", NEW p \in ParserType, NEW q, TallyTypes(q), Matches(p, q),
         NEW u \in ParserType, NEW w, NEW key, NewItem(p, q, u, w, key),
         u.log = p.log, u.tools = p.tools, u.next = p.next, u.response = p.response,
         w.said = q.said, w.begun = q.begun + 1, w.ended = q.ended
  PROVE  /\ Matches(EnsureTool(u, key), w) /\ Known(EnsureTool(u, key), key)
         /\ EnsureTool(u, key) \in ParserType
<1> DEFINE v == EnsureTool(u, key)
           n == p.next
<1>1. /\ p.next \in Nat /\ p.anonymous \in Nat /\ p.queue \in Seq(KeyType)
      /\ q.begun \in Nat /\ q.begun + 1 \in Nat /\ q.unnamed \in Nat
  <2>1. p.next \in Nat /\ p.anonymous \in Nat /\ p.queue \in Seq(KeyType)
    BY DEF ParserType
  <2> QED BY <2>1 DEF TallyTypes
<1>2. key \in KeyType /\ ~Known(p, key)
  BY <1>1, KeysDiffer, NewItemUnknown DEF NewItem
<1>3. ~Known(u, key)
  BY <1>2, KnownSame
<1>4. /\ v \in ParserType /\ Known(v, key)
      /\ v.tools = p.tools \cup {<<key, n>>} /\ v.next = n + 1
      /\ v.log = Append(p.log, Event("start", n))
      /\ v.response = p.response /\ v.queue = u.queue /\ v.anonymous = u.anonymous
  BY <1>2, <1>3, EnsureToolType
<1> HIDE DEF v
<1>5. /\ n = NextStart(q) /\ n = q.begun /\ CodexToolsMatch(p, q)
      /\ \A x \in q.open : x # 0 /\ Known(p, Key(x))
  BY DEF Matches, ToolsMatch, NextStart
<1>6. /\ LogOk(v.log, w.said, w.begun, w.ended, NextStart(w))
      /\ Started(v.tools, v.log)
  <2>1. n = NextStart(q) /\ v.log = Append(p.log, Event("start", n))
    BY <1>4, <1>5
  <2> DEFINE log == v.log
  <2> HIDE DEF n, log
  <2>2. log = Append(p.log, Event("start", n))
    BY <2>1 DEF log
  <2>3. /\ LogOk(log, w.said, w.begun, w.ended, NextStart(w))
        /\ Started(p.tools \cup {<<key, n>>}, log)
    BY <2>1, <2>2, BegunLog
  <2> QED BY <1>4, <2>3 DEF log, n
<1>7. \A k : Known(v, k) <=> Known(p, k) \/ k = key
  <2> HIDE DEF n
  <2>1. v.tools = p.tools \cup {<<key, n>>}
    BY <1>4
  <2>2. <<key, n>>[1] = key
    OBVIOUS
  <2>3. \A t : t \in v.tools <=> t \in p.tools \/ t = <<key, n>>
    BY <2>1
  <2> QED BY <2>2, <2>3 DEF Known
<1>8. \A x \in w.open : x # 0 /\ Known(v, Key(x))
  BY <1>1, <1>5, <1>7 DEF NewItem
<1>9. CodexToolsMatch(v, w)
  <2>1. /\ Len(p.queue) = q.unnamed
        /\ \A i \in DOMAIN p.queue : Known(p, p.queue[i])
        /\ \A m \in Nat : Known(p, Key(m)) => m <= q.begun
        /\ \A m \in Nat : Known(p, Unnamed(m)) => m < p.anonymous
    BY <1>5 DEF CodexToolsMatch
  <2>2. ASSUME NEW m \in Nat, Known(v, Key(m)) PROVE m <= w.begun
    <3>1. Known(p, Key(m)) \/ m = q.begun + 1
      BY <1>7, <2>2, KeysDiffer DEF NewItem
    <3> QED BY <1>1, <2>1, <3>1
  <2>3. CASE key = Key(q.begun + 1) /\ u.queue = p.queue /\ u.anonymous = p.anonymous
             /\ w.unnamed = q.unnamed
    <3>1. \A m \in Nat : Known(v, Unnamed(m)) => m < v.anonymous
      BY <1>4, <1>7, <2>1, <2>3, KeysDiffer
    <3> QED BY <1>4, <1>7, <2>1, <2>2, <2>3, <3>1 DEF CodexToolsMatch
  <2>4. CASE /\ key = Unnamed(p.anonymous) /\ u.queue = Append(p.queue, key)
             /\ u.anonymous = p.anonymous + 1 /\ w.unnamed = q.unnamed + 1
    <3>1. ASSUME NEW m \in Nat, Known(v, Unnamed(m)) PROVE m < v.anonymous
      <4>1. Known(p, Unnamed(m)) \/ m = p.anonymous
        BY <1>7, <2>4, <3>1, KeysDiffer
      <4> QED BY <1>1, <1>4, <2>1, <2>4, <4>1
    <3>2. Len(v.queue) = w.unnamed
      BY <1>1, <1>2, <1>4, <2>1, <2>4
    <3>3. ASSUME NEW i \in DOMAIN v.queue PROVE Known(v, v.queue[i])
      <4>1. v.queue[i] = key \/ (i \in DOMAIN p.queue /\ v.queue[i] = p.queue[i])
        <5> HIDE DEF KeyType
        <5> QED BY <1>1, <1>2, <1>4, <2>4
      <4> QED BY <1>7, <2>1, <4>1
    <3> QED BY <2>2, <3>1, <3>2, <3>3 DEF CodexToolsMatch
  <2> QED BY <2>3, <2>4 DEF NewItem
<1>10. v.response = UpTo(w.said)
  BY <1>4 DEF Matches, ResponseMatches
<1>11. ToolsMatch(v, w)
  BY <1>1, <1>4, <1>5, <1>6, <1>8, <1>9 DEF ToolsMatch
<1>12. Matches(v, w)
  BY <1>6, <1>10, <1>11 DEF Matches, ResponseMatches
<1> QED BY <1>4, <1>12 DEF v

\* An item ends.
LEMMA CodexEnds ==
  ASSUME kind = "codex", NEW p \in ParserType, NEW q, TallyTypes(q), Matches(p, q),
         NEW key, Known(p, key), NEW w,
         w.said = q.said, w.begun = q.begun, w.ended = q.ended + 1, w.unnamed = q.unnamed,
         w.open \subseteq q.open
  PROVE  Matches(Emit(p, "finish", Index(p, key)), w)
<1> DEFINE n == Index(p, key)
           v == Emit(p, "finish", n)
<1>1. n \in Nat /\ \E j \in DOMAIN p.log : p.log[j] = Event("start", n)
  BY KnownStarted DEF Matches, ToolsMatch
<1> HIDE DEF n
<1>2. /\ v.log = Append(p.log, Event("finish", n)) /\ v.tools = p.tools /\ v.next = p.next
      /\ v.anonymous = p.anonymous /\ v.queue = p.queue /\ v.response = p.response
  BY <1>1, EmitType
<1> HIDE DEF v
<1>3. /\ LogOk(p.log, q.said, q.begun, q.ended, NextStart(q)) /\ Started(p.tools, p.log)
  BY DEF Matches, ToolsMatch
<1>4. /\ LogOk(v.log, w.said, w.begun, w.ended, NextStart(w)) /\ Started(v.tools, v.log)
  BY <1>1, <1>2, <1>3, EndedLog
<1>5. \A k : Known(v, k) <=> Known(p, k)
  BY <1>2, KnownSame
<1>6. ToolsMatch(v, w) /\ v.response = UpTo(w.said)
  BY <1>2, <1>4, <1>5 DEF Matches, ToolsMatch, CodexToolsMatch, ResponseMatches
<1>7. Matches(v, w)
  BY <1>4, <1>6 DEF Matches, ResponseMatches
<1> QED BY <1>7 DEF v, n

\* What a record built by Tally has.
LEMMA TallyTallies ==
  ASSUME NEW q \in RequestType, NEW said \in Nat, NEW begun \in Nat, NEW ended \in Nat,
         NEW open \in SUBSET Nat, NEW unnamed \in Nat, NEW due \in BOOLEAN
  PROVE  /\ Tallies(Tally(q, said, begun, ended, open, unnamed, due),
                    said, begun, ended, open, unnamed, due)
         /\ TallyTypes(Tally(q, said, begun, ended, open, unnamed, due))
<1> DEFINE w == Tally(q, said, begun, ended, open, unnamed, due)
<1>1. /\ w.said = said /\ w.begun = begun /\ w.ended = ended /\ w.open = open
      /\ w.unnamed = unnamed /\ w.due = due
  BY TallyType
<1> HIDE DEF w
<1>2. /\ Tallies(w, said, begun, ended, open, unnamed, due)
      /\ TallyTypes(w)
  BY <1>1 DEF Tallies, TallyTypes
<1> QED BY <1>2 DEF w

\* The tallies of a request.
LEMMA RequestTallies ==
  ASSUME NEW q \in RequestType
  PROVE  TallyTypes(q)
BY DEF RequestType, TallyTypes

\* How Codex's parser takes a line about an item.
LEMMA CodexItemForm ==
  ASSUME NEW p \in ParserType, NEW k \in {"started", "completed"}, NEW n \in Nat,
         NEW line, line = Line(k, n), NEW key, key = ToolKey(p, line),
         NEW u, u = Queued(p, line)
  PROVE  CodexLine(p, line) =
           IF k = "completed" THEN Emit(EnsureTool(u, key), "finish", Index(EnsureTool(u, key), key))
                              ELSE EnsureTool(u, key)
<1>1. line.k = k /\ k \notin {"thread", "message"}
  BY DEF Line
<1>2. CodexLine(p, line) = CodexItem(p, line)
  BY <1>1 DEF CodexLine
<1> QED BY <1>1, <1>2 DEF CodexItem

\* Items that start, with an id and without.
LEMMA CodexStarted ==
  ASSUME kind = "codex", NEW p \in ParserType, NEW q \in RequestType, Matches(p, q)
  PROVE  /\ Matches(CodexLine(p, Opens(q, "started")[1]), Opens(q, "started")[2])
         /\ Matches(CodexLine(p, OpensUnnamed(q)[1]), OpensUnnamed(q)[2])
<1>1. TallyTypes(q) /\ TallyForms(q)
  BY RequestTallies, TallyFormsHold
<1>2. /\ q.said \in Nat /\ q.begun \in Nat /\ q.ended \in Nat /\ q.open \in SUBSET Nat
      /\ q.unnamed \in Nat /\ q.due \in BOOLEAN /\ q.begun + 1 \in Nat /\ q.unnamed + 1 \in Nat
      /\ q.open \cup {q.begun + 1} \in SUBSET Nat /\ 0 \in Nat /\ q.begun + 1 # 0
  BY <1>1 DEF TallyTypes
<1>3. Matches(CodexLine(p, Opens(q, "started")[1]), Opens(q, "started")[2])
  <2> DEFINE line == Line("started", q.begun + 1)
             key == ToolKey(p, line)
             u == Queued(p, line)
             open == q.open \cup {q.begun + 1}
             w == Tally(q, q.said, q.begun + 1, q.ended, open, q.unnamed, q.due)
  <2>1. Opens(q, "started")[1] = line /\ Opens(q, "started")[2] = w
    BY <1>1 DEF Opens, TallyForms
  <2>2. key = Key(q.begun + 1) /\ u = p
    BY <1>2 DEF ToolKey, Queued, Line
  <2>3. CodexLine(p, line) = EnsureTool(u, key)
    <3>1. "started" \in {"started", "completed"}
      OBVIOUS
    <3> HIDE DEF key, u
    <3>2. key = ToolKey(p, line) /\ u = Queued(p, line)
      BY DEF key, u
    <3> QED BY <1>2, <3>1, <3>2, CodexItemForm
  <2>4. Tallies(w, q.said, q.begun + 1, q.ended, open, q.unnamed, q.due)
    BY <1>2, TallyTallies
  <2> HIDE DEF key, u, line, w
  <2>5. NewItem(p, q, u, w, key)
    BY <2>2, <2>4 DEF NewItem, Tallies
  <2>6. Matches(EnsureTool(u, key), w)
    BY <1>1, <2>2, <2>4, <2>5, CodexBegins DEF Tallies
  <2> QED BY <2>1, <2>3, <2>6
<1>4. Matches(CodexLine(p, OpensUnnamed(q)[1]), OpensUnnamed(q)[2])
  <2> DEFINE line == Line("started", 0)
             key == ToolKey(p, line)
             u == Queued(p, line)
             w == Tally(q, q.said, q.begun + 1, q.ended, q.open, q.unnamed + 1, q.due)
  <2>1. OpensUnnamed(q)[1] = line /\ OpensUnnamed(q)[2] = w
    BY <1>1 DEF OpensUnnamed, TallyForms
  <2>2. key = Unnamed(p.anonymous)
    BY DEF ToolKey, Line
  <2>3. /\ u \in ParserType /\ u.log = p.log /\ u.tools = p.tools /\ u.next = p.next
        /\ u.response = p.response
    <3>1. line \in LineType
      BY DEF Line, LineType, Later
    <3> HIDE DEF line
    <3> QED BY <3>1, ToolKeyType
  <2>4. u.anonymous = p.anonymous + 1 /\ u.queue = Append(p.queue, key)
    <3> HIDE DEF key
    <3>1. key = ToolKey(p, line)
      BY DEF key
    <3>2. u = [p EXCEPT !.anonymous = @ + 1, !.queue = Append(@, key)]
      BY <3>1 DEF Queued, Line
    <3> QED BY <3>2 DEF ParserType
  <2>5. CodexLine(p, line) = EnsureTool(u, key)
    <3>1. "started" \in {"started", "completed"}
      OBVIOUS
    <3> HIDE DEF key, u
    <3>2. key = ToolKey(p, line) /\ u = Queued(p, line)
      BY DEF key, u
    <3> QED BY <1>2, <3>1, <3>2, CodexItemForm
  <2>6. Tallies(w, q.said, q.begun + 1, q.ended, q.open, q.unnamed + 1, q.due)
    BY <1>2, TallyTallies
  <2> HIDE DEF key, u, line, w
  <2>7. NewItem(p, q, u, w, key)
    BY <2>2, <2>4, <2>6 DEF NewItem, Tallies
  <2>8. Matches(EnsureTool(u, key), w)
    BY <1>1, <2>3, <2>6, <2>7, CodexBegins DEF Tallies
  <2> QED BY <2>1, <2>5, <2>8
<1> QED BY <1>3, <1>4

\* Items that end: one that had no start, and one that had.
LEMMA CodexCompleted ==
  ASSUME kind = "codex", NEW p \in ParserType, NEW q \in RequestType, Matches(p, q)
  PROVE  /\ Matches(CodexLine(p, Line("completed", q.begun + 1)),
                    [q EXCEPT !.begun = @ + 1, !.ended = @ + 1])
         /\ \A w \in Closes(q, "completed") : Matches(CodexLine(p, w[1]), w[2])
<1>1. TallyTypes(q) /\ TallyForms(q)
  BY RequestTallies, TallyFormsHold
<1>2. /\ q.said \in Nat /\ q.begun \in Nat /\ q.ended \in Nat /\ q.open \in SUBSET Nat
      /\ q.unnamed \in Nat /\ q.due \in BOOLEAN /\ q.begun + 1 \in Nat /\ q.ended + 1 \in Nat
      /\ 0 \in Nat /\ q.begun + 1 # 0
  BY <1>1 DEF TallyTypes
<1>3. Matches(CodexLine(p, Line("completed", q.begun + 1)),
              [q EXCEPT !.begun = @ + 1, !.ended = @ + 1])
  <2> DEFINE line == Line("completed", q.begun + 1)
             key == ToolKey(p, line)
             u == Queued(p, line)
             m == Tally(q, q.said, q.begun + 1, q.ended, q.open, q.unnamed, q.due)
             w == Tally(q, q.said, q.begun + 1, q.ended + 1, q.open, q.unnamed, q.due)
  <2>1. [q EXCEPT !.begun = @ + 1, !.ended = @ + 1] = w
    BY <1>1 DEF TallyForms
  <2>2. key = Key(q.begun + 1) /\ u = p
    BY <1>2 DEF ToolKey, Queued, Line
  <2>3. CodexLine(p, line) = Emit(EnsureTool(u, key), "finish", Index(EnsureTool(u, key), key))
    <3>1. "completed" \in {"started", "completed"}
      OBVIOUS
    <3> HIDE DEF key, u
    <3>2. key = ToolKey(p, line) /\ u = Queued(p, line)
      BY DEF key, u
    <3> QED BY <1>2, <3>1, <3>2, CodexItemForm
  <2>4. /\ Tallies(m, q.said, q.begun + 1, q.ended, q.open, q.unnamed, q.due) /\ TallyTypes(m)
        /\ Tallies(w, q.said, q.begun + 1, q.ended + 1, q.open, q.unnamed, q.due)
    BY <1>2, TallyTallies
  <2> HIDE DEF key, u, line, w, m
  <2>5. NewItem(p, q, u, m, key)
    BY <2>2, <2>4 DEF NewItem, Tallies
  <2> DEFINE v == EnsureTool(u, key)
  <2>6. Matches(v, m) /\ Known(v, key) /\ v \in ParserType
    BY <1>1, <2>2, <2>4, <2>5, CodexBegins DEF Tallies
  <2> HIDE DEF v
  <2>7. Matches(Emit(v, "finish", Index(v, key)), w)
    BY <2>4, <2>6, CodexEnds DEF Tallies
  <2> QED BY <2>1, <2>3, <2>7 DEF v, line
<1>4. ASSUME NEW x \in q.open
      PROVE  Matches(CodexLine(p, Line("completed", x)), [q EXCEPT !.ended = @ + 1, !.open = @ \ {x}])
  <2> DEFINE line == Line("completed", x)
             key == ToolKey(p, line)
             u == Queued(p, line)
             open == q.open \ {x}
             w == Tally(q, q.said, q.begun, q.ended + 1, open, q.unnamed, q.due)
  <2>1. [q EXCEPT !.ended = @ + 1, !.open = @ \ {x}] = w
    BY <1>1 DEF TallyForms
  <2>2. x \in Nat /\ x # 0 /\ Known(p, Key(x))
    BY <1>2 DEF Matches, ToolsMatch
  <2>3. key = Key(x) /\ u = p
    BY <2>2 DEF ToolKey, Queued, Line
  <2>4. CodexLine(p, line) = Emit(EnsureTool(u, key), "finish", Index(EnsureTool(u, key), key))
    <3>1. "completed" \in {"started", "completed"}
      OBVIOUS
    <3> HIDE DEF key, u
    <3>2. key = ToolKey(p, line) /\ u = Queued(p, line)
      BY DEF key, u
    <3> QED BY <2>2, <3>1, <3>2, CodexItemForm
  <2>5. Tallies(w, q.said, q.begun, q.ended + 1, open, q.unnamed, q.due)
    <3>1. \A o \in SUBSET Nat :
            Tallies(Tally(q, q.said, q.begun, q.ended + 1, o, q.unnamed, q.due),
                    q.said, q.begun, q.ended + 1, o, q.unnamed, q.due)
      BY <1>2, TallyTallies
    <3>2. open \in SUBSET Nat
      BY <1>2
    <3> HIDE DEF open
    <3> QED BY <3>1, <3>2
  <2>6. open \subseteq q.open
    OBVIOUS
  <2> HIDE DEF key, u, line, w, open
  <2>7. EnsureTool(u, key) = p /\ Known(p, key)
    BY <2>2, <2>3 DEF EnsureTool
  <2>8. Matches(Emit(p, "finish", Index(p, key)), w)
    BY <1>1, <2>5, <2>6, <2>7, CodexEnds DEF Tallies
  <2> QED BY <2>1, <2>4, <2>7, <2>8 DEF line
<1>5. ASSUME NEW w \in Closes(q, "completed")
      PROVE  Matches(CodexLine(p, w[1]), w[2])
  <2>1. PICK x \in q.open :
          w = <<Line("completed", x), [q EXCEPT !.ended = @ + 1, !.open = @ \ {x}]>>
    BY DEF Closes
  <2> DEFINE line == Line("completed", x)
             v == [q EXCEPT !.ended = @ + 1, !.open = @ \ {x}]
  <2>2. Matches(CodexLine(p, line), v)
    BY <1>4
  <2> HIDE DEF line, v
  <2>3. w[1] = line /\ w[2] = v
    BY <2>1 DEF line, v
  <2> QED BY <2>2, <2>3
<1> QED BY <1>3, <1>5

\* The oldest of the items without an id ends.
LEMMA CodexCompletedUnnamed ==
  ASSUME kind = "codex", NEW p \in ParserType, NEW q \in RequestType, Matches(p, q), q.unnamed > 0
  PROVE  Matches(CodexLine(p, ClosesUnnamed(q)[1]), ClosesUnnamed(q)[2])
<1> DEFINE line == Line("completed", 0)
           key == ToolKey(p, line)
           u == Queued(p, line)
           m == Tally(q, q.said, q.begun, q.ended, q.open, q.unnamed - 1, q.due)
           w == Tally(q, q.said, q.begun, q.ended + 1, q.open, q.unnamed - 1, q.due)
<1>1. TallyTypes(q) /\ TallyForms(q)
  BY RequestTallies, TallyFormsHold
<1>2. /\ q.said \in Nat /\ q.begun \in Nat /\ q.ended \in Nat /\ q.open \in SUBSET Nat
      /\ q.unnamed - 1 \in Nat /\ q.due \in BOOLEAN /\ q.ended + 1 \in Nat /\ 0 \in Nat
      /\ q.unnamed \in Nat
  BY <1>1 DEF TallyTypes
<1>3. ClosesUnnamed(q)[1] = line /\ ClosesUnnamed(q)[2] = w
  BY <1>1 DEF ClosesUnnamed, TallyForms
<1>4. p.queue \in Seq(KeyType) /\ p.log \in Seq(EventType)
  BY DEF ParserType
<1>5. /\ Len(p.queue) = q.unnamed /\ \A i \in DOMAIN p.queue : Known(p, p.queue[i])
      /\ \A n \in Nat : Known(p, Key(n)) => n <= q.begun
      /\ \A n \in Nat : Known(p, Unnamed(n)) => n < p.anonymous
  BY DEF Matches, ToolsMatch, CodexToolsMatch
<1> DEFINE tail == Tail(p.queue)
<1>6. /\ p.queue # <<>> /\ Head(p.queue) = p.queue[1] /\ 1 \in DOMAIN p.queue
      /\ Len(tail) = q.unnamed - 1
      /\ \A i \in DOMAIN tail : i + 1 \in DOMAIN p.queue /\ tail[i] = p.queue[i + 1]
  <2> HIDE DEF KeyType
  <2> QED BY <1>2, <1>4, <1>5
<1>7. key = Head(p.queue) /\ u = [p EXCEPT !.queue = tail]
  BY <1>6 DEF ToolKey, Queued, Line
<1>8. CodexLine(p, line) = Emit(EnsureTool(u, key), "finish", Index(EnsureTool(u, key), key))
  <2>1. "completed" \in {"started", "completed"}
    OBVIOUS
  <2> HIDE DEF key, u
  <2>2. key = ToolKey(p, line) /\ u = Queued(p, line)
    BY DEF key, u
  <2> QED BY <1>2, <2>1, <2>2, CodexItemForm
<1>9. /\ Tallies(w, q.said, q.begun, q.ended + 1, q.open, q.unnamed - 1, q.due)
      /\ Tallies(m, q.said, q.begun, q.ended, q.open, q.unnamed - 1, q.due) /\ TallyTypes(m)
  BY <1>2, TallyTallies
<1>10. /\ u.log = p.log /\ u.tools = p.tools /\ u.next = p.next /\ u.response = p.response
       /\ u.queue = tail /\ u.anonymous = p.anonymous
  <2> HIDE DEF tail, u
  <2> QED BY <1>7 DEF ParserType
<1>11. u \in ParserType
  <2>1. line \in LineType
    BY DEF Line, LineType, Later
  <2> HIDE DEF line
  <2> QED BY <2>1, ToolKeyType
<1> HIDE DEF line, key, u, m, w, tail
<1>12. \A k : Known(u, k) <=> Known(p, k)
  BY <1>10, KnownSame
<1>13. CodexToolsMatch(u, m)
  BY <1>5, <1>6, <1>9, <1>10, <1>12 DEF CodexToolsMatch, Tallies
<1>14. ToolsMatch(u, m)
  BY <1>9, <1>10, <1>12, <1>13 DEF Matches, ToolsMatch, Tallies
<1>15. LogOk(u.log, m.said, m.begun, m.ended, NextStart(m)) /\ ResponseMatches(u, m)
  BY <1>9, <1>10 DEF Matches, Tallies, NextStart, ResponseMatches
<1>16. Matches(u, m)
  BY <1>14, <1>15 DEF Matches
<1>17. EnsureTool(u, key) = u /\ Known(u, key)
  BY <1>5, <1>6, <1>7, <1>12 DEF EnsureTool
<1>18. Matches(Emit(u, "finish", Index(u, key)), w)
  BY <1>9, <1>11, <1>16, <1>17, CodexEnds DEF Tallies
<1> QED BY <1>3, <1>8, <1>17, <1>18

\* Whatever Codex writes.
LEMMA CodexMatches ==
  ASSUME kind = "codex", NEW p \in ParserType, NEW q \in RequestType, Matches(p, q),
         NEW w \in CodexWrites(q)
  PROVE  Matches(CodexLine(p, w[1]), w[2])
<1>1. CASE w = Says(q, "message")
  <2> DEFINE line == Line("message", q.said + 1)
             v == Tally(q, q.said + 1, q.begun, q.ended, q.open, q.unnamed, q.due)
  <2>1. TallyTypes(q) /\ TallyForms(q)
    BY RequestTallies, TallyFormsHold
  <2>2. w[1] = line /\ w[2] = v
    BY <1>1, <2>1 DEF Says, TallyForms
  <2>3. /\ q.said \in Nat /\ q.begun \in Nat /\ q.ended \in Nat /\ q.open \in SUBSET Nat
        /\ q.unnamed \in Nat /\ q.due \in BOOLEAN /\ q.said + 1 \in Nat
    BY <2>1 DEF TallyTypes
  <2>4. Tallies(v, q.said + 1, q.begun, q.ended, q.open, q.unnamed, q.due)
    BY <2>3, TallyTallies
  <2> HIDE DEF v
  <2>5. Matches(CodexLine(p, line), v)
    BY <2>1, <2>4, CodexSays
  <2> QED BY <2>2, <2>5
<1>2. CASE w = Opens(q, "started") \/ w = OpensUnnamed(q)
  BY <1>2, CodexStarted
<1>3. CASE w \in Closes(q, "completed")
  BY <1>3, CodexCompleted
<1>4. CASE w = <<Line("completed", q.begun + 1), [q EXCEPT !.begun = @ + 1, !.ended = @ + 1]>>
  <2> DEFINE line == Line("completed", q.begun + 1)
             v == [q EXCEPT !.begun = @ + 1, !.ended = @ + 1]
  <2>1. Matches(CodexLine(p, line), v)
    BY CodexCompleted
  <2> HIDE DEF line, v
  <2>2. w = <<line, v>>
    BY <1>4 DEF line, v
  <2> QED BY <2>1, <2>2
<1>5. CASE q.unnamed > 0 /\ w = ClosesUnnamed(q)
  BY <1>5, CodexCompletedUnnamed
<1> QED BY <1>1, <1>2, <1>3, <1>4, <1>5 DEF CodexWrites

-----------------------------------------------------------------------------
(* Claude.                                                                 *)

\* A text.
LEMMA ClaudeText ==
  ASSUME kind = "claude", NEW p \in ParserType, NEW q, TallyTypes(q), Matches(p, q), NEW w,
         Tallies(w, q.said + 1, q.begun, q.ended, q.open, q.unnamed, TRUE)
  PROVE  Matches(ClaudeLine(p, Line("text", q.said + 1)), w)
<1> DEFINE n == q.said + 1
           a == Append(p.partial, n)
           u == [p EXCEPT !.partial = a]
           v == Emit(u, "delta", n)
<1>1. n \in Nat /\ q.said \in Nat /\ n # 0
  BY DEF TallyTypes
<1>2. ClaudeLine(p, Line("text", n)) = v
  BY DEF ClaudeLine, Line
<1>3. a \in Seq(Nat)
  BY <1>1 DEF ParserType
<1> HIDE DEF a
<1>4. /\ u \in ParserType /\ u.log = p.log /\ u.tools = p.tools /\ u.next = p.next
      /\ u.anonymous = p.anonymous /\ u.queue = p.queue /\ u.partial = a
  BY <1>3 DEF ParserType
<1> HIDE DEF u
<1>5. /\ v.log = Append(u.log, Event("delta", n)) /\ v.tools = u.tools /\ v.next = u.next
      /\ v.anonymous = u.anonymous /\ v.queue = u.queue /\ v.partial = u.partial
  BY <1>1, <1>4, EmitType
<1> HIDE DEF v
<1>6. /\ w.said = n /\ w.begun = q.begun /\ w.ended = q.ended /\ w.open = q.open
      /\ w.unnamed = q.unnamed /\ w.due
  BY DEF Tallies
<1>7. LogOk(v.log, w.said, w.begun, w.ended, NextStart(w)) /\ ToolsMatch(v, w)
  BY <1>4, <1>5, <1>6, SaidMatches
<1>8. p.partial = UpTo(q.said)
  BY DEF Matches, ResponseMatches
<1>9. v.partial = UpTo(w.said)
  BY <1>1, <1>4, <1>5, <1>6, <1>8, UpToNext DEF a
<1>10. ResponseMatches(v, w)
  BY <1>1, <1>6, <1>9 DEF ResponseMatches
<1>11. Matches(v, w)
  BY <1>7, <1>10 DEF Matches
<1> QED BY <1>2, <1>11

\* The message whose text was streamed.
LEMMA ClaudeAssistant ==
  ASSUME kind = "claude", NEW p \in ParserType, NEW q, TallyTypes(q), Matches(p, q), q.due, NEW w,
         Tallies(w, q.said, q.begun, q.ended, q.open, q.unnamed, FALSE)
  PROVE  Matches(ClaudeLine(p, Line("assistant", q.said)), w)
<1> DEFINE v == [p EXCEPT !.response = <<q.said>>]
<1>1. ClaudeLine(p, Line("assistant", q.said)) = v
  BY DEF ClaudeLine, Line
<1>2. /\ v.log = p.log /\ v.tools = p.tools /\ v.response = <<q.said>> /\ v.partial = p.partial
  BY DEF ParserType
<1> HIDE DEF v
<1>3. /\ w.said = q.said /\ w.begun = q.begun /\ w.ended = q.ended /\ w.open = q.open
      /\ w.unnamed = q.unnamed /\ ~w.due
  BY DEF Tallies
<1>4. q.said # 0 /\ p.partial = UpTo(q.said)
  BY DEF Matches, ResponseMatches
<1>5. \A k : Known(v, k) <=> Known(p, k)
  BY <1>2, KnownSame
<1>6. ToolsMatch(v, w)
  BY <1>2, <1>3, <1>5 DEF Matches, ToolsMatch
<1>7. ResponseMatches(v, w)
  BY <1>2, <1>3, <1>4 DEF ResponseMatches
<1>8. LogOk(v.log, w.said, w.begun, w.ended, NextStart(w))
  BY <1>2, <1>3 DEF Matches, NextStart
<1> QED BY <1>1, <1>6, <1>7, <1>8 DEF Matches

\* A block of a tool starts.
LEMMA ClaudeStart ==
  ASSUME kind = "claude", NEW p \in ParserType, NEW q, TallyTypes(q), Matches(p, q), NEW w,
         Tallies(w, q.said, q.begun + 1, q.ended, q.open \cup {q.begun + 1}, q.unnamed, q.due)
  PROVE  Matches(ClaudeLine(p, Line("start", q.begun + 1)), w)
<1> DEFINE n == q.begun + 1
           t == <<Key(n), n>>
           tools == p.tools \cup {t}
           u == [p EXCEPT !.tools = tools]
           v == Emit(u, "start", n)
<1>1. n \in Nat /\ n # 0 /\ n = NextStart(q) /\ q.begun \in Nat
  BY DEF TallyTypes, NextStart
<1>2. ClaudeLine(p, Line("start", n)) = v
  BY DEF ClaudeLine, Line
<1>3. tools \in SUBSET (KeyType \X Nat)
  <2>1. Key(n) \in KeyType
    BY <1>1, KeysDiffer
  <2>2. p.tools \in SUBSET (KeyType \X Nat)
    BY DEF ParserType
  <2> QED BY <1>1, <2>1, <2>2
<1> HIDE DEF tools
<1>4. /\ u \in ParserType /\ u.log = p.log /\ u.tools = tools /\ u.partial = p.partial
      /\ u.response = p.response
  BY <1>3 DEF ParserType
<1> HIDE DEF u
<1>5. /\ v.log = Append(p.log, Event("start", n)) /\ v.tools = tools
      /\ v.partial = p.partial /\ v.response = p.response
  <2>1. /\ v.log = Append(u.log, Event("start", n)) /\ v.tools = u.tools
        /\ v.partial = u.partial /\ v.response = u.response
    BY <1>1, <1>4, EmitType
  <2> QED BY <1>4, <2>1
<1> HIDE DEF v
<1>6. /\ w.said = q.said /\ w.begun = n /\ w.ended = q.ended /\ w.open = q.open \cup {n}
      /\ w.unnamed = q.unnamed /\ w.due = q.due
  BY DEF Tallies
<1>7. /\ LogOk(v.log, w.said, w.begun, w.ended, NextStart(w))
      /\ Started(tools, v.log)
  <2> DEFINE key == Key(n)
             log == v.log
  <2> HIDE DEF key, log
  <2>1. /\ log = Append(p.log, Event("start", n)) /\ w.said = q.said /\ w.begun = q.begun + 1
        /\ w.ended = q.ended
    BY <1>5, <1>6 DEF log
  <2> HIDE DEF n
  <2>2. /\ LogOk(log, w.said, w.begun, w.ended, NextStart(w))
        /\ Started(p.tools \cup {<<key, n>>}, log)
    BY <1>1, <2>1, BegunLog
  <2> QED BY <2>2 DEF key, log, tools
<1>8. \A x \in q.open : x # 0 /\ <<Key(x), x>> \in p.tools
  BY DEF Matches, ToolsMatch
<1>9. \A x \in w.open : x # 0 /\ <<Key(x), x>> \in tools
  BY <1>1, <1>6, <1>8 DEF tools
<1>10. \A x : <<Key(x), x>> \in tools => Known(v, Key(x))
  <2>1. \A x : <<Key(x), x>>[1] = Key(x)
    OBVIOUS
  <2> QED BY <1>5, <2>1 DEF Known
<1>11. ToolsMatch(v, w)
  BY <1>5, <1>7, <1>9, <1>10 DEF ToolsMatch
<1>12. ResponseMatches(v, w)
  BY <1>5, <1>6 DEF Matches, ResponseMatches
<1>13. Matches(v, w)
  BY <1>7, <1>11, <1>12 DEF Matches
<1> QED BY <1>2, <1>13

\* A block ends.
LEMMA ClaudeStop ==
  ASSUME kind = "claude", NEW p \in ParserType, NEW q, TallyTypes(q), Matches(p, q),
         NEW x \in q.open, NEW w,
         Tallies(w, q.said, q.begun, q.ended + 1, q.open \ {x}, q.unnamed, q.due)
  PROVE  Matches(ClaudeLine(p, Line("stop", x)), w)
<1> DEFINE t == <<Key(x), x>>
           tools == p.tools \ {t}
           u == [p EXCEPT !.tools = tools]
           v == Emit(u, "finish", x)
<1>1. x \in Nat /\ x # 0 /\ t \in p.tools /\ Known(p, Key(x))
  BY DEF TallyTypes, Matches, ToolsMatch
<1>2. ClaudeLine(p, Line("stop", x)) = v
  BY <1>1 DEF ClaudeLine, Line
<1>3. tools \in SUBSET (KeyType \X Nat) /\ tools \subseteq p.tools
  <2>1. p.tools \in SUBSET (KeyType \X Nat)
    BY DEF ParserType
  <2> QED BY <2>1
<1>4. \A y \in q.open \ {x} : <<Key(y), y>> \in tools
  BY DEF Matches, ToolsMatch
<1> HIDE DEF tools
<1>5. /\ u \in ParserType /\ u.log = p.log /\ u.tools = tools /\ u.partial = p.partial
      /\ u.response = p.response
  BY <1>3 DEF ParserType
<1> HIDE DEF u
<1>6. /\ v.log = Append(p.log, Event("finish", x)) /\ v.tools = tools
      /\ v.partial = p.partial /\ v.response = p.response
  <2>1. /\ v.log = Append(u.log, Event("finish", x)) /\ v.tools = u.tools
        /\ v.partial = u.partial /\ v.response = u.response
    BY <1>1, <1>5, EmitType
  <2> QED BY <1>5, <2>1
<1> HIDE DEF v
<1>7. /\ w.said = q.said /\ w.begun = q.begun /\ w.ended = q.ended + 1 /\ w.open = q.open \ {x}
      /\ w.unnamed = q.unnamed /\ w.due = q.due
  BY DEF Tallies
<1>8. /\ LogOk(p.log, q.said, q.begun, q.ended, NextStart(q)) /\ Started(p.tools, p.log)
  BY DEF Matches, ToolsMatch
<1>9. \E j \in DOMAIN p.log : p.log[j] = Event("start", x)
  <2>1. t[2] = x
    OBVIOUS
  <2> HIDE DEF t
  <2> QED BY <1>1, <1>8, <2>1 DEF Started
<1>10. LogOk(v.log, w.said, w.begun, w.ended, NextStart(w)) /\ Started(tools, v.log)
  BY <1>1, <1>3, <1>6, <1>7, <1>8, <1>9, EndedLog
<1>11. \A y : <<Key(y), y>> \in tools => Known(v, Key(y))
  <2>1. \A y : <<Key(y), y>>[1] = Key(y)
    OBVIOUS
  <2> QED BY <1>6, <2>1 DEF Known
<1>12. \A y \in q.open : y # 0
  BY DEF Matches, ToolsMatch
<1>13. ToolsMatch(v, w)
  BY <1>4, <1>6, <1>7, <1>10, <1>11, <1>12 DEF ToolsMatch
<1>14. ResponseMatches(v, w)
  BY <1>6, <1>7 DEF Matches, ResponseMatches
<1>15. Matches(v, w)
  BY <1>10, <1>13, <1>14 DEF Matches
<1> QED BY <1>2, <1>15

\* Whatever Claude writes.
LEMMA ClaudeMatches ==
  ASSUME kind = "claude", NEW p \in ParserType, NEW q \in RequestType, Matches(p, q),
         NEW w \in ClaudeWrites(q)
  PROVE  Matches(ClaudeLine(p, w[1]), w[2])
<1>1. TallyTypes(q) /\ TallyForms(q)
  BY RequestTallies, TallyFormsHold
<1>2. /\ q.said \in Nat /\ q.begun \in Nat /\ q.ended \in Nat /\ q.open \in SUBSET Nat
      /\ q.unnamed \in Nat /\ q.due \in BOOLEAN /\ q.said + 1 \in Nat /\ q.begun + 1 \in Nat
      /\ q.ended + 1 \in Nat
  BY <1>1 DEF TallyTypes
<1>3. CASE q.due /\ w = <<Line("assistant", q.said), [q EXCEPT !.due = FALSE]>>
  <2> DEFINE line == Line("assistant", q.said)
             v == Tally(q, q.said, q.begun, q.ended, q.open, q.unnamed, FALSE)
  <2>1. w[1] = line /\ w[2] = v
    BY <1>1, <1>3 DEF TallyForms
  <2>2. Tallies(v, q.said, q.begun, q.ended, q.open, q.unnamed, FALSE)
    BY <1>2, TallyTallies
  <2> HIDE DEF v
  <2>3. Matches(ClaudeLine(p, line), v)
    BY <1>1, <1>3, <2>2, ClaudeAssistant
  <2> QED BY <2>1, <2>3
<1>4. CASE w = <<Line("text", q.said + 1), [q EXCEPT !.said = @ + 1, !.due = TRUE]>>
  <2> DEFINE line == Line("text", q.said + 1)
             v == Tally(q, q.said + 1, q.begun, q.ended, q.open, q.unnamed, TRUE)
  <2>1. w[1] = line /\ w[2] = v
    BY <1>1, <1>4 DEF TallyForms
  <2>2. Tallies(v, q.said + 1, q.begun, q.ended, q.open, q.unnamed, TRUE)
    BY <1>2, TallyTallies
  <2> HIDE DEF v
  <2>3. Matches(ClaudeLine(p, line), v)
    BY <1>1, <2>2, ClaudeText
  <2> QED BY <2>1, <2>3
<1>5. CASE w = Opens(q, "start")
  <2> DEFINE line == Line("start", q.begun + 1)
             v == Tally(q, q.said, q.begun + 1, q.ended, q.open \cup {q.begun + 1}, q.unnamed, q.due)
  <2>1. w[1] = line /\ w[2] = v
    BY <1>1, <1>5 DEF TallyForms, Opens
  <2>2. Tallies(v, q.said, q.begun + 1, q.ended, q.open \cup {q.begun + 1}, q.unnamed, q.due)
    <3>1. \A o \in SUBSET Nat :
            Tallies(Tally(q, q.said, q.begun + 1, q.ended, o, q.unnamed, q.due),
                    q.said, q.begun + 1, q.ended, o, q.unnamed, q.due)
      BY <1>2, TallyTallies
    <3>2. q.open \cup {q.begun + 1} \in SUBSET Nat
      BY <1>2
    <3> QED BY <3>1, <3>2
  <2> HIDE DEF v
  <2>3. Matches(ClaudeLine(p, line), v)
    BY <1>1, <2>2, ClaudeStart
  <2> QED BY <2>1, <2>3
<1>6. CASE w \in Closes(q, "stop")
  <2>1. PICK x \in q.open :
          w = <<Line("stop", x), [q EXCEPT !.ended = @ + 1, !.open = @ \ {x}]>>
    BY <1>6 DEF Closes
  <2> DEFINE line == Line("stop", x)
             v == Tally(q, q.said, q.begun, q.ended + 1, q.open \ {x}, q.unnamed, q.due)
  <2>2. w[1] = line /\ w[2] = v
    BY <1>1, <2>1 DEF TallyForms
  <2>3. Tallies(v, q.said, q.begun, q.ended + 1, q.open \ {x}, q.unnamed, q.due)
    <3>1. \A o \in SUBSET Nat :
            Tallies(Tally(q, q.said, q.begun, q.ended + 1, o, q.unnamed, q.due),
                    q.said, q.begun, q.ended + 1, o, q.unnamed, q.due)
      BY <1>2, TallyTallies
    <3>2. q.open \ {x} \in SUBSET Nat
      BY <1>2
    <3> QED BY <3>1, <3>2
  <2> HIDE DEF v
  <2>4. Matches(ClaudeLine(p, line), v)
    BY <1>1, <2>3, ClaudeStop
  <2> QED BY <2>2, <2>4
<1>7. CASE ~q.due /\ q.said > 0 /\ w = <<Line("result", q.said), q>>
  <2>1. p.response = <<q.said>>
    BY <1>2, <1>7 DEF Matches, ResponseMatches
  <2>2. p.response # <<>>
    BY <2>1
  <2>3. ClaudeLine(p, Line("result", q.said)) = p
    BY <2>2 DEF ClaudeLine, Line
  <2>4. w[1] = Line("result", q.said) /\ w[2] = q
    BY <1>7
  <2> QED BY <2>3, <2>4
<1> QED BY <1>3, <1>4, <1>5, <1>6, <1>7 DEF ClaudeWrites

-----------------------------------------------------------------------------
(* Gemini.                                                                 *)

\* A text, in pieces or, when it is the first, in one.
LEMMA GeminiSays ==
  ASSUME kind = "gemini", NEW p \in ParserType, NEW q, TallyTypes(q), Matches(p, q), NEW w,
         Tallies(w, q.said + 1, q.begun, q.ended, q.open, q.unnamed, q.due)
  PROVE  /\ Matches(GeminiLine(p, Line("delta", q.said + 1)), w)
         /\ q.said = 0 => Matches(GeminiLine(p, Line("message", q.said + 1)), w)
<1> DEFINE n == q.said + 1
           a == Append(p.partial, n)
           u == [p EXCEPT !.partial = a]
           v == Emit(u, "delta", n)
<1>1. n \in Nat /\ q.said \in Nat
  BY DEF TallyTypes
<1>2. p.partial = UpTo(q.said)
  BY DEF Matches, ResponseMatches
<1>3. GeminiLine(p, Line("delta", n)) = v
  BY DEF GeminiLine, Line
<1>4. q.said = 0 => GeminiLine(p, Line("message", n)) = v
  <2>1. UpTo(0) = <<>>
    BY DEF UpTo
  <2> QED BY <1>2, <2>1 DEF GeminiLine, Line
<1>5. a \in Seq(Nat)
  BY <1>1 DEF ParserType
<1> HIDE DEF a
<1>6. /\ u \in ParserType /\ u.log = p.log /\ u.tools = p.tools /\ u.next = p.next
      /\ u.anonymous = p.anonymous /\ u.queue = p.queue /\ u.partial = a
  BY <1>5 DEF ParserType
<1> HIDE DEF u
<1>7. /\ v.log = Append(u.log, Event("delta", n)) /\ v.tools = u.tools /\ v.next = u.next
      /\ v.anonymous = u.anonymous /\ v.queue = u.queue /\ v.partial = u.partial
  BY <1>1, <1>6, EmitType
<1> HIDE DEF v
<1>8. /\ w.said = n /\ w.begun = q.begun /\ w.ended = q.ended /\ w.open = q.open
      /\ w.unnamed = q.unnamed
  BY DEF Tallies
<1>9. LogOk(v.log, w.said, w.begun, w.ended, NextStart(w)) /\ ToolsMatch(v, w)
  BY <1>6, <1>7, <1>8, SaidMatches
<1>10. v.partial = UpTo(w.said)
  BY <1>1, <1>2, <1>6, <1>7, <1>8, UpToNext DEF a
<1>11. Matches(v, w)
  BY <1>9, <1>10 DEF Matches, ResponseMatches
<1> QED BY <1>3, <1>4, <1>11

\* A message that was streamed before.
LEMMA GeminiRepeats ==
  ASSUME kind = "gemini", NEW p \in ParserType, NEW q, TallyTypes(q), Matches(p, q), q.said # 0
  PROVE  Matches(GeminiLine(p, Line("message", q.said)), q)
<1>1. p.partial = UpTo(q.said) /\ q.said \in Nat
  BY DEF TallyTypes, Matches, ResponseMatches
<1>2. 1 \in DOMAIN p.partial
  BY <1>1 DEF UpTo
<1>3. p.partial # <<>>
  BY <1>2
<1>4. GeminiLine(p, Line("message", q.said)) = p
  BY <1>3 DEF GeminiLine, Line
<1> QED BY <1>4

\* A call of a tool.
LEMMA GeminiUse ==
  ASSUME kind = "gemini", NEW p \in ParserType, NEW q, TallyTypes(q), Matches(p, q), NEW w,
         Tallies(w, q.said, q.begun + 1, q.ended, q.open \cup {q.begun + 1}, q.unnamed, q.due)
  PROVE  Matches(GeminiLine(p, Line("use", q.begun + 1)), w)
<1> DEFINE x == q.begun + 1
           n == p.next
           key == Key(x)
           other == {s \in p.tools : s[1] # key}
           tools == other \cup {<<key, n>>}
           u == [p EXCEPT !.tools = tools, !.next = @ + 1]
           v == Emit(u, "start", n)
<1>1. /\ q.begun \in Nat /\ x \in Nat /\ x # 0 /\ n = NextStart(q) /\ n = q.begun /\ n \in Nat
      /\ \A y \in q.open : y # 0 /\ Known(p, Key(y))
  BY DEF TallyTypes, NextStart, Matches, ToolsMatch, ParserType
<1>2. GeminiLine(p, Line("use", x)) = v
  BY DEF GeminiLine, Line
<1>3. other \subseteq p.tools /\ p.tools \in SUBSET (KeyType \X Nat) /\ key \in KeyType
  BY <1>1, KeysDiffer DEF ParserType
<1>4. ASSUME NEW y \in q.open \cup {x}
      PROVE  y # 0 /\ \E t \in tools : t[1] = Key(y)
  <2>1. CASE y = x
    <3>1. <<key, n>> \in tools /\ <<key, n>>[1] = Key(y)
      BY <2>1
    <3> QED BY <1>1, <2>1, <3>1
  <2>2. CASE y # x
    <3>1. Known(p, Key(y)) /\ y # 0
      BY <1>1, <1>4, <2>2
    <3>2. PICK t \in p.tools : t[1] = Key(y)
      BY <3>1 DEF Known
    <3>3. Key(y) # key
      BY <2>2, KeysDiffer
    <3>4. t \in tools
      BY <3>2, <3>3
    <3> HIDE DEF tools
    <3> QED BY <3>1, <3>2, <3>4
  <2> QED BY <2>1, <2>2
<1> HIDE DEF other, key
<1>5. tools \in SUBSET (KeyType \X Nat) /\ tools \subseteq p.tools \cup {<<key, n>>}
  BY <1>1, <1>3
<1> HIDE DEF tools
<1>6. /\ u \in ParserType /\ u.log = p.log /\ u.tools = tools /\ u.partial = p.partial
      /\ u.next = n + 1
  BY <1>1, <1>5 DEF ParserType
<1> HIDE DEF u
<1>7. /\ v.log = Append(p.log, Event("start", n)) /\ v.tools = tools
      /\ v.partial = p.partial /\ v.next = n + 1
  <2>1. /\ v.log = Append(u.log, Event("start", n)) /\ v.tools = u.tools
        /\ v.partial = u.partial /\ v.next = u.next
    BY <1>1, <1>6, EmitType
  <2> QED BY <1>6, <2>1
<1> HIDE DEF v
<1>8. /\ w.said = q.said /\ w.begun = x /\ w.ended = q.ended /\ w.open = q.open \cup {x}
      /\ w.unnamed = q.unnamed /\ w.due = q.due
  BY DEF Tallies
<1>9. /\ LogOk(v.log, w.said, w.begun, w.ended, NextStart(w))
      /\ Started(tools, v.log)
  <2> DEFINE log == v.log
  <2> HIDE DEF log
  <2>1. /\ log = Append(p.log, Event("start", n)) /\ w.said = q.said /\ w.begun = q.begun + 1
        /\ w.ended = q.ended
    BY <1>7, <1>8 DEF log
  <2> HIDE DEF n
  <2>2. /\ LogOk(log, w.said, w.begun, w.ended, NextStart(w))
        /\ Started(p.tools \cup {<<key, n>>}, log)
    BY <1>1, <2>1, BegunLog
  <2>3. Started(tools, log)
    BY <1>5, <2>2 DEF Started
  <2> QED BY <2>2, <2>3 DEF log
<1>10. \A y \in w.open : y # 0 /\ Known(v, Key(y))
  BY <1>4, <1>7, <1>8 DEF Known
<1>11. ToolsMatch(v, w)
  BY <1>1, <1>7, <1>8, <1>9, <1>10 DEF ToolsMatch
<1>12. ResponseMatches(v, w)
  BY <1>7, <1>8 DEF Matches, ResponseMatches
<1>13. Matches(v, w)
  BY <1>9, <1>11, <1>12 DEF Matches
<1> QED BY <1>2, <1>13

\* Its output.
LEMMA GeminiOutput ==
  ASSUME kind = "gemini", NEW p \in ParserType, NEW q, TallyTypes(q), Matches(p, q),
         NEW x \in q.open, NEW w,
         Tallies(w, q.said, q.begun, q.ended + 1, q.open \ {x}, q.unnamed, q.due)
  PROVE  Matches(GeminiLine(p, Line("output", x)), w)
<1> DEFINE key == Key(x)
           n == Index(p, key)
           tools == {s \in p.tools : s[1] # key}
           u == [p EXCEPT !.tools = tools]
           v == Emit(u, "finish", n)
<1>1. /\ Known(p, key) /\ p.next = q.begun
      /\ \A y \in q.open : y # 0 /\ Known(p, Key(y))
  BY DEF TallyTypes, Matches, ToolsMatch
<1>2. GeminiLine(p, Line("output", x)) = v
  BY <1>1 DEF GeminiLine, Line
<1>3. tools \subseteq p.tools /\ tools \in SUBSET (KeyType \X Nat)
  BY DEF ParserType
<1>4. ASSUME NEW y \in q.open \ {x}
      PROVE  \E t \in tools : t[1] = Key(y)
  <2>1. PICK t \in p.tools : t[1] = Key(y)
    BY <1>1 DEF Known
  <2>2. Key(y) # key
    BY KeysDiffer
  <2>3. t \in tools
    BY <2>1, <2>2
  <2> HIDE DEF tools
  <2> QED BY <2>1, <2>3
<1>5. LogOk(p.log, q.said, q.begun, q.ended, NextStart(q)) /\ Started(p.tools, p.log)
  BY DEF Matches, ToolsMatch
<1> HIDE DEF key
<1>6. n \in Nat /\ \E j \in DOMAIN p.log : p.log[j] = Event("start", n)
  BY <1>1, <1>5, KnownStarted
<1> HIDE DEF tools, n
<1>7. /\ u \in ParserType /\ u.log = p.log /\ u.tools = tools /\ u.partial = p.partial
      /\ u.next = p.next
  BY <1>3 DEF ParserType
<1> HIDE DEF u
<1>8. /\ v.log = Append(p.log, Event("finish", n)) /\ v.tools = tools
      /\ v.partial = p.partial /\ v.next = p.next
  <2>1. /\ v.log = Append(u.log, Event("finish", n)) /\ v.tools = u.tools
        /\ v.partial = u.partial /\ v.next = u.next
    BY <1>6, <1>7, EmitType
  <2> QED BY <1>7, <2>1
<1> HIDE DEF v
<1>9. /\ w.said = q.said /\ w.begun = q.begun /\ w.ended = q.ended + 1 /\ w.open = q.open \ {x}
      /\ w.unnamed = q.unnamed /\ w.due = q.due
  BY DEF Tallies
<1>10. LogOk(v.log, w.said, w.begun, w.ended, NextStart(w)) /\ Started(tools, v.log)
  BY <1>3, <1>5, <1>6, <1>8, <1>9, EndedLog
<1>11. \A y \in w.open : y # 0 /\ Known(v, Key(y))
  BY <1>1, <1>4, <1>8, <1>9 DEF Known
<1>12. ToolsMatch(v, w)
  BY <1>1, <1>8, <1>9, <1>10, <1>11 DEF ToolsMatch
<1>13. ResponseMatches(v, w)
  BY <1>8, <1>9 DEF Matches, ResponseMatches
<1>14. Matches(v, w)
  BY <1>10, <1>12, <1>13 DEF Matches
<1> QED BY <1>2, <1>14

\* Whatever Gemini writes.
LEMMA GeminiMatches ==
  ASSUME kind = "gemini", NEW p \in ParserType, NEW q \in RequestType, Matches(p, q),
         NEW w \in GeminiWrites(q)
  PROVE  Matches(GeminiLine(p, w[1]), w[2])
<1>1. TallyTypes(q) /\ TallyForms(q)
  BY RequestTallies, TallyFormsHold
<1>2. /\ q.said \in Nat /\ q.begun \in Nat /\ q.ended \in Nat /\ q.open \in SUBSET Nat
      /\ q.unnamed \in Nat /\ q.due \in BOOLEAN /\ q.said + 1 \in Nat /\ q.begun + 1 \in Nat
      /\ q.ended + 1 \in Nat
  BY <1>1 DEF TallyTypes
<1>3. CASE w = Says(q, "delta") \/ (q.said = 0 /\ w = Says(q, "message"))
  <2> DEFINE v == Tally(q, q.said + 1, q.begun, q.ended, q.open, q.unnamed, q.due)
  <2>1. /\ w[2] = v
        /\ \/ w[1] = Line("delta", q.said + 1)
           \/ q.said = 0 /\ w[1] = Line("message", q.said + 1)
    <3>1. \A k : Says(q, k)[1] = Line(k, q.said + 1) /\ Says(q, k)[2] = v
      BY <1>1 DEF TallyForms, Says
    <3> HIDE DEF v
    <3> QED BY <1>3, <3>1
  <2>2. Tallies(v, q.said + 1, q.begun, q.ended, q.open, q.unnamed, q.due)
    BY <1>2, TallyTallies
  <2> HIDE DEF v
  <2>3. /\ Matches(GeminiLine(p, Line("delta", q.said + 1)), v)
        /\ q.said = 0 => Matches(GeminiLine(p, Line("message", q.said + 1)), v)
    BY <1>1, <2>2, GeminiSays
  <2> QED BY <2>1, <2>3
<1>4. CASE q.said # 0 /\ w = <<Line("message", q.said), q>>
  <2>1. w[1] = Line("message", q.said) /\ w[2] = q
    BY <1>4
  <2> QED BY <1>1, <1>4, <2>1, GeminiRepeats
<1>5. CASE w = Opens(q, "use")
  <2> DEFINE line == Line("use", q.begun + 1)
             v == Tally(q, q.said, q.begun + 1, q.ended, q.open \cup {q.begun + 1}, q.unnamed, q.due)
  <2>1. w[1] = line /\ w[2] = v
    BY <1>1, <1>5 DEF TallyForms, Opens
  <2>2. Tallies(v, q.said, q.begun + 1, q.ended, q.open \cup {q.begun + 1}, q.unnamed, q.due)
    <3>1. \A o \in SUBSET Nat :
            Tallies(Tally(q, q.said, q.begun + 1, q.ended, o, q.unnamed, q.due),
                    q.said, q.begun + 1, q.ended, o, q.unnamed, q.due)
      BY <1>2, TallyTallies
    <3>2. q.open \cup {q.begun + 1} \in SUBSET Nat
      BY <1>2
    <3> QED BY <3>1, <3>2
  <2> HIDE DEF v
  <2>3. Matches(GeminiLine(p, line), v)
    BY <1>1, <2>2, GeminiUse
  <2> QED BY <2>1, <2>3
<1>6. CASE w \in Closes(q, "output")
  <2>1. PICK x \in q.open :
          w = <<Line("output", x), [q EXCEPT !.ended = @ + 1, !.open = @ \ {x}]>>
    BY <1>6 DEF Closes
  <2> DEFINE line == Line("output", x)
             v == Tally(q, q.said, q.begun, q.ended + 1, q.open \ {x}, q.unnamed, q.due)
  <2>2. w[1] = line /\ w[2] = v
    BY <1>1, <2>1 DEF TallyForms
  <2>3. Tallies(v, q.said, q.begun, q.ended + 1, q.open \ {x}, q.unnamed, q.due)
    <3>1. \A o \in SUBSET Nat :
            Tallies(Tally(q, q.said, q.begun, q.ended + 1, o, q.unnamed, q.due),
                    q.said, q.begun, q.ended + 1, o, q.unnamed, q.due)
      BY <1>2, TallyTallies
    <3>2. q.open \ {x} \in SUBSET Nat
      BY <1>2
    <3> QED BY <3>1, <3>2
  <2> HIDE DEF v
  <2>4. Matches(GeminiLine(p, line), v)
    BY <1>1, <2>3, GeminiOutput
  <2> QED BY <2>2, <2>4
<1> QED BY <1>3, <1>4, <1>5, <1>6 DEF GeminiWrites

-----------------------------------------------------------------------------
(* Whatever a tool writes, but for lines that are too long.                *)

\* A parser that knew all a tool had said and done does so after the next line.
LEMMA WritesMatch ==
  ASSUME kind \in {"codex", "claude", "gemini"}, NEW p \in ParserType, NEW q \in RequestType,
         Matches(p, q), NEW w \in Writes(q), w[1].k # "huge"
  PROVE  Matches(Parse(kind, p, w[1]), w[2])
<1> DEFINE u == [p EXCEPT !.raw = TRUE]
<1>1. /\ u \in ParserType /\ u.log = p.log /\ u.tools = p.tools /\ u.next = p.next
      /\ u.anonymous = p.anonymous /\ u.queue = p.queue /\ u.partial = p.partial
      /\ u.response = p.response
  BY DEF ParserType
<1>2. Parse(kind, p, w[1]) = CASE kind = "codex"  -> CodexLine(u, w[1])
                               [] kind = "claude" -> ClaudeLine(u, w[1])
                               [] kind = "gemini" -> GeminiLine(u, w[1])
  BY DEF Parse
<1> HIDE DEF u
<1>3. Matches(u, q)
  BY <1>1, MatchesParser
<1>4. w # <<Line("huge", 0), q>>
  BY DEF Line
<1>5. CASE kind = "codex"
  BY <1>1, <1>2, <1>3, <1>4, <1>5, CodexMatches DEF Writes
<1>6. CASE kind = "claude"
  BY <1>1, <1>2, <1>3, <1>4, <1>6, ClaudeMatches DEF Writes
<1>7. CASE kind = "gemini"
  BY <1>1, <1>2, <1>3, <1>4, <1>7, GeminiMatches DEF Writes
<1> QED BY <1>5, <1>6, <1>7

\* A new parser, of a run that has written nothing, and of one whose first line is read.
LEMMA NewMatches ==
  ASSUME kind \in {"codex", "claude", "gemini"}, NEW q,
         Tallies(q, 0, 0, 0, {}, 0, FALSE)
  PROVE  Matches(NewParser, q)
<1>1. Only(<<>>, EventsOf("delta")) = <<>> /\ Only(<<>>, EventsOf("start")) = <<>>
      /\ Only(<<>>, EventsOf("finish")) = <<>>
  BY OnlyEmpty
<1>2. UpTo(0) = <<>> /\ Deltas(0) = <<>> /\ Len(<<>>) = 0 /\ DOMAIN <<>> = {}
  BY DEF UpTo, Deltas
<1>3. /\ q.said = 0 /\ q.begun = 0 /\ q.ended = 0 /\ q.open = {} /\ q.unnamed = 0 /\ ~q.due
  BY DEF Tallies
<1>4. /\ NewParser.log = <<>> /\ NewParser.tools = {} /\ NewParser.next = 0
      /\ NewParser.queue = <<>> /\ NewParser.partial = <<>> /\ NewParser.response = <<>>
  BY DEF NewParser
<1>5. LogOk(NewParser.log, q.said, q.begun, q.ended, NextStart(q))
  BY <1>1, <1>2, <1>3, <1>4 DEF LogOk, EndsAfterStarts
<1>6. \A k : ~Known(NewParser, k)
  BY <1>4 DEF Known
<1>7. ToolsMatch(NewParser, q)
  BY <1>2, <1>3, <1>4, <1>6 DEF ToolsMatch, CodexToolsMatch, Started
<1>8. ResponseMatches(NewParser, q)
  BY <1>2, <1>3, <1>4 DEF ResponseMatches
<1> QED BY <1>5, <1>7, <1>8 DEF Matches

\* The first line says nothing else.
LEMMA FirstLineMatches ==
  ASSUME kind \in {"codex", "claude", "gemini"}, NEW t \in Nat, NEW q,
         Tallies(q, 0, 0, 0, {}, 0, FALSE)
  PROVE  Matches(Parse(kind, NewParser, Line(FirstLine, t)), q)
<1> DEFINE v == Parse(kind, NewParser, Line(FirstLine, t))
<1>1. Line(FirstLine, t).k = FirstLine /\ Line(FirstLine, t).id = t
  BY DEF Line
<1>2. /\ v.log = NewParser.log /\ v.tools = NewParser.tools /\ v.next = NewParser.next
      /\ v.anonymous = NewParser.anonymous /\ v.queue = NewParser.queue
      /\ v.partial = NewParser.partial /\ v.response = NewParser.response
  <2>1. CASE kind = "codex"
    BY <1>1, <2>1 DEF Parse, CodexLine, FirstLine, NewParser
  <2>2. CASE kind = "claude"
    BY <1>1, <2>2 DEF Parse, ClaudeLine, FirstLine, NewParser
  <2>3. CASE kind = "gemini"
    BY <1>1, <2>3 DEF Parse, GeminiLine, FirstLine, NewParser
  <2> QED BY <2>1, <2>2, <2>3
<1> HIDE DEF v
<1>3. Matches(NewParser, q)
  BY NewMatches
<1>4. Matches(v, q)
  BY <1>2, <1>3, MatchesParser
<1> QED BY <1>4 DEF v

-----------------------------------------------------------------------------
(* The lines that are still in the pipe.                                   *)

\* Nothing in the pipe: the parser knows it all.
LEMMA LeadsNothing ==
  ASSUME NEW p \in ParserType, NEW q
  PROVE  Leads(p, <<>>, q) <=> Matches(p, q)
<1>1. Len(<<>>) = 0 /\ 1 .. 0 = {}
  OBVIOUS
<1>2. ASSUME Leads(p, <<>>, q) PROVE Matches(p, q)
  BY <1>1, <1>2 DEF Leads, Passes
<1>3. ASSUME Matches(p, q) PROVE Leads(p, <<>>, q)
  <2> DEFINE ps == [i \in 0 .. 0 |-> p]
  <2>1. ps \in [0 .. 0 -> ParserType] /\ ps[0] = p
    OBVIOUS
  <2> HIDE DEF ps
  <2>2. Passes(ps, p, <<>>) /\ Matches(ps[Len(<<>>)], q)
    BY <1>1, <1>3, <2>1 DEF Passes
  <2> QED BY <2>2 DEF Leads
<1> QED BY <1>2, <1>3

\* What is in the pipe leads to tallies.
LEMMA LeadsTallies ==
  ASSUME NEW p, NEW pipe, NEW q, NEW v, Leads(p, pipe, q),
         v.said = q.said, v.begun = q.begun, v.ended = q.ended, v.open = q.open,
         v.unnamed = q.unnamed, v.due = q.due
  PROVE  Leads(p, pipe, v)
<1>1. PICK ps : Passes(ps, p, pipe) /\ Matches(ps[Len(pipe)], q)
  BY DEF Leads
<1>2. Matches(ps[Len(pipe)], v)
  BY <1>1, MatchesTallies
<1> QED BY <1>1, <1>2 DEF Leads

\* A line is written.
LEMMA LeadsAppend ==
  ASSUME kind \in {"codex", "claude", "gemini"}, NEW p, NEW pipe \in Seq(LineType),
         NEW q, NEW line \in LineType, NEW v, Leads(p, pipe, q),
         \A u \in ParserType : Matches(u, q) => Matches(Parse(kind, u, line), v)
  PROVE  Leads(p, Append(pipe, line), v)
<1> DEFINE n == Len(pipe)
           more == Append(pipe, line)
<1>1. PICK ps : Passes(ps, p, pipe) /\ Matches(ps[n], q)
  BY DEF Leads
<1>2. /\ n \in Nat /\ Len(more) = n + 1 /\ more[n + 1] = line
      /\ \A i \in 1 .. n : more[i] = pipe[i]
  <2> HIDE DEF LineType
  <2> QED OBVIOUS
<1>3. /\ ps \in [0 .. n -> ParserType] /\ ps[0] = p
      /\ \A i \in 1 .. n : ps[i] = Parse(kind, ps[i - 1], pipe[i])
  BY <1>1 DEF Passes
<1> DEFINE last == Parse(kind, ps[n], line)
           qs == [i \in 0 .. n + 1 |-> IF i = n + 1 THEN last ELSE ps[i]]
<1> HIDE DEF more, n
<1>4. ps[n] \in ParserType /\ last \in ParserType
  <2>1. n \in 0 .. n
    BY <1>2
  <2>2. ps[n] \in ParserType
    BY <1>3, <2>1
  <2> DEFINE u == ps[n]
  <2> HIDE DEF u
  <2>3. u \in ParserType
    BY <2>2 DEF u
  <2>4. Parse(kind, u, line) \in ParserType
    BY <2>3, ParseType
  <2> QED BY <2>2, <2>4 DEF u
<1>5. Matches(last, v)
  BY <1>1, <1>4
<1> HIDE DEF last
<1>6. /\ qs \in [0 .. n + 1 -> ParserType] /\ qs[n + 1] = last
      /\ \A i \in 0 .. n : qs[i] = ps[i]
  BY <1>2, <1>3, <1>4
<1> HIDE DEF qs
<1>7. ASSUME NEW i \in 1 .. n + 1
      PROVE  qs[i] = Parse(kind, qs[i - 1], more[i])
  <2>1. CASE i = n + 1
    BY <1>2, <1>6, <2>1 DEF last
  <2>2. CASE i # n + 1
    <3>1. i \in 1 .. n /\ i - 1 \in 0 .. n /\ i \in 0 .. n
      BY <1>2, <2>2
    <3> QED BY <1>2, <1>3, <1>6, <3>1
  <2> QED BY <2>1, <2>2
<1>8. qs[0] = p
  BY <1>2, <1>3, <1>6
<1>9. Passes(qs, p, more) /\ Matches(qs[Len(more)], v)
  BY <1>2, <1>5, <1>6, <1>7, <1>8 DEF Passes
<1> QED BY <1>9 DEF Leads, more

\* A line is read.
LEMMA LeadsTail ==
  ASSUME NEW p, NEW pipe \in Seq(LineType), NEW q, pipe # <<>>, Leads(p, pipe, q)
  PROVE  Leads(Parse(kind, p, Head(pipe)), Tail(pipe), q)
<1> DEFINE n == Len(pipe)
           rest == Tail(pipe)
           line == Head(pipe)
<1>1. PICK ps : Passes(ps, p, pipe) /\ Matches(ps[n], q)
  BY DEF Leads
<1>2. /\ n \in Nat /\ n # 0 /\ Len(rest) = n - 1 /\ line = pipe[1]
      /\ \A i \in 1 .. n - 1 : rest[i] = pipe[i + 1]
  <2> HIDE DEF LineType
  <2> QED OBVIOUS
<1>3. /\ ps \in [0 .. n -> ParserType] /\ ps[0] = p
      /\ \A i \in 1 .. n : ps[i] = Parse(kind, ps[i - 1], pipe[i])
  BY <1>1 DEF Passes
<1> DEFINE qs == [i \in 0 .. n - 1 |-> ps[i + 1]]
<1> HIDE DEF rest, line, n
<1>4. /\ qs \in [0 .. n - 1 -> ParserType] /\ \A i \in 0 .. n - 1 : qs[i] = ps[i + 1]
  BY <1>2, <1>3
<1> HIDE DEF qs
<1>5. qs[0] = Parse(kind, p, line)
  <2>1. 1 \in 1 .. n /\ 0 \in 0 .. n - 1 /\ 1 - 1 = 0 /\ 0 + 1 = 1
    BY <1>2
  <2>2. ps[1] = Parse(kind, ps[1 - 1], pipe[1])
    BY <1>3, <2>1
  <2> QED BY <1>2, <1>3, <1>4, <2>1, <2>2
<1>6. ASSUME NEW i \in 1 .. n - 1
      PROVE  qs[i] = Parse(kind, qs[i - 1], rest[i])
  <2>1. /\ i + 1 \in 1 .. n /\ i \in 0 .. n - 1 /\ i - 1 \in 0 .. n - 1
        /\ (i + 1) - 1 = i /\ (i - 1) + 1 = i
    BY <1>2
  <2>2. ps[i + 1] = Parse(kind, ps[i], pipe[i + 1])
    <3>1. ps[i + 1] = Parse(kind, ps[(i + 1) - 1], pipe[i + 1])
      BY <1>3, <2>1
    <3> QED BY <2>1, <3>1
  <2> QED BY <1>2, <1>4, <2>1, <2>2
<1>7. qs[n - 1] = ps[n]
  BY <1>2, <1>4
<1>8. Passes(qs, Parse(kind, p, line), rest) /\ Matches(qs[Len(rest)], q)
  BY <1>1, <1>2, <1>4, <1>5, <1>6, <1>7 DEF Passes
<1> QED BY <1>8 DEF Leads, rest, line

-----------------------------------------------------------------------------
(* What the reader is going to know.                                       *)

\* Of the state, Leads looks at the provider only, and that stays.
LEMMA LeadsSame ==
  ASSUME kind' = kind
  PROVE  \A p, pipe, q : Leads(p, pipe, q)' <=> Leads(p, pipe, q)
<1>1. ASSUME NEW CONSTANT p, NEW CONSTANT q
      PROVE  Matches(p, q)' <=> Matches(p, q)
  BY DEF Matches, NextStart, ToolsMatch, ResponseMatches
<1>2. ASSUME NEW CONSTANT ps, NEW CONSTANT p, NEW CONSTANT pipe
      PROVE  Passes(ps, p, pipe)' <=> Passes(ps, p, pipe)
  BY DEF Passes
<1> QED BY <1>1, <1>2 DEF Leads

\* LedgerInv for the record q of one request.
LedgerOk(q) == ~q.lost /\ NoHuge(q.pipe) => Leads(q.got, q.pipe, q)

\* The invariant of all runs is that of each.
LEMMA LedgerInvParts ==
  LedgerInv <=> \A r \in Requests : Talks(r) => LedgerOk(req[r])
BY DEF LedgerInv, LedgerOk

\* Every step keeps what a reader that keeps up is going to know what was said and done.
LEMMA LedgerInvStep ==
  ASSUME Inv, Next
  PROVE  LedgerInv'
<1>1. /\ TypeInv /\ SessionInv /\ RunInv /\ req \in [Requests -> RequestType]
      /\ kind \in {"codex", "claude", "gemini"}
      /\ \A r \in Requests : Talks(r) => ReadingOk(req[r], kind, FirstLine)
      /\ \A r \in Requests : Talks(r) => LedgerOk(req[r])
  BY ReadingInvParts, LedgerInvParts, LimitsFacts DEF Inv, TypeInv
<1>2. kind' = kind
  BY OneRunMoves
<1>3. NewParser \in ParserType
  BY BlankTypes, LimitsFacts, <1>1
<1>4. ASSUME NEW r \in Requests, NEW b \in Sessions, Begins(r, b)
      PROVE  LedgerOk(req'[r])
  <2> DEFINE q == req'[r]
  <2>1. Blank(q)
    BY <1>1, <1>4, BeginsMoves
  <2> HIDE DEF q
  <2>2. Tallies(q, 0, 0, 0, {}, 0, FALSE) /\ q.got = NewParser /\ q.pipe = <<>>
    BY <2>1 DEF Blank, Tallies
  <2>3. Leads(NewParser, <<>>, q)
    BY <1>1, <1>3, <2>2, NewMatches, LeadsNothing
  <2>4. LedgerOk(q)
    BY <2>2, <2>3 DEF LedgerOk
  <2> QED BY <2>4 DEF q
<1>5. ASSUME NEW r \in Requests, ToolStarts(r)
      PROVE  LedgerOk(req'[r])
  <2> DEFINE p == req[r]
             q == req'[r]
             line == Line(FirstLine, q.works)
  <2>1. /\ q.pipe = Append(p.pipe, line) /\ p.works = NoThread /\ q.works \in Threads
        /\ q.got = p.got /\ q.said = p.said /\ q.begun = p.begun /\ q.ended = p.ended
        /\ q.open = p.open /\ q.unnamed = p.unnamed /\ q.due = p.due /\ Uses(r)
    BY <1>1, <1>5, ToolStartsMoves
  <2>2. Talks(r)
    BY <2>1 DEF Uses, Running, Talks, Active
  <2>3. ReadingOk(p, kind, FirstLine)
    BY <1>1, <2>2
  <2>4. /\ p.pipe = <<>> /\ p.got = NewParser
        /\ Tallies(p, 0, 0, 0, {}, 0, FALSE)
    BY <1>1, <2>1, <2>2, <2>3 DEF ReadingOk, RequestType, Tallies
  <2>5. q.works \in Nat
    BY <1>1, <2>1, LimitsFacts
  <2>6. line \in LineType
    BY <1>1, <2>5 DEF Line, LineType, FirstLine, Opening
  <2> HIDE DEF p, q
  <2>7. Tallies(q, 0, 0, 0, {}, 0, FALSE)
    BY <2>1, <2>4 DEF Tallies
  <2>8. Matches(Parse(kind, NewParser, line), q)
    BY <1>1, <2>5, <2>7, FirstLineMatches
  <2> DEFINE v == Parse(kind, NewParser, line)
  <2>9. v \in ParserType
    <3> HIDE DEF line
    <3> QED BY <1>1, <1>3, <2>6, ParseType
  <2> HIDE DEF line
  <2>10. Leads(NewParser, Append(<<>>, line), q)
    <3>1. Leads(NewParser, <<>>, p)
      BY <1>1, <1>3, <2>4, NewMatches, LeadsNothing
    <3>2. <<>> \in Seq(LineType)
      OBVIOUS
    <3> DEFINE ps == [i \in 0 .. 1 |-> IF i = 0 THEN NewParser ELSE v]
               pipe == Append(<<>>, line)
    <3>3. Len(pipe) = 1 /\ pipe[1] = line
      OBVIOUS
    <3> HIDE DEF v, pipe
    <3>4. ps \in [0 .. 1 -> ParserType] /\ ps[0] = NewParser /\ ps[1] = v
      BY <1>3, <2>9
    <3> HIDE DEF ps
    <3>5. \A i \in 1 .. 1 : i = 1 /\ i - 1 = 0
      OBVIOUS
    <3>6. \A i \in 1 .. 1 : ps[i] = Parse(kind, ps[i - 1], pipe[i])
      BY <3>3, <3>4, <3>5 DEF v
    <3>7. Passes(ps, NewParser, pipe) /\ Matches(ps[Len(pipe)], q)
      BY <2>8, <3>3, <3>4, <3>6 DEF Passes, v
    <3> QED BY <3>7 DEF Leads, pipe
  <2>11. LedgerOk(q)
    BY <2>1, <2>4, <2>10 DEF LedgerOk, q
  <2> QED BY <2>11 DEF q
<1>6. ASSUME NEW r \in Requests, ToolWrites(r)
      PROVE  LedgerOk(req'[r])
  <2> DEFINE p == req[r]
             q == req'[r]
  <2>1. /\ Uses(r) /\ \E w \in Writes(p), more \in BOOLEAN : WritesOn(p, q, w, more)
    BY <1>1, <1>6, ToolWritesMoves
  <2>2. PICK w \in Writes(p), more \in BOOLEAN : WritesOn(p, q, w, more)
    BY <2>1
  <2>3. Talks(r)
    BY <2>1 DEF Uses, Running, Talks, Active
  <2>4. LedgerOk(p) /\ p \in RequestType
    BY <1>1, <2>3
  <2> HIDE DEF p, q
  <2>5. p.pipe \in Seq(LineType)
    BY <2>4 DEF RequestType
  <2>6. /\ q.pipe = Append(p.pipe, w[1]) /\ q.got = p.got /\ q.lost = p.lost
        /\ w[1] \in LineType
        /\ q.due = w[2].due /\ q.said = w[2].said /\ q.begun = w[2].begun
        /\ q.ended = w[2].ended /\ q.open = w[2].open /\ q.unnamed = w[2].unnamed
    BY <2>2 DEF WritesOn, IsWrite
  <2>7. ASSUME ~q.lost, NoHuge(q.pipe)
        PROVE  Leads(q.got, q.pipe, q)
    <3>1. NoHuge(p.pipe) /\ w[1].k # "huge"
      <4>1. /\ Len(p.pipe) \in Nat /\ DOMAIN p.pipe = 1 .. Len(p.pipe)
            /\ DOMAIN q.pipe = 1 .. Len(p.pipe) + 1
            /\ \A i \in DOMAIN p.pipe : q.pipe[i] = p.pipe[i]
            /\ q.pipe[Len(p.pipe) + 1] = w[1]
        <5> HIDE DEF LineType
        <5> QED BY <2>5, <2>6
      <4>2. Len(p.pipe) + 1 \in DOMAIN q.pipe /\ \A i \in DOMAIN p.pipe : i \in DOMAIN q.pipe
        BY <4>1
      <4> QED BY <2>7, <4>1, <4>2 DEF NoHuge
    <3>2. Leads(p.got, p.pipe, p)
      BY <2>4, <2>6, <2>7, <3>1 DEF LedgerOk
    <3>3. \A u \in ParserType : Matches(u, p) => Matches(Parse(kind, u, w[1]), w[2])
      BY <1>1, <2>4, <3>1, WritesMatch
    <3> DEFINE line == w[1]
               x == w[2]
    <3> HIDE DEF line, x
    <3>4. /\ line \in LineType
          /\ \A u \in ParserType : Matches(u, p) => Matches(Parse(kind, u, line), x)
      BY <2>6, <3>3 DEF line, x
    <3>5. Leads(p.got, Append(p.pipe, line), x)
      BY <1>1, <2>5, <3>2, <3>4, LeadsAppend
    <3>6. /\ q.pipe = Append(p.pipe, line) /\ q.got = p.got
          /\ q.due = x.due /\ q.said = x.said /\ q.begun = x.begun
          /\ q.ended = x.ended /\ q.open = x.open /\ q.unnamed = x.unnamed
      BY <2>6 DEF line, x
    <3> QED BY <3>5, <3>6, LeadsTallies
  <2>8. LedgerOk(q)
    BY <2>7 DEF LedgerOk
  <2> QED BY <2>8 DEF q
<1>7. ASSUME NEW r \in Requests, ProcessStep(r), Talks(r)'
      PROVE  LedgerOk(req'[r])
  <2> DEFINE p == req[r]
             q == req'[r]
  <2>1. Proceeds(r) /\ SameReading(p, q)
    BY <1>1, <1>7, ProcessMoves
  <2>2. Talks(r)
    BY <1>1, <1>7, <2>1, ProceedsFacts
  <2>3. LedgerOk(p)
    BY <1>1, <2>2
  <2> HIDE DEF p, q
  <2>4. /\ q.pipe = p.pipe /\ q.got = p.got /\ q.lost = p.lost
        /\ q.due = p.due /\ q.said = p.said /\ q.begun = p.begun
        /\ q.ended = p.ended /\ q.open = p.open /\ q.unnamed = p.unnamed
    BY <2>1 DEF SameReading, SameTally
  <2>5. LedgerOk(q)
    BY <2>3, <2>4, LeadsTallies DEF LedgerOk
  <2> QED BY <2>5 DEF q
<1>8. ASSUME NEW r \in Requests, ReadLine(r)
      PROVE  LedgerOk(req'[r])
  <2> DEFINE p == req[r]
             q == req'[r]
             line == Head(p.pipe)
  <2>1. /\ Proceeds(r) /\ SameTally(p, q) /\ Uses(r)
        /\ p.pipe # <<>> /\ q.pipe = Tail(p.pipe)
        /\ \/ /\ p.reader = "draining" /\ q.lost = p.lost
           \/ q.lost
           \/ /\ line.k # "huge" /\ q.lost = p.lost
              /\ q.got = Parse(kind, p.got, line)
    BY <1>1, <1>8, ReadLineMoves
  <2>2. Talks(r)
    BY <2>1 DEF Uses, Running, Talks, Active
  <2>3. LedgerOk(p) /\ ReadingOk(p, kind, FirstLine) /\ p.pipe \in Seq(LineType)
    BY <1>1, <2>2 DEF RequestType
  <2> HIDE DEF p, q
  <2>4. /\ q.due = p.due /\ q.said = p.said /\ q.begun = p.begun
        /\ q.ended = p.ended /\ q.open = p.open /\ q.unnamed = p.unnamed
    BY <2>1 DEF SameTally
  <2>5. ASSUME ~q.lost, NoHuge(q.pipe)
        PROVE  Leads(q.got, q.pipe, q)
    <3>1. ~p.lost /\ line.k # "huge" /\ q.got = Parse(kind, p.got, line)
      BY <2>1, <2>3, <2>5 DEF ReadingOk
    <3>2. NoHuge(p.pipe)
      <4>1. /\ line = p.pipe[1]
            /\ \A i \in DOMAIN p.pipe : i = 1 \/ (i - 1 \in DOMAIN q.pipe /\ q.pipe[i - 1] = p.pipe[i])
        <5> HIDE DEF LineType
        <5> QED BY <2>1, <2>3
      <4> QED BY <2>5, <3>1, <4>1 DEF NoHuge
    <3>3. Leads(p.got, p.pipe, p)
      BY <2>3, <3>1, <3>2 DEF LedgerOk
    <3>4. Leads(Parse(kind, p.got, line), Tail(p.pipe), p)
      BY <2>1, <2>3, <3>3, LeadsTail
    <3> HIDE DEF line
    <3>5. Leads(q.got, q.pipe, p)
      BY <2>1, <3>1, <3>4
    <3> QED BY <2>4, <3>5, LeadsTallies
  <2>6. LedgerOk(q)
    BY <2>5 DEF LedgerOk
  <2> QED BY <2>6 DEF q
<1>9. ASSUME NEW r \in Requests, WaitReturns(r) \/ OutputReturns(r), Talks(r)'
      PROVE  LedgerOk(req'[r])
  <2> DEFINE p == req[r]
             q == req'[r]
  <2>1. /\ Proceeds(r) /\ SameTally(p, q) /\ q.got = p.got
        /\ p.op = "text" => q.pipe = <<>> /\ (q.lost <=> p.lost \/ p.pipe # <<>>)
    BY <1>1, <1>9, ReturnMoves
  <2>2. Talks(r)
    BY <1>1, <1>9, <2>1, ProceedsFacts
  <2>3. LedgerOk(p) /\ p.op = "text"
    BY <1>1, <2>2 DEF Talks
  <2> HIDE DEF p, q
  <2>4. /\ q.due = p.due /\ q.said = p.said /\ q.begun = p.begun
        /\ q.ended = p.ended /\ q.open = p.open /\ q.unnamed = p.unnamed
    BY <2>1 DEF SameTally
  <2>5. ASSUME ~q.lost
        PROVE  Leads(q.got, q.pipe, q)
    <3>1. ~p.lost /\ p.pipe = <<>> /\ q.pipe = <<>>
      BY <2>1, <2>3, <2>5
    <3>2. NoHuge(p.pipe)
      BY <3>1 DEF NoHuge
    <3>3. Leads(p.got, p.pipe, p)
      BY <2>3, <3>1, <3>2 DEF LedgerOk
    <3>4. Leads(q.got, q.pipe, p)
      BY <2>1, <3>1, <3>3
    <3> QED BY <2>4, <3>4, LeadsTallies
  <2>6. LedgerOk(q)
    BY <2>5 DEF LedgerOk
  <2> QED BY <2>6 DEF q
<1>10. ASSUME NEW r \in Requests, Moves(r), Talks(r)'
       PROVE  LedgerOk(req'[r])
  BY <1>6, <1>7, <1>8, <1>9, <1>10 DEF Moves
<1>11. ASSUME NEW q \in Requests, Talks(q)'
       PROVE  LedgerOk(req'[q])
  <2>1. CASE Talks(q) /\ req'[q] = req[q]
    BY <1>1, <2>1
  <2>2. CASE (\E b \in Sessions : Begins(q, b)) \/ ToolStarts(q) \/ Moves(q)
    BY <1>4, <1>5, <1>10, <1>11, <2>2
  <2> QED BY <1>11, <2>1, <2>2, OneRunMoves DEF Quiet, One, Apart
<1>12. ASSUME \A r \in Requests : Talks(r)' => LedgerOk(req'[r])
       PROVE  LedgerInv'
  <2>1. \A p, pipe, q : Leads(p, pipe, q)' <=> Leads(p, pipe, q)
    BY <1>2, LeadsSame
  <2> QED BY <1>12, <2>1 DEF LedgerInv, LedgerOk
<1> QED BY <1>11, <1>12

-----------------------------------------------------------------------------
(* Sessions that share a thread.                                           *)

\* Sessions that keep their threads.
LEMMA SharedThreadsStay ==
  ASSUME SharedThreadsAreAdoptedEarly,
         \A s \in Sessions : sess'[s].live =>
           sess[s].live /\ sess'[s].thread = sess[s].thread /\ sess'[s].early = sess[s].early
  PROVE  SharedThreadsAreAdoptedEarly'
BY DEF SharedThreadsAreAdoptedEarly, Live

\* One session changes, and is alone on its thread or was adopted early, as are those
\* it shares its thread with.
LEMMA SharedThreadsGrow ==
  ASSUME SharedThreadsAreAdoptedEarly, NEW c \in Sessions,
         \A s \in Sessions : s # c => sess'[s] = sess[s],
         \A s \in Live : s # c /\ sess[s].thread = sess'[c].thread =>
           sess[s].early \/ sess'[c].early
  PROVE  SharedThreadsAreAdoptedEarly'
BY DEF SharedThreadsAreAdoptedEarly, Live

\* Every step keeps shared threads adopted early: Complete, too, gives a session the thread
\* of its first run only.
LEMMA SharedThreadsStep ==
  ASSUME Inv, Next, SharedThreadsAreAdoptedEarly
  PROVE  SharedThreadsAreAdoptedEarly'
<1>1. TypeInv /\ SessionInv /\ RequestInv /\ RunInv /\ FirstRunInv /\ ReadingInv
  BY DEF Inv
<1>2. /\ sess \in [Sessions -> SessionType] /\ drawn \in 0 .. MaxSessions
      /\ MaxSessions \in Nat /\ req \in [Requests -> RequestType]
      /\ kind \in {"codex", "claude", "gemini"}
  BY <1>1, LimitsFacts DEF TypeInv
<1>3. CASE CreateSession
  <2> DEFINE c == drawn + 1
  <2>1. /\ c \in Sessions /\ c \notin 0 .. drawn /\ sess' = [sess EXCEPT ![c] = Fresh(c, FALSE, FALSE)]
        /\ c <= MaxSessions
    BY <1>1, <1>2, <1>3, LimitsFacts DEF CreateSession, Sessions, TypeInv
  <2> HIDE DEF c
  <2>2. sess'[c].thread = c /\ \A s \in Sessions : s # c => sess'[s] = sess[s]
    BY <1>2, <2>1 DEF Fresh, Absent
  <2>3. ASSUME NEW s \in Live, s # c, sess[s].thread = sess'[c].thread
        PROVE  FALSE
    <3>1. /\ s \in Sessions /\ s <= drawn /\ (sess[s].ready \/ sess[s].thread = s)
          /\ sess[s].ready => sess[s].thread > MaxSessions
      BY <1>1 DEF SessionInv, Live
    <3>2. /\ sess[s].thread = c /\ c \in Nat /\ c <= MaxSessions /\ MaxSessions \in Nat
          /\ c > drawn /\ drawn \in Nat
      BY <1>2, <2>1, <2>2, <2>3 DEF Sessions
    <3>3. CASE sess[s].ready
      BY <3>1, <3>2, <3>3
    <3>4. CASE sess[s].thread = s
      BY <3>1, <3>2, <3>4, <2>3
    <3> QED BY <3>1, <3>3, <3>4
  <2> QED BY <2>1, <2>2, <2>3, SharedThreadsGrow
<1>4. ASSUME NEW a \in Adopters, AdoptCreates(a)
      PROVE  SharedThreadsAreAdoptedEarly'
  <2>1. CASE UNCHANGED sess
    BY <2>1, SharedThreadsStay
  <2>2. CASE sess' # sess
    <3> DEFINE c == drawn + 1
               t == adopting[a]
    <3>1. PICK early \in BOOLEAN : /\ Unused(t) /\ drawn < limit.sessions
                                   /\ sess' = [sess EXCEPT ![c] = Fresh(t, TRUE, early)]
      BY <1>4, <2>2 DEF AdoptCreates
    <3>2. c \in Sessions
      BY <1>1, <1>2, <3>1, LimitsFacts DEF Sessions, TypeInv
    <3> HIDE DEF c
    <3>3. sess'[c].thread = t /\ \A s \in Sessions : s # c => sess'[s] = sess[s]
      BY <1>2, <3>1, <3>2 DEF Fresh, Absent
    <3>4. \A s \in Live : sess[s].thread # t
      BY <3>1 DEF Unused
    <3> QED BY <3>2, <3>3, <3>4, SharedThreadsGrow
  <2> QED BY <2>1, <2>2
<1>5. CASE LocalThread \/ (\E a \in Adopters : AdoptLists(a))
  BY <1>5, SharedThreadsStay DEF LocalThread, AdoptLists
<1>6. ASSUME NEW d \in Sessions, DeleteSession(d) \/ DeleteCleans(d)
      PROVE  SharedThreadsAreAdoptedEarly'
  <2>1. sess' = [sess EXCEPT ![d] = Absent] \/ sess' = sess
    BY <1>6 DEF DeleteSession, DeleteCleans
  <2>2. ~Absent.live
    BY DEF Absent
  <2> QED BY <1>2, <2>1, <2>2, SharedThreadsStay
<1>7. ASSUME NEW r \in Requests, NEW b \in Sessions, Begins(r, b)
      PROVE  SharedThreadsAreAdoptedEarly'
  <2>1. /\ sess' = [sess EXCEPT ![b] = sess'[b]]
        /\ sess[b].live /\ sess'[b].thread = sess[b].thread /\ sess'[b].early = sess[b].early
    BY <1>7, BeginsApart
  <2> QED BY <1>2, <2>1, SharedThreadsStay
<1>8. ASSUME NEW r \in Requests, ToolStarts(r)
      PROVE  SharedThreadsAreAdoptedEarly'
  <2>1. UNCHANGED sess
    BY <1>1, <1>8, ToolStartsMoves
  <2> QED BY <2>1, SharedThreadsStay
<1>9. ASSUME NEW r \in Requests, Complete(r)
      PROVE  SharedThreadsAreAdoptedEarly'
  <2>1. /\ Active(r)
        /\ \A s \in Sessions : s # req[r].on => sess'[s] = sess[s]
        /\ \A s \in Sessions : sess'[s].early = sess[s].early
        /\ \A s \in Sessions : sess'[s].live <=> sess[s].live
    BY <1>9, CompleteApart
  <2>2. PICK c \in Sessions : c = req[r].on
    BY <1>9, CompleteApart
  <2>3. CASE ~sess[c].live \/ sess'[c].thread = sess[c].thread
    BY <2>1, <2>2, <2>3, SharedThreadsStay
  <2>4. CASE sess[c].live /\ sess'[c].thread # sess[c].thread
    <3>1. Completion(r, req[r], sess[c], sess'[c])
      BY <1>1, <1>9, <2>2, <2>4, CompleteMoves
    <3>2. /\ req[r].op = "text" /\ kind # "claude" /\ req[r].got.thread # NoThread
          /\ sess'[c].thread = req[r].got.thread
      BY <2>4, <3>1 DEF Completion
    <3>3. Talks(r)
      BY <2>1, <3>2 DEF Talks
    <3>4. NewParser.thread = NoThread
      BY DEF NewParser
    <3>5. req[r].got.thread = req[r].works /\ req[r].works # NoThread
      BY <1>1, <3>2, <3>3, <3>4 DEF ReadingInv
    <3>6. req[r].asked = sess[c].thread
      BY <1>1, <2>2, <2>4, <3>3 DEF RunInv
    <3>7. req[r].mode = "new"
      BY <1>1, <2>4, <3>2, <3>3, <3>5, <3>6 DEF RunInv
    <3>8. First(r)
      BY <3>2, <3>3, <3>5, <3>7 DEF First
    <3>9. \A s \in Live : sess[s].thread = sess'[c].thread => sess[s].early
      BY <1>1, <3>2, <3>5, <3>8 DEF FirstRunInv, Live
    <3> QED BY <2>1, <2>2, <3>9, SharedThreadsGrow
  <2> QED BY <2>3, <2>4
<1>10. ASSUME NEW r \in Requests, Respond(r) \/ Moves(r)
       PROVE  SharedThreadsAreAdoptedEarly'
  <2>1. UNCHANGED sess
    BY <1>10, QuietRequests
  <2> QED BY <2>1, SharedThreadsStay
<1>11. StepCases
  BY NextIsCases
<1> QED BY <1>3, <1>4, <1>5, <1>6, <1>7, <1>8, <1>9, <1>10, <1>11 DEF StepCases

-----------------------------------------------------------------------------
(* The invariant.                                                          *)

\* The invariant holds initially,
LEMMA InitInv ==
  ASSUME Init
  PROVE  Inv
<1>1. /\ kind \in Kinds /\ limit \in Limits /\ drawn = 0 /\ made = 0 /\ calls = 0 /\ promised = 0
      /\ sess = [s \in Sessions |-> Absent] /\ store = {}
      /\ req = [r \in Requests |-> Idle] /\ files = {}
      /\ adopting = [a \in Adopters |-> NoThread] /\ cleaned = {}
  BY DEF Init
<1>2. /\ Idle \in RequestType /\ Absent \in SessionType /\ NoThread \in SomeThread
  BY BlankTypes, ProviderAssumption DEF SomeThread
<1>3. /\ limit.sessions \in Nat /\ limit.requests \in Nat /\ limit.lines \in Nat
      /\ MaxThreads \in Nat /\ kind \in {"codex", "claude", "gemini"}
      /\ MaxMessages \in Nat /\ PipeSize \in Nat
  BY <1>1, ProviderAssumption
<1>4. TypeInv
  BY <1>1, <1>2, <1>3 DEF TypeInv
<1>5. \A s \in Sessions : sess[s] = Absent
  BY <1>1
<1>6. \A r \in Requests : req[r] = Idle
  BY <1>1
<1>7. /\ Absent.hist = <<>> /\ ~Absent.live /\ ~Absent.ready /\ Absent.answered = NoThread
      /\ ~Absent.busy
  BY DEF Absent
<1>8. /\ Idle.pc = "idle" /\ Idle.pipe = <<>> /\ ~Idle.img
  BY DEF Idle
<1>9. DOMAIN <<>> = {} /\ Len(<<>>) = 0
  OBVIOUS
<1>10. ~HasAssistantReply(<<>>)
  BY <1>9 DEF HasAssistantReply
<1>11. SessionInv
  BY <1>3, <1>5, <1>7, <1>9, <1>10 DEF SessionInv
<1>12. HistoryInv
  BY <1>5, <1>7, <1>9 DEF HistoryInv
<1>13. StoreInv
  BY <1>1 DEF StoreInv
<1>14. \A r \in Requests : ~Active(r) /\ ~Talks(r)
  BY <1>6, <1>8 DEF Active, Talks
<1>15. BusyInv
  BY <1>5, <1>7, <1>14 DEF BusyInv
<1>16. RequestInv
  <2>1. \A r \in Requests : r > calls
    BY <1>1 DEF Requests
  <2> QED BY <1>3, <1>6, <1>8, <1>9, <1>14, <2>1 DEF RequestInv
<1>17. RunInv /\ FirstRunInv /\ ReadingInv /\ LedgerInv
  BY <1>14 DEF RunInv, FirstRunInv, First, ReadingInv, LedgerInv
<1>18. ImageInv
  BY <1>6, <1>8 DEF ImageInv
<1> QED BY <1>4, <1>11, <1>12, <1>13, <1>15, <1>16, <1>17, <1>18 DEF Inv

\* in steps that change nothing,
LEMMA StutterInv ==
  ASSUME Inv, UNCHANGED vars
  PROVE  Inv'
<1>1. UNCHANGED <<kind, limit, drawn, sess, made, store, calls, req, promised, files, adopting, cleaned>>
  BY DEF vars
<1>2. TypeInv'
  BY <1>1 DEF Inv, TypeInv
<1>3. FirstLine' = FirstLine /\ \A r \in Requests : (Talks(r)' <=> Talks(r)) /\ (Active(r)' <=> Active(r))
  BY <1>1 DEF FirstLine, Talks, Active
<1>4. SessionInv' /\ HistoryInv' /\ StoreInv' /\ BusyInv'
  BY <1>1, <1>3 DEF Inv, SessionInv, HistoryInv, StoreInv, BusyInv, Active
<1>5. RequestInv' /\ RunInv' /\ FirstRunInv'
  BY <1>1, <1>3 DEF Inv, RequestInv, RunInv, FirstRunInv, First, Talks, Active
<1>6. ReadingInv' /\ ImageInv'
  BY <1>1, <1>3 DEF Inv, ReadingInv, ImageInv, Running
<1>7. LedgerInv'
  <2>1. \A p, pipe, q : Leads(p, pipe, q)' <=> Leads(p, pipe, q)
    BY <1>1, LeadsSame
  <2> QED BY <1>1, <1>3, <2>1 DEF Inv, LedgerInv
<1> QED BY <1>2, <1>4, <1>5, <1>6, <1>7 DEF Inv

\* in every step,
LEMMA StepInv ==
  ASSUME Inv, [Next]_vars
  PROVE  Inv'
<1>1. CASE Next
  <2>1. TypeInv'
    BY <1>1, TypeStep DEF Inv
  <2> QED BY <1>1, <2>1, SessionInvStep, HistoryInvStep, StoreInvStep, BusyInvStep, RequestInvStep,
             RunInvStep, FirstRunInvStep, ReadingInvStep, ImageInvStep, LedgerInvStep DEF Inv
<1> QED BY <1>1, StutterInv

\* and always.
LEMMA InvIsInvariant == Spec => []Inv
BY InitInv, StepInv, PTL DEF Spec

-----------------------------------------------------------------------------
(* The theorems.                                                           *)

\* The types of the variables; besides, only sessions that exist are live, a busy
\* session has a request under way, histories and pipes stay within their bounds.
THEOREM ThreadsTypes == Spec => []TypeOK
<1>1. Inv => TypeOK
  <2> SUFFICES ASSUME Inv PROVE TypeOK
    OBVIOUS
  <2>1. TypeInv /\ SessionInv /\ BusyInv /\ RequestInv
    BY DEF Inv
  <2>2. /\ kind \in Kinds /\ limit \in Limits
        /\ drawn \in 0 .. MaxSessions /\ made \in 0 .. MaxThreads /\ calls \in 0 .. MaxRequests
        /\ promised \in 0 .. limit.lines /\ store \subseteq Threads /\ files \subseteq Requests
        /\ adopting \in [Adopters -> Threads \cup {NoThread}] /\ cleaned \subseteq Sessions
        /\ sess \in [Sessions -> SessionType] /\ req \in [Requests -> RequestType]
    BY <2>1, LimitsFacts DEF TypeInv, SomeThread
  <2>3. ASSUME NEW s \in Sessions
        PROVE  /\ sess[s].live => s <= drawn /\ sess[s].thread \in Threads
               /\ sess[s].busy => \E r \in Requests : req[r].on = s /\ req[r].pc \in {"running", "returned"}
               /\ Len(sess[s].hist) <= MaxMessages
    <3>1. sess[s].thread \in SomeThread
      BY <2>2 DEF SessionType
    <3>2. sess[s].live => s <= drawn /\ sess[s].thread \in Threads
      BY <2>1, <3>1 DEF SessionInv, SomeThread
    <3>3. sess[s].busy => \E r \in Requests : req[r].on = s /\ req[r].pc \in {"running", "returned"}
      BY <2>1 DEF BusyInv, Active
    <3> QED BY <2>1, <3>2, <3>3 DEF SessionInv
  <2>4. ASSUME NEW r \in Requests
        PROVE  /\ req[r].pc \in {"idle", "running", "returned", "completed", "answered", "refused"}
               /\ req[r].pc = "idle" <=> r > calls
               /\ Len(req[r].pipe) <= PipeSize
               /\ req[r].proc \in {"none", "running", "exited", "failed"}
               /\ req[r].reader \in {"none", "reading", "draining", "stopped"}
    <3>1. req[r].pc \in PcType /\ req[r].proc \in ProcType /\ req[r].reader \in ReaderType
      BY <2>2 DEF RequestType
    <3> QED BY <2>1, <3>1 DEF RequestInv, PcType, ProcType, ReaderType
  <2> QED BY <2>2, <2>3, <2>4 DEF TypeOK
<1> QED BY <1>1, InvIsInvariant, PTL

\* Two sessions share a thread only when one was adopted while the first run of the
\* other was in it, whatever creations, adoptions, runs and deletions there were.
THEOREM SharedThreads == Spec => []SharedThreadsAreAdoptedEarly
<1>1. Init => SharedThreadsAreAdoptedEarly
  <2> SUFFICES ASSUME Init PROVE SharedThreadsAreAdoptedEarly
    OBVIOUS
  <2>1. \A s \in Sessions : ~sess[s].live
    BY DEF Init, Absent
  <2> QED BY <2>1 DEF SharedThreadsAreAdoptedEarly, Live
<1>2. Inv /\ SharedThreadsAreAdoptedEarly /\ [Next]_vars => SharedThreadsAreAdoptedEarly'
  <2>1. UNCHANGED vars /\ SharedThreadsAreAdoptedEarly => SharedThreadsAreAdoptedEarly'
    BY DEF vars, SharedThreadsAreAdoptedEarly, Live
  <2> QED BY <2>1, SharedThreadsStep
<1> QED BY <1>1, <1>2, InvIsInvariant, PTL DEF Spec

\* A session that was answered is resumed in the thread of that answer, or it is
\* Claude's and its history is cut; and no run resumes an unknown thread.
THEOREM ThreadsContinue == Spec => []ThreadsAreContinued
<1>1. Inv => ThreadsAreContinued
  <2> SUFFICES ASSUME Inv PROVE ThreadsAreContinued
    OBVIOUS
  <2>1. SessionInv /\ RunInv /\ kind \in {"codex", "claude", "gemini"}
    BY LimitsFacts DEF Inv
  <2>2. ASSUME NEW s \in Live, sess[s].answered # NoThread
        PROVE  /\ sess[s].thread = sess[s].answered
               /\ Mode(sess[s]) = "resume" \/ (kind = "claude" /\ sess[s].cut)
    <3> DEFINE x == sess[s]
    <3>1. /\ x.thread = x.answered /\ x.thread # NoThread
          /\ IF kind = "claude" THEN x.cut \/ HasAssistantReply(x.hist) ELSE x.ready
      BY <2>1, <2>2 DEF SessionInv, Live
    <3> HIDE DEF x
    <3>2. Mode(x) = "resume" \/ (kind = "claude" /\ x.cut)
      <4>1. CASE kind = "codex"
        BY <3>1, <4>1 DEF Mode, CodexMode
      <4>2. CASE kind = "claude"
        BY <3>1, <4>2 DEF Mode, ClaudeMode
      <4>3. CASE kind = "gemini"
        BY <3>1, <4>3 DEF Mode, GeminiMode
      <4> QED BY <2>1, <4>1, <4>2, <4>3
    <3> QED BY <3>1, <3>2 DEF x
  <2>3. ASSUME NEW r \in Requests, Uses(r), req[r].mode = "resume"
        PROVE  req[r].asked \in store
    <3>1. Talks(r)
      BY <2>3 DEF Uses, Running, Talks, Active
    <3> QED BY <2>1, <2>3, <3>1 DEF RunInv
  <2> QED BY <2>2, <2>3 DEF ThreadsAreContinued
<1> QED BY <1>1, InvIsInvariant, PTL

\* What matches when the pipe is empty.
LEMMA PipeIsRead ==
  ASSUME Inv, NEW r \in Requests, Talks(r), ~req[r].lost, req[r].pipe = <<>>
  PROVE  Matches(req[r].got, req[r])
<1>1. req[r].got \in ParserType
  BY DEF Inv, TypeInv, RequestType
<1>2. NoHuge(<<>>)
  BY DEF NoHuge
<1>3. Leads(req[r].got, <<>>, req[r])
  BY <1>2 DEF Inv, LedgerInv
<1> QED BY <1>1, <1>3, LeadsNothing

\* Whenever the reader of a run has caught up, its observers have been told of every
\* text and of the start and the end of every item, in order.
THEOREM ObserversAreTold == Spec => []ObserversSeeAll
<1>1. Inv => ObserversSeeAll
  <2> SUFFICES ASSUME Inv, NEW r \in Requests, Uses(r), req[r].pipe = <<>>,
                      req[r].reader = "reading"
               PROVE  LET q == req[r]
                          log == q.got.log
                      IN
                      /\ Emitted(q.got, "delta") = [n \in 1 .. q.said |-> Event("delta", n)]
                      /\ Len(Starts(q)) = q.begun /\ Len(Finishes(q)) = q.ended
                      /\ \A i, j \in DOMAIN Starts(q) : Starts(q)[i] = Starts(q)[j] => i = j
                      /\ \A i \in DOMAIN log : log[i].e = "finish" =>
                           \E j \in 1 .. i - 1 : log[j] = Event("start", log[i].n)
    BY DEF ObserversSeeAll
  <2> DEFINE q == req[r]
  <2>1. Talks(r) /\ Running(r)
    BY DEF Uses, Running, Talks, Active
  <2>2. ~q.lost
    BY <2>1 DEF Inv, ReadingInv
  <2>3. Matches(q.got, q)
    BY <2>1, <2>2, PipeIsRead
  <2> HIDE DEF q
  <2>4. LogOk(q.got.log, q.said, q.begun, q.ended, NextStart(q))
    BY <2>3 DEF Matches
  <2>5. \A e : Emitted(q.got, e) = Only(q.got.log, EventsOf(e))
    BY DEF Emitted, EventsOf
  <2>6. /\ Emitted(q.got, "delta") = [n \in 1 .. q.said |-> Event("delta", n)]
        /\ Len(Starts(q)) = q.begun /\ Len(Finishes(q)) = q.ended
        /\ \A i, j \in DOMAIN Starts(q) : Starts(q)[i] = Starts(q)[j] => i = j
    BY <2>4, <2>5 DEF LogOk, Starts, Finishes, Deltas
  <2>7. \A i \in DOMAIN q.got.log : q.got.log[i].e = "finish" =>
          \E j \in 1 .. i - 1 : q.got.log[j] = Event("start", q.got.log[i].n)
    BY <2>4 DEF LogOk, EndsAfterStarts
  <2> QED BY <2>6, <2>7 DEF q
<1> QED BY <1>1, InvIsInvariant, PTL

\* A run that succeeded on a pipe read to its end returns all that was said (Claude:
\* the last message), or its raw output when nothing was.
THEOREM RepliesAreComplete == Spec => []ReplyIsWhatWasSaid
<1>1. Inv => ReplyIsWhatWasSaid
  <2> SUFFICES ASSUME Inv, NEW r \in Requests, req[r].pc = "returned", req[r].op = "text",
                      Result(req[r]).ok, ~req[r].lost
               PROVE  Reply(kind, req[r].got) =
                        IF req[r].said = 0 THEN RawReply
                        ELSE IF kind = "claude" THEN <<req[r].said>>
                        ELSE [n \in 1 .. req[r].said |-> n]
    BY DEF ReplyIsWhatWasSaid
  <2> DEFINE q == req[r]
             p == q.got
  <2>1. Talks(r) /\ kind \in {"codex", "claude", "gemini"} /\ q \in RequestType
    BY LimitsFacts DEF Inv, TypeInv, Talks, Active
  <2>2. q.pipe = <<>> /\ (q.due => q.more) /\ (q.proc = "exited" => ~q.more)
    BY <2>1 DEF Inv, ReadingInv
  <2>3. Matches(p, q)
    BY <2>1, <2>2, PipeIsRead
  <2>4. q.proc = "exited" /\ Reply(kind, p) # <<>>
    BY <2>1 DEF Result, RunCodex, RunClaude, RunGemini, Returned
  <2>5. ~q.due /\ q.said \in Nat
    <3>1. q.said \in Nat
      BY <2>1 DEF RequestType
    <3> QED BY <2>2, <2>4, <3>1
  <2> HIDE DEF q, p
  <2>6. ResponseMatches(p, q)
    BY <2>3 DEF Matches
  <2>7. CASE q.said = 0
    <3>1. UpTo(0) = <<>>
      BY DEF UpTo
    <3>2. Response(kind, p) = <<>>
      BY <2>1, <2>6, <2>7, <3>1 DEF ResponseMatches, Response, ClaudeResponse
    <3>3. Reply(kind, p) = RawReply
      BY <2>4, <3>2 DEF Reply
    <3> QED BY <2>7, <3>3 DEF p, q
  <2>8. CASE q.said # 0
    <3>1. UpTo(q.said) # <<>> /\ <<q.said>> # <<>>
      <4>1. 1 \in DOMAIN UpTo(q.said) /\ 1 \in DOMAIN <<q.said>>
        BY <2>5, <2>8 DEF UpTo
      <4> QED BY <4>1
    <3>2. Response(kind, p) = IF kind = "claude" THEN <<q.said>> ELSE UpTo(q.said)
      BY <2>1, <2>5, <2>6, <2>8, <3>1 DEF ResponseMatches, Response, ClaudeResponse
    <3>3. Reply(kind, p) = IF kind = "claude" THEN <<q.said>> ELSE UpTo(q.said)
      BY <3>1, <3>2 DEF Reply
    <3> QED BY <2>8, <3>3 DEF p, q, UpTo
  <2> QED BY <2>7, <2>8
<1> QED BY <1>1, InvIsInvariant, PTL

\* The image of a message stays as long as its session and its run, but for delete
\* handlers; the image of a refused message is gone.
THEOREM ImagesAreKept == Spec => []ImagesStay
<1>1. Inv => ImagesStay
  BY DEF Inv, ImageInv, ImagesStay, Running
<1> QED BY <1>1, InvIsInvariant, PTL
===============================================================================
