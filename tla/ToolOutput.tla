------------------------------ MODULE ToolOutput ------------------------------
(***************************************************************************)
(* What the providers make of the output of their command line tools: the  *)
(* parseExecOutput of internal/codex, internal/claudechat and              *)
(* internal/gemini, one line of output at a time.                          *)
(*                                                                         *)
(* A line is a kind and a number: the thread it announces, the message     *)
(* whose text it carries (messages are numbered as the tool says them) or  *)
(* the item, block or call it is about, 0 for an item without an id.       *)
(* JSON, texts, tool inputs (deltas of tools) and lines that do not parse  *)
(* are left out: the last ones only count as raw output.                   *)
(***************************************************************************)
EXTENDS Selections

NoThread == 0

Line(k, id) == [k |-> k, id |-> id]

\* The events that a parser hands to its callbacks.
Event(e, n) == [e |-> e, n |-> n]

\* The variables of a parser: execResult (thread, response), the raw output,
\* and the bookkeeping of tools as pairs of a key and an index.
NewParser ==
  [thread |-> NoThread, response |-> <<>>, partial |-> <<>>, raw |-> FALSE,
   tools |-> {}, next |-> 0, anonymous |-> 0, queue |-> <<>>, log |-> <<>>]

Emit(p, e, n) == [p EXCEPT !.log = Append(@, Event(e, n))]

Key(id)     == <<"id", id>>
Unnamed(n)  == <<"anonymous", n>>
Known(p, k) == \E t \in p.tools : t[1] = k
Index(p, k) == (CHOOSE t \in p.tools : t[1] = k)[2]

-----------------------------------------------------------------------------
(* Codex.                                                                  *)

\* resolveToolKey: an item without an id is the oldest one of its like that has
\* started, or a new one.  (The mutant takes every such item for a new one.)
ToolKeyUnqueued(p, line) == IF line.id # 0 THEN Key(line.id) ELSE Unnamed(p.anonymous)
ToolKey(p, line) ==
  IF line.id # 0 THEN Key(line.id)
  ELSE IF line.k = "completed" /\ p.queue # <<>> THEN Head(p.queue)
  ELSE Unnamed(p.anonymous)

\* ... and what it does to the queue.
Queued(p, line) ==
  IF line.id # 0 THEN p
  ELSE IF line.k = "completed" /\ p.queue # <<>> THEN [p EXCEPT !.queue = Tail(@)]
  ELSE [p EXCEPT !.anonymous = @ + 1,
                 !.queue = IF line.k = "started" THEN Append(@, ToolKey(p, line)) ELSE @]

\* ensureTool
EnsureTool(p, key) ==
  IF Known(p, key) THEN p
  ELSE Emit([p EXCEPT !.tools = @ \cup {<<key, p.next>>}, !.next = @ + 1],
            "start", p.next)

CodexItem(p, line) ==
  LET key == ToolKey(p, line)
      q   == EnsureTool(Queued(p, line), key)
  IN IF line.k = "completed" THEN Emit(q, "finish", Index(q, key)) ELSE q

\* The response: all messages, joined.  (The mutant keeps the last one.)
LastOnly(p, m) == <<m>>
Joined(p, m) == Append(p.response, m)

CodexLine(p, line) ==
  CASE line.k = "thread"  -> [p EXCEPT !.thread = line.id]
    [] line.k = "message" -> Emit([p EXCEPT !.response = Joined(p, line.id)],
                                  "delta", line.id)
    [] OTHER              -> CodexItem(p, line)

-----------------------------------------------------------------------------
(* Claude.                                                                 *)

\* Only the last assistant message becomes the response; the deltas do when
\* there is none.
ClaudeLine(p, line) ==
  LET key == Key(line.id) IN
  CASE line.k = "text"  -> Emit([p EXCEPT !.partial = Append(@, line.id)],
                                "delta", line.id)
    [] line.k = "start" -> Emit([p EXCEPT !.tools = @ \cup {<<key, line.id>>}],
                                "start", line.id)
    [] line.k = "stop"  -> IF Known(p, key)
                           THEN Emit([p EXCEPT !.tools = @ \ {<<key, line.id>>}],
                                     "finish", line.id)
                           ELSE p
    [] line.k = "assistant" -> [p EXCEPT !.response = <<line.id>>]
    [] line.k = "result" -> IF p.response = <<>> THEN [p EXCEPT !.response = <<line.id>>]
                                                 ELSE p
    [] OTHER -> p

ClaudeResponse(p) == IF p.response = <<>> THEN p.partial ELSE p.response

-----------------------------------------------------------------------------
(* Gemini.                                                                 *)

\* A message that is not a delta counts only when there was no delta before.
GeminiLine(p, line) ==
  LET key   == Key(line.id)
      say   == Emit([p EXCEPT !.partial = Append(@, line.id)], "delta", line.id)
      other == {t \in p.tools : t[1] # key}
  IN
  CASE line.k = "init"    -> [p EXCEPT !.thread = line.id]
    [] line.k = "delta"   -> say
    [] line.k = "message" -> IF p.partial = <<>> THEN say ELSE p
    [] line.k = "use"     -> Emit([p EXCEPT !.tools = other \cup {<<key, p.next>>},
                                            !.next = @ + 1], "start", p.next)
    [] line.k = "output"  -> IF Known(p, key)
                             THEN Emit([p EXCEPT !.tools = other], "finish", Index(p, key))
                             ELSE p
    [] OTHER -> p

-----------------------------------------------------------------------------
(* The parser and the response of each provider.                           *)

Parse(kind, p, line) ==
  LET q == [p EXCEPT !.raw = TRUE] IN
  CASE kind = "codex"  -> CodexLine(q, line)
    [] kind = "claude" -> ClaudeLine(q, line)
    [] kind = "gemini" -> GeminiLine(q, line)

Response(kind, p) ==
  CASE kind = "codex"  -> p.response
    [] kind = "claude" -> ClaudeResponse(p)
    [] kind = "gemini" -> p.partial

\* What the run of a tool returns as its reply: the response, or the raw output
\* when there is none, here <<0>>; no reply at all is an error.
RawReply == <<0>>
Reply(kind, p) ==
  IF Response(kind, p) # <<>> THEN Response(kind, p)
  ELSE IF p.raw THEN RawReply ELSE <<>>

\* The events of one kind, in order.
Emitted(p, e) == Only(p.log, [e : {e}, n : Nat])
===============================================================================
