------------------------------- MODULE ChatCore -------------------------------
(***************************************************************************)
(* The chat core that the Claude, Codex and Gemini providers share         *)
(* (internal/chat/core.go): the session map, one request at a time per     *)
(* session, the state file and the busy events on the event bus.           *)
(*                                                                         *)
(* Every region under c.mu is one action.  A call of Send or RunCommand is *)
(* a request: BeginRequest, the events it emits after the unlock, the run  *)
(* of the provider's command line tool, Complete and its events.  Of the   *)
(* events only EventBusyChanged is modelled, as the last one delivered.    *)
(*                                                                         *)
(* saveLocked calls os.WriteFile, which truncates the file before it       *)
(* writes: a save succeeds, is refused (the file is unchanged) or tears    *)
(* the file, and a crash in the middle tears it as well.                   *)
(*                                                                         *)
(* Abstracted: message texts, times, folders, thread ids.  Ids are 32      *)
(* random bits and are taken never to be drawn twice.                      *)
(***************************************************************************)
EXTENDS Naturals, Sequences

CONSTANTS
  Sessions,     \* the session ids that may be drawn
  NoSession,    \* the empty active_session_id
  Requests,     \* calls of Send and RunCommand; bounds their number
  MaxMessages,  \* c.maxMessages
  MaxBoots      \* bound: starts of rcod

ASSUME ChatAssumption ==
  /\ NoSession \notin Sessions
  /\ MaxMessages \in Nat \ {0}
  /\ MaxBoots \in Nat

VARIABLES
  up,       \* is the rcod process running?
  boots,    \* starts of rcod so far
  drawn,    \* the ids drawn so far
  live,     \* the keys of c.sessions
  active,   \* c.activeSessionID
  busy,     \* sess.Busy
  msgs,     \* sess.Messages
  file,     \* the state file
  pc,       \* request -> where it is
  on,       \* request -> its session
  result,   \* request -> what Complete returned
  shown,    \* session -> the last EventBusyChanged delivered
  closing,  \* Core.Shutdown: "no", "waiting" or "returned"
  earlier   \* the requests in flight when Shutdown was called

sessions == <<drawn, live, active, busy, msgs>>
requests == <<pc, on, result>>
vars == <<up, boots, sessions, file, requests, shown, closing, earlier>>

Message(r, role) == [by |-> r, role |-> role]
Messages == [by : Requests, role : {"user", "assistant"}]
States   == [ids : SUBSET Sessions, active : Sessions \cup {NoSession},
             msgs : [Sessions -> Seq(Messages)], torn : BOOLEAN]
Blank(t) == [ids |-> {}, active |-> NoSession, msgs |-> [s \in Sessions |-> <<>>],
             torn |-> t]
NoState  == Blank(FALSE)
Torn     == Blank(TRUE)

InFlight(r) == pc[r] \in {"begun", "running"}

TypeOK ==
  /\ up \in BOOLEAN
  /\ boots \in 0 .. MaxBoots
  /\ drawn \subseteq Sessions
  /\ live \subseteq drawn
  /\ active \in Sessions \cup {NoSession}
  /\ busy \in [Sessions -> BOOLEAN]
  /\ msgs \in [Sessions -> Seq(Messages)]
  /\ \A s \in Sessions : Len(msgs[s]) <= MaxMessages
  /\ file \in States
  /\ pc \in [Requests -> {"idle", "begun", "running", "completed", "done"}]
  /\ on \in [Requests -> Sessions \cup {NoSession}]
  /\ result \in [Requests -> {"none", "replied", "failed", "unsaved", "gone"}]
  /\ shown \in [Sessions -> BOOLEAN]
  /\ closing \in {"no", "waiting", "returned"}
  /\ earlier \subseteq Requests

-----------------------------------------------------------------------------
(* Shared pieces.                                                          *)

\* AppendMessageWithLimit: the latest MaxMessages.  (The mutant cuts late.)
AppendCutLate(q, m) ==
  LET all == Append(q, m) IN
  IF Len(q) > MaxMessages THEN SubSeq(all, Len(all) - MaxMessages + 1, Len(all))
                          ELSE all
AppendMessageWithLimit(q, m) ==
  LET all == Append(q, m) IN
  IF Len(all) > MaxMessages THEN SubSeq(all, Len(all) - MaxMessages + 1, Len(all))
                            ELSE all

\* The state as saveLocked writes it.
Saved(ids, act, ms) ==
  [ids |-> ids, active |-> act,
   msgs |-> [s \in Sessions |-> IF s \in ids THEN ms[s] ELSE <<>>], torn |-> FALSE]

\* saveLocked, when it returns nil and when it returns an error.  (The mutant
\* takes its snapshot before the update.)
SaveBeforeUpdate == file' = Saved(live', active', msgs)
SaveSucceeds == file' = Saved(live', active', msgs')
SaveFails    == file' = file \/ file' = Torn

-----------------------------------------------------------------------------
(* Sessions.                                                               *)

CreateSession(s) ==
  /\ up
  /\ s \notin drawn
  /\ drawn' = drawn \cup {s}
  /\ UNCHANGED msgs
  /\ \/ live' = live \cup {s} /\ active' = s /\ SaveSucceeds
     \/ UNCHANGED <<live, active>> /\ SaveFails
  /\ UNCHANGED <<up, boots, busy, requests, shown, closing, earlier>>

\* Mutant of SetActive: no rollback.
SetActiveForGood(s) ==
  /\ up
  /\ s \in live
  /\ UNCHANGED <<live, msgs>>
  /\ active' = s
  /\ SaveSucceeds \/ SaveFails
  /\ UNCHANGED <<up, boots, drawn, busy, requests, shown, closing, earlier>>

SetActive(s) ==
  /\ up
  /\ s \in live
  /\ UNCHANGED <<live, msgs>>
  /\ \/ active' = s /\ SaveSucceeds
     \/ UNCHANGED active /\ SaveFails
  /\ UNCHANGED <<up, boots, drawn, busy, requests, shown, closing, earlier>>

\* The active session is followed by another one, if there is one: the latest
\* by UpdatedAt, here any.  (The mutant follows it by none.)
PromoteNone(s) == active' = IF active = s THEN NoSession ELSE active
Promote(s) ==
  IF active # s THEN active' = active
  ELSE IF live' = {} THEN active' = NoSession ELSE active' \in live'

DeleteSession(s) ==
  /\ up
  /\ s \in live
  /\ \/ /\ live' = live \ {s}
        /\ Promote(s)
        /\ busy' = [busy EXCEPT ![s] = FALSE]
        /\ msgs' = [msgs EXCEPT ![s] = <<>>]
        /\ SaveSucceeds
     \/ UNCHANGED <<live, active, busy, msgs>> /\ SaveFails
  /\ UNCHANGED <<up, boots, drawn, requests, shown, closing, earlier>>

-----------------------------------------------------------------------------
(* Requests.                                                               *)

\* The check of sess.Busy.  (The mutant has lost it.)
FreeUnchecked(s) == TRUE
Free(s) == ~busy[s]

\* BeginRequest, its locked part; nothing is saved.
BeginRequest(r, s) ==
  /\ up
  /\ pc[r] = "idle"
  /\ s \in live
  /\ Free(s)
  /\ busy' = [busy EXCEPT ![s] = TRUE]
  /\ msgs' = [msgs EXCEPT ![s] = AppendMessageWithLimit(msgs[s], Message(r, "user"))]
  /\ pc' = [pc EXCEPT ![r] = "begun"]
  /\ on' = [on EXCEPT ![r] = s]
  /\ UNCHANGED <<up, boots, drawn, live, active, file, result, shown, closing,
                 earlier>>

\* Emit(EventBusyChanged, true), after the unlock; then the tool runs.
EmitBusy(r) ==
  /\ up
  /\ pc[r] = "begun"
  /\ shown' = [shown EXCEPT ![on[r]] = TRUE]
  /\ pc' = [pc EXCEPT ![r] = "running"]
  /\ UNCHANGED <<up, boots, sessions, file, on, result, closing, earlier>>

\* Complete, its locked part, with the provider's update: a reply, or none when
\* the tool failed.  The session stays changed when the save fails.
Complete(r) ==
  LET s == on[r] IN
  /\ up
  /\ pc[r] = "running"
  /\ s \in live
  /\ busy' = [busy EXCEPT ![s] = FALSE]
  /\ UNCHANGED <<live, active>>
  /\ \E replied \in BOOLEAN :
       /\ msgs' = IF replied
                  THEN [msgs EXCEPT ![s] =
                          AppendMessageWithLimit(msgs[s], Message(r, "assistant"))]
                  ELSE msgs
       /\ \/ /\ SaveSucceeds
             /\ result' = [result EXCEPT ![r] = IF replied THEN "replied" ELSE "failed"]
          \/ /\ SaveFails
             /\ result' = [result EXCEPT ![r] = "unsaved"]
  /\ pc' = [pc EXCEPT ![r] = "completed"]
  /\ UNCHANGED <<up, boots, drawn, on, shown, closing, earlier>>

\* Mutant of CompleteDeleted: returns without the event.
CompleteDeletedSilently(r) ==
  /\ up
  /\ pc[r] = "running"
  /\ on[r] \notin live
  /\ result' = [result EXCEPT ![r] = "gone"]
  /\ pc' = [pc EXCEPT ![r] = "done"]
  /\ UNCHANGED <<up, boots, sessions, file, on, shown, closing, earlier>>

\* The session has been deleted meanwhile: only the event is left to emit.
CompleteDeleted(r) ==
  /\ up
  /\ pc[r] = "running"
  /\ on[r] \notin live
  /\ result' = [result EXCEPT ![r] = "gone"]
  /\ pc' = [pc EXCEPT ![r] = "completed"]
  /\ UNCHANGED <<up, boots, sessions, file, on, shown, closing, earlier>>

\* Emit(EventBusyChanged, false), after the unlock; then wg.Done.
EmitIdle(r) ==
  /\ up
  /\ pc[r] = "completed"
  /\ shown' = [shown EXCEPT ![on[r]] = FALSE]
  /\ pc' = [pc EXCEPT ![r] = "done"]
  /\ UNCHANGED <<up, boots, sessions, file, on, result, closing, earlier>>

-----------------------------------------------------------------------------
(* Shutdown, crashes and Restore.                                          *)

\* Request r is counted in c.wg.  (In the mutant BeginRequest calls wg.Done.)
CountedTillBegun(r) == pc[r] = "begun"
Counted(r) == pc[r] \in {"begun", "running", "completed"}

Shutdown ==
  /\ up
  /\ closing = "no"
  /\ closing' = "waiting"
  /\ earlier' = {r \in Requests : pc[r] \notin {"idle", "done"}}
  /\ UNCHANGED <<up, boots, sessions, file, requests, shown>>

\* c.wg.Wait() returns when the count is zero.
WaitReturns ==
  /\ up
  /\ closing = "waiting"
  /\ \A r \in Requests : ~Counted(r)
  /\ closing' = "returned"
  /\ UNCHANGED <<up, boots, sessions, file, requests, shown, earlier>>

\* The process ends, and with it every request; ids stay used.
Die ==
  /\ up' = FALSE
  /\ live' = {}
  /\ active' = NoSession
  /\ busy' = [s \in Sessions |-> FALSE]
  /\ msgs' = [s \in Sessions |-> <<>>]
  /\ pc' = [r \in Requests |-> IF pc[r] = "idle" THEN "idle" ELSE "done"]
  /\ shown' = [s \in Sessions |-> FALSE]
  /\ closing' = "no"
  /\ earlier' = {}
  /\ UNCHANGED <<boots, drawn, on, result>>

Crash == up /\ boots < MaxBoots /\ Die /\ UNCHANGED file

\* A crash in the middle of os.WriteFile.
CrashInSave ==
  /\ up /\ boots < MaxBoots
  /\ live # {} \/ drawn # Sessions
  /\ Die
  /\ file' = Torn

\* main returns, after Shutdown has; a request begun since then is lost.
Exit == up /\ closing = "returned" /\ Die /\ UNCHANGED file

\* main and Restore.  A state file that does not parse ends rcod (log.Fatalf).
Boot ==
  /\ ~up /\ boots < MaxBoots
  /\ ~file.torn
  /\ up' = TRUE
  /\ boots' = boots + 1
  /\ live' = file.ids
  /\ active' = IF file.active \in file.ids THEN file.active ELSE NoSession
  /\ msgs' = file.msgs
  /\ UNCHANGED <<drawn, busy, file, requests, shown, closing, earlier>>

-----------------------------------------------------------------------------

Init ==
  /\ up = FALSE
  /\ boots = 0
  /\ drawn = {}
  /\ live = {}
  /\ active = NoSession
  /\ busy = [s \in Sessions |-> FALSE]
  /\ msgs = [s \in Sessions |-> <<>>]
  /\ file = NoState
  /\ pc = [r \in Requests |-> "idle"]
  /\ on = [r \in Requests |-> NoSession]
  /\ result = [r \in Requests |-> "none"]
  /\ shown = [s \in Sessions |-> FALSE]
  /\ closing = "no"
  /\ earlier = {}

SessionStep(s) == CreateSession(s) \/ SetActive(s) \/ DeleteSession(s)
RequestStep(r) ==
  \/ \E s \in Sessions : BeginRequest(r, s)
  \/ EmitBusy(r) \/ Complete(r) \/ CompleteDeleted(r) \/ EmitIdle(r)
ProcessStep == Shutdown \/ WaitReturns \/ Crash \/ CrashInSave \/ Exit \/ Boot

Next ==
  \/ \E s \in Sessions : SessionStep(s)
  \/ \E r \in Requests : RequestStep(r)
  \/ ProcessStep

Spec == Init /\ [][Next]_vars

-----------------------------------------------------------------------------
(* Safety.                                                                 *)

\* A session is busy when one request works on it, and only then: no order of
\* deletions, crashes and restores leaves it busy for ever or lets two in.
BusyIsOwned ==
  \A s \in live :
    /\ busy[s] <=> \E r \in Requests : InFlight(r) /\ on[r] = s
    /\ \A q, r \in Requests :
         InFlight(q) /\ InFlight(r) /\ on[q] = s /\ on[r] = s => q = r

\* Events are emitted after the unlock, so the "idle" of one request may be
\* delivered after the "busy" of the next, and a client then sees a session at
\* work as idle.  But every view settles: idle when no request is left, and
\* busy while the first request of a session runs.
ViewSettles ==
  \A s \in Sessions :
    /\ (\A r \in Requests : on[r] = s => pc[r] = "done") => ~shown[s]
    /\ \A r \in Requests :
         pc[r] = "running" /\ on[r] = s /\ (\A q \in Requests : on[q] = s => q = r)
         => shown[s]

\* The rollbacks: while rcod runs, a state file that parses has exactly the
\* sessions and the active session of the map, whichever saves have failed.
DiskKnowsSessions ==
  up /\ ~file.torn => file.ids = live /\ file.active = active

\* There is an active session as long as there is one at all, so the fallback
\* of ResolveActive has nothing to repair.
ActiveIsLive ==
  IF live = {} THEN active = NoSession ELSE active \in live

\* A reply stands right after the message it answers, across restarts and
\* when the history is cut.
TurnsDoNotInterleave ==
  \A s \in Sessions : \A i \in 2 .. Len(msgs[s]) :
    msgs[s][i].role = "assistant" =>
      msgs[s][i - 1] = Message(msgs[s][i].by, "user")

\* A reply that a caller was told is saved stays on disk: until the session is
\* deleted, the history is cut or a failed save tears the file.
AcknowledgedIsDurable ==
  \A r \in Requests :
    result[r] = "replied" /\ on[r] \in file.ids =>
      LET history == file.msgs[on[r]] IN
      \/ \E i \in 1 .. Len(history) : history[i] = Message(r, "assistant")
      \/ Len(history) = MaxMessages

\* A crash costs a session only messages of a request that was in flight, or
\* whose caller was told that it was not saved.
LossIsReported ==
  up /\ ~file.torn =>
    \A s \in live : msgs[s] # file.msgs[s] =>
      \E r \in Requests : on[r] = s /\ (InFlight(r) \/ result[r] = "unsaved")

\* The histories, in memory and on disk, keep what was said: in order, what was
\* acknowledged, and losing nothing that nobody was told of.
HistoriesAreKept ==
  TurnsDoNotInterleave /\ AcknowledgedIsDurable /\ LossIsReported

\* "Shutdown waits for in-flight Send() calls to finish."
ShutdownWaits ==
  closing = "returned" => \A r \in earlier : pc[r] = "done" /\ result[r] # "none"

\* "Keeps runtime state in JSON files so sessions can be restored after
\* restart": the state that a run of rcod leaves behind can be restored.
RestartIsPossible == ~up => ~file.torn

-----------------------------------------------------------------------------
(* The core implements RequestLock.                                        *)

\* The requests that a session works on.
Workers(s) == {r \in Requests : s \in live /\ InFlight(r) /\ on[r] = s}

Lock == INSTANCE RequestLock
          WITH open    <- live,
               workers <- [s \in Sessions |-> Workers(s)],
               begun   <- {r \in Requests : pc[r] # "idle"}

\* One request at a time per session, each of them once, as callers see it.
ImplementsRequestLock == Lock!Spec

=============================================================================
