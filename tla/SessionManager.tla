--------------------------- MODULE SessionManager ---------------------------
(***************************************************************************)
(* The supervisor of the long-running `claude rc` processes                *)
(* (internal/session/manager.go over internal/process/runner.go).          *)
(*                                                                         *)
(* A session is an entry of the map m.sessions; an incarnation is one call *)
(* of startProcess and all that belongs to it: its context, the operating  *)
(* system process it may spawn, the monitor goroutine that waits for the   *)
(* process and the max-duration timer.  Every region of code between       *)
(* m.mu.Lock() and m.mu.Unlock() is one action; code that runs without the *)
(* lock is split wherever another goroutine can see the difference.        *)
(*                                                                         *)
(* The operating system is part of the model: processes run in their own   *)
(* process group, so they outlive a crash of rcod, and the state file is   *)
(* all that the next rcod knows of them (Restore).  A save may fail, and   *)
(* leave the file behind memory or torn.                                   *)
(*                                                                         *)
(* Abstracted: URLs, log lines, notifications and times.  A process id is  *)
(* the number of the incarnation that owns it and is never reused.         *)
(***************************************************************************)
EXTENDS Naturals, FiniteSets

CONSTANTS
  Sessions,     \* the session ids that generateUniqueSessionID may draw
  Folders,      \* the git repositories below base_folder
  NoFolder,     \* the folder of an id that is not drawn yet
  Clients,      \* concurrent callers of Kill and Restart: HTTP handlers, bot
  MaxRestarts,  \* m.maxRestarts, 0 when auto-restart is disabled
  HasDuration,  \* does .rcod.yaml set max_duration?
  MaxProcs,     \* bound: calls of startProcess
  MaxManual,    \* bound: calls of Restart
  MaxBoots,     \* bound: starts of rcod
  MaxFaults     \* bound: saves that fail

ASSUME ConstantsAssumption ==
  /\ NoFolder \notin Folders
  /\ MaxRestarts \in Nat
  /\ HasDuration \in BOOLEAN
  /\ MaxProcs \in Nat
  /\ MaxManual \in Nat
  /\ MaxBoots \in Nat
  /\ MaxFaults \in Nat

Incarnations == 1 .. MaxProcs
None   == 0                 \* a nil Cmd, cancel func or PID
Poller == MaxProcs + 1      \* the context of monitorOrphan, as a value of cancel

VARIABLES
  up,         \* is the rcod process running?
  boots,      \* starts of rcod so far
  folder,     \* sess.Folder: drawn with the id, never changed
  known,      \* the keys of m.sessions
  status,     \* sess.Status
  restarts,   \* sess.Restarts
  cancel,     \* sess.cancel: the incarnation whose context it cancels
  cmd,        \* sess.Cmd
  pid,        \* sess.PID
  polled,     \* the sessions whose monitorOrphan goroutine runs
  cut,        \* the sessions whose poller context is cancelled
  file,       \* the state file, one entry per session
  disk,       \* does it hold the last save?
  faults,     \* saves that have failed so far
  owner,      \* incarnation -> its session
  origin,     \* incarnation -> who called startProcess
  pc,         \* incarnation -> where its startProcess, then its monitor, is
  os,         \* incarnation -> its operating system process
  cancelled,  \* the incarnations whose context is cancelled, while one looks
  waits,      \* incarnation -> the Cmd its monitor waits on
  timer,      \* incarnation -> its max-duration timer
  req,        \* client -> the unlocked rest of its Kill or Restart
  stopping,   \* main's shutdown goroutine: "no", "cancel" or "wait"
  toCancel,   \* the sessions StopAll has still to cancel
  toWait,     \* the sessions StopAll has still to wait for
  stopWaits   \* the Cmd StopAll waits on

mem   == <<known, status, restarts, cancel, cmd, pid>>
poll  == <<polled, cut>>
incs  == <<owner, origin, pc, os, cancelled, waits, timer>>
stops == <<stopping, toCancel, toWait, stopWaits>>
store == <<file, disk, faults>>
vars  == <<up, boots, folder, mem, poll, store, incs, req, stops>>

Statuses == {"running", "stopped", "crashed"}
Places   == {"unused", "called", "ctx", "spawned", "monitor", "wait",
             "exited", "delay", "done", "gone"}
Entries  == [status : Statuses \cup {"none"}, pid : Incarnations \cup {None},
             restarts : 0 .. MaxRestarts]
Requests == [op : {"idle", "cancel", "grace"}, on : Sessions \cup {None}]
Disks    == {"none", "saved", "behind", "torn"}
NoEntry  == [status |-> "none", pid |-> None, restarts |-> 0]
Idle     == [op |-> "idle", on |-> None]

TypeOK ==
  /\ up \in BOOLEAN
  /\ boots \in 0 .. MaxBoots
  /\ folder \in [Sessions -> Folders \cup {NoFolder}]
  /\ known \subseteq Sessions
  /\ status \in [Sessions -> Statuses \cup {"none"}]
  /\ restarts \in [Sessions -> 0 .. MaxRestarts]
  /\ cancel \in [Sessions -> Incarnations \cup {None, Poller}]
  /\ cmd \in [Sessions -> Incarnations \cup {None}]
  /\ pid \in [Sessions -> Incarnations \cup {None}]
  /\ polled \subseteq Sessions
  /\ cut \subseteq Sessions
  /\ file \in [Sessions -> Entries]
  /\ disk \in Disks
  /\ faults \in 0 .. MaxFaults
  /\ owner \in [Incarnations -> Sessions \cup {None}]
  /\ origin \in [Incarnations -> {"none", "start", "restart", "monitor"}]
  /\ pc \in [Incarnations -> Places]
  /\ os \in [Incarnations -> {"none", "alive", "zombie", "gone"}]
  /\ cancelled \subseteq Incarnations
  /\ waits \in [Incarnations -> Incarnations \cup {None}]
  /\ timer \in [Incarnations -> {"off", "armed", "cancel"}]
  /\ req \in [Clients -> Requests]
  /\ stopping \in {"no", "cancel", "wait"}
  /\ toCancel \subseteq Sessions
  /\ toWait \subseteq Sessions
  /\ stopWaits \in Incarnations \cup {None}

-----------------------------------------------------------------------------
(* Shared pieces of the handlers.                                          *)

\* What saveState writes: one entry for every session in the map.
Snapshot(kn, st, pd, rs) ==
  [s \in Sessions |-> IF s \in kn
                      THEN [status |-> st[s], pid |-> pd[s], restarts |-> rs[s]]
                      ELSE NoEntry]

\* A file that does not exist, or does not parse, holds nothing.
NoFile == [s \in Sessions |-> NoEntry]

\* saveState only prints an error and its callers go on.  A save that fails
\* leaves the file as it was, or tears it: os.WriteFile truncates first.  (A
\* crash in the middle of a save is the second, followed by Crash.)
Save(kn, st, pd, rs) ==
  \/ /\ file' = Snapshot(kn, st, pd, rs)
     /\ disk' = "saved"
     /\ UNCHANGED faults
  \/ /\ faults < MaxFaults
     /\ faults' = faults + 1
     /\ \/ /\ disk' = IF disk = "saved" THEN "behind" ELSE disk
           /\ UNCHANGED file
        \/ disk' = "torn" /\ file' = NoFile

\* Somebody will still look at the context of incarnation k.
Cancellable(k) == pc[k] \in {"called", "ctx"} \/ os[k] = "alive"

\* sess.cancel(), through whatever the field holds at this moment.
Cancel(s) ==
  /\ cancelled' = cancelled \cup {k \in Incarnations : cancel[s] = k /\ Cancellable(k)}
  /\ cut' = cut \cup {t \in polled : t = s /\ cancel[t] = Poller}

\* The next unused incarnation is k: numbers are drawn in order.
Fresh(k) ==
  /\ pc[k] = "unused"
  /\ \A j \in Incarnations : j < k => pc[j] # "unused"

\* A goroutine calls startProcess(sess); it has not done anything yet.
CallStartProcess(s, k, by) ==
  /\ Fresh(k)
  /\ owner' = [owner EXCEPT ![k] = s]
  /\ origin' = [origin EXCEPT ![k] = by]

\* IsClaudeProcess: ps finds the pid, a zombie included.
IsClaudeProcess(p) == p \in Incarnations /\ os[p] \in {"alive", "zombie"}

-----------------------------------------------------------------------------
(* Manager.Start, its locked part: reserve the slot.                       *)

\* No session of the folder runs.  (The mutant has lost the check.)
FolderUnchecked(f) == TRUE
FolderFree(f) == \A t \in known : ~(folder[t] = f /\ status[t] = "running")

Start(s, f, k) ==
  /\ up
  /\ FolderFree(f)
  /\ folder[s] = NoFolder
  /\ folder' = [folder EXCEPT ![s] = f]
  /\ known' = known \cup {s}
  /\ status' = [status EXCEPT ![s] = "running"]
  /\ Save(known', status', pid, restarts)
  /\ CallStartProcess(s, k, "start")
  /\ pc' = [pc EXCEPT ![k] = "called"]
  /\ UNCHANGED <<up, boots, restarts, cancel, cmd, pid, poll, os, cancelled,
                 waits, timer, req, stops>>

(* startProcess, which runs without the lock from here on.                 *)

\* A new context; its cancel function replaces the one in the session.
CreateContext(k) ==
  /\ up
  /\ pc[k] = "called"
  /\ cancel' = [cancel EXCEPT ![owner[k]] = k]
  /\ pc' = [pc EXCEPT ![k] = "ctx"]
  /\ UNCHANGED <<up, boots, folder, known, status, restarts, cmd, pid, poll,
                 store, owner, origin, os, cancelled, waits, timer, req, stops>>

\* runner.Start succeeds, which it never does under a cancelled context.
Spawn(k) ==
  /\ up
  /\ pc[k] = "ctx"
  /\ k \notin cancelled
  /\ os' = [os EXCEPT ![k] = "alive"]
  /\ pc' = [pc EXCEPT ![k] = "spawned"]
  /\ UNCHANGED <<up, boots, folder, mem, poll, store, owner, origin, cancelled,
                 waits, timer, req, stops>>

\* runner.Start fails and startProcess cancels its context.  Start then takes
\* the session out of the map; Restart and the monitor mark it crashed,
\* whatever its status has become.
SpawnFails(k) ==
  LET s == owner[k] IN
  /\ up
  /\ pc[k] = "ctx"
  /\ cancelled' = cancelled \ {k}
  /\ IF origin[k] = "start"
     THEN known' = known \ {s} /\ UNCHANGED status
     ELSE status' = [status EXCEPT ![s] = "crashed"] /\ UNCHANGED known
  /\ Save(known', status', pid, restarts)
  /\ pc' = [pc EXCEPT ![k] = "done"]
  /\ UNCHANGED <<up, boots, folder, restarts, cancel, cmd, pid, poll, owner,
                 origin, os, waits, timer, req, stops>>

\* sess.Cmd and sess.PID are set, the timer is armed, the monitor is spawned.
\* Nothing is saved.
Record(k) ==
  LET s == owner[k] IN
  /\ up
  /\ pc[k] = "spawned"
  /\ cmd' = [cmd EXCEPT ![s] = k]
  /\ pid' = [pid EXCEPT ![s] = k]
  /\ timer' = [timer EXCEPT ![k] = IF HasDuration THEN "armed" ELSE "off"]
  /\ pc' = [pc EXCEPT ![k] = "monitor"]
  /\ UNCHANGED <<up, boots, folder, known, status, restarts, cancel, poll, store,
                 owner, origin, os, cancelled, waits, req, stops>>

-----------------------------------------------------------------------------
(* The process, and the goroutine that copies its output.                  *)

\* The process ends: by itself, or because a signal reached it.  Nobody reaps
\* it but the rcod that spawned it, or init once that rcod is gone.
ProcessExits(k) ==
  /\ os[k] = "alive"
  /\ os' = [os EXCEPT ![k] = IF pc[k] = "gone" THEN "gone" ELSE "zombie"]
  /\ cancelled' = cancelled \ {k}
  /\ UNCHANGED <<up, boots, folder, mem, poll, store, owner, origin, pc, waits,
                 timer, req, stops>>

\* The callback of the URL scanner: sets the session's URL and saves.  It is
\* what normally brings the PID to disk.
URLDetected(k) ==
  /\ up
  /\ os[k] \in {"alive", "zombie"}
  /\ pc[k] \in {"spawned", "monitor", "wait"}
  /\ Save(known, status, pid, restarts)
  /\ UNCHANGED <<up, boots, folder, mem, poll, incs, req, stops>>

-----------------------------------------------------------------------------
(* Manager.monitor.                                                        *)

\* After the exit: was the session killed on purpose?  (The mutant takes every
\* exit for intentional.)
EveryExitIntended(s) == TRUE
Intended(s) == status[s] = "stopped"

\* May a failed session be restarted once more?  (The mutant is off by one.)
RestartOnceTooOften(s) == restarts[s] <= MaxRestarts
RestartAllowed(s) == restarts[s] < MaxRestarts

\* Mutant of MonitorStarts: Process.Release instead of Cmd.Wait.
MonitorDoesNotWait(k) ==
  /\ up
  /\ pc[k] = "monitor"
  /\ pc' = [pc EXCEPT ![k] = "exited"]
  /\ UNCHANGED <<up, boots, folder, mem, poll, store, owner, origin, os,
                 cancelled, waits, timer, req, stops>>

\* The goroutine gets to sess.Cmd.Wait(): it waits on the Cmd it finds in the
\* session.  Wait returns at once when an earlier call has reaped that Cmd.
MonitorStarts(k) ==
  LET w == cmd[owner[k]] IN
  /\ up
  /\ pc[k] = "monitor"
  /\ IF os[w] = "gone"
     THEN pc' = [pc EXCEPT ![k] = "exited"] /\ UNCHANGED waits
     ELSE /\ pc' = [pc EXCEPT ![k] = "wait"]
          /\ waits' = [waits EXCEPT ![k] = w]
  /\ UNCHANGED <<up, boots, folder, mem, poll, store, owner, origin, os,
                 cancelled, timer, req, stops>>

\* Of several calls of Wait on one Cmd only one returns (see os/exec: the
\* result of the context watcher is sent once); the others block for ever.
WaitReturns(k) ==
  LET w == waits[k] IN
  /\ up
  /\ pc[k] = "wait"
  /\ os[w] = "zombie"
  /\ os' = [os EXCEPT ![w] = "gone"]
  /\ pc' = [pc EXCEPT ![k] = "exited"]
  /\ waits' = [waits EXCEPT ![k] = None]
  /\ UNCHANGED <<up, boots, folder, mem, poll, store, owner, origin, cancelled,
                 timer, req, stops>>

\* Under the lock: a stopped session was killed on purpose.
MonitorFindsStopped(k) ==
  /\ up
  /\ pc[k] = "exited"
  /\ Intended(owner[k])
  /\ Save(known, status, pid, restarts)
  /\ pc' = [pc EXCEPT ![k] = "done"]
  /\ UNCHANGED <<up, boots, folder, mem, poll, owner, origin, os, cancelled,
                 waits, timer, req, stops>>

\* Under the lock: any other session has crashed.  A failed process is
\* restarted after a delay while restarts are left; the counter moves after
\* the save.
MonitorFindsCrash(k) ==
  LET s == owner[k] IN
  /\ up
  /\ pc[k] = "exited"
  /\ ~Intended(s)
  /\ status' = [status EXCEPT ![s] = "crashed"]
  /\ Save(known, status', pid, restarts)
  /\ \/ /\ RestartAllowed(s)
        /\ restarts' = [restarts EXCEPT ![s] = restarts[s] + 1]
        /\ pc' = [pc EXCEPT ![k] = "delay"]
     \/ /\ pc' = [pc EXCEPT ![k] = "done"]
        /\ UNCHANGED restarts
  /\ UNCHANGED <<up, boots, folder, known, cancel, cmd, pid, poll, owner, origin,
                 os, cancelled, waits, timer, req, stops>>

\* After the delay: somebody else has dealt with the session meanwhile.
MonitorGivesUp(k) ==
  /\ up
  /\ pc[k] = "delay"
  /\ status[owner[k]] # "crashed"
  /\ pc' = [pc EXCEPT ![k] = "done"]
  /\ UNCHANGED <<up, boots, folder, mem, poll, store, owner, origin, os,
                 cancelled, waits, timer, req, stops>>

\* After the delay: running again, not saved, and a new incarnation j.
MonitorRestarts(k, j) ==
  LET s == owner[k] IN
  /\ up
  /\ pc[k] = "delay"
  /\ status[s] = "crashed"
  /\ status' = [status EXCEPT ![s] = "running"]
  /\ CallStartProcess(s, j, "monitor")
  /\ pc' = [pc EXCEPT ![k] = "done", ![j] = "called"]
  /\ UNCHANGED <<up, boots, folder, known, restarts, cancel, cmd, pid, poll,
                 store, os, cancelled, waits, timer, req, stops>>

-----------------------------------------------------------------------------
(* Manager.Kill and Manager.Restart.                                       *)

\* Mutant of MarkStopped: not saved.
MarkStoppedUnsaved(s) ==
  /\ s \in known
  /\ status[s] = "running"
  /\ status' = [status EXCEPT ![s] = "stopped"]
  /\ UNCHANGED store

\* The locked part of Kill, for whoever calls it.
MarkStopped(s) ==
  /\ s \in known
  /\ status[s] = "running"
  /\ status' = [status EXCEPT ![s] = "stopped"]
  /\ Save(known, status', pid, restarts)

Kill(c, s) ==
  /\ up
  /\ req[c].op = "idle"
  /\ MarkStopped(s)
  /\ req' = [req EXCEPT ![c] = [op |-> "cancel", on |-> s]]
  /\ UNCHANGED <<up, boots, folder, known, restarts, cancel, cmd, pid, poll,
                 incs, stops>>

\* The rest of Kill, after the unlock.
KillCancels(c) ==
  /\ up
  /\ req[c].op = "cancel"
  /\ Cancel(req[c].on)
  /\ req' = [req EXCEPT ![c] = Idle]
  /\ UNCHANGED <<up, boots, folder, mem, polled, store, owner, origin, pc, os,
                 waits, timer, stops>>

\* The max-duration timer of incarnation k: finds its session running and
\* kills it, whichever incarnation runs now; else it has nothing to do.
TimerKills(k) ==
  /\ up
  /\ timer[k] = "armed"
  /\ MarkStopped(owner[k])
  /\ timer' = [timer EXCEPT ![k] = "cancel"]
  /\ UNCHANGED <<up, boots, folder, known, restarts, cancel, cmd, pid, poll,
                 owner, origin, pc, os, cancelled, waits, req, stops>>

TimerCancels(k) ==
  /\ up
  /\ timer[k] = "cancel"
  /\ Cancel(owner[k])
  /\ timer' = [timer EXCEPT ![k] = "off"]
  /\ UNCHANGED <<up, boots, folder, mem, polled, store, owner, origin, pc, os,
                 waits, req, stops>>

TimerFindsNothing(k) ==
  /\ up
  /\ timer[k] = "armed"
  /\ status[owner[k]] # "running" \/ owner[k] \notin known
  /\ timer' = [timer EXCEPT ![k] = "off"]
  /\ UNCHANGED <<up, boots, folder, mem, poll, store, owner, origin, pc, os,
                 cancelled, waits, req, stops>>

\* A bound of the model: Restart is called MaxManual times at most.
RestartsLeft ==
  Cardinality({k \in Incarnations : origin[k] = "restart"})
    + Cardinality({c \in Clients : req[c].op = "grace"}) < MaxManual

\* Mutant of RestartStops: the session stays "running" while it is cancelled.
RestartLeavesRunning(c, s) ==
  /\ up /\ RestartsLeft
  /\ req[c].op = "idle"
  /\ s \in known
  /\ status[s] = "running"
  /\ Cancel(s)
  /\ req' = [req EXCEPT ![c] = [op |-> "grace", on |-> s]]
  /\ UNCHANGED <<up, boots, folder, mem, polled, store, owner, origin, pc, os,
                 waits, timer, stops>>

\* Restart of a running session: stopped, not saved, cancelled under the lock;
\* then half a second for the process to exit.
RestartStops(c, s) ==
  /\ up /\ RestartsLeft
  /\ req[c].op = "idle"
  /\ s \in known
  /\ status[s] = "running"
  /\ status' = [status EXCEPT ![s] = "stopped"]
  /\ Cancel(s)
  /\ req' = [req EXCEPT ![c] = [op |-> "grace", on |-> s]]
  /\ UNCHANGED <<up, boots, folder, known, restarts, cancel, cmd, pid, polled,
                 store, owner, origin, pc, os, waits, timer, stops>>

\* The second half of Restart's locked code.
Revive(s, k) ==
  /\ status' = [status EXCEPT ![s] = "running"]
  /\ restarts' = [restarts EXCEPT ![s] = 0]
  /\ Save(known, status', pid, restarts')
  /\ CallStartProcess(s, k, "restart")
  /\ pc' = [pc EXCEPT ![k] = "called"]
  /\ UNCHANGED <<up, boots, folder, known, cancel, cmd, pid, poll, os,
                 cancelled, waits, timer, stops>>

\* After the grace period, whatever has become of process and session.
RestartRevives(c, k) ==
  /\ up
  /\ req[c].op = "grace"
  /\ Revive(req[c].on, k)
  /\ req' = [req EXCEPT ![c] = Idle]

\* Restart of a session that does not run starts it at once.
RestartIdleSession(s, k) ==
  /\ up /\ RestartsLeft
  /\ s \in known
  /\ status[s] # "running"
  /\ Revive(s, k)
  /\ UNCHANGED req

-----------------------------------------------------------------------------
(* Manager.StopAll, called once, by main's shutdown goroutine.             *)

StopAll ==
  LET running == {s \in known : status[s] = "running"} IN
  /\ up
  /\ stopping = "no"
  /\ status' = [s \in Sessions |-> IF s \in running THEN "stopped" ELSE status[s]]
  /\ Save(known, status', pid, restarts)
  /\ stopping' = "cancel"
  /\ toCancel' = running
  /\ toWait' = running
  /\ UNCHANGED <<up, boots, folder, known, restarts, cancel, cmd, pid, poll,
                 incs, req, stopWaits>>

StopAllCancels(s) ==
  /\ up
  /\ stopping = "cancel"
  /\ s \in toCancel
  /\ Cancel(s)
  /\ toCancel' = toCancel \ {s}
  /\ stopping' = IF toCancel' = {} THEN "wait" ELSE "cancel"
  /\ UNCHANGED <<up, boots, folder, mem, polled, store, owner, origin, pc, os,
                 waits, timer, req, toWait, stopWaits>>

\* s.Cmd.Wait() begins; a session without a Cmd, and a Cmd already reaped, are
\* passed over.
StopAllWaits(s) ==
  LET w == cmd[s] IN
  /\ up
  /\ stopping = "wait"
  /\ stopWaits = None
  /\ s \in toWait
  /\ toWait' = toWait \ {s}
  /\ stopWaits' = IF w # None /\ os[w] # "gone" THEN w ELSE None
  /\ UNCHANGED <<up, boots, folder, mem, poll, store, incs, req, stopping,
                 toCancel>>

StopAllWaitReturns ==
  /\ up
  /\ stopWaits # None
  /\ os[stopWaits] = "zombie"
  /\ os' = [os EXCEPT ![stopWaits] = "gone"]
  /\ stopWaits' = None
  /\ UNCHANGED <<up, boots, folder, mem, poll, store, owner, origin, pc,
                 cancelled, waits, timer, req, stopping, toCancel, toWait>>

-----------------------------------------------------------------------------
(* Manager.Restore and Manager.monitorOrphan.                              *)

\* The end of rcod, by a crash or at the end of main: its memory, goroutines
\* and timers are gone, init reaps the zombies, living processes live on.
Die ==
  /\ up' = FALSE
  /\ known' = {}
  /\ status' = [s \in Sessions |-> "none"]
  /\ restarts' = [s \in Sessions |-> 0]
  /\ cancel' = [s \in Sessions |-> None]
  /\ cmd' = [s \in Sessions |-> None]
  /\ pid' = [s \in Sessions |-> None]
  /\ polled' = {}
  /\ cut' = {}
  /\ pc' = [k \in Incarnations |-> IF pc[k] = "unused" THEN "unused" ELSE "gone"]
  /\ os' = [k \in Incarnations |-> IF os[k] = "zombie" THEN "gone" ELSE os[k]]
  /\ waits' = [k \in Incarnations |-> None]
  /\ timer' = [k \in Incarnations |-> "off"]
  /\ req' = [c \in Clients |-> Idle]
  /\ stopping' = "no"
  /\ toCancel' = {}
  /\ toWait' = {}
  /\ stopWaits' = None
  /\ cancelled' = {k \in cancelled : os[k] = "alive"}
  /\ UNCHANGED <<boots, folder, store, owner, origin>>

Crash == up /\ boots < MaxBoots /\ Die

\* StopAll has returned, and so does main.
Exit ==
  /\ up
  /\ stopping # "no" /\ toCancel = {} /\ toWait = {} /\ stopWaits = None
  /\ Die

\* Restore: entries that say "running" come back, as running and polled when
\* the process is found, else as crashed; the other entries are dropped.  With
\* no file, or one that does not parse, rcod starts without sessions and
\* writes nothing.
Boot ==
  LET back  == {s \in Sessions : file[s].status = "running"}
      found == {s \in back : IsClaudeProcess(file[s].pid)}
  IN
  /\ ~up /\ boots < MaxBoots
  /\ up' = TRUE
  /\ boots' = boots + 1
  /\ known' = back
  /\ status' = [s \in Sessions |-> IF s \in found THEN "running"
                                   ELSE IF s \in back THEN "crashed" ELSE "none"]
  /\ restarts' = [s \in Sessions |-> IF s \in back THEN file[s].restarts ELSE 0]
  /\ cancel' = [s \in Sessions |-> IF s \in found THEN Poller ELSE None]
  /\ pid' = [s \in Sessions |-> IF s \in found THEN file[s].pid ELSE None]
  /\ polled' = found
  /\ IF disk \in {"none", "torn"} THEN UNCHANGED store
     ELSE Save(known', status', pid', restarts')
  /\ UNCHANGED <<folder, cmd, cut, incs, req, stops>>

\* A tick that no longer finds the process.
PollFindsDeath(s) ==
  /\ up
  /\ s \in polled
  /\ ~IsClaudeProcess(pid[s])
  /\ polled' = polled \ {s}
  /\ cut' = cut \ {s}
  /\ IF status[s] = "running"
     THEN /\ status' = [status EXCEPT ![s] = "crashed"]
          /\ Save(known, status', pid, restarts)
     ELSE UNCHANGED <<status, store>>
  /\ UNCHANGED <<up, boots, folder, known, restarts, cancel, cmd, pid, incs,
                 req, stops>>

\* The poller's context is cancelled.
PollEnds(s) ==
  /\ up
  /\ s \in polled \cap cut
  /\ polled' = polled \ {s}
  /\ cut' = cut \ {s}
  /\ UNCHANGED <<up, boots, folder, mem, store, incs, req, stops>>

-----------------------------------------------------------------------------

Init ==
  /\ up = FALSE
  /\ boots = 0
  /\ folder = [s \in Sessions |-> NoFolder]
  /\ known = {}
  /\ status = [s \in Sessions |-> "none"]
  /\ restarts = [s \in Sessions |-> 0]
  /\ cancel = [s \in Sessions |-> None]
  /\ cmd = [s \in Sessions |-> None]
  /\ pid = [s \in Sessions |-> None]
  /\ polled = {}
  /\ cut = {}
  /\ file = NoFile
  /\ disk = "none"
  /\ faults = 0
  /\ owner = [k \in Incarnations |-> None]
  /\ origin = [k \in Incarnations |-> "none"]
  /\ pc = [k \in Incarnations |-> "unused"]
  /\ os = [k \in Incarnations |-> "none"]
  /\ cancelled = {}
  /\ waits = [k \in Incarnations |-> None]
  /\ timer = [k \in Incarnations |-> "off"]
  /\ req = [c \in Clients |-> Idle]
  /\ stopping = "no"
  /\ toCancel = {}
  /\ toWait = {}
  /\ stopWaits = None

\* What goes on by itself once begun: goroutines, timers, the shutdown.
StartStep(k)   == CreateContext(k) \/ Spawn(k) \/ SpawnFails(k) \/ Record(k)
MonitorStep(k) ==
  \/ MonitorStarts(k) \/ WaitReturns(k)
  \/ MonitorFindsStopped(k) \/ MonitorFindsCrash(k)
  \/ MonitorGivesUp(k) \/ \E j \in Incarnations : MonitorRestarts(k, j)
TimerStep(k)   == TimerKills(k) \/ TimerCancels(k) \/ TimerFindsNothing(k)
ClientStep(c)  == KillCancels(c) \/ \E k \in Incarnations : RestartRevives(c, k)
PollStep(s)    == PollFindsDeath(s) \/ PollEnds(s)
StopStep       == \/ \E s \in Sessions : StopAllCancels(s) \/ StopAllWaits(s)
                  \/ StopAllWaitReturns \/ Exit

\* What users and the outside world may do.
Request ==
  \/ \E s \in Sessions, f \in Folders, k \in Incarnations : Start(s, f, k)
  \/ \E c \in Clients, s \in Sessions : Kill(c, s) \/ RestartStops(c, s)
  \/ \E s \in Sessions, k \in Incarnations : RestartIdleSession(s, k)
  \/ StopAll
World ==
  \/ \E k \in Incarnations : ProcessExits(k) \/ URLDetected(k)
  \/ Crash
  \/ Boot

Next ==
  \/ \E k \in Incarnations : StartStep(k) \/ MonitorStep(k) \/ TimerStep(k)
  \/ \E c \in Clients : ClientStep(c)
  \/ \E s \in Sessions : PollStep(s)
  \/ StopStep
  \/ Request
  \/ World

Spec == Init /\ [][Next]_vars

\* The Go scheduler runs every goroutine that can run, timers and sleeps end,
\* and a process whose context is cancelled dies: of SIGINT, of SIGTERM after
\* three seconds, or of SIGKILL after WaitDelay.  Nothing makes a user act, a
\* process end by itself or rcod crash.
Fairness ==
  /\ \A k \in Incarnations :
       /\ WF_vars(StartStep(k))
       /\ WF_vars(MonitorStep(k))
       /\ WF_vars(up /\ k \in cancelled /\ ProcessExits(k))
       /\ WF_vars(TimerStep(k))
  /\ \A c \in Clients : WF_vars(ClientStep(c))
  /\ \A s \in Sessions : WF_vars(PollStep(s))
  /\ WF_vars(StopStep)

FairSpec == Spec /\ Fairness

-----------------------------------------------------------------------------
(* Safety.                                                                 *)

\* Incarnation k is between the call of startProcess and its Cmd.Wait.
Starting(k) == pc[k] \in {"called", "ctx", "spawned", "monitor"}

\* The monitor of k is going to notice an exit, or has just done so.
Watching(k) ==
  \/ pc[k] = "exited"
  \/ pc[k] = "wait" /\ os[waits[k]] # "gone"

\* Some goroutine of incarnation k runs, or its process does.
Active(k) ==
  \/ Starting(k) \/ Watching(k)
  \/ pc[k] \in {"wait", "delay"}
  \/ os[k] = "alive"

Restarted(s) == \E k \in Incarnations : owner[k] = s /\ origin[k] = "restart"
Revived(s)   == \E k \in Incarnations : owner[k] = s /\ origin[k] \in {"restart", "monitor"}

\* A session listed as running always has a goroutine that will correct this
\* when its process ends: one that starts it, a monitor whose Wait is going to
\* return, or the poller of a restored process.  (Outside a shutdown, in which
\* StopAll takes the result of Wait away from the monitor.)
RunningIsWatched ==
  up /\ stopping = "no" =>
    \A s \in known : status[s] = "running" =>
      \/ \E k \in Incarnations : owner[k] = s /\ (Starting(k) \/ Watching(k))
      \/ s \in polled \ cut

\* Until a user calls Restart on it, a session never has two incarnations at
\* work: auto-restart, kills, timers, crashes of rcod and restores cannot make
\* two processes of one session, in whatever order they come.
NoRivalsWithoutRestart ==
  \A i, j \in Incarnations :
    /\ owner[i] = owner[j]
    /\ Active(i) /\ Active(j)
    /\ ~Restarted(owner[i])
    => i = j

\* "session already running in": two sessions that were never revived, by
\* Restart or by an auto-restart, do not run in one folder.
FolderIsExclusive ==
  \A s, t \in known :
    /\ folder[s] = folder[t]
    /\ status[s] = "running" /\ status[t] = "running"
    /\ ~Revived(s) /\ ~Revived(t)
    => s = t

\* Unless the last save has failed, what the state file says of a session is
\* what the manager knows, except that an auto-restart and the grace period of
\* Restart are not saved.  So a session whose end was saved is never brought
\* back by Restore, and one successful save makes up for all that failed.
DiskKnowsStatus ==
  up /\ disk = "saved" => \A s \in Sessions :
    IF s \notin known THEN file[s] = NoEntry ELSE
      \/ file[s].status = status[s]
      \/ /\ status[s] = "running" /\ file[s].status = "crashed"
         /\ \E k \in Incarnations : /\ owner[k] = s /\ origin[k] = "monitor"
                                    /\ Active(k)
      \/ /\ status[s] = "stopped"
         /\ \E c \in Clients : req[c] = [op |-> "grace", on |-> s]

\* A session that no user restarts is restarted MaxRestarts times at most,
\* though the counter is not saved when it moves.
AutoRestartsAreBounded ==
  \A s \in Sessions :
    ~Restarted(s) =>
      Cardinality({k \in Incarnations : owner[k] = s /\ origin[k] = "monitor"})
        <= MaxRestarts

-----------------------------------------------------------------------------
(* Liveness.                                                               *)

\* A session whose process is gone does not stay "running": its monitor or its
\* poller notices, and marks it or starts it again.
Vacant(s) ==
  /\ up /\ stopping = "no"
  /\ s \in known /\ status[s] = "running"
  /\ \A k \in Incarnations :
       owner[k] = s => os[k] # "alive" /\ pc[k] \notin {"called", "ctx"}
DeadSessionIsNoticed == \A s \in Sessions : Vacant(s) ~> ~Vacant(s)

-----------------------------------------------------------------------------
(* What the documentation and comments claim and the code does not keep.   *)

\* Nothing is under way that would still start or cancel a process of s.
Settled(s) ==
  /\ \A c \in Clients : req[c].on # s
  /\ \A k \in Incarnations :
       owner[k] = s => /\ timer[k] # "cancel"
                       /\ pc[k] \notin {"called", "ctx", "spawned"}
  /\ s \notin toCancel

\* "/kill [id]: Stop a Claude runtime session": once the session is stopped
\* and all is settled, a living process of it has at least been signalled.
StoppedIsSignalled(k) ==
  /\ up /\ os[k] = "alive"
  /\ owner[k] \in known /\ status[owner[k]] = "stopped"
  /\ Settled(owner[k])
  => k \in cancelled

\* The claim, for a process that an earlier rcod has spawned and Restore found.
KillReachesRestoredProcess ==
  \A k \in Incarnations : pc[k] = "gone" /\ pid[owner[k]] = k => StoppedIsSignalled(k)

\* "Wait for processes to actually exit": the shutdown waits for the processes
\* and then ends.
ShutdownCompletes == stopping # "no" ~> ~up

=============================================================================
