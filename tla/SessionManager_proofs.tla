------------------------ MODULE SessionManager_proofs -------------------------
(***************************************************************************)
(* Theorems about SessionManager, for every number of sessions, folders    *)
(* and clients and every bound.                                            *)
(*                                                                         *)
(* LinksInv says what a Cmd field, a waiting monitor and a pending request *)
(* refer to.  It is the part of the inductive invariants that most of the  *)
(* theorems share.                                                         *)
(***************************************************************************)
EXTENDS SessionManager, FiniteSetTheorems, TLAPS

\* An incarnation in use belongs to a session; an unused one is blank.
OwnersKnown ==
  \A k \in Incarnations :
    IF pc[k] = "unused"
    THEN owner[k] = None /\ origin[k] = "none" /\ os[k] = "none" /\ timer[k] = "off"
    ELSE owner[k] \in Sessions

\* A request under way names a session.
RequestsKnown == \A c \in Clients : req[c].op # "idle" => req[c].on \in Sessions

TypeInv == TypeOK /\ OwnersKnown /\ RequestsKnown

-----------------------------------------------------------------------------
(* What the fields refer to.                                               *)

\* sess.Cmd is an incarnation of the session that this rcod has spawned.
CmdsValid ==
  \A s \in Sessions :
    cmd[s] # None => owner[cmd[s]] = s /\ pc[cmd[s]] \notin {"unused", "gone"}

\* A monitor finds a Cmd, and waits on one of its own session.
WaitsValid ==
  \A k \in Incarnations :
    /\ pc[k] = "monitor" => cmd[owner[k]] # None
    /\ pc[k] = "wait" <=> waits[k] # None
    /\ waits[k] # None => /\ owner[waits[k]] = owner[k]
                          /\ pc[waits[k]] \notin {"unused", "gone"}

\* Nothing of a dead rcod is left, and only a shutdown waits beside monitors.
NothingLeft ==
  /\ stopping = "no" => stopWaits = None
  /\ ~up => /\ \A k \in Incarnations : pc[k] \in {"unused", "gone"} /\ timer[k] = "off"
            /\ \A c \in Clients : req[c] = Idle
            /\ cut = {}
            /\ stopping = "no"

LinksInv == TypeInv /\ CmdsValid /\ WaitsValid /\ NothingLeft

-----------------------------------------------------------------------------
(* The inductive forms of the safety properties.                           *)

\* Some goroutine of this rcod is going to notice the exit of s.
Backed(s) == \E k \in Incarnations : owner[k] = s /\ (Starting(k) \/ Watching(k))

\* A Kill or a timer is about to call the cancel function of s.
CancelPending(s) ==
  \/ \E c \in Clients : req[c].op = "cancel" /\ req[c].on = s
  \/ \E k \in Incarnations : owner[k] = s /\ timer[k] = "cancel"

\* A running session is backed by a goroutine, or by a poller that nobody is
\* about to cancel.
WatchInv ==
  up /\ stopping = "no" =>
    \A s \in known : status[s] = "running" =>
      Backed(s) \/ (s \in polled \ cut /\ ~CancelPending(s))

\* Of a session never restarted by a user: its monitor waits on its own
\* process, which is dead when the monitor goes on.
OwnProcess ==
  \A k \in Incarnations :
    /\ pc[k] \in {"unused", "called", "ctx"} => os[k] = "none"
    /\ ~Restarted(owner[k]) =>
         /\ pc[k] = "monitor" => cmd[owner[k]] = k
         /\ pc[k] = "wait" => waits[k] = k
         /\ pc[k] \in {"exited", "delay", "done"} => os[k] # "alive"

\* An id that is not drawn yet appears nowhere.
Drawn ==
  \A s \in Sessions : folder[s] = NoFolder =>
    /\ s \notin known
    /\ file[s].status = "none"
    /\ \A k \in Incarnations : pc[k] # "unused" => owner[k] # s
    /\ \A c \in Clients : req[c].op # "idle" => req[c].on # s

RivalsInv == LinksInv /\ Drawn /\ OwnProcess /\ NoRivalsWithoutRestart

\* The state file, too, has one running session per folder: Restore reads it.
FileIsExclusive ==
  \A s, t \in Sessions :
    /\ folder[s] = folder[t]
    /\ file[s].status = "running" /\ file[t].status = "running"
    /\ ~Revived(s) /\ ~Revived(t)
    => s = t

FoldersInv == TypeInv /\ Drawn /\ FolderIsExclusive /\ FileIsExclusive

-----------------------------------------------------------------------------
(* Types.                                                                  *)

LEMMA BlankValues ==
  /\ NoEntry \in Entries
  /\ Idle \in Requests
  /\ Idle.op = "idle"
  /\ Poller \notin Incarnations
  /\ None \notin Incarnations
  BY ConstantsAssumption
  DEF NoEntry, Entries, Idle, Requests, None, Poller, Incarnations, Statuses

LEMMA InitTypeInv == Init => TypeInv
<1> SUFFICES ASSUME Init PROVE TypeInv
  OBVIOUS
<1>1. TypeOK
  <2>1. file \in [Sessions -> Entries] /\ req \in [Clients -> Requests]
    BY BlankValues DEF Init, NoFile
  <2>2. /\ boots \in 0 .. MaxBoots /\ restarts \in [Sessions -> 0 .. MaxRestarts]
        /\ faults \in 0 .. MaxFaults
    BY ConstantsAssumption DEF Init
  <2>3. QED BY <2>1, <2>2 DEF Init, TypeOK, Statuses, Places, Disks
<1>2. OwnersKnown /\ RequestsKnown
  BY BlankValues DEF Init, OwnersKnown, RequestsKnown
<1>3. QED BY <1>1, <1>2 DEF TypeInv

\* saveState writes entries of the right type, or fails.
LEMMA SaveType ==
  ASSUME TypeOK, NEW kn, NEW st \in [Sessions -> Statuses \cup {"none"}],
         NEW pd \in [Sessions -> Incarnations \cup {None}],
         NEW rs \in [Sessions -> 0 .. MaxRestarts],
         Save(kn, st, pd, rs)
  PROVE  file' \in [Sessions -> Entries] /\ disk' \in Disks /\ faults' \in 0 .. MaxFaults
<1>1. Snapshot(kn, st, pd, rs) \in [Sessions -> Entries] /\ NoFile \in [Sessions -> Entries]
  BY BlankValues DEF Snapshot, NoFile, Entries
<1>2. file \in [Sessions -> Entries] /\ disk \in Disks /\ faults \in 0 .. MaxFaults
  BY DEF TypeOK
<1>3. QED BY <1>1, <1>2, ConstantsAssumption DEF Save, Disks

LEMMA NextTypeInv == TypeInv /\ [Next]_vars => TypeInv'
<1> SUFFICES ASSUME TypeInv, [Next]_vars PROVE TypeInv'
  OBVIOUS
<1> USE ConstantsAssumption
    DEF TypeInv, TypeOK, OwnersKnown, RequestsKnown, mem, poll, store, incs, stops,
        Statuses, Places
<1>1. ASSUME NEW s \in Sessions, NEW f \in Folders, NEW k \in Incarnations, Start(s, f, k)
      PROVE TypeInv'
  BY <1>1, SaveType, BlankValues DEF Start, CallStartProcess, Fresh
<1>2. ASSUME NEW k \in Incarnations, CreateContext(k) PROVE TypeInv'
  BY <1>2, SaveType, BlankValues DEF CreateContext
<1>3. ASSUME NEW k \in Incarnations, Spawn(k) PROVE TypeInv'
  BY <1>3, SaveType, BlankValues DEF Spawn
<1>4. ASSUME NEW k \in Incarnations, SpawnFails(k) PROVE TypeInv'
  <2>1. status' \in [Sessions -> Statuses \cup {"none"}] /\ known' \subseteq Sessions
    BY <1>4 DEF SpawnFails
  <2>2. file' \in [Sessions -> Entries] /\ disk' \in Disks /\ faults' \in 0 .. MaxFaults
    BY <1>4, <2>1, SaveType DEF SpawnFails
  <2>3. QED BY <1>4, <2>1, <2>2 DEF SpawnFails
<1>5. ASSUME NEW k \in Incarnations, Record(k) PROVE TypeInv'
  BY <1>5, SaveType, BlankValues DEF Record
<1>6. ASSUME NEW k \in Incarnations, ProcessExits(k) PROVE TypeInv'
  BY <1>6, SaveType, BlankValues DEF ProcessExits
<1>7. ASSUME NEW k \in Incarnations, URLDetected(k) PROVE TypeInv'
  BY <1>7, SaveType, BlankValues DEF URLDetected
<1>8. ASSUME NEW k \in Incarnations, MonitorStarts(k) PROVE TypeInv'
  BY <1>8, SaveType, BlankValues DEF MonitorStarts
<1>9. ASSUME NEW k \in Incarnations, WaitReturns(k) PROVE TypeInv'
  BY <1>9, SaveType, BlankValues DEF WaitReturns
<1>10. ASSUME NEW k \in Incarnations, MonitorFindsStopped(k) PROVE TypeInv'
  BY <1>10, SaveType, BlankValues DEF MonitorFindsStopped
<1>11. ASSUME NEW k \in Incarnations, MonitorFindsCrash(k) PROVE TypeInv'
  <2>1. status' \in [Sessions -> Statuses \cup {"none"}]
          /\ restarts' \in [Sessions -> 0 .. MaxRestarts]
        /\ pid' \in [Sessions -> Incarnations \cup {None}]
    BY <1>11 DEF MonitorFindsCrash, RestartAllowed
  <2>2. file' \in [Sessions -> Entries] /\ disk' \in Disks /\ faults' \in 0 .. MaxFaults
    BY <1>11, <2>1, SaveType DEF MonitorFindsCrash, RestartAllowed
  <2>3. pc' \in [Incarnations -> Places] /\ OwnersKnown'
    BY <1>11 DEF MonitorFindsCrash
  <2>4. QED BY <1>11, <2>1, <2>2, <2>3, BlankValues
        DEF MonitorFindsCrash, RestartAllowed
<1>12. ASSUME NEW k \in Incarnations, MonitorGivesUp(k) PROVE TypeInv'
  BY <1>12, SaveType, BlankValues DEF MonitorGivesUp
<1>13. ASSUME NEW k \in Incarnations, NEW j \in Incarnations, MonitorRestarts(k, j)
       PROVE TypeInv'
  BY <1>13, SaveType, BlankValues DEF MonitorRestarts, CallStartProcess, Fresh
<1>14. ASSUME NEW c \in Clients, NEW s \in Sessions, Kill(c, s) PROVE TypeInv'
  <2>1. req' \in [Clients -> Requests]
    BY <1>14 DEF Kill, MarkStopped, Requests
  <2>2. QED BY <1>14, <2>1, SaveType DEF Kill, MarkStopped
<1>15. ASSUME NEW c \in Clients, KillCancels(c) PROVE TypeInv'
  BY <1>15, SaveType, BlankValues DEF KillCancels, Cancel
<1>16. ASSUME NEW k \in Incarnations, TimerKills(k) PROVE TypeInv'
  BY <1>16, SaveType, BlankValues DEF TimerKills, MarkStopped
<1>17. ASSUME NEW k \in Incarnations, TimerCancels(k) PROVE TypeInv'
  BY <1>17, SaveType, BlankValues DEF TimerCancels, Cancel
<1>18. ASSUME NEW k \in Incarnations, TimerFindsNothing(k) PROVE TypeInv'
  BY <1>18, SaveType, BlankValues DEF TimerFindsNothing
<1>19. ASSUME NEW c \in Clients, NEW s \in Sessions, RestartStops(c, s) PROVE TypeInv'
  <2>1. req' \in [Clients -> Requests]
    BY <1>19 DEF RestartStops, Cancel, Requests
  <2>2. QED BY <1>19, <2>1, SaveType DEF RestartStops, Cancel
<1>20. ASSUME NEW c \in Clients, NEW k \in Incarnations, RestartRevives(c, k)
       PROVE TypeInv'
  <2>1. status' \in [Sessions -> Statuses \cup {"none"}]
          /\ restarts' \in [Sessions -> 0 .. MaxRestarts]
        /\ pid' \in [Sessions -> Incarnations \cup {None}]
    BY <1>20 DEF RestartRevives, Revive, CallStartProcess, Fresh
  <2>2. file' \in [Sessions -> Entries] /\ disk' \in Disks /\ faults' \in 0 .. MaxFaults
    BY <1>20, <2>1, SaveType DEF RestartRevives, Revive, CallStartProcess, Fresh
  <2>3. req[c].on \in Sessions /\ req' \in [Clients -> Requests] /\ RequestsKnown'
    BY <1>20, BlankValues DEF RestartRevives, Revive, CallStartProcess, Fresh, Requests
  <2>4. OwnersKnown'
    BY <1>20, <2>3, BlankValues DEF RestartRevives, Revive, CallStartProcess, Fresh
  <2>5. owner' \in [Incarnations -> Sessions \cup {None}]
    BY <1>20, <2>3 DEF RestartRevives, Revive, CallStartProcess, Fresh
  <2>6. QED BY <1>20, <2>1, <2>2, <2>3, <2>4, <2>5, BlankValues
        DEF RestartRevives, Revive, CallStartProcess, Fresh
<1>21. ASSUME NEW s \in Sessions, NEW k \in Incarnations, RestartIdleSession(s, k)
       PROVE TypeInv'
  <2>1. status' \in [Sessions -> Statuses \cup {"none"}]
          /\ restarts' \in [Sessions -> 0 .. MaxRestarts]
        /\ pid' \in [Sessions -> Incarnations \cup {None}]
    BY <1>21 DEF RestartIdleSession, Revive, CallStartProcess, Fresh
  <2>2. file' \in [Sessions -> Entries] /\ disk' \in Disks /\ faults' \in 0 .. MaxFaults
    BY <1>21, <2>1, SaveType DEF RestartIdleSession, Revive, CallStartProcess, Fresh
  <2>3. s \in Sessions /\ req' \in [Clients -> Requests] /\ RequestsKnown'
    BY <1>21, BlankValues
      DEF RestartIdleSession, Revive, CallStartProcess, Fresh, Requests
  <2>4. OwnersKnown'
    BY <1>21, <2>3, BlankValues DEF RestartIdleSession, Revive, CallStartProcess, Fresh
  <2>5. owner' \in [Incarnations -> Sessions \cup {None}]
    BY <1>21, <2>3 DEF RestartIdleSession, Revive, CallStartProcess, Fresh
  <2>6. QED BY <1>21, <2>1, <2>2, <2>3, <2>4, <2>5, BlankValues
        DEF RestartIdleSession, Revive, CallStartProcess, Fresh
<1>22. ASSUME StopAll PROVE TypeInv'
  BY <1>22, SaveType, BlankValues DEF StopAll
<1>23. ASSUME NEW s \in Sessions, StopAllCancels(s) PROVE TypeInv'
  BY <1>23, SaveType, BlankValues DEF StopAllCancels, Cancel
<1>24. ASSUME NEW s \in Sessions, StopAllWaits(s) PROVE TypeInv'
  BY <1>24, SaveType, BlankValues DEF StopAllWaits
<1>25. ASSUME StopAllWaitReturns PROVE TypeInv'
  BY <1>25, SaveType, BlankValues DEF StopAllWaitReturns
<1>26. ASSUME Crash PROVE TypeInv'
  <2>1. req' \in [Clients -> Requests] /\ RequestsKnown'
    BY <1>26, BlankValues DEF Crash, Die
  <2>2. restarts' \in [Sessions -> 0 .. MaxRestarts]
    BY <1>26 DEF Crash, Die
  <2>3. QED BY <1>26, <2>1, <2>2, BlankValues DEF Crash, Die
<1>27. ASSUME Exit PROVE TypeInv'
  <2>1. req' \in [Clients -> Requests] /\ RequestsKnown'
    BY <1>27, BlankValues DEF Exit, Die
  <2>2. restarts' \in [Sessions -> 0 .. MaxRestarts]
    BY <1>27 DEF Exit, Die
  <2>3. QED BY <1>27, <2>1, <2>2, BlankValues DEF Exit, Die
<1>28. ASSUME Boot PROVE TypeInv'
  <2>1. \A s \in Sessions : file[s].pid \in Incarnations \cup {None}
          /\ file[s].restarts \in 0 .. MaxRestarts
    BY DEF Entries
  <2>2. status' \in [Sessions -> Statuses \cup {"none"}]
          /\ restarts' \in [Sessions -> 0 .. MaxRestarts]
        /\ pid' \in [Sessions -> Incarnations \cup {None}]
    BY <1>28, <2>1 DEF Boot
  <2>3. file' \in [Sessions -> Entries] /\ disk' \in Disks /\ faults' \in 0 .. MaxFaults
    BY <1>28, <2>2, SaveType DEF Boot
  <2>4. boots' \in 0 .. MaxBoots
    BY <1>28 DEF Boot
  <2>5. QED BY <1>28, <2>1, <2>2, <2>3, <2>4 DEF Boot
<1>29. ASSUME NEW s \in Sessions, PollFindsDeath(s) PROVE TypeInv'
  <2>1. CASE status[s] = "running"
    <3>1. status' \in [Sessions -> Statuses \cup {"none"}]
      BY <1>29, <2>1 DEF PollFindsDeath
    <3>2. Save(known, status', pid, restarts)
      BY <1>29, <2>1 DEF PollFindsDeath
    <3>3. file' \in [Sessions -> Entries] /\ disk' \in Disks /\ faults' \in 0 .. MaxFaults
      BY <3>1, <3>2, SaveType
    <3>4. QED BY <1>29, <2>1, <3>1, <3>3 DEF PollFindsDeath
  <2>2. CASE status[s] # "running"
    BY <1>29, <2>2 DEF PollFindsDeath
  <2>3. QED BY <2>1, <2>2
<1>30. ASSUME NEW s \in Sessions, PollEnds(s) PROVE TypeInv'
  BY <1>30, SaveType, BlankValues DEF PollEnds
<1>31. CASE UNCHANGED vars
  BY <1>31 DEF vars, mem, poll, store, incs, stops
<1>32. QED
  BY <1>1, <1>2, <1>3, <1>4, <1>5, <1>6, <1>7, <1>8, <1>9, <1>10, <1>11,
     <1>12, <1>13, <1>14, <1>15, <1>16, <1>17, <1>18, <1>19, <1>20, <1>21,
     <1>22, <1>23, <1>24, <1>25, <1>26, <1>27, <1>28, <1>29, <1>30, <1>31 DEF
     Next, StartStep, MonitorStep, TimerStep, ClientStep, PollStep, StopStep,
     Request, World

\* TypeOK, for every instance: every field of the model keeps its type.
THEOREM TypeCorrect == Spec => []TypeOK
<1>1. Init => TypeInv
  BY InitTypeInv
<1>2. TypeInv /\ [Next]_vars => TypeInv'
  BY NextTypeInv
<1>3. TypeInv => TypeOK
  BY DEF TypeInv
<1>4. QED
  BY <1>1, <1>2, <1>3, PTL DEF Spec

-----------------------------------------------------------------------------
(* Links.                                                                  *)

LEMMA InitLinksInv == Init => LinksInv
  BY InitTypeInv, BlankValues DEF Init, LinksInv, CmdsValid, WaitsValid, NothingLeft

LEMMA NextLinksInv == LinksInv /\ [Next]_vars => LinksInv'
<1> SUFFICES ASSUME LinksInv, [Next]_vars PROVE CmdsValid' /\ WaitsValid' /\ NothingLeft'
  BY NextTypeInv DEF LinksInv
<1> USE BlankValues
    DEF LinksInv, TypeInv, TypeOK, OwnersKnown, RequestsKnown, CmdsValid, WaitsValid,
        NothingLeft, mem, poll, store, incs, stops, Statuses, Places
<1>1. ASSUME NEW s \in Sessions, NEW f \in Folders, NEW k \in Incarnations, Start(s, f, k)
      PROVE CmdsValid' /\ WaitsValid' /\ NothingLeft'
  BY <1>1 DEF Start, CallStartProcess, Fresh
<1>2. ASSUME NEW k \in Incarnations, CreateContext(k)
      PROVE CmdsValid' /\ WaitsValid' /\ NothingLeft'
  BY <1>2 DEF CreateContext
<1>3. ASSUME NEW k \in Incarnations, Spawn(k)
      PROVE CmdsValid' /\ WaitsValid' /\ NothingLeft'
  BY <1>3 DEF Spawn
<1>4. ASSUME NEW k \in Incarnations, SpawnFails(k)
      PROVE CmdsValid' /\ WaitsValid' /\ NothingLeft'
  BY <1>4 DEF SpawnFails
<1>5. ASSUME NEW k \in Incarnations, Record(k)
      PROVE CmdsValid' /\ WaitsValid' /\ NothingLeft'
  BY <1>5 DEF Record
<1>6. ASSUME NEW k \in Incarnations, ProcessExits(k)
      PROVE CmdsValid' /\ WaitsValid' /\ NothingLeft'
  BY <1>6 DEF ProcessExits
<1>7. ASSUME NEW k \in Incarnations, URLDetected(k)
      PROVE CmdsValid' /\ WaitsValid' /\ NothingLeft'
  BY <1>7 DEF URLDetected
<1>8. ASSUME NEW k \in Incarnations, MonitorStarts(k)
      PROVE CmdsValid' /\ WaitsValid' /\ NothingLeft'
  BY <1>8 DEF MonitorStarts
<1>9. ASSUME NEW k \in Incarnations, WaitReturns(k)
      PROVE CmdsValid' /\ WaitsValid' /\ NothingLeft'
  BY <1>9 DEF WaitReturns
<1>10. ASSUME NEW k \in Incarnations, MonitorFindsStopped(k)
       PROVE CmdsValid' /\ WaitsValid' /\ NothingLeft'
  BY <1>10 DEF MonitorFindsStopped
<1>11. ASSUME NEW k \in Incarnations, MonitorFindsCrash(k)
       PROVE CmdsValid' /\ WaitsValid' /\ NothingLeft'
  BY <1>11 DEF MonitorFindsCrash
<1>12. ASSUME NEW k \in Incarnations, MonitorGivesUp(k)
       PROVE CmdsValid' /\ WaitsValid' /\ NothingLeft'
  BY <1>12 DEF MonitorGivesUp
<1>13. ASSUME NEW k \in Incarnations, NEW j \in Incarnations, MonitorRestarts(k, j)
       PROVE CmdsValid' /\ WaitsValid' /\ NothingLeft'
  BY <1>13 DEF MonitorRestarts, CallStartProcess, Fresh
<1>14. ASSUME NEW c \in Clients, NEW s \in Sessions, Kill(c, s)
       PROVE CmdsValid' /\ WaitsValid' /\ NothingLeft'
  BY <1>14 DEF Kill, MarkStopped
<1>15. ASSUME NEW c \in Clients, KillCancels(c)
       PROVE CmdsValid' /\ WaitsValid' /\ NothingLeft'
  BY <1>15 DEF KillCancels, Cancel
<1>16. ASSUME NEW k \in Incarnations, TimerKills(k)
       PROVE CmdsValid' /\ WaitsValid' /\ NothingLeft'
  BY <1>16 DEF TimerKills, MarkStopped
<1>17. ASSUME NEW k \in Incarnations, TimerCancels(k)
       PROVE CmdsValid' /\ WaitsValid' /\ NothingLeft'
  BY <1>17 DEF TimerCancels, Cancel
<1>18. ASSUME NEW k \in Incarnations, TimerFindsNothing(k)
       PROVE CmdsValid' /\ WaitsValid' /\ NothingLeft'
  BY <1>18 DEF TimerFindsNothing
<1>19. ASSUME NEW c \in Clients, NEW s \in Sessions, RestartStops(c, s)
       PROVE CmdsValid' /\ WaitsValid' /\ NothingLeft'
  BY <1>19 DEF RestartStops, Cancel
<1>20. ASSUME NEW c \in Clients, NEW k \in Incarnations, RestartRevives(c, k)
       PROVE CmdsValid' /\ WaitsValid' /\ NothingLeft'
  BY <1>20 DEF RestartRevives, Revive, CallStartProcess, Fresh
<1>21. ASSUME NEW s \in Sessions, NEW k \in Incarnations, RestartIdleSession(s, k)
       PROVE CmdsValid' /\ WaitsValid' /\ NothingLeft'
  BY <1>21 DEF RestartIdleSession, Revive, CallStartProcess, Fresh
<1>22. ASSUME StopAll PROVE CmdsValid' /\ WaitsValid' /\ NothingLeft'
  BY <1>22 DEF StopAll
<1>23. ASSUME NEW s \in Sessions, StopAllCancels(s)
       PROVE CmdsValid' /\ WaitsValid' /\ NothingLeft'
  BY <1>23 DEF StopAllCancels, Cancel
<1>24. ASSUME NEW s \in Sessions, StopAllWaits(s)
       PROVE CmdsValid' /\ WaitsValid' /\ NothingLeft'
  BY <1>24 DEF StopAllWaits
<1>25. ASSUME StopAllWaitReturns PROVE CmdsValid' /\ WaitsValid' /\ NothingLeft'
  BY <1>25 DEF StopAllWaitReturns
<1>26. ASSUME Crash PROVE CmdsValid' /\ WaitsValid' /\ NothingLeft'
  BY <1>26 DEF Crash, Die
<1>27. ASSUME Exit PROVE CmdsValid' /\ WaitsValid' /\ NothingLeft'
  BY <1>27 DEF Exit, Die
<1>28. ASSUME Boot PROVE CmdsValid' /\ WaitsValid' /\ NothingLeft'
  BY <1>28 DEF Boot
<1>29. ASSUME NEW s \in Sessions, PollFindsDeath(s)
       PROVE CmdsValid' /\ WaitsValid' /\ NothingLeft'
  BY <1>29 DEF PollFindsDeath
<1>30. ASSUME NEW s \in Sessions, PollEnds(s)
       PROVE CmdsValid' /\ WaitsValid' /\ NothingLeft'
  BY <1>30 DEF PollEnds
<1>31. CASE UNCHANGED vars
  BY <1>31 DEF vars, mem, poll, store, incs, stops
<1>32. QED
  BY <1>1, <1>2, <1>3, <1>4, <1>5, <1>6, <1>7, <1>8, <1>9, <1>10, <1>11,
     <1>12, <1>13, <1>14, <1>15, <1>16, <1>17, <1>18, <1>19, <1>20, <1>21,
     <1>22, <1>23, <1>24, <1>25, <1>26, <1>27, <1>28, <1>29, <1>30, <1>31 DEF
     Next, StartStep, MonitorStep, TimerStep, ClientStep, PollStep, StopStep,
     Request, World

-----------------------------------------------------------------------------
(* A running session is watched.                                           *)

LEMMA NextWatchInv == LinksInv /\ WatchInv /\ [Next]_vars => WatchInv'
<1> SUFFICES ASSUME LinksInv, WatchInv, [Next]_vars PROVE WatchInv'
  OBVIOUS
<1> USE BlankValues
    DEF LinksInv, TypeInv, TypeOK, OwnersKnown, RequestsKnown, CmdsValid, WaitsValid,
        NothingLeft, mem, poll, store, incs, stops, Statuses, Places,
        WatchInv, Backed, CancelPending, Starting, Watching
<1>1. ASSUME NEW s \in Sessions, NEW f \in Folders, NEW k \in Incarnations, Start(s, f, k)
      PROVE WatchInv'
  BY <1>1 DEF Start, CallStartProcess, Fresh
<1>2. ASSUME NEW k \in Incarnations, CreateContext(k) PROVE WatchInv'
  BY <1>2 DEF CreateContext
<1>3. ASSUME NEW k \in Incarnations, Spawn(k) PROVE WatchInv'
  BY <1>3 DEF Spawn
<1>4. ASSUME NEW k \in Incarnations, SpawnFails(k) PROVE WatchInv'
  BY <1>4 DEF SpawnFails
<1>5. ASSUME NEW k \in Incarnations, Record(k) PROVE WatchInv'
  BY <1>5 DEF Record
<1>6. ASSUME NEW k \in Incarnations, ProcessExits(k) PROVE WatchInv'
  BY <1>6 DEF ProcessExits
<1>7. ASSUME NEW k \in Incarnations, URLDetected(k) PROVE WatchInv'
  BY <1>7 DEF URLDetected
<1>8. ASSUME NEW k \in Incarnations, MonitorStarts(k) PROVE WatchInv'
  BY <1>8 DEF MonitorStarts
<1>9. ASSUME NEW k \in Incarnations, WaitReturns(k) PROVE WatchInv'
  BY <1>9 DEF WaitReturns
<1>10. ASSUME NEW k \in Incarnations, MonitorFindsStopped(k) PROVE WatchInv'
  BY <1>10 DEF MonitorFindsStopped, Intended
<1>11. ASSUME NEW k \in Incarnations, MonitorFindsCrash(k) PROVE WatchInv'
  BY <1>11 DEF MonitorFindsCrash
<1>12. ASSUME NEW k \in Incarnations, MonitorGivesUp(k) PROVE WatchInv'
  BY <1>12 DEF MonitorGivesUp
<1>13. ASSUME NEW k \in Incarnations, NEW j \in Incarnations, MonitorRestarts(k, j)
       PROVE WatchInv'
  BY <1>13 DEF MonitorRestarts, CallStartProcess, Fresh
<1>14. ASSUME NEW c \in Clients, NEW s \in Sessions, Kill(c, s) PROVE WatchInv'
  BY <1>14 DEF Kill, MarkStopped
<1>15. ASSUME NEW c \in Clients, KillCancels(c) PROVE WatchInv'
  BY <1>15 DEF KillCancels, Cancel
<1>16. ASSUME NEW k \in Incarnations, TimerKills(k) PROVE WatchInv'
  BY <1>16 DEF TimerKills, MarkStopped
<1>17. ASSUME NEW k \in Incarnations, TimerCancels(k) PROVE WatchInv'
  BY <1>17 DEF TimerCancels, Cancel
<1>18. ASSUME NEW k \in Incarnations, TimerFindsNothing(k) PROVE WatchInv'
  BY <1>18 DEF TimerFindsNothing
<1>19. ASSUME NEW c \in Clients, NEW s \in Sessions, RestartStops(c, s) PROVE WatchInv'
  BY <1>19 DEF RestartStops, Cancel
<1>20. ASSUME NEW c \in Clients, NEW k \in Incarnations, RestartRevives(c, k)
       PROVE WatchInv'
  BY <1>20 DEF RestartRevives, Revive, CallStartProcess, Fresh
<1>21. ASSUME NEW s \in Sessions, NEW k \in Incarnations, RestartIdleSession(s, k)
       PROVE WatchInv'
  BY <1>21 DEF RestartIdleSession, Revive, CallStartProcess, Fresh
<1>22. ASSUME StopAll PROVE WatchInv'
  BY <1>22 DEF StopAll
<1>23. ASSUME NEW s \in Sessions, StopAllCancels(s) PROVE WatchInv'
  BY <1>23 DEF StopAllCancels, Cancel
<1>24. ASSUME NEW s \in Sessions, StopAllWaits(s) PROVE WatchInv'
  BY <1>24 DEF StopAllWaits
<1>25. ASSUME StopAllWaitReturns PROVE WatchInv'
  BY <1>25 DEF StopAllWaitReturns
<1>26. ASSUME Crash PROVE WatchInv'
  BY <1>26 DEF Crash, Die
<1>27. ASSUME Exit PROVE WatchInv'
  BY <1>27 DEF Exit, Die
<1>28. ASSUME Boot PROVE WatchInv'
  BY <1>28 DEF Boot
<1>29. ASSUME NEW s \in Sessions, PollFindsDeath(s) PROVE WatchInv'
  BY <1>29 DEF PollFindsDeath
<1>30. ASSUME NEW s \in Sessions, PollEnds(s) PROVE WatchInv'
  BY <1>30 DEF PollEnds
<1>31. CASE UNCHANGED vars
  BY <1>31 DEF vars, mem, poll, store, incs, stops
<1>32. QED
  BY <1>1, <1>2, <1>3, <1>4, <1>5, <1>6, <1>7, <1>8, <1>9, <1>10, <1>11,
     <1>12, <1>13, <1>14, <1>15, <1>16, <1>17, <1>18, <1>19, <1>20, <1>21,
     <1>22, <1>23, <1>24, <1>25, <1>26, <1>27, <1>28, <1>29, <1>30, <1>31 DEF
     Next, StartStep, MonitorStep, TimerStep, ClientStep, PollStep, StopStep,
     Request, World

\* RunningIsWatched, for every instance: no order of kills, restarts, timers,
\* crashes and restores leaves a running session with nobody to notice its end.
THEOREM RunningSessionsAreWatched == Spec => []RunningIsWatched
<1>1. Init => LinksInv /\ WatchInv
  BY InitLinksInv DEF Init, WatchInv
<1>2. LinksInv /\ WatchInv /\ [Next]_vars => LinksInv' /\ WatchInv'
  BY NextLinksInv, NextWatchInv
<1>3. WatchInv => RunningIsWatched
  BY DEF WatchInv, RunningIsWatched, Backed
<1>4. QED
  BY <1>1, <1>2, <1>3, PTL DEF Spec


-----------------------------------------------------------------------------
(* One incarnation at a time, and one session in a folder.                 *)

LEMMA InitDrawn == Init => Drawn
  BY BlankValues DEF Init, Drawn, NoFile, NoEntry

\* A save, successful or not, does not name a session that the map does not
\* have, unless the file did.
LEMMA SaveKeepsUndrawn ==
  ASSUME NEW kn, NEW st, NEW pd, NEW rs, Save(kn, st, pd, rs),
         NEW s \in Sessions, s \notin kn, file[s].status = "none"
  PROVE  file'[s].status = "none"
  BY DEF Save, Snapshot, NoFile, NoEntry

LEMMA NextDrawn == TypeInv /\ Drawn /\ [Next]_vars => Drawn'
<1> SUFFICES ASSUME TypeInv, Drawn, [Next]_vars PROVE Drawn'
  OBVIOUS
<1> USE BlankValues, ConstantsAssumption
    DEF TypeInv, TypeOK, OwnersKnown, RequestsKnown, Drawn,
        mem, poll, store, incs, stops
<1>1. ASSUME NEW s \in Sessions, NEW f \in Folders, NEW k \in Incarnations, Start(s, f, k)
      PROVE Drawn'
  BY <1>1, SaveKeepsUndrawn DEF Start, CallStartProcess, Fresh
<1>2. ASSUME NEW k \in Incarnations, CreateContext(k) PROVE Drawn'
  BY <1>2 DEF CreateContext
<1>3. ASSUME NEW k \in Incarnations, Spawn(k) PROVE Drawn'
  BY <1>3 DEF Spawn
<1>4. ASSUME NEW k \in Incarnations, SpawnFails(k) PROVE Drawn'
  BY <1>4, SaveKeepsUndrawn DEF SpawnFails
<1>5. ASSUME NEW k \in Incarnations, Record(k) PROVE Drawn'
  BY <1>5 DEF Record
<1>6. ASSUME NEW k \in Incarnations, ProcessExits(k) PROVE Drawn'
  BY <1>6 DEF ProcessExits
<1>7. ASSUME NEW k \in Incarnations, URLDetected(k) PROVE Drawn'
  BY <1>7, SaveKeepsUndrawn DEF URLDetected
<1>8. ASSUME NEW k \in Incarnations, MonitorStarts(k) PROVE Drawn'
  BY <1>8 DEF MonitorStarts
<1>9. ASSUME NEW k \in Incarnations, WaitReturns(k) PROVE Drawn'
  BY <1>9 DEF WaitReturns
<1>10. ASSUME NEW k \in Incarnations, MonitorFindsStopped(k) PROVE Drawn'
  BY <1>10, SaveKeepsUndrawn DEF MonitorFindsStopped
<1>11. ASSUME NEW k \in Incarnations, MonitorFindsCrash(k) PROVE Drawn'
  BY <1>11, SaveKeepsUndrawn DEF MonitorFindsCrash
<1>12. ASSUME NEW k \in Incarnations, MonitorGivesUp(k) PROVE Drawn'
  BY <1>12 DEF MonitorGivesUp
<1>13. ASSUME NEW k \in Incarnations, NEW j \in Incarnations, MonitorRestarts(k, j)
       PROVE Drawn'
  BY <1>13 DEF MonitorRestarts, CallStartProcess, Fresh
<1>14. ASSUME NEW c \in Clients, NEW s \in Sessions, Kill(c, s) PROVE Drawn'
  BY <1>14, SaveKeepsUndrawn DEF Kill, MarkStopped
<1>15. ASSUME NEW c \in Clients, KillCancels(c) PROVE Drawn'
  BY <1>15 DEF KillCancels, Cancel
<1>16. ASSUME NEW k \in Incarnations, TimerKills(k) PROVE Drawn'
  BY <1>16, SaveKeepsUndrawn DEF TimerKills, MarkStopped
<1>17. ASSUME NEW k \in Incarnations, TimerCancels(k) PROVE Drawn'
  BY <1>17 DEF TimerCancels, Cancel
<1>18. ASSUME NEW k \in Incarnations, TimerFindsNothing(k) PROVE Drawn'
  BY <1>18 DEF TimerFindsNothing
<1>19. ASSUME NEW c \in Clients, NEW s \in Sessions, RestartStops(c, s) PROVE Drawn'
  BY <1>19 DEF RestartStops, Cancel
<1>20. ASSUME NEW c \in Clients, NEW k \in Incarnations, RestartRevives(c, k)
       PROVE Drawn'
  BY <1>20, SaveKeepsUndrawn DEF RestartRevives, Revive, CallStartProcess, Fresh
<1>21. ASSUME NEW s \in Sessions, NEW k \in Incarnations, RestartIdleSession(s, k)
       PROVE Drawn'
  BY <1>21, SaveKeepsUndrawn DEF RestartIdleSession, Revive, CallStartProcess, Fresh
<1>22. ASSUME StopAll PROVE Drawn'
  BY <1>22, SaveKeepsUndrawn DEF StopAll
<1>23. ASSUME NEW s \in Sessions, StopAllCancels(s) PROVE Drawn'
  BY <1>23 DEF StopAllCancels, Cancel
<1>24. ASSUME NEW s \in Sessions, StopAllWaits(s) PROVE Drawn'
  BY <1>24 DEF StopAllWaits
<1>25. ASSUME StopAllWaitReturns PROVE Drawn'
  BY <1>25 DEF StopAllWaitReturns
<1>26. ASSUME Crash PROVE Drawn'
  BY <1>26 DEF Crash, Die
<1>27. ASSUME Exit PROVE Drawn'
  BY <1>27 DEF Exit, Die
<1>28. ASSUME Boot PROVE Drawn'
  BY <1>28, SaveKeepsUndrawn DEF Boot
<1>29. ASSUME NEW s \in Sessions, PollFindsDeath(s) PROVE Drawn'
  BY <1>29, SaveKeepsUndrawn DEF PollFindsDeath
<1>30. ASSUME NEW s \in Sessions, PollEnds(s) PROVE Drawn'
  BY <1>30 DEF PollEnds
<1>31. CASE UNCHANGED vars
  BY <1>31 DEF vars, mem, poll, store, incs, stops
<1>32. QED
  BY <1>1, <1>2, <1>3, <1>4, <1>5, <1>6, <1>7, <1>8, <1>9, <1>10, <1>11,
     <1>12, <1>13, <1>14, <1>15, <1>16, <1>17, <1>18, <1>19, <1>20, <1>21,
     <1>22, <1>23, <1>24, <1>25, <1>26, <1>27, <1>28, <1>29, <1>30, <1>31 DEF
     Next, StartStep, MonitorStep, TimerStep, ClientStep, PollStep, StopStep,
     Request, World

LEMMA InitRivalsInv == Init => RivalsInv
  BY InitLinksInv, InitDrawn
  DEF Init, RivalsInv, OwnProcess, NoRivalsWithoutRestart, Active, Starting, Watching

LEMMA NextRivalsInv == RivalsInv /\ [Next]_vars => RivalsInv'
<1> SUFFICES ASSUME RivalsInv, [Next]_vars
             PROVE  OwnProcess' /\ NoRivalsWithoutRestart'
  BY NextLinksInv, NextDrawn DEF RivalsInv, LinksInv
<1> USE BlankValues, ConstantsAssumption
    DEF RivalsInv, LinksInv, TypeInv, TypeOK, OwnersKnown, RequestsKnown, CmdsValid,
        WaitsValid, NothingLeft, mem, poll, store, incs, stops, Statuses, Places,
        OwnProcess, Drawn, NoRivalsWithoutRestart, Active, Starting, Watching, Restarted
<1>1. ASSUME NEW s \in Sessions, NEW f \in Folders, NEW k \in Incarnations, Start(s, f, k)
      PROVE OwnProcess' /\ NoRivalsWithoutRestart'
  BY <1>1 DEF Start, CallStartProcess, Fresh
<1>2. ASSUME NEW k \in Incarnations, CreateContext(k)
      PROVE OwnProcess' /\ NoRivalsWithoutRestart'
  BY <1>2 DEF CreateContext
<1>3. ASSUME NEW k \in Incarnations, Spawn(k)
      PROVE OwnProcess' /\ NoRivalsWithoutRestart'
  BY <1>3 DEF Spawn
<1>4. ASSUME NEW k \in Incarnations, SpawnFails(k)
      PROVE OwnProcess' /\ NoRivalsWithoutRestart'
  BY <1>4 DEF SpawnFails
<1>5. ASSUME NEW k \in Incarnations, Record(k)
      PROVE OwnProcess' /\ NoRivalsWithoutRestart'
  BY <1>5 DEF Record
<1>6. ASSUME NEW k \in Incarnations, ProcessExits(k)
      PROVE OwnProcess' /\ NoRivalsWithoutRestart'
  BY <1>6 DEF ProcessExits
<1>7. ASSUME NEW k \in Incarnations, URLDetected(k)
      PROVE OwnProcess' /\ NoRivalsWithoutRestart'
  BY <1>7 DEF URLDetected
<1>8. ASSUME NEW k \in Incarnations, MonitorStarts(k)
      PROVE OwnProcess' /\ NoRivalsWithoutRestart'
  BY <1>8 DEF MonitorStarts
<1>9. ASSUME NEW k \in Incarnations, WaitReturns(k)
      PROVE OwnProcess' /\ NoRivalsWithoutRestart'
  BY <1>9 DEF WaitReturns
<1>10. ASSUME NEW k \in Incarnations, MonitorFindsStopped(k)
       PROVE OwnProcess' /\ NoRivalsWithoutRestart'
  BY <1>10 DEF MonitorFindsStopped
<1>11. ASSUME NEW k \in Incarnations, MonitorFindsCrash(k)
       PROVE OwnProcess' /\ NoRivalsWithoutRestart'
  BY <1>11 DEF MonitorFindsCrash
<1>12. ASSUME NEW k \in Incarnations, MonitorGivesUp(k)
       PROVE OwnProcess' /\ NoRivalsWithoutRestart'
  BY <1>12 DEF MonitorGivesUp
<1>13. ASSUME NEW k \in Incarnations, NEW j \in Incarnations, MonitorRestarts(k, j)
       PROVE OwnProcess' /\ NoRivalsWithoutRestart'
  <2> USE DEF MonitorRestarts, CallStartProcess, Fresh
  <2>1. pc[j] = "unused" /\ origin[j] = "none" /\ owner[j] = None /\ os[j] = "none"
    BY <1>13
  <2>2. j # k
    BY <1>13, <2>1
  <2>3. \A t \in Sessions : Restarted(t) => Restarted(t)'
    BY <1>13, <2>1
  <2> HIDE DEF Restarted
  <2>4. OwnProcess'
    BY <1>13, <2>1, <2>2, <2>3
  <2>5. NoRivalsWithoutRestart'
    BY <1>13, <2>1, <2>2, <2>3
  <2>6. QED BY <2>4, <2>5
<1>14. ASSUME NEW c \in Clients, NEW s \in Sessions, Kill(c, s)
       PROVE OwnProcess' /\ NoRivalsWithoutRestart'
  BY <1>14 DEF Kill, MarkStopped
<1>15. ASSUME NEW c \in Clients, KillCancels(c)
       PROVE OwnProcess' /\ NoRivalsWithoutRestart'
  BY <1>15 DEF KillCancels, Cancel
<1>16. ASSUME NEW k \in Incarnations, TimerKills(k)
       PROVE OwnProcess' /\ NoRivalsWithoutRestart'
  BY <1>16 DEF TimerKills, MarkStopped
<1>17. ASSUME NEW k \in Incarnations, TimerCancels(k)
       PROVE OwnProcess' /\ NoRivalsWithoutRestart'
  BY <1>17 DEF TimerCancels, Cancel
<1>18. ASSUME NEW k \in Incarnations, TimerFindsNothing(k)
       PROVE OwnProcess' /\ NoRivalsWithoutRestart'
  BY <1>18 DEF TimerFindsNothing
<1>19. ASSUME NEW c \in Clients, NEW s \in Sessions, RestartStops(c, s)
       PROVE OwnProcess' /\ NoRivalsWithoutRestart'
  BY <1>19 DEF RestartStops, Cancel
<1>20. ASSUME NEW c \in Clients, NEW k \in Incarnations, RestartRevives(c, k)
       PROVE OwnProcess' /\ NoRivalsWithoutRestart'
  <2> USE DEF RestartRevives, Revive, CallStartProcess, Fresh
  <2>1. pc[k] = "unused" /\ origin[k] = "none" /\ owner[k] = None /\ os[k] = "none"
    BY <1>20
  <2>2. req[c].on \in Sessions /\ owner'[k] = req[c].on /\ origin'[k] = "restart"
    BY <1>20, <2>1
  <2>3. \A t \in Sessions : Restarted(t) => Restarted(t)'
    BY <1>20, <2>1
  <2> HIDE DEF Restarted
  <2>4. OwnProcess'
    BY <1>20, <2>1, <2>2, <2>3
  <2>5. NoRivalsWithoutRestart'
    <3> SUFFICES ASSUME NEW i \in Incarnations, NEW j \in Incarnations, owner'[i] = owner'[j],
                        Active(i)', Active(j)', ~Restarted(owner[i])'
                 PROVE  i = j
      BY DEF NoRivalsWithoutRestart
    <3>1. i # k /\ j # k
      BY <2>2 DEF Restarted
    <3>2. owner'[i] = owner[i] /\ owner'[j] = owner[j] /\ ~Restarted(owner[i])
      BY <1>20, <2>1, <2>2, <2>3, <3>1
    <3>3. Active(i) /\ Active(j)
      BY <1>20, <3>1
    <3>4. owner[i] = owner[j]
      BY <3>2
    <3>5. QED BY <3>2, <3>3, <3>4, SMTT(30) DEF RivalsInv, NoRivalsWithoutRestart
  <2>6. QED BY <2>4, <2>5
<1>21. ASSUME NEW s \in Sessions, NEW k \in Incarnations, RestartIdleSession(s, k)
       PROVE OwnProcess' /\ NoRivalsWithoutRestart'
  <2> USE DEF RestartIdleSession, Revive, CallStartProcess, Fresh
  <2>1. pc[k] = "unused" /\ origin[k] = "none" /\ owner[k] = None /\ os[k] = "none"
    BY <1>21
  <2>2. Restarted(s)'
    BY <1>21, <2>1
  <2>3. \A t \in Sessions : Restarted(t) => Restarted(t)'
    BY <1>21, <2>1
  <2> HIDE DEF Restarted
  <2>4. OwnProcess'
    BY <1>21, <2>1, <2>2, <2>3
  <2>5. NoRivalsWithoutRestart'
    BY <1>21, <2>1, <2>2, <2>3
  <2>6. QED BY <2>4, <2>5
<1>22. ASSUME StopAll PROVE OwnProcess' /\ NoRivalsWithoutRestart'
  BY <1>22 DEF StopAll
<1>23. ASSUME NEW s \in Sessions, StopAllCancels(s)
       PROVE OwnProcess' /\ NoRivalsWithoutRestart'
  BY <1>23 DEF StopAllCancels, Cancel
<1>24. ASSUME NEW s \in Sessions, StopAllWaits(s)
       PROVE OwnProcess' /\ NoRivalsWithoutRestart'
  BY <1>24 DEF StopAllWaits
<1>25. ASSUME StopAllWaitReturns PROVE OwnProcess' /\ NoRivalsWithoutRestart'
  BY <1>25 DEF StopAllWaitReturns
<1>26. ASSUME Crash PROVE OwnProcess' /\ NoRivalsWithoutRestart'
  BY <1>26 DEF Crash, Die
<1>27. ASSUME Exit PROVE OwnProcess' /\ NoRivalsWithoutRestart'
  BY <1>27 DEF Exit, Die
<1>28. ASSUME Boot PROVE OwnProcess' /\ NoRivalsWithoutRestart'
  BY <1>28 DEF Boot
<1>29. ASSUME NEW s \in Sessions, PollFindsDeath(s)
       PROVE OwnProcess' /\ NoRivalsWithoutRestart'
  BY <1>29 DEF PollFindsDeath
<1>30. ASSUME NEW s \in Sessions, PollEnds(s)
       PROVE OwnProcess' /\ NoRivalsWithoutRestart'
  BY <1>30 DEF PollEnds
<1>31. CASE UNCHANGED vars
  BY <1>31 DEF vars, mem, poll, store, incs, stops
<1>32. QED
  BY <1>1, <1>2, <1>3, <1>4, <1>5, <1>6, <1>7, <1>8, <1>9, <1>10, <1>11,
     <1>12, <1>13, <1>14, <1>15, <1>16, <1>17, <1>18, <1>19, <1>20, <1>21,
     <1>22, <1>23, <1>24, <1>25, <1>26, <1>27, <1>28, <1>29, <1>30, <1>31 DEF
     Next, StartStep, MonitorStep, TimerStep, ClientStep, PollStep, StopStep,
     Request, World

\* NoRivalsWithoutRestart, for every instance: the supervisor by itself never
\* has two incarnations of one session at work.
THEOREM NoRivals == Spec => []NoRivalsWithoutRestart
<1>1. RivalsInv => NoRivalsWithoutRestart
  BY DEF RivalsInv
<1>2. QED
  BY InitRivalsInv, NextRivalsInv, <1>1, PTL DEF Spec

LEMMA InitFoldersInv == Init => FoldersInv
  BY InitTypeInv, InitDrawn
    DEF Init, FoldersInv, FolderIsExclusive, FileIsExclusive, NoFile, NoEntry

\* A file that is left alone stays exclusive.
LEMMA FileFrame ==
  ASSUME FileIsExclusive, file' = file,
         \A t \in Sessions : Revived(t) => Revived(t)',
         \A t \in Sessions : file[t].status = "running" => folder'[t] = folder[t]
  PROVE  FileIsExclusive'
<1> SUFFICES ASSUME NEW s \in Sessions, NEW t \in Sessions, folder'[s] = folder'[t],
                    file[s].status = "running", file[t].status = "running",
                    ~Revived(s)', ~Revived(t)'
             PROVE  s = t
  BY DEF FileIsExclusive
<1>1. folder[s] = folder[t] /\ ~Revived(s) /\ ~Revived(t)
  OBVIOUS
<1>2. QED BY <1>1 DEF FileIsExclusive

\* A save writes what the map holds; one that fails leaves a file that was
\* exclusive too, though old, or nothing.
LEMMA SavedIsExclusive ==
  ASSUME FolderIsExclusive', FileIsExclusive, known' \subseteq Sessions,
         NEW pd, NEW rs, Save(known', status', pd, rs),
         \A t \in Sessions : Revived(t) => Revived(t)',
         \A t \in Sessions : file[t].status = "running" => folder'[t] = folder[t]
  PROVE  FileIsExclusive'
<1>1. CASE file' = Snapshot(known', status', pd, rs)
  BY <1>1 DEF FolderIsExclusive, FileIsExclusive, Snapshot, NoEntry, Revived
<1>2. CASE file' = file
  BY <1>2, FileFrame
<1>3. CASE file' = NoFile
  BY <1>3 DEF FileIsExclusive, NoFile, NoEntry
<1>4. QED BY <1>1, <1>2, <1>3 DEF Save

LEMMA FoldersFrame ==
  FoldersInv /\ UNCHANGED <<folder, known, status, file, owner, origin>>
    => FolderIsExclusive' /\ FileIsExclusive'
  BY DEF FoldersInv, FolderIsExclusive, FileIsExclusive, Revived

LEMMA NextFoldersInv == FoldersInv /\ [Next]_vars => FoldersInv'
<1> SUFFICES ASSUME FoldersInv, [Next]_vars PROVE FolderIsExclusive' /\ FileIsExclusive'
  BY NextTypeInv, NextDrawn DEF FoldersInv
<1> USE BlankValues, ConstantsAssumption
    DEF FoldersInv, TypeInv, TypeOK, OwnersKnown, RequestsKnown, Drawn,
        FolderIsExclusive, FileIsExclusive, Revived, mem, poll, store, incs, stops
<1>1. ASSUME NEW s \in Sessions, NEW f \in Folders, NEW k \in Incarnations, Start(s, f, k)
      PROVE FolderIsExclusive' /\ FileIsExclusive'
  <2> USE DEF Start, CallStartProcess, Fresh, FolderFree
  <2>1. \A t \in Sessions : Revived(t) => Revived(t)'
    BY <1>1
  <2>2. FolderIsExclusive'
    BY <1>1, <2>1, ConstantsAssumption
  <2>3. known' \subseteq Sessions
    BY <1>1
  <2>4. \A t \in Sessions : file[t].status = "running" => folder'[t] = folder[t]
    BY <1>1
  <2> HIDE DEF FolderIsExclusive, FileIsExclusive, Revived
  <2>5. FileIsExclusive'
    BY <1>1, <2>1, <2>2, <2>3, <2>4, SavedIsExclusive
  <2>6. QED BY <2>2, <2>5
<1>2. ASSUME NEW k \in Incarnations, CreateContext(k)
      PROVE FolderIsExclusive' /\ FileIsExclusive'
  BY <1>2, FoldersFrame DEF CreateContext
<1>3. ASSUME NEW k \in Incarnations, Spawn(k)
      PROVE FolderIsExclusive' /\ FileIsExclusive'
  BY <1>3, FoldersFrame DEF Spawn
<1>4. ASSUME NEW k \in Incarnations, SpawnFails(k)
      PROVE FolderIsExclusive' /\ FileIsExclusive'
  <2> USE DEF SpawnFails
  <2>1. \A t \in Sessions : Revived(t) => Revived(t)'
    BY <1>4
  <2>2. FolderIsExclusive'
    BY <1>4, <2>1
  <2>3. known' \subseteq Sessions
    BY <1>4
  <2>4. \A t \in Sessions : file[t].status = "running" => folder'[t] = folder[t]
    BY <1>4
  <2> HIDE DEF FolderIsExclusive, FileIsExclusive, Revived
  <2>5. FileIsExclusive'
    BY <1>4, <2>1, <2>2, <2>3, <2>4, SavedIsExclusive
  <2>6. QED BY <2>2, <2>5
<1>5. ASSUME NEW k \in Incarnations, Record(k)
      PROVE FolderIsExclusive' /\ FileIsExclusive'
  BY <1>5, FoldersFrame DEF Record
<1>6. ASSUME NEW k \in Incarnations, ProcessExits(k)
      PROVE FolderIsExclusive' /\ FileIsExclusive'
  BY <1>6, FoldersFrame DEF ProcessExits
<1>7. ASSUME NEW k \in Incarnations, URLDetected(k)
      PROVE FolderIsExclusive' /\ FileIsExclusive'
  <2> USE DEF URLDetected
  <2>1. \A t \in Sessions : Revived(t) => Revived(t)'
    BY <1>7
  <2>2. FolderIsExclusive'
    BY <1>7, <2>1
  <2>3. known' \subseteq Sessions
    BY <1>7
  <2>4. \A t \in Sessions : file[t].status = "running" => folder'[t] = folder[t]
    BY <1>7
  <2> HIDE DEF FolderIsExclusive, FileIsExclusive, Revived
  <2>5. FileIsExclusive'
    BY <1>7, <2>1, <2>2, <2>3, <2>4, SavedIsExclusive
  <2>6. QED BY <2>2, <2>5
<1>8. ASSUME NEW k \in Incarnations, MonitorStarts(k)
      PROVE FolderIsExclusive' /\ FileIsExclusive'
  BY <1>8, FoldersFrame DEF MonitorStarts
<1>9. ASSUME NEW k \in Incarnations, WaitReturns(k)
      PROVE FolderIsExclusive' /\ FileIsExclusive'
  BY <1>9, FoldersFrame DEF WaitReturns
<1>10. ASSUME NEW k \in Incarnations, MonitorFindsStopped(k)
       PROVE FolderIsExclusive' /\ FileIsExclusive'
  <2> USE DEF MonitorFindsStopped
  <2>1. \A t \in Sessions : Revived(t) => Revived(t)'
    BY <1>10
  <2>2. FolderIsExclusive'
    BY <1>10, <2>1
  <2>3. known' \subseteq Sessions
    BY <1>10
  <2>4. \A t \in Sessions : file[t].status = "running" => folder'[t] = folder[t]
    BY <1>10
  <2> HIDE DEF FolderIsExclusive, FileIsExclusive, Revived
  <2>5. FileIsExclusive'
    BY <1>10, <2>1, <2>2, <2>3, <2>4, SavedIsExclusive
  <2>6. QED BY <2>2, <2>5
<1>11. ASSUME NEW k \in Incarnations, MonitorFindsCrash(k)
       PROVE FolderIsExclusive' /\ FileIsExclusive'
  <2> USE DEF MonitorFindsCrash
  <2>1. \A t \in Sessions : Revived(t) => Revived(t)'
    BY <1>11
  <2>2. FolderIsExclusive'
    BY <1>11, <2>1
  <2>3. known' \subseteq Sessions
    BY <1>11
  <2>4. \A t \in Sessions : file[t].status = "running" => folder'[t] = folder[t]
    BY <1>11
  <2> HIDE DEF FolderIsExclusive, FileIsExclusive, Revived
  <2>5. FileIsExclusive'
    BY <1>11, <2>1, <2>2, <2>3, <2>4, SavedIsExclusive
  <2>6. QED BY <2>2, <2>5
<1>12. ASSUME NEW k \in Incarnations, MonitorGivesUp(k)
       PROVE FolderIsExclusive' /\ FileIsExclusive'
  BY <1>12, FoldersFrame DEF MonitorGivesUp
<1>13. ASSUME NEW k \in Incarnations, NEW j \in Incarnations, MonitorRestarts(k, j)
       PROVE FolderIsExclusive' /\ FileIsExclusive'
  <2> USE DEF MonitorRestarts, CallStartProcess, Fresh
  <2>1. \A t \in Sessions : Revived(t) => Revived(t)'
    BY <1>13
  <2>2. owner[k] \in Sessions /\ owner'[j] = owner[k] /\ origin'[j] = "monitor"
    BY <1>13
  <2>3. FolderIsExclusive'
    BY <1>13, <2>1, <2>2 DEF Revived
  <2>4. FileIsExclusive'
    BY <1>13, <2>1
  <2>5. QED BY <2>3, <2>4
<1>14. ASSUME NEW c \in Clients, NEW s \in Sessions, Kill(c, s)
       PROVE FolderIsExclusive' /\ FileIsExclusive'
  <2> USE DEF Kill, MarkStopped
  <2>1. \A t \in Sessions : Revived(t) => Revived(t)'
    BY <1>14
  <2>2. FolderIsExclusive'
    BY <1>14, <2>1
  <2>3. known' \subseteq Sessions
    BY <1>14
  <2>4. \A t \in Sessions : file[t].status = "running" => folder'[t] = folder[t]
    BY <1>14
  <2> HIDE DEF FolderIsExclusive, FileIsExclusive, Revived
  <2>5. FileIsExclusive'
    BY <1>14, <2>1, <2>2, <2>3, <2>4, SavedIsExclusive
  <2>6. QED BY <2>2, <2>5
<1>15. ASSUME NEW c \in Clients, KillCancels(c)
       PROVE FolderIsExclusive' /\ FileIsExclusive'
  BY <1>15, FoldersFrame DEF KillCancels, Cancel
<1>16. ASSUME NEW k \in Incarnations, TimerKills(k)
       PROVE FolderIsExclusive' /\ FileIsExclusive'
  <2> USE DEF TimerKills, MarkStopped
  <2>1. \A t \in Sessions : Revived(t) => Revived(t)'
    BY <1>16
  <2>2. FolderIsExclusive'
    BY <1>16, <2>1
  <2>3. known' \subseteq Sessions
    BY <1>16
  <2>4. \A t \in Sessions : file[t].status = "running" => folder'[t] = folder[t]
    BY <1>16
  <2> HIDE DEF FolderIsExclusive, FileIsExclusive, Revived
  <2>5. FileIsExclusive'
    BY <1>16, <2>1, <2>2, <2>3, <2>4, SavedIsExclusive
  <2>6. QED BY <2>2, <2>5
<1>17. ASSUME NEW k \in Incarnations, TimerCancels(k)
       PROVE FolderIsExclusive' /\ FileIsExclusive'
  BY <1>17, FoldersFrame DEF TimerCancels, Cancel
<1>18. ASSUME NEW k \in Incarnations, TimerFindsNothing(k)
       PROVE FolderIsExclusive' /\ FileIsExclusive'
  BY <1>18, FoldersFrame DEF TimerFindsNothing
<1>19. ASSUME NEW c \in Clients, NEW s \in Sessions, RestartStops(c, s)
       PROVE FolderIsExclusive' /\ FileIsExclusive'
  BY <1>19 DEF RestartStops, Cancel
<1>20. ASSUME NEW c \in Clients, NEW k \in Incarnations, RestartRevives(c, k)
       PROVE FolderIsExclusive' /\ FileIsExclusive'
  <2> USE DEF RestartRevives, Revive, CallStartProcess, Fresh
  <2>1. \A t \in Sessions : Revived(t) => Revived(t)'
    BY <1>20
  <2>a. req[c].on \in Sessions /\ owner'[k] = req[c].on /\ origin'[k] = "restart"
    BY <1>20
  <2>2. FolderIsExclusive'
    BY <1>20, <2>1, <2>a
  <2>3. known' \subseteq Sessions
    BY <1>20
  <2>4. \A t \in Sessions : file[t].status = "running" => folder'[t] = folder[t]
    BY <1>20
  <2> HIDE DEF FolderIsExclusive, FileIsExclusive, Revived
  <2>5. FileIsExclusive'
    BY <1>20, <2>1, <2>2, <2>3, <2>4, SavedIsExclusive
  <2>6. QED BY <2>2, <2>5
<1>21. ASSUME NEW s \in Sessions, NEW k \in Incarnations, RestartIdleSession(s, k)
       PROVE FolderIsExclusive' /\ FileIsExclusive'
  <2> USE DEF RestartIdleSession, Revive, CallStartProcess, Fresh
  <2>1. \A t \in Sessions : Revived(t) => Revived(t)'
    BY <1>21
  <2>a. Revived(s)'
    BY <1>21
  <2>2. FolderIsExclusive'
    BY <1>21, <2>1, <2>a
  <2>3. known' \subseteq Sessions
    BY <1>21
  <2>4. \A t \in Sessions : file[t].status = "running" => folder'[t] = folder[t]
    BY <1>21
  <2> HIDE DEF FolderIsExclusive, FileIsExclusive, Revived
  <2>5. FileIsExclusive'
    BY <1>21, <2>1, <2>2, <2>3, <2>4, SavedIsExclusive
  <2>6. QED BY <2>2, <2>5
<1>22. ASSUME StopAll PROVE FolderIsExclusive' /\ FileIsExclusive'
  <2> USE DEF StopAll
  <2>1. \A t \in Sessions : Revived(t) => Revived(t)'
    BY <1>22
  <2>2. FolderIsExclusive'
    BY <1>22, <2>1
  <2>3. known' \subseteq Sessions
    BY <1>22
  <2>4. \A t \in Sessions : file[t].status = "running" => folder'[t] = folder[t]
    BY <1>22
  <2> HIDE DEF FolderIsExclusive, FileIsExclusive, Revived
  <2>5. FileIsExclusive'
    BY <1>22, <2>1, <2>2, <2>3, <2>4, SavedIsExclusive
  <2>6. QED BY <2>2, <2>5
<1>23. ASSUME NEW s \in Sessions, StopAllCancels(s)
       PROVE FolderIsExclusive' /\ FileIsExclusive'
  BY <1>23, FoldersFrame DEF StopAllCancels, Cancel
<1>24. ASSUME NEW s \in Sessions, StopAllWaits(s)
       PROVE FolderIsExclusive' /\ FileIsExclusive'
  BY <1>24, FoldersFrame DEF StopAllWaits
<1>25. ASSUME StopAllWaitReturns PROVE FolderIsExclusive' /\ FileIsExclusive'
  BY <1>25, FoldersFrame DEF StopAllWaitReturns
<1>26. ASSUME Crash PROVE FolderIsExclusive' /\ FileIsExclusive'
  BY <1>26 DEF Crash, Die
<1>27. ASSUME Exit PROVE FolderIsExclusive' /\ FileIsExclusive'
  BY <1>27 DEF Exit, Die
<1>28. ASSUME Boot PROVE FolderIsExclusive' /\ FileIsExclusive'
  <2> USE DEF Boot
  <2>1. \A t \in Sessions : Revived(t) => Revived(t)'
    BY <1>28
  <2>2. FolderIsExclusive'
    BY <1>28, <2>1
  <2>3. known' \subseteq Sessions
    BY <1>28
  <2>4. \A t \in Sessions : file[t].status = "running" => folder'[t] = folder[t]
    BY <1>28
  <2> HIDE DEF FolderIsExclusive, FileIsExclusive, Revived
  <2>5. FileIsExclusive'
    <3>1. CASE store' = store
      BY <1>28, <2>1, <2>4, <3>1, FileFrame
    <3>2. CASE Save(known', status', pid', restarts')
      BY <2>1, <2>2, <2>3, <2>4, <3>2, SavedIsExclusive
    <3>3. QED BY <1>28, <3>1, <3>2
  <2>6. QED BY <2>2, <2>5
<1>29. ASSUME NEW s \in Sessions, PollFindsDeath(s)
       PROVE FolderIsExclusive' /\ FileIsExclusive'
  <2> USE DEF PollFindsDeath
  <2>1. FolderIsExclusive'
    BY <1>29
  <2>2. CASE status[s] = "running"
    <3>1. /\ Save(known', status', pid, restarts) /\ known' \subseteq Sessions
          /\ folder' = folder /\ \A t \in Sessions : Revived(t) => Revived(t)'
      BY <1>29, <2>2
    <3> HIDE DEF FolderIsExclusive, FileIsExclusive, Revived
    <3>2. QED BY <2>1, <3>1, SavedIsExclusive
  <2>3. CASE status[s] # "running"
    BY <1>29, <2>3
  <2>4. QED BY <2>1, <2>2, <2>3
<1>30. ASSUME NEW s \in Sessions, PollEnds(s)
       PROVE FolderIsExclusive' /\ FileIsExclusive'
  BY <1>30, FoldersFrame DEF PollEnds
<1>31. CASE UNCHANGED vars
  BY <1>31 DEF vars, mem, poll, store, incs, stops
<1>32. QED
  BY <1>1, <1>2, <1>3, <1>4, <1>5, <1>6, <1>7, <1>8, <1>9, <1>10, <1>11,
     <1>12, <1>13, <1>14, <1>15, <1>16, <1>17, <1>18, <1>19, <1>20, <1>21,
     <1>22, <1>23, <1>24, <1>25, <1>26, <1>27, <1>28, <1>29, <1>30, <1>31 DEF
     Next, StartStep, MonitorStep, TimerStep, ClientStep, PollStep, StopStep,
     Request, World

\* FolderIsExclusive, for every instance: also across crashes and restores.
THEOREM FoldersAreExclusive == Spec => []FolderIsExclusive
<1>1. FoldersInv => FolderIsExclusive
  BY DEF FoldersInv
<1>2. QED
  BY InitFoldersInv, NextFoldersInv, <1>1, PTL DEF Spec

-----------------------------------------------------------------------------
(***************************************************************************)
(* What SessionManager records, for every instance: the status in the      *)
(* state file, and the number of auto-restarts, which is saved only after  *)
(* it has moved.                                                           *)
(***************************************************************************)

\* An incarnation of an auto-restart that has not saved anything yet.
Unsaved(s) ==
  \E k \in Incarnations :
    /\ owner[k] = s /\ origin[k] = "monitor"
    /\ pc[k] \in {"called", "ctx", "spawned", "monitor", "wait", "exited"}

\* DiskKnowsStatus, with the lag of an auto-restart ending at the save of its
\* monitor.
DiskInv ==
  up /\ disk = "saved" => \A s \in Sessions :
    IF s \notin known THEN file[s] = NoEntry ELSE
      \/ file[s].status = status[s]
      \/ status[s] = "running" /\ file[s].status = "crashed" /\ Unsaved(s)
      \/ /\ status[s] = "stopped"
         /\ \E c \in Clients : req[c] = [op |-> "grace", on |-> s]

\* The auto-restarts of a session so far, and the one that its monitor has
\* counted but not made yet.
AutoRestarts(s) == {k \in Incarnations : owner[k] = s /\ origin[k] = "monitor"}
Delayed(s)      == \E k \in Incarnations : owner[k] = s /\ pc[k] = "delay"
Underway(s)     ==
  \E k \in Incarnations : owner[k] = s /\ pc[k] \notin {"unused", "done", "gone"}

\* Of a session that no user restarts, and of which something is under way, the
\* counter in memory has every auto-restart.  After a crash of rcod nothing is,
\* so it does not matter which counter the file has.
CountInv ==
  \A s \in Sessions : ~Restarted(s) =>
    /\ Cardinality(AutoRestarts(s)) <= MaxRestarts
    /\ Underway(s) =>
         Cardinality(AutoRestarts(s)) + (IF Delayed(s) THEN 1 ELSE 0) <= restarts[s]

-----------------------------------------------------------------------------
(* The state file.                                                         *)

\* A save that fails promises nothing, and any other brings the file up to date.
LEMMA SaveRecordsStatus ==
  ASSUME NEW pd, NEW rs, Save(known', status', pd, rs)
  PROVE  DiskInv'
  BY DEF DiskInv, Save, Snapshot

LEMMA NextDiskInv == LinksInv /\ DiskInv /\ [Next]_vars => DiskInv'
<1> SUFFICES ASSUME LinksInv, DiskInv, [Next]_vars PROVE DiskInv'
  OBVIOUS
<1> USE DEF mem, poll, store, incs, stops
<1>0. /\ owner \in [Incarnations -> Sessions \cup {None}]
      /\ origin \in [Incarnations -> {"none", "start", "restart", "monitor"}]
      /\ pc \in [Incarnations -> Places] /\ req \in [Clients -> Requests]
      /\ status \in [Sessions -> Statuses \cup {"none"}]
      /\ \A k \in Incarnations : pc[k] # "unused" => owner[k] \in Sessions
      /\ \A k \in Incarnations : pc[k] = "unused" => origin[k] = "none"
  BY DEF LinksInv, TypeInv, TypeOK, OwnersKnown
\* A step that saves nothing and does not change what the map says.
<1>a. ASSUME UNCHANGED <<up, known, status, file, disk, owner, origin>>,
             \A k \in Incarnations :
               \/ pc'[k] = pc[k] \/ pc[k] = "delay"
               \/ pc'[k] \in {"ctx", "spawned", "monitor", "wait", "exited"},
             \A c \in Clients : req[c].op = "grace" => req'[c] = req[c]
      PROVE  DiskInv'
  <2>1. \A s \in Sessions : Unsaved(s) => Unsaved(s)'
    BY <1>a DEF Unsaved
  <2>2. \A s \in Sessions, c \in Clients :
          req[c] = [op |-> "grace", on |-> s] => req'[c] = [op |-> "grace", on |-> s]
    BY <1>a
  <2>3. QED BY <1>a, <2>1, <2>2 DEF DiskInv
<1>1. ASSUME NEW s \in Sessions, NEW f \in Folders, NEW k \in Incarnations, Start(s, f, k)
      PROVE DiskInv'
  BY <1>1, SaveRecordsStatus DEF Start
<1>2. ASSUME NEW k \in Incarnations,
             CreateContext(k) \/ Spawn(k) \/ Record(k) \/ MonitorStarts(k) \/ WaitReturns(k)
             \/ MonitorGivesUp(k)
      PROVE DiskInv'
  BY <1>0, <1>2, <1>a
     DEF CreateContext, Spawn, Record, MonitorStarts, WaitReturns, MonitorGivesUp
<1>3. ASSUME NEW k \in Incarnations, SpawnFails(k) PROVE DiskInv'
  BY <1>3, SaveRecordsStatus DEF SpawnFails
<1>4. ASSUME NEW k \in Incarnations,
             ProcessExits(k) \/ TimerCancels(k) \/ TimerFindsNothing(k)
      PROVE DiskInv'
  BY <1>4, <1>a DEF ProcessExits, TimerCancels, TimerFindsNothing
<1>5. ASSUME NEW k \in Incarnations, URLDetected(k) PROVE DiskInv'
  BY <1>5, SaveRecordsStatus DEF URLDetected
<1>6. ASSUME NEW k \in Incarnations, MonitorFindsStopped(k) PROVE DiskInv'
  BY <1>6, SaveRecordsStatus DEF MonitorFindsStopped
\* The counter moves after the save; the status is saved.
<1>7. ASSUME NEW k \in Incarnations, MonitorFindsCrash(k) PROVE DiskInv'
  <2>1. Save(known', status', pid, restarts)
    BY <1>7 DEF MonitorFindsCrash
  <2>2. QED BY <2>1, SaveRecordsStatus
\* The lag begins: the new incarnation has not saved anything.
<1>8. ASSUME NEW k \in Incarnations, NEW j \in Incarnations, MonitorRestarts(k, j)
      PROVE DiskInv'
  <2>0. PICK s \in Sessions : s = owner[k]
    BY <1>0, <1>8 DEF MonitorRestarts
  <2>1. /\ up' = up /\ known' = known /\ file' = file /\ disk' = disk /\ req' = req
        /\ pc[k] = "delay" /\ pc[j] = "unused" /\ j # k
        /\ status[s] = "crashed" /\ s \in Sessions
        /\ status'[s] = "running" /\ \A t \in Sessions \ {s} : status'[t] = status[t]
        /\ owner'[j] = s /\ origin'[j] = "monitor" /\ pc'[j] = "called"
        /\ \A i \in Incarnations \ {j} : owner'[i] = owner[i] /\ origin'[i] = origin[i]
        /\ \A i \in Incarnations \ {j, k} : pc'[i] = pc[i]
    BY <1>0, <1>8, <2>0 DEF MonitorRestarts, CallStartProcess, Fresh
  <2>2. Unsaved(s)'
    BY <2>1 DEF Unsaved
  <2>3. \A t \in Sessions \ {s} : Unsaved(t) => Unsaved(t)'
    BY <2>1 DEF Unsaved
  <2>4. up /\ disk = "saved" /\ s \in known => file[s].status = "crashed"
    BY <2>1 DEF DiskInv
  <2> SUFFICES ASSUME up, disk = "saved", NEW t \in Sessions
               PROVE  IF t \notin known THEN file[t] = NoEntry ELSE
                        \/ file[t].status = status'[t]
                        \/ status'[t] = "running" /\ file[t].status = "crashed" /\ Unsaved(t)'
                        \/ /\ status'[t] = "stopped"
                           /\ \E c \in Clients : req[c] = [op |-> "grace", on |-> t]
    BY <2>1 DEF DiskInv
  <2>5. CASE t = s
    BY <2>1, <2>2, <2>4, <2>5 DEF DiskInv
  <2>6. CASE t # s
    BY <2>1, <2>3, <2>6 DEF DiskInv
  <2>7. QED BY <2>5, <2>6
<1>9. ASSUME NEW c \in Clients, NEW s \in Sessions, Kill(c, s) PROVE DiskInv'
  BY <1>9, SaveRecordsStatus DEF Kill, MarkStopped
<1>10. ASSUME NEW c \in Clients, KillCancels(c) PROVE DiskInv'
  BY <1>0, <1>10, <1>a DEF KillCancels
<1>11. ASSUME NEW k \in Incarnations, TimerKills(k) PROVE DiskInv'
  BY <1>11, SaveRecordsStatus DEF TimerKills, MarkStopped
\* The other lag: Restart says "stopped" until its grace period is over.
<1>12. ASSUME NEW c \in Clients, NEW s \in Sessions, RestartStops(c, s) PROVE DiskInv'
  <2>1. /\ up' = up /\ known' = known /\ file' = file /\ disk' = disk /\ pc' = pc
        /\ owner' = owner /\ origin' = origin
        /\ status'[s] = "stopped" /\ \A t \in Sessions \ {s} : status'[t] = status[t]
        /\ req[c].op = "idle" /\ req'[c] = [op |-> "grace", on |-> s]
        /\ \A d \in Clients \ {c} : req'[d] = req[d]
        /\ s \in known
    BY <1>0, <1>12 DEF RestartStops
  <2>2. \A t \in Sessions : Unsaved(t) => Unsaved(t)'
    BY <2>1 DEF Unsaved
  <2>3. \A t \in Sessions :
          (\E d \in Clients : req[d] = [op |-> "grace", on |-> t])
            => \E d \in Clients : req'[d] = [op |-> "grace", on |-> t]
    BY <2>1
  <2>4. QED BY <2>1, <2>2, <2>3 DEF DiskInv
<1>13. ASSUME NEW c \in Clients, NEW k \in Incarnations, RestartRevives(c, k) PROVE DiskInv'
  BY <1>13, SaveRecordsStatus DEF RestartRevives, Revive
<1>14. ASSUME NEW s \in Sessions, NEW k \in Incarnations, RestartIdleSession(s, k)
       PROVE DiskInv'
  BY <1>14, SaveRecordsStatus DEF RestartIdleSession, Revive
<1>15. CASE StopAll
  BY <1>15, SaveRecordsStatus DEF StopAll
<1>16. ASSUME NEW s \in Sessions, StopAllCancels(s) \/ StopAllWaits(s) PROVE DiskInv'
  BY <1>16, <1>a DEF StopAllCancels, StopAllWaits
<1>17. CASE StopAllWaitReturns
  BY <1>17, <1>a DEF StopAllWaitReturns
<1>18. CASE Crash \/ Exit
  BY <1>18 DEF Crash, Exit, Die, DiskInv
\* With no file to read, Restore writes none.
<1>19. CASE Boot
  <2>1. CASE disk \in {"none", "torn"}
    BY <1>19, <2>1 DEF Boot, DiskInv
  <2>2. CASE disk \notin {"none", "torn"}
    BY <1>19, <2>2, SaveRecordsStatus DEF Boot
  <2>3. QED BY <2>1, <2>2
<1>20. ASSUME NEW s \in Sessions, PollFindsDeath(s) PROVE DiskInv'
  <2>1. CASE status[s] = "running"
    BY <1>20, <2>1, SaveRecordsStatus DEF PollFindsDeath
  <2>2. CASE status[s] # "running"
    BY <1>20, <2>2, <1>a DEF PollFindsDeath
  <2>3. QED BY <2>1, <2>2
<1>21. ASSUME NEW s \in Sessions, PollEnds(s) PROVE DiskInv'
  BY <1>21, <1>a DEF PollEnds
<1>22. CASE UNCHANGED vars
  BY <1>22, <1>a DEF vars
<1>23. QED
  BY <1>1, <1>2, <1>3, <1>4, <1>5, <1>6, <1>7, <1>8, <1>9, <1>10, <1>11, <1>12, <1>13,
     <1>14, <1>15, <1>16, <1>17, <1>18, <1>19, <1>20, <1>21, <1>22
  DEF Next, StartStep, MonitorStep, TimerStep, ClientStep, PollStep, StopStep, Request,
      World

\* DiskKnowsStatus, for every instance: unless the last save has failed, the
\* state file says of every session what the manager knows, but for the two lags
\* it names, whatever calls, failed saves, crashes and restores came before.
THEOREM DiskAlwaysKnowsStatus == Spec => []DiskKnowsStatus
<1>1. Init => DiskInv
  BY DEF Init, DiskInv
<1>2. DiskInv => DiskKnowsStatus
  BY DEF DiskInv, DiskKnowsStatus, Unsaved, Active, Starting, Watching
<1>3. QED
  BY <1>1, <1>2, InitLinksInv, NextLinksInv, NextDiskInv, PTL DEF Spec

-----------------------------------------------------------------------------
(* The auto-restarts.                                                      *)

LEMMA AutoRestartsCounted ==
  ASSUME NEW s \in Sessions
  PROVE  IsFiniteSet(AutoRestarts(s)) /\ Cardinality(AutoRestarts(s)) \in Nat
<1>1. IsFiniteSet(Incarnations)
  BY ConstantsAssumption, FS_Interval DEF Incarnations
<1>2. AutoRestarts(s) \subseteq Incarnations
  BY DEF AutoRestarts
<1>3. QED BY <1>1, <1>2, FS_Subset, FS_CardinalityType

\* A step that starts no incarnation and moves no counter.
LEMMA QuietStepKeepsCount ==
  ASSUME TypeInv, CountInv,
         UNCHANGED <<restarts, owner, origin>>,
         \A k \in Incarnations : pc'[k] = "delay" => pc[k] = "delay",
         \A k \in Incarnations :
           pc'[k] \notin {"unused", "done", "gone"} => pc[k] \notin {"unused", "done", "gone"}
  PROVE  CountInv'
<1> SUFFICES ASSUME NEW s \in Sessions, ~Restarted(s)
             PROVE  /\ Cardinality(AutoRestarts(s))' <= MaxRestarts
                    /\ Underway(s)' =>
                         Cardinality(AutoRestarts(s))' + (IF Delayed(s)' THEN 1 ELSE 0)
                           <= restarts[s]
  BY DEF CountInv, Restarted
<1> DEFINE n == Cardinality(AutoRestarts(s))
<1>1. Cardinality(AutoRestarts(s))' = n /\ n \in Nat
  BY AutoRestartsCounted DEF AutoRestarts
<1>2. (Delayed(s)' => Delayed(s)) /\ (Underway(s)' => Underway(s))
  BY DEF Delayed, Underway
<1>3. /\ n <= MaxRestarts
      /\ Underway(s) => n + (IF Delayed(s) THEN 1 ELSE 0) <= restarts[s]
  BY DEF CountInv
<1>4. restarts[s] \in Nat
  BY ConstantsAssumption DEF TypeInv, TypeOK
<1> HIDE DEF n
<1>5. QED BY <1>1, <1>2, <1>3, <1>4

\* What a step must show that starts an incarnation of s: every other session
\* keeps its count.
LEMMA OthersKeepCount ==
  ASSUME TypeInv, CountInv, NEW k \in Incarnations, pc[k] = "unused",
         NEW t \in Sessions, owner'[k] # t, ~Restarted(t)', restarts'[t] = restarts[t],
         \A i \in Incarnations \ {k} :
           /\ owner'[i] = owner[i] /\ origin'[i] = origin[i]
           /\ pc'[i] = pc[i] \/ pc'[i] = "done"
  PROVE  /\ Cardinality(AutoRestarts(t))' <= MaxRestarts
         /\ Underway(t)' =>
              Cardinality(AutoRestarts(t))' + (IF Delayed(t)' THEN 1 ELSE 0) <= restarts'[t]
<1>1. origin[k] = "none"
  BY DEF TypeInv, OwnersKnown
<1>2. /\ AutoRestarts(t)' = AutoRestarts(t) /\ (Delayed(t)' => Delayed(t))
      /\ (Underway(t)' => Underway(t)) /\ ~Restarted(t)
  BY <1>1 DEF AutoRestarts, Delayed, Underway, Restarted
<1>3. /\ Cardinality(AutoRestarts(t)) <= MaxRestarts
      /\ Underway(t) =>
           Cardinality(AutoRestarts(t)) + (IF Delayed(t) THEN 1 ELSE 0) <= restarts[t]
      /\ Cardinality(AutoRestarts(t)) \in Nat /\ restarts[t] \in Nat
  BY <1>2, AutoRestartsCounted, ConstantsAssumption DEF CountInv, TypeInv, TypeOK
<1>4. QED BY <1>2, <1>3

\* A new session has not been restarted.
LEMMA StartKeepsCount ==
  ASSUME TypeInv, Drawn, CountInv, NEW s \in Sessions, NEW f \in Folders,
         NEW k \in Incarnations, Start(s, f, k)
  PROVE  CountInv'
<1>1. /\ restarts' = restarts
      /\ restarts \in [Sessions -> 0 .. MaxRestarts] /\ MaxRestarts \in Nat
      /\ pc[k] = "unused" /\ owner'[k] = s /\ origin'[k] = "start" /\ pc'[k] = "called"
      /\ \A i \in Incarnations \ {k} :
           owner'[i] = owner[i] /\ origin'[i] = origin[i] /\ pc'[i] = pc[i]
      /\ \A i \in Incarnations : pc[i] # "unused" => owner[i] # s
      /\ \A i \in Incarnations : pc[i] = "unused" => origin[i] = "none"
  BY ConstantsAssumption
     DEF Start, CallStartProcess, Fresh, TypeInv, TypeOK, OwnersKnown, Drawn
<1> SUFFICES ASSUME NEW t \in Sessions, ~Restarted(t)'
             PROVE  /\ Cardinality(AutoRestarts(t))' <= MaxRestarts
                    /\ Underway(t)' =>
                         Cardinality(AutoRestarts(t))' + (IF Delayed(t)' THEN 1 ELSE 0)
                           <= restarts'[t]
  BY DEF CountInv
<1>2. CASE t = s
  <2>1. AutoRestarts(t)' = {} /\ ~Delayed(t)'
    BY <1>1, <1>2 DEF AutoRestarts, Delayed
  <2>2. Cardinality(AutoRestarts(t))' = 0
    BY <2>1, FS_EmptySet
  <2>3. QED BY <1>1, <2>1, <2>2
<1>3. CASE t # s
  BY <1>1, <1>3, OthersKeepCount
<1>4. QED BY <1>2, <1>3

\* The monitor counts the restart it is going to make; no other monitor of the
\* session has counted one.
LEMMA CrashKeepsCount ==
  ASSUME RivalsInv, CountInv, NEW k \in Incarnations, MonitorFindsCrash(k)
  PROVE  CountInv'
<1>1. TypeInv /\ NoRivalsWithoutRestart
  BY DEF RivalsInv, LinksInv
<1>0. PICK s \in Sessions : s = owner[k]
  BY <1>1 DEF TypeInv, OwnersKnown, MonitorFindsCrash
<1>2. /\ owner' = owner /\ origin' = origin /\ pc[k] = "exited"
      /\ \/ restarts' = [restarts EXCEPT ![s] = restarts[s] + 1]
            /\ pc' = [pc EXCEPT ![k] = "delay"]
         \/ restarts' = restarts /\ pc' = [pc EXCEPT ![k] = "done"]
      /\ restarts \in [Sessions -> 0 .. MaxRestarts] /\ MaxRestarts \in Nat
      /\ pc \in [Incarnations -> Places]
  BY <1>0, <1>1, ConstantsAssumption DEF MonitorFindsCrash, TypeInv, TypeOK, OwnersKnown
<1>3. CASE restarts' = restarts /\ pc' = [pc EXCEPT ![k] = "done"]
  BY <1>1, <1>2, <1>3, QuietStepKeepsCount
<1>4. CASE restarts' = [restarts EXCEPT ![s] = restarts[s] + 1]
           /\ pc' = [pc EXCEPT ![k] = "delay"]
  <2>1. ~Restarted(s) => ~Delayed(s)
    <3> SUFFICES ASSUME ~Restarted(s), NEW i \in Incarnations, owner[i] = s, pc[i] = "delay"
                 PROVE  FALSE
      BY DEF Delayed
    <3>1. Active(k) /\ Active(i) /\ i # k
      BY <1>2 DEF Active, Watching
    <3>2. QED BY <1>0, <1>1, <3>1 DEF NoRivalsWithoutRestart
  <2>2. Underway(s)
    BY <1>0, <1>2 DEF Underway
  <2>3. \A t \in Sessions \ {s} : (Delayed(t)' => Delayed(t)) /\ restarts'[t] = restarts[t]
    BY <1>0, <1>2, <1>4 DEF Delayed
  <2>4. restarts'[s] = restarts[s] + 1 /\ \A t \in Sessions : Underway(t)' => Underway(t)
    BY <1>2, <1>4 DEF Underway
  <2> SUFFICES ASSUME NEW t \in Sessions, ~Restarted(t)
               PROVE  /\ Cardinality(AutoRestarts(t)) <= MaxRestarts
                      /\ Underway(t)' =>
                           Cardinality(AutoRestarts(t)) + (IF Delayed(t)' THEN 1 ELSE 0)
                             <= restarts'[t]
    BY <1>2 DEF CountInv, AutoRestarts, Restarted
  <2>5. /\ Cardinality(AutoRestarts(t)) <= MaxRestarts
        /\ Underway(t) =>
             Cardinality(AutoRestarts(t)) + (IF Delayed(t) THEN 1 ELSE 0) <= restarts[t]
        /\ Cardinality(AutoRestarts(t)) \in Nat /\ restarts[t] \in Nat
    BY <1>2, AutoRestartsCounted DEF CountInv
  <2>6. CASE t = s
    BY <2>1, <2>2, <2>4, <2>5, <2>6
  <2>7. CASE t # s
    BY <2>3, <2>4, <2>5, <2>7
  <2>8. QED BY <2>6, <2>7
<1>5. QED BY <1>2, <1>3, <1>4

\* The restart that was counted is made.
LEMMA AutoRestartKeepsCount ==
  ASSUME RivalsInv, CountInv, NEW k \in Incarnations, NEW j \in Incarnations,
         MonitorRestarts(k, j)
  PROVE  CountInv'
<1>1. TypeInv /\ NoRivalsWithoutRestart
  BY DEF RivalsInv, LinksInv
<1>0. PICK s \in Sessions : s = owner[k]
  BY <1>1 DEF TypeInv, OwnersKnown, MonitorRestarts
<1>2. /\ restarts' = restarts /\ pc[k] = "delay" /\ pc'[k] = "done"
      /\ j # k /\ pc[j] = "unused" /\ pc'[j] = "called"
      /\ origin[j] = "none" /\ owner'[j] = s /\ origin'[j] = "monitor"
      /\ \A i \in Incarnations \ {j} : owner'[i] = owner[i] /\ origin'[i] = origin[i]
      /\ \A i \in Incarnations \ {j, k} : pc'[i] = pc[i]
      /\ restarts \in [Sessions -> 0 .. MaxRestarts] /\ MaxRestarts \in Nat
  BY <1>0, <1>1, ConstantsAssumption
     DEF MonitorRestarts, CallStartProcess, Fresh, TypeInv, TypeOK, OwnersKnown
<1> SUFFICES ASSUME NEW t \in Sessions, ~Restarted(t)'
             PROVE  /\ Cardinality(AutoRestarts(t))' <= MaxRestarts
                    /\ Underway(t)' =>
                         Cardinality(AutoRestarts(t))' + (IF Delayed(t)' THEN 1 ELSE 0)
                           <= restarts'[t]
  BY DEF CountInv
<1>3. CASE t = s
  <2>1. ~Restarted(s) /\ Delayed(s) /\ Underway(s)
    BY <1>0, <1>2, <1>3 DEF Restarted, Delayed, Underway
  <2>2. ~Delayed(s)'
    <3> SUFFICES ASSUME NEW i \in Incarnations, owner'[i] = s, pc'[i] = "delay"
                 PROVE  FALSE
      BY <1>2 DEF Delayed
    <3>1. i # j /\ i # k /\ owner[i] = s /\ pc[i] = "delay"
      BY <1>2
    <3>2. Active(i) /\ Active(k)
      BY <1>2, <3>1 DEF Active
    <3>3. QED BY <1>0, <1>1, <2>1, <3>1, <3>2 DEF NoRivalsWithoutRestart
  <2>3. AutoRestarts(s)' = AutoRestarts(s) \cup {j} /\ j \notin AutoRestarts(s)
    BY <1>2 DEF AutoRestarts
  <2>4. Cardinality(AutoRestarts(s))' = Cardinality(AutoRestarts(s)) + 1
    BY <1>2, <2>3, AutoRestartsCounted, FS_AddElement
  <2>5. Cardinality(AutoRestarts(s)) + 1 <= restarts[s]
        /\ restarts[s] \in 0 .. MaxRestarts /\ Cardinality(AutoRestarts(s)) \in Nat
    BY <1>2, <2>1, AutoRestartsCounted DEF CountInv
  <2>6. QED BY <1>2, <1>3, <2>2, <2>4, <2>5
<1>4. CASE t # s
  BY <1>1, <1>2, <1>4, OthersKeepCount
<1>5. QED BY <1>3, <1>4

\* A session that a user restarts is no longer counted.
LEMMA ReviveKeepsCount ==
  ASSUME TypeInv, CountInv, NEW s \in Sessions, NEW k \in Incarnations, Revive(s, k)
  PROVE  CountInv'
<1>1. /\ \A t \in Sessions \ {s} : restarts'[t] = restarts[t]
      /\ pc[k] = "unused" /\ owner'[k] = s /\ origin'[k] = "restart"
      /\ \A i \in Incarnations \ {k} :
           owner'[i] = owner[i] /\ origin'[i] = origin[i] /\ pc'[i] = pc[i]
  BY DEF Revive, CallStartProcess, Fresh, TypeInv, TypeOK
<1> SUFFICES ASSUME NEW t \in Sessions, ~Restarted(t)'
             PROVE  /\ Cardinality(AutoRestarts(t))' <= MaxRestarts
                    /\ Underway(t)' =>
                         Cardinality(AutoRestarts(t))' + (IF Delayed(t)' THEN 1 ELSE 0)
                           <= restarts'[t]
  BY DEF CountInv
<1>2. t # s
  BY <1>1 DEF Restarted
<1>3. QED BY <1>1, <1>2, OthersKeepCount

\* Nothing is under way in an rcod that has just begun or ended.
LEMMA IdleKeepsCount ==
  ASSUME CountInv, UNCHANGED <<owner, origin>>,
         \A k \in Incarnations : pc'[k] \in {"unused", "gone"}
  PROVE  CountInv'
  BY DEF CountInv, Underway, AutoRestarts, Restarted

LEMMA InitCountInv == Init => CountInv
<1> SUFFICES ASSUME Init, NEW s \in Sessions
             PROVE  Cardinality(AutoRestarts(s)) <= MaxRestarts /\ ~Underway(s)
  BY DEF CountInv
<1>1. AutoRestarts(s) = {} /\ ~Underway(s)
  BY DEF Init, AutoRestarts, Underway
<1>2. QED BY <1>1, FS_EmptySet, ConstantsAssumption

LEMMA NextCountInv == RivalsInv /\ CountInv /\ [Next]_vars => CountInv'
<1> SUFFICES ASSUME RivalsInv, CountInv, [Next]_vars PROVE CountInv'
  OBVIOUS
<1>0. LinksInv /\ TypeInv /\ Drawn
  BY DEF RivalsInv, LinksInv
<1>a. pc \in [Incarnations -> Places]
  BY <1>0 DEF TypeInv, TypeOK
<1> USE DEF mem, incs
<1>1. ASSUME NEW s \in Sessions, NEW f \in Folders, NEW k \in Incarnations, Start(s, f, k)
      PROVE CountInv'
  BY <1>0, <1>1, StartKeepsCount
<1>2. ASSUME NEW k \in Incarnations,
             CreateContext(k) \/ Spawn(k) \/ SpawnFails(k) \/ Record(k) \/ MonitorStarts(k)
             \/ WaitReturns(k) \/ MonitorGivesUp(k) \/ MonitorFindsStopped(k)
      PROVE CountInv'
  BY <1>0, <1>a, <1>2, QuietStepKeepsCount
     DEF CreateContext, Spawn, SpawnFails, Record, MonitorStarts, WaitReturns,
         MonitorGivesUp, MonitorFindsStopped
<1>3. ASSUME NEW k \in Incarnations,
             ProcessExits(k) \/ URLDetected(k) \/ TimerKills(k) \/ TimerCancels(k)
             \/ TimerFindsNothing(k)
      PROVE CountInv'
  BY <1>0, <1>3, QuietStepKeepsCount
     DEF ProcessExits, URLDetected, TimerKills, TimerCancels, TimerFindsNothing
<1>4. ASSUME NEW k \in Incarnations, MonitorFindsCrash(k) PROVE CountInv'
  BY <1>4, CrashKeepsCount
<1>5. ASSUME NEW k \in Incarnations, NEW j \in Incarnations, MonitorRestarts(k, j)
      PROVE CountInv'
  BY <1>5, AutoRestartKeepsCount
<1>6. ASSUME NEW c \in Clients, NEW s \in Sessions, Kill(c, s) \/ RestartStops(c, s)
      PROVE CountInv'
  BY <1>0, <1>6, QuietStepKeepsCount DEF Kill, RestartStops
<1>7. ASSUME NEW c \in Clients, KillCancels(c) PROVE CountInv'
  BY <1>0, <1>7, QuietStepKeepsCount DEF KillCancels
<1>8. ASSUME NEW c \in Clients, NEW k \in Incarnations, RestartRevives(c, k) PROVE CountInv'
  <2>1. req[c].on \in Sessions /\ Revive(req[c].on, k)
    BY <1>0, <1>8 DEF RestartRevives, TypeInv, RequestsKnown
  <2>2. QED BY <1>0, <2>1, ReviveKeepsCount
<1>9. ASSUME NEW s \in Sessions, NEW k \in Incarnations, RestartIdleSession(s, k)
      PROVE CountInv'
  <2>1. Revive(s, k)
    BY <1>9 DEF RestartIdleSession
  <2>2. QED BY <1>0, <2>1, ReviveKeepsCount
<1>10. CASE StopAll
  BY <1>0, <1>10, QuietStepKeepsCount DEF StopAll
<1>11. ASSUME NEW s \in Sessions, StopAllCancels(s) \/ StopAllWaits(s) PROVE CountInv'
  BY <1>0, <1>11, QuietStepKeepsCount DEF StopAllCancels, StopAllWaits
<1>12. CASE StopAllWaitReturns
  BY <1>0, <1>12, QuietStepKeepsCount DEF StopAllWaitReturns
<1>13. CASE Crash \/ Exit
  BY <1>13, IdleKeepsCount DEF Crash, Exit, Die
<1>14. CASE Boot
  BY <1>0, <1>14, IdleKeepsCount DEF Boot, LinksInv, NothingLeft
<1>15. ASSUME NEW s \in Sessions, PollFindsDeath(s) \/ PollEnds(s) PROVE CountInv'
  BY <1>0, <1>15, QuietStepKeepsCount DEF PollFindsDeath, PollEnds
<1>16. CASE UNCHANGED vars
  BY <1>0, <1>16, QuietStepKeepsCount DEF vars
<1>17. QED
  BY <1>1, <1>2, <1>3, <1>4, <1>5, <1>6, <1>7, <1>8, <1>9, <1>10, <1>11, <1>12, <1>13,
     <1>14, <1>15, <1>16
  DEF Next, StartStep, MonitorStep, TimerStep, ClientStep, PollStep, StopStep, Request,
      World

\* AutoRestartsAreBounded, for every instance: though the counter is saved only
\* after it has moved, and saves fail, no crash of rcod lets a session that
\* nobody restarts come back with restarts that it has already used.
THEOREM AutoRestartsStayBounded == Spec => []AutoRestartsAreBounded
<1>1. CountInv => AutoRestartsAreBounded
  BY DEF CountInv, AutoRestartsAreBounded, AutoRestarts
<1>2. QED
  BY <1>1, InitRivalsInv, NextRivalsInv, InitCountInv, NextCountInv, PTL DEF Spec

===============================================================================
