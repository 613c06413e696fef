--------------------------- MODULE ChatCore_proofs ----------------------------
(***************************************************************************)
(* Theorems about ChatCore, for every number of sessions, requests and     *)
(* messages: its types, one request at a time per session, the fate of the *)
(* busy events, the rollbacks, and that it implements RequestLock.         *)
(***************************************************************************)
EXTENDS ChatCore, SequenceTheorems, TLAPS

\* A request that has begun names its session, which has been drawn.
RequestsPlaced ==
  /\ \A r \in Requests : pc[r] # "idle" => on[r] \in drawn
  /\ \A r \in Requests : on[r] # NoSession <=> pc[r] # "idle"
  /\ ~up => \A r \in Requests : pc[r] \in {"idle", "done"}

\* The state file is one that a save wrote, of a map that held its active
\* session.
FileSound ==
  /\ file.ids \subseteq drawn
  /\ \A s \in Sessions : Len(file.msgs[s]) <= MaxMessages
  /\ IF file.ids = {} THEN file.active = NoSession ELSE file.active \in file.ids

\* Outside the map nothing is busy, and nothing is in it while rcod is down.
MapSound ==
  /\ \A s \in Sessions \ live : ~busy[s]
  /\ ~up => live = {} /\ active = NoSession /\ \A s \in Sessions : ~busy[s] /\ ~shown[s]

TypeInv == TypeOK /\ RequestsPlaced /\ FileSound /\ MapSound

-----------------------------------------------------------------------------
(* Types.                                                                  *)

Histories == {q \in Seq(Messages) : Len(q) <= MaxMessages}

\* Appending keeps a history a history.
LEMMA AppendType ==
  ASSUME NEW q \in Seq(Messages), NEW m \in Messages
  PROVE  AppendMessageWithLimit(q, m) \in Histories
<1> DEFINE all == Append(q, m)
<1>1. all \in Seq(Messages) /\ Len(all) \in Nat
  OBVIOUS
<1>2. CASE Len(all) > MaxMessages
  <2> DEFINE cut == SubSeq(all, Len(all) - MaxMessages + 1, Len(all))
  <2>1. Len(all) - MaxMessages + 1 \in 1 .. Len(all) + 1 /\ MaxMessages \in Nat
    BY <1>1, <1>2, ChatAssumption
  <2> HIDE DEF all
  <2>2. cut \in Seq(Messages) /\ Len(cut) = MaxMessages
    BY <1>1, <2>1, SubSeqProperties
  <2>3. QED BY <1>2, <2>1, <2>2 DEF AppendMessageWithLimit, Histories, all
<1>3. CASE ~(Len(all) > MaxMessages)
  BY <1>1, <1>3, ChatAssumption DEF AppendMessageWithLimit, Histories
<1>4. QED BY <1>2, <1>3

\* What a save writes is a state, and a sound one if the map is.
LEMMA SavedType ==
  ASSUME NEW ids \in SUBSET Sessions, NEW act \in Sessions \cup {NoSession},
         NEW ms \in [Sessions -> Seq(Messages)],
         \A s \in Sessions : Len(ms[s]) <= MaxMessages
  PROVE  /\ Saved(ids, act, ms) \in States
         /\ \A s \in Sessions : Len(Saved(ids, act, ms).msgs[s]) <= MaxMessages
  BY ChatAssumption DEF Saved, States

LEMMA EmptyHistory == <<>> \in Seq(Messages) /\ Len(<<>>) = 0 /\ 0 <= MaxMessages
  BY ChatAssumption

LEMMA TornType ==
  /\ NoState \in States /\ Torn \in States
  /\ Torn.ids = {} /\ Torn.active = NoSession /\ NoState.ids = {} /\ NoState.active = NoSession
  /\ \A s \in Sessions : Len(Torn.msgs[s]) <= MaxMessages /\ Len(NoState.msgs[s]) <= MaxMessages
<1> DEFINE none == [s \in Sessions |-> <<>>]
<1>1. none \in [Sessions -> Seq(Messages)]
        /\ \A s \in Sessions : Len(none[s]) <= MaxMessages
  BY EmptyHistory
<1>2. NoState = [ids |-> {}, active |-> NoSession, msgs |-> none, torn |-> FALSE]
      /\ Torn = [ids |-> {}, active |-> NoSession, msgs |-> none, torn |-> TRUE]
  BY DEF NoState, Torn, Blank
<1> HIDE DEF none
<1>3. QED BY <1>1, <1>2 DEF States

LEMMA InitTypeInv == Init => TypeInv
<1> SUFFICES ASSUME Init PROVE TypeInv
  OBVIOUS
<1>1. file \in States /\ FileSound
  BY TornType DEF Init, FileSound
<1>2. msgs \in [Sessions -> Seq(Messages)]
        /\ \A s \in Sessions : Len(msgs[s]) <= MaxMessages
  BY EmptyHistory DEF Init
<1>3. TypeOK
  <2>1. up \in BOOLEAN /\ drawn \subseteq Sessions
        /\ live \subseteq drawn /\ earlier \subseteq Requests
    BY DEF Init
  <2>2. active \in Sessions \cup {NoSession}
          /\ on \in [Requests -> Sessions \cup {NoSession}]
    BY DEF Init
  <2>3. busy \in [Sessions -> BOOLEAN] /\ shown \in [Sessions -> BOOLEAN]
    BY DEF Init
  <2>4. boots \in 0 .. MaxBoots
    BY ChatAssumption DEF Init
  <2>5. QED BY <1>1, <1>2, <2>1, <2>2, <2>3, <2>4 DEF Init, TypeOK
<1>4. RequestsPlaced /\ MapSound
  BY DEF Init, RequestsPlaced, MapSound
<1>5. QED BY <1>1, <1>3, <1>4 DEF TypeInv

\* A save, of whatever outcome, leaves a sound file of a sound map.
LEMMA SaveKeepsFile ==
  TypeInv /\ (SaveSucceeds \/ SaveFails)
  /\ live' \subseteq drawn' /\ drawn' \subseteq Sessions /\ drawn \subseteq drawn'
  /\ active' \in Sessions \cup {NoSession}
  /\ (IF live' = {} THEN active' = NoSession ELSE active' \in live')
  /\ msgs' \in [Sessions -> Seq(Messages)]
  /\ (\A s \in Sessions : Len(msgs'[s]) <= MaxMessages)
  => file' \in States /\ FileSound'
<1> SUFFICES ASSUME TypeInv, SaveSucceeds \/ SaveFails,
                    live' \subseteq drawn', drawn' \subseteq Sessions, drawn \subseteq drawn',
                    active' \in Sessions \cup {NoSession},
                    IF live' = {} THEN active' = NoSession ELSE active' \in live',
                    msgs' \in [Sessions -> Seq(Messages)],
                    \A s \in Sessions : Len(msgs'[s]) <= MaxMessages
             PROVE  file' \in States /\ FileSound'
  OBVIOUS
<1>1. CASE file' = file
  BY <1>1 DEF TypeInv, TypeOK, FileSound
<1>2. CASE file' = Torn
  BY <1>2, TornType DEF FileSound
<1>3. CASE SaveSucceeds
  <2>1. file' = Saved(live', active', msgs') /\ live' \subseteq Sessions
    BY <1>3 DEF SaveSucceeds
  <2>2. file' \in States /\ \A s \in Sessions : Len(file'.msgs[s]) <= MaxMessages
    BY <2>1, SavedType
  <2>3. file'.ids = live' /\ file'.active = active'
    BY <2>1 DEF Saved
  <2>4. QED BY <2>2, <2>3 DEF FileSound
<1>4. QED BY <1>1, <1>2, <1>3 DEF SaveFails

LEMMA NextTypeInv == TypeInv /\ ActiveIsLive /\ [Next]_vars => TypeInv' /\ ActiveIsLive'
<1> SUFFICES ASSUME TypeInv, ActiveIsLive, [Next]_vars PROVE TypeInv' /\ ActiveIsLive'
  OBVIOUS
<1> USE ChatAssumption
      DEF TypeInv, TypeOK, RequestsPlaced, FileSound, MapSound, ActiveIsLive, sessions, requests
<1>1. ASSUME NEW s \in Sessions, CreateSession(s) PROVE TypeInv' /\ ActiveIsLive'
  BY <1>1, SaveKeepsFile, TornType, AppendType DEF CreateSession
<1>2. ASSUME NEW s \in Sessions, SetActive(s) PROVE TypeInv' /\ ActiveIsLive'
  BY <1>2, SaveKeepsFile, TornType, AppendType DEF SetActive
<1>3. ASSUME NEW s \in Sessions, DeleteSession(s) PROVE TypeInv' /\ ActiveIsLive'
  <2> USE DEF DeleteSession, Promote
  <2>1. msgs' \in [Sessions -> Seq(Messages)]
          /\ \A t \in Sessions : Len(msgs'[t]) <= MaxMessages
    <3> DEFINE nothing == <<>>
    <3>1. nothing \in Seq(Messages) /\ Len(nothing) <= MaxMessages
      BY EmptyHistory
    <3>2. msgs' = msgs \/ msgs' = [msgs EXCEPT ![s] = nothing]
      BY <1>3
    <3>3. msgs \in [Sessions -> Seq(Messages)]
            /\ \A t \in Sessions : Len(msgs[t]) <= MaxMessages
      OBVIOUS
    <3> HIDE DEF nothing, TypeInv, TypeOK, DeleteSession
    <3>4. \A t \in Sessions : msgs'[t] = msgs[t] \/ msgs'[t] = nothing
      BY <3>2, <3>3
    <3>5. msgs' \in [Sessions -> Seq(Messages)]
      BY <3>1, <3>2, <3>3
    <3>6. QED BY <3>1, <3>3, <3>4, <3>5
  <2>2. active' \in Sessions \cup {NoSession} /\ ActiveIsLive'
    BY <1>3
  <2>3. file' \in States /\ FileSound'
    BY <1>3, <2>1, <2>2, SaveKeepsFile
  <2>4. QED BY <1>3, <2>1, <2>2, <2>3
<1>4. ASSUME NEW r \in Requests, NEW s \in Sessions, BeginRequest(r, s)
      PROVE TypeInv' /\ ActiveIsLive'
  <2> USE DEF BeginRequest, Free
  <2>1. on'[r] \in Sessions /\ Message(r, "user") \in Messages
    BY <1>4 DEF Message, Messages
  <2>2. AppendMessageWithLimit(msgs[on'[r]], Message(r, "user")) \in Histories
    BY <2>1, AppendType
  <2>3. msgs' \in [Sessions -> Seq(Messages)]
          /\ \A t \in Sessions : Len(msgs'[t]) <= MaxMessages
    BY <1>4, <2>1, <2>2 DEF Histories
  <2>4. QED BY <1>4, <2>1, <2>3
<1>5. ASSUME NEW r \in Requests, EmitBusy(r) PROVE TypeInv' /\ ActiveIsLive'
  BY <1>5, SaveKeepsFile, TornType, AppendType DEF EmitBusy
<1>6. ASSUME NEW r \in Requests, Complete(r) PROVE TypeInv' /\ ActiveIsLive'
  <2> USE DEF Complete
  <2>1. on'[r] \in Sessions /\ Message(r, "assistant") \in Messages
    BY <1>6 DEF Message, Messages
  <2>2. AppendMessageWithLimit(msgs[on'[r]], Message(r, "assistant")) \in Histories
    BY <2>1, AppendType
  <2>3. msgs' \in [Sessions -> Seq(Messages)]
          /\ \A s \in Sessions : Len(msgs'[s]) <= MaxMessages
    BY <1>6, <2>1, <2>2 DEF Histories
  <2>4. file' \in States /\ FileSound'
    BY <1>6, <2>3, SaveKeepsFile
  <2>5. QED BY <1>6, <2>1, <2>3, <2>4
<1>7. ASSUME NEW r \in Requests, CompleteDeleted(r) PROVE TypeInv' /\ ActiveIsLive'
  BY <1>7, SaveKeepsFile, TornType, AppendType DEF CompleteDeleted
<1>8. ASSUME NEW r \in Requests, EmitIdle(r) PROVE TypeInv' /\ ActiveIsLive'
  BY <1>8, SaveKeepsFile, TornType, AppendType DEF EmitIdle
<1>9. ASSUME Shutdown PROVE TypeInv' /\ ActiveIsLive'
  BY <1>9, SaveKeepsFile, TornType, AppendType DEF Shutdown
<1>10. ASSUME WaitReturns PROVE TypeInv' /\ ActiveIsLive'
  BY <1>10, SaveKeepsFile, TornType, AppendType DEF WaitReturns
<1>11. ASSUME Crash PROVE TypeInv' /\ ActiveIsLive'
  <2> USE DEF Crash, Die
  <2>1. file' \in States /\ (file' = file \/ file' = Torn)
    BY <1>11, TornType
  <2>2. FileSound'
    BY <1>11, <2>1, TornType
  <2>3. msgs' \in [Sessions -> Seq(Messages)]
          /\ \A s \in Sessions : Len(msgs'[s]) <= MaxMessages
    BY <1>11, EmptyHistory
  <2>4. QED BY <1>11, <2>1, <2>2, <2>3
<1>12. ASSUME CrashInSave PROVE TypeInv' /\ ActiveIsLive'
  <2> USE DEF CrashInSave, Die
  <2>1. file' \in States /\ (file' = file \/ file' = Torn)
    BY <1>12, TornType
  <2>2. FileSound'
    BY <1>12, <2>1, TornType
  <2>3. msgs' \in [Sessions -> Seq(Messages)]
          /\ \A s \in Sessions : Len(msgs'[s]) <= MaxMessages
    BY <1>12, EmptyHistory
  <2>4. QED BY <1>12, <2>1, <2>2, <2>3
<1>13. ASSUME Exit PROVE TypeInv' /\ ActiveIsLive'
  <2> USE DEF Exit, Die
  <2>1. file' \in States /\ (file' = file \/ file' = Torn)
    BY <1>13, TornType
  <2>2. FileSound'
    BY <1>13, <2>1, TornType
  <2>3. msgs' \in [Sessions -> Seq(Messages)]
          /\ \A s \in Sessions : Len(msgs'[s]) <= MaxMessages
    BY <1>13, EmptyHistory
  <2>4. QED BY <1>13, <2>1, <2>2, <2>3
<1>14. ASSUME Boot PROVE TypeInv' /\ ActiveIsLive'
  <2> USE DEF Boot
  <2>1. file.ids \subseteq Sessions /\ file.active \in Sessions \cup {NoSession}
        /\ file.msgs \in [Sessions -> Seq(Messages)]
    BY <1>14 DEF States
  <2>2. QED BY <1>14, <2>1
<1>15. CASE UNCHANGED vars
  BY <1>15 DEF vars, sessions, requests
<1>16. QED
  BY <1>1, <1>2, <1>3, <1>4, <1>5, <1>6, <1>7, <1>8, <1>9, <1>10, <1>11,
     <1>12, <1>13, <1>14, <1>15 DEF Next, SessionStep, RequestStep,
     ProcessStep

\* TypeOK, for every instance.
THEOREM TypeCorrect == Spec => []TypeOK
<1>1. Init => TypeInv /\ ActiveIsLive
  BY InitTypeInv DEF Init, ActiveIsLive
<1>2. TypeInv => TypeOK
  BY DEF TypeInv
<1>3. QED
  BY <1>1, <1>2, NextTypeInv, PTL DEF Spec

\* ActiveIsLive, for every instance: whatever is created, deleted, rolled back
\* or restored, one of the sessions is active.
THEOREM ActiveAlwaysLive == Spec => []ActiveIsLive
<1>1. Init => TypeInv /\ ActiveIsLive
  BY InitTypeInv DEF Init, ActiveIsLive
<1>2. QED
  BY <1>1, NextTypeInv, PTL DEF Spec

-----------------------------------------------------------------------------
(* One request at a time.                                                  *)

CoreInv == TypeInv /\ ActiveIsLive /\ BusyIsOwned

LEMMA InitCoreInv == Init => CoreInv
  BY InitTypeInv DEF Init, CoreInv, ActiveIsLive, BusyIsOwned

LEMMA NextCoreInv == CoreInv /\ [Next]_vars => CoreInv'
<1> SUFFICES ASSUME CoreInv, [Next]_vars PROVE BusyIsOwned'
  BY NextTypeInv DEF CoreInv
<1> USE
  DEF CoreInv, TypeInv, TypeOK, RequestsPlaced, FileSound, MapSound, BusyIsOwned, InFlight,
        sessions, requests
<1>1. ASSUME NEW s \in Sessions, CreateSession(s) PROVE BusyIsOwned'
  BY <1>1 DEF CreateSession
<1>2. ASSUME NEW s \in Sessions, SetActive(s) PROVE BusyIsOwned'
  BY <1>2 DEF SetActive
<1>3. ASSUME NEW s \in Sessions, DeleteSession(s) PROVE BusyIsOwned'
  BY <1>3 DEF DeleteSession, Promote
<1>4. ASSUME NEW r \in Requests, NEW s \in Sessions, BeginRequest(r, s)
      PROVE BusyIsOwned'
  <2> USE DEF BeginRequest, Free
  <2>1. ~InFlight(r) /\ on'[r] = s /\ pc'[r] = "begun" /\ live' = live /\ ~busy[s]
    BY <1>4
  <2>2. \A q \in Requests \ {r} : on'[q] = on[q] /\ pc'[q] = pc[q]
    BY <1>4
  <2>3. \A t \in Sessions \ {s} : busy'[t] = busy[t]
    BY <1>4
  <2>4. busy'[s] /\ s \in live
    BY <1>4
  <2>5. \A q \in Requests : InFlight(q) => on[q] # s
    BY <2>1, <2>4
  <2> HIDE
    DEF BeginRequest, Free, TypeOK, CoreInv, TypeInv, MapSound, FileSound, RequestsPlaced
  <2>6. BusyIsOwned /\ live \subseteq Sessions
    BY DEF CoreInv, TypeInv, TypeOK
  <2>7. QED BY <2>1, <2>2, <2>3, <2>4, <2>5, <2>6
<1>5. ASSUME NEW r \in Requests, EmitBusy(r) PROVE BusyIsOwned'
  BY <1>5 DEF EmitBusy
<1>6. ASSUME NEW r \in Requests, Complete(r) PROVE BusyIsOwned'
  BY <1>6 DEF Complete
<1>7. ASSUME NEW r \in Requests, CompleteDeleted(r) PROVE BusyIsOwned'
  BY <1>7 DEF CompleteDeleted
<1>8. ASSUME NEW r \in Requests, EmitIdle(r) PROVE BusyIsOwned'
  BY <1>8 DEF EmitIdle
<1>9. ASSUME Shutdown PROVE BusyIsOwned'
  BY <1>9 DEF Shutdown
<1>10. ASSUME WaitReturns PROVE BusyIsOwned'
  BY <1>10 DEF WaitReturns
<1>11. ASSUME Crash PROVE BusyIsOwned'
  BY <1>11 DEF Crash, Die
<1>12. ASSUME CrashInSave PROVE BusyIsOwned'
  BY <1>12 DEF CrashInSave, Die
<1>13. ASSUME Exit PROVE BusyIsOwned'
  BY <1>13 DEF Exit, Die
<1>14. ASSUME Boot PROVE BusyIsOwned'
  BY <1>14 DEF Boot
<1>15. CASE UNCHANGED vars
  BY <1>15 DEF vars, sessions, requests
<1>16. QED
  BY <1>1, <1>2, <1>3, <1>4, <1>5, <1>6, <1>7, <1>8, <1>9, <1>10, <1>11,
     <1>12, <1>13, <1>14, <1>15 DEF Next, SessionStep, RequestStep,
     ProcessStep

\* BusyIsOwned, for every instance.
THEOREM OneRequestAtATime == Spec => []BusyIsOwned
<1>1. CoreInv => BusyIsOwned
  BY DEF CoreInv
<1>2. QED
  BY InitCoreInv, NextCoreInv, <1>1, PTL DEF Spec

-----------------------------------------------------------------------------
(* Rollbacks.                                                              *)

LEMMA NextDiskKnowsSessions ==
  CoreInv /\ DiskKnowsSessions /\ [Next]_vars => DiskKnowsSessions'
<1> SUFFICES ASSUME CoreInv, DiskKnowsSessions, [Next]_vars PROVE DiskKnowsSessions'
  OBVIOUS
<1>0. Torn.torn
  BY DEF Torn, Blank
<1> USE <1>0
      DEF CoreInv, TypeInv, TypeOK, RequestsPlaced, FileSound, MapSound, DiskKnowsSessions,
        SaveSucceeds, SaveFails, Saved, sessions, requests
<1>1. ASSUME NEW s \in Sessions, CreateSession(s) PROVE DiskKnowsSessions'
  BY <1>1 DEF CreateSession
<1>2. ASSUME NEW s \in Sessions, SetActive(s) PROVE DiskKnowsSessions'
  BY <1>2 DEF SetActive
<1>3. ASSUME NEW s \in Sessions, DeleteSession(s) PROVE DiskKnowsSessions'
  BY <1>3 DEF DeleteSession
<1>4. ASSUME NEW r \in Requests, NEW s \in Sessions, BeginRequest(r, s)
      PROVE DiskKnowsSessions'
  BY <1>4 DEF BeginRequest
<1>5. ASSUME NEW r \in Requests, EmitBusy(r) PROVE DiskKnowsSessions'
  BY <1>5 DEF EmitBusy
<1>6. ASSUME NEW r \in Requests, Complete(r) PROVE DiskKnowsSessions'
  BY <1>6 DEF Complete
<1>7. ASSUME NEW r \in Requests, CompleteDeleted(r) PROVE DiskKnowsSessions'
  BY <1>7 DEF CompleteDeleted
<1>8. ASSUME NEW r \in Requests, EmitIdle(r) PROVE DiskKnowsSessions'
  BY <1>8 DEF EmitIdle
<1>9. ASSUME Shutdown PROVE DiskKnowsSessions'
  BY <1>9 DEF Shutdown
<1>10. ASSUME WaitReturns PROVE DiskKnowsSessions'
  BY <1>10 DEF WaitReturns
<1>11. ASSUME Crash PROVE DiskKnowsSessions'
  BY <1>11 DEF Crash, Die
<1>12. ASSUME CrashInSave PROVE DiskKnowsSessions'
  BY <1>12 DEF CrashInSave, Die
<1>13. ASSUME Exit PROVE DiskKnowsSessions'
  BY <1>13 DEF Exit, Die
<1>14. ASSUME Boot PROVE DiskKnowsSessions'
  BY <1>14 DEF Boot
<1>15. CASE UNCHANGED vars
  BY <1>15 DEF vars, sessions, requests
<1>16. QED
  BY <1>1, <1>2, <1>3, <1>4, <1>5, <1>6, <1>7, <1>8, <1>9, <1>10, <1>11,
     <1>12, <1>13, <1>14, <1>15 DEF Next, SessionStep, RequestStep,
     ProcessStep

\* DiskKnowsSessions, for every instance: the rollbacks leave no session on
\* disk that the map has not, and none in the map that is not on disk.
THEOREM DiskIsRolledBack == Spec => []DiskKnowsSessions
<1>1. Init => DiskKnowsSessions
  BY DEF Init, DiskKnowsSessions
<1>2. QED
  BY <1>1, InitCoreInv, NextCoreInv, NextDiskKnowsSessions, PTL DEF Spec

-----------------------------------------------------------------------------
(* Events and shutdown.                                                    *)

\* A session shown busy has a request that will still show it idle.
ShownHasRequest ==
  \A s \in Sessions : shown[s] =>
    \E r \in Requests : on[r] = s /\ pc[r] \in {"running", "completed"}

\* The only request a session ever had is shown while it runs.
FirstIsShown ==
  \A s \in Sessions : \A r \in Requests :
    pc[r] = "running" /\ on[r] = s /\ (\A q \in Requests : on[q] = s => q = r)
      => shown[s]

LEMMA NextView ==
  CoreInv /\ ShownHasRequest /\ FirstIsShown /\ [Next]_vars
    => ShownHasRequest' /\ FirstIsShown'
<1> SUFFICES ASSUME CoreInv, ShownHasRequest, FirstIsShown, [Next]_vars
             PROVE  ShownHasRequest' /\ FirstIsShown'
  OBVIOUS
<1> USE ChatAssumption
      DEF CoreInv, TypeInv, TypeOK, RequestsPlaced, MapSound, ShownHasRequest, FirstIsShown,
        sessions, requests
<1>1. ASSUME NEW s \in Sessions, CreateSession(s)
      PROVE ShownHasRequest' /\ FirstIsShown'
  BY <1>1 DEF CreateSession
<1>2. ASSUME NEW s \in Sessions, SetActive(s) PROVE ShownHasRequest' /\ FirstIsShown'
  BY <1>2 DEF SetActive
<1>3. ASSUME NEW s \in Sessions, DeleteSession(s)
      PROVE ShownHasRequest' /\ FirstIsShown'
  BY <1>3 DEF DeleteSession
<1>4. ASSUME NEW r \in Requests, NEW s \in Sessions, BeginRequest(r, s)
      PROVE ShownHasRequest' /\ FirstIsShown'
  <2> USE DEF BeginRequest, Free
  <2>1. on[r] = NoSession /\ on'[r] = s /\ pc'[r] = "begun" /\ shown' = shown
    BY <1>4
  <2>2. \A q \in Requests \ {r} : on'[q] = on[q] /\ pc'[q] = pc[q]
    BY <1>4
  <2>3. ShownHasRequest'
    BY <2>1, <2>2, <1>4
  <2>4. FirstIsShown'
    <3> SUFFICES ASSUME NEW t \in Sessions, NEW q \in Requests, pc'[q] = "running", on'[q] = t,
                        \A x \in Requests : on'[x] = t => x = q
                 PROVE  shown[t]
      BY <2>1
    <3>1. q # r /\ pc[q] = "running" /\ on[q] = t
      BY <2>1, <2>2
    <3>2. t # NoSession
      BY ChatAssumption
    <3>3. ASSUME NEW x \in Requests, on[x] = t PROVE x = q
      <4>1. x # r
        BY <2>1, <3>2, <3>3
      <4>2. on'[x] = t
        BY <2>2, <3>3, <4>1
      <4>3. QED BY <4>2
    <3>4. QED BY <3>1, <3>3
  <2>5. QED BY <2>3, <2>4
<1>5. ASSUME NEW r \in Requests, EmitBusy(r) PROVE ShownHasRequest' /\ FirstIsShown'
  BY <1>5 DEF EmitBusy
<1>6. ASSUME NEW r \in Requests, Complete(r) PROVE ShownHasRequest' /\ FirstIsShown'
  BY <1>6 DEF Complete
<1>7. ASSUME NEW r \in Requests, CompleteDeleted(r)
      PROVE ShownHasRequest' /\ FirstIsShown'
  BY <1>7 DEF CompleteDeleted
<1>8. ASSUME NEW r \in Requests, EmitIdle(r) PROVE ShownHasRequest' /\ FirstIsShown'
  BY <1>8 DEF EmitIdle
<1>9. ASSUME Shutdown PROVE ShownHasRequest' /\ FirstIsShown'
  BY <1>9 DEF Shutdown
<1>10. ASSUME WaitReturns PROVE ShownHasRequest' /\ FirstIsShown'
  BY <1>10 DEF WaitReturns
<1>11. ASSUME Crash PROVE ShownHasRequest' /\ FirstIsShown'
  BY <1>11 DEF Crash, Die
<1>12. ASSUME CrashInSave PROVE ShownHasRequest' /\ FirstIsShown'
  BY <1>12 DEF CrashInSave, Die
<1>13. ASSUME Exit PROVE ShownHasRequest' /\ FirstIsShown'
  BY <1>13 DEF Exit, Die
<1>14. ASSUME Boot PROVE ShownHasRequest' /\ FirstIsShown'
  BY <1>14 DEF Boot
<1>15. CASE UNCHANGED vars
  BY <1>15 DEF vars, sessions, requests
<1>16. QED
  BY <1>1, <1>2, <1>3, <1>4, <1>5, <1>6, <1>7, <1>8, <1>9, <1>10, <1>11,
     <1>12, <1>13, <1>14, <1>15 DEF Next, SessionStep, RequestStep,
     ProcessStep

\* ViewSettles, for every instance: no session stays shown busy for ever.
THEOREM ViewsSettle == Spec => []ViewSettles
<1>1. Init => ShownHasRequest /\ FirstIsShown
  BY DEF Init, ShownHasRequest, FirstIsShown
<1>2. ShownHasRequest /\ FirstIsShown => ViewSettles
  BY DEF ShownHasRequest, FirstIsShown, ViewSettles
<1>3. QED
  BY <1>1, <1>2, InitCoreInv, NextCoreInv, NextView, PTL DEF Spec

\* The requests that Shutdown waits for have begun, and have a result once
\* Complete is through with them.
EarlierRequests ==
  /\ up => \A r \in Requests : pc[r] = "completed" => result[r] # "none"
  /\ \A r \in earlier : pc[r] # "idle" /\ (pc[r] = "done" => result[r] # "none")

ShutdownInv == EarlierRequests /\ ShutdownWaits

LEMMA NextShutdownInv == CoreInv /\ ShutdownInv /\ [Next]_vars => ShutdownInv'
<1> SUFFICES ASSUME CoreInv, ShutdownInv, [Next]_vars PROVE ShutdownInv'
  OBVIOUS
<1> USE
  DEF CoreInv, TypeInv, TypeOK, RequestsPlaced, ShutdownInv, EarlierRequests, ShutdownWaits,
        sessions, requests
<1>1. ASSUME NEW s \in Sessions, CreateSession(s) PROVE ShutdownInv'
  BY <1>1 DEF CreateSession
<1>2. ASSUME NEW s \in Sessions, SetActive(s) PROVE ShutdownInv'
  BY <1>2 DEF SetActive
<1>3. ASSUME NEW s \in Sessions, DeleteSession(s) PROVE ShutdownInv'
  BY <1>3 DEF DeleteSession
<1>4. ASSUME NEW r \in Requests, NEW s \in Sessions, BeginRequest(r, s)
      PROVE ShutdownInv'
  BY <1>4 DEF BeginRequest
<1>5. ASSUME NEW r \in Requests, EmitBusy(r) PROVE ShutdownInv'
  BY <1>5 DEF EmitBusy
<1>6. ASSUME NEW r \in Requests, Complete(r) PROVE ShutdownInv'
  BY <1>6 DEF Complete
<1>7. ASSUME NEW r \in Requests, CompleteDeleted(r) PROVE ShutdownInv'
  BY <1>7 DEF CompleteDeleted
<1>8. ASSUME NEW r \in Requests, EmitIdle(r) PROVE ShutdownInv'
  BY <1>8 DEF EmitIdle
<1>9. ASSUME Shutdown PROVE ShutdownInv'
  BY <1>9 DEF Shutdown
<1>10. ASSUME WaitReturns PROVE ShutdownInv'
  BY <1>10 DEF WaitReturns, Counted
<1>11. ASSUME Crash PROVE ShutdownInv'
  BY <1>11 DEF Crash, Die
<1>12. ASSUME CrashInSave PROVE ShutdownInv'
  BY <1>12 DEF CrashInSave, Die
<1>13. ASSUME Exit PROVE ShutdownInv'
  BY <1>13 DEF Exit, Die
<1>14. ASSUME Boot PROVE ShutdownInv'
  BY <1>14 DEF Boot
<1>15. CASE UNCHANGED vars
  BY <1>15 DEF vars, sessions, requests
<1>16. QED
  BY <1>1, <1>2, <1>3, <1>4, <1>5, <1>6, <1>7, <1>8, <1>9, <1>10, <1>11,
     <1>12, <1>13, <1>14, <1>15 DEF Next, SessionStep, RequestStep,
     ProcessStep

\* ShutdownWaits, for every instance: also when requests begin meanwhile.
THEOREM ShutdownWaitsForSends == Spec => []ShutdownWaits
<1>1. Init => ShutdownInv
  BY DEF Init, ShutdownInv, EarlierRequests, ShutdownWaits
<1>2. ShutdownInv => ShutdownWaits
  BY DEF ShutdownInv
<1>3. QED
  BY <1>1, <1>2, InitCoreInv, NextCoreInv, NextShutdownInv, PTL DEF Spec

-----------------------------------------------------------------------------
(* The core implements RequestLock.                                        *)

Begun == {r \in Requests : pc[r] # "idle"}

\* One session's workers change: the lock's function is updated there.
LEMMA WorkersUpdate ==
  ASSUME NEW s \in Sessions, NEW W, Workers(s)' = W,
         \A t \in Sessions \ {s} : Workers(t)' = Workers(t)
  PROVE  [t \in Sessions |-> Workers(t)]'
           = [[t \in Sessions |-> Workers(t)] EXCEPT ![s] = W]
<1>1. [t \in Sessions |-> Workers(t)]' = [t \in Sessions |-> Workers(t)']
  OBVIOUS
<1>2. \A t \in Sessions :
        Workers(t)' = [[u \in Sessions |-> Workers(u)] EXCEPT ![s] = W][t]
  OBVIOUS
<1>3. QED BY <1>1, <1>2

LEMMA InitLock == Init => Lock!Init
<1> SUFFICES ASSUME Init PROVE Lock!Init
  OBVIOUS
<1>1. \A s \in Sessions : Workers(s) = {}
  BY DEF Init, Workers
<1>2. {r \in Requests : pc[r] # "idle"} = {}
  BY DEF Init
<1>3. QED BY <1>1, <1>2 DEF Init, Lock!Init

\* Every step of the core is a step of the lock, or invisible to it.
LEMMA NextLock == CoreInv /\ [Next]_vars => [Lock!Next]_(Lock!vars)
<1> SUFFICES ASSUME CoreInv, [Next]_vars PROVE Lock!Next \/ UNCHANGED Lock!vars
  OBVIOUS
<1> USE DEF CoreInv, TypeInv, TypeOK, RequestsPlaced, MapSound, sessions, requests
<1>0. ASSUME live' = live, Begun' = Begun, \A s \in Sessions : Workers(s)' = Workers(s)
      PROVE UNCHANGED Lock!vars
  BY <1>0 DEF Lock!vars, Begun
<1>1. ASSUME NEW s \in Sessions, CreateSession(s) PROVE Lock!Next \/ UNCHANGED Lock!vars
  <2>1. \A t \in Sessions : Workers(t)' = Workers(t)
    BY <1>1 DEF CreateSession, Workers, InFlight
  <2>2. Begun' = Begun
    BY <1>1 DEF CreateSession, Begun
  <2>3. CASE live' = live
    BY <1>0, <2>1, <2>2, <2>3
  <2>4. CASE live' = live \cup {s}
    <3>1. s \notin live /\ Workers(s) = {}
      BY <1>1 DEF CreateSession, Workers
    <3>2. Lock!Open(s)
      BY <2>1, <2>2, <2>4, <3>1 DEF Lock!Open, Begun
    <3>3. QED BY <3>2 DEF Lock!Next
  <2>5. QED BY <1>1, <2>3, <2>4 DEF CreateSession
<1>2. ASSUME NEW s \in Sessions, SetActive(s) PROVE Lock!Next \/ UNCHANGED Lock!vars
  <2>1. \A t \in Sessions : Workers(t)' = Workers(t)
    BY <1>2 DEF SetActive, Workers, InFlight
  <2>2. live' = live /\ Begun' = Begun
    BY <1>2 DEF SetActive, Begun
  <2>3. QED BY <1>0, <2>1, <2>2
<1>3. ASSUME NEW s \in Sessions, DeleteSession(s) PROVE Lock!Next \/ UNCHANGED Lock!vars
  <2>1. Begun' = Begun
    BY <1>3 DEF DeleteSession, Begun
  <2>2. CASE UNCHANGED <<live, busy>>
    <3>1. \A t \in Sessions : Workers(t)' = Workers(t)
      BY <1>3, <2>2 DEF DeleteSession, Workers, InFlight
    <3>2. QED BY <1>0, <2>1, <2>2, <3>1
  <2>3. CASE live' = live \ {s}
    <3>1. s \in live /\ Workers(s)' = {} /\ \A t \in Sessions \ {s} : Workers(t)' = Workers(t)
      BY <1>3, <2>3 DEF DeleteSession, Workers, InFlight
    <3>2. [t \in Sessions |-> Workers(t)]'
            = [[t \in Sessions |-> Workers(t)] EXCEPT ![s] = {}]
      BY ONLY <3>1, WorkersUpdate, s \in Sessions
    <3>3. Lock!Close(s)
      BY <2>1, <2>3, <3>1, <3>2 DEF Lock!Close, Begun
    <3>4. QED BY <3>3 DEF Lock!Next
  <2>4. QED BY <1>3, <2>2, <2>3 DEF DeleteSession
<1>4. ASSUME NEW r \in Requests, NEW s \in Sessions, BeginRequest(r, s)
      PROVE  Lock!Next \/ UNCHANGED Lock!vars
  <2>1. s \in live /\ live' = live /\ r \notin Begun /\ Begun' = Begun \cup {r}
    BY <1>4 DEF BeginRequest, Begun
  <2>2. Workers(s) = {}
    BY <1>4 DEF BeginRequest, Free, Workers, BusyIsOwned
  <2>3. \A q \in Requests : q \in Workers(s)' <=> q = r
    BY <1>4, <2>2 DEF BeginRequest, Workers, InFlight
  <2>4. Workers(s)' = {r} /\ \A t \in Sessions \ {s} : Workers(t)' = Workers(t)
    <3>1. Workers(s)' \subseteq Requests
      BY DEF Workers
    <3>2. \A t \in Sessions \ {s} : Workers(t)' = Workers(t)
      BY <1>4 DEF BeginRequest, Workers, InFlight
    <3>3. QED BY <2>3, <3>1, <3>2
  <2>5. [t \in Sessions |-> Workers(t)]'
          = [[t \in Sessions |-> Workers(t)] EXCEPT ![s] = {r}]
    BY ONLY <2>4, WorkersUpdate, s \in Sessions
  <2>6. Lock!Acquire(r, s)
    BY <2>1, <2>2, <2>5 DEF Lock!Acquire, Begun
  <2>7. QED BY <2>6 DEF Lock!Next
<1>5. ASSUME NEW r \in Requests, EmitBusy(r) PROVE Lock!Next \/ UNCHANGED Lock!vars
  <2>1. \A t \in Sessions : Workers(t)' = Workers(t)
    BY <1>5 DEF EmitBusy, Workers, InFlight
  <2>2. live' = live /\ Begun' = Begun
    BY <1>5 DEF EmitBusy, Begun
  <2>3. QED BY <1>0, <2>1, <2>2
<1>6. ASSUME NEW r \in Requests, Complete(r) PROVE Lock!Next \/ UNCHANGED Lock!vars
  <2>1. on[r] \in Sessions /\ on[r] \in live /\ live' = live /\ Begun' = Begun
    BY <1>6 DEF Complete, Begun
  <2>2. PICK s \in Sessions : s = on[r]
    BY <2>1
  <2>3. r \in Workers(s)
    BY <1>6, <2>1, <2>2 DEF Complete, Workers, InFlight
  <2>4. \A q \in Requests : InFlight(q) /\ on[q] = s => q = r
    BY <1>6, <2>1, <2>2 DEF Complete, BusyIsOwned, InFlight
  <2>5. Workers(s)' = {} /\ \A t \in Sessions \ {s} : Workers(t)' = Workers(t)
    BY <1>6, <2>2, <2>4 DEF Complete, Workers, InFlight
  <2>6. [t \in Sessions |-> Workers(t)]'
          = [[t \in Sessions |-> Workers(t)] EXCEPT ![s] = {}]
    BY ONLY <2>5, WorkersUpdate, s \in Sessions
  <2>7. Lock!Release(s)
    BY <2>1, <2>3, <2>6 DEF Lock!Release, Begun
  <2>8. QED BY <2>7 DEF Lock!Next
<1>7. ASSUME NEW r \in Requests, CompleteDeleted(r) PROVE Lock!Next \/ UNCHANGED Lock!vars
  <2>1. \A t \in Sessions : Workers(t)' = Workers(t)
    BY <1>7 DEF CompleteDeleted, Workers, InFlight
  <2>2. live' = live /\ Begun' = Begun
    BY <1>7 DEF CompleteDeleted, Begun
  <2>3. QED BY <1>0, <2>1, <2>2
<1>8. ASSUME NEW r \in Requests, EmitIdle(r) PROVE Lock!Next \/ UNCHANGED Lock!vars
  <2>1. \A t \in Sessions : Workers(t)' = Workers(t)
    BY <1>8 DEF EmitIdle, Workers, InFlight
  <2>2. live' = live /\ Begun' = Begun
    BY <1>8 DEF EmitIdle, Begun
  <2>3. QED BY <1>0, <2>1, <2>2
<1>9. ASSUME Shutdown PROVE Lock!Next \/ UNCHANGED Lock!vars
  <2>1. \A t \in Sessions : Workers(t)' = Workers(t)
    BY <1>9 DEF Shutdown, Workers, InFlight
  <2>2. live' = live /\ Begun' = Begun
    BY <1>9 DEF Shutdown, Begun
  <2>3. QED BY <1>0, <2>1, <2>2
<1>10. ASSUME WaitReturns PROVE Lock!Next \/ UNCHANGED Lock!vars
  <2>1. \A t \in Sessions : Workers(t)' = Workers(t)
    BY <1>10 DEF WaitReturns, Workers, InFlight
  <2>2. live' = live /\ Begun' = Begun
    BY <1>10 DEF WaitReturns, Begun
  <2>3. QED BY <1>0, <2>1, <2>2
<1>11. ASSUME Crash PROVE Lock!Next \/ UNCHANGED Lock!vars
  <2>1. live' = {} /\ \A t \in Sessions : Workers(t)' = {}
    BY <1>11 DEF Crash, Die, Workers
  <2>2. Begun' = Begun
    BY <1>11 DEF Crash, Die, Begun
  <2>3. Lock!Reset
    BY <2>1, <2>2 DEF Lock!Reset, Begun
  <2>4. QED BY <2>3 DEF Lock!Next
<1>12. ASSUME CrashInSave PROVE Lock!Next \/ UNCHANGED Lock!vars
  <2>1. live' = {} /\ \A t \in Sessions : Workers(t)' = {}
    BY <1>12 DEF CrashInSave, Die, Workers
  <2>2. Begun' = Begun
    BY <1>12 DEF CrashInSave, Die, Begun
  <2>3. Lock!Reset
    BY <2>1, <2>2 DEF Lock!Reset, Begun
  <2>4. QED BY <2>3 DEF Lock!Next
<1>13. ASSUME Exit PROVE Lock!Next \/ UNCHANGED Lock!vars
  <2>1. live' = {} /\ \A t \in Sessions : Workers(t)' = {}
    BY <1>13 DEF Exit, Die, Workers
  <2>2. Begun' = Begun
    BY <1>13 DEF Exit, Die, Begun
  <2>3. Lock!Reset
    BY <2>1, <2>2 DEF Lock!Reset, Begun
  <2>4. QED BY <2>3 DEF Lock!Next
<1>14. ASSUME Boot PROVE Lock!Next \/ UNCHANGED Lock!vars
  <2>1. live = {} /\ live' = file.ids /\ file.ids \in SUBSET Sessions
    BY <1>14 DEF Boot, States
  <2>2. Begun' = Begun /\ \A t \in Sessions : Workers(t)' = Workers(t)
    BY <1>14 DEF Boot, Workers, InFlight, Begun
  <2>3. Lock!Reload(file.ids)
    BY <2>1, <2>2 DEF Lock!Reload, Begun
  <2>4. QED BY <2>1, <2>3 DEF Lock!Next
<1>15. CASE UNCHANGED vars
  <2>1. \A t \in Sessions : Workers(t)' = Workers(t)
    BY <1>15 DEF vars, Workers, InFlight
  <2>2. live' = live /\ Begun' = Begun
    BY <1>15 DEF vars, Begun
  <2>3. QED BY <1>0, <2>1, <2>2
<1>16. QED
  BY <1>1, <1>2, <1>3, <1>4, <1>5, <1>6, <1>7, <1>8, <1>9, <1>10, <1>11,
     <1>12, <1>13, <1>14, <1>15 DEF Next, SessionStep, RequestStep,
     ProcessStep

\* ImplementsRequestLock, for every instance: however requests, deletions,
\* failing saves, crashes and restores interleave, callers see a session that
\* works on one request at a time.
THEOREM CoreImplementsLock == Spec => ImplementsRequestLock
<1>1. Init => Lock!Init
  BY InitLock
<1>2. CoreInv /\ [Next]_vars => [Lock!Next]_(Lock!vars)
  BY NextLock
<1>3. QED
  BY <1>1, <1>2, InitCoreInv, NextCoreInv, PTL
    DEF Spec, ImplementsRequestLock, Lock!Spec

-----------------------------------------------------------------------------
(***************************************************************************)
(* The histories of ChatCore, for every number of sessions, requests and   *)
(* messages: replies follow the messages they answer, an acknowledged      *)
(* reply stays on disk, and nothing is lost that nobody was told of.       *)
(***************************************************************************)

\* Every reply of a history follows the message it answers.
Turns(q) ==
  \A i \in 2 .. Len(q) :
    q[i].role = "assistant" => q[i - 1] = Message(q[i].by, "user")

\* A history has the reply to r, or is full and may have dropped it.
Keeps(q, r) ==
  \/ \E i \in 1 .. Len(q) : q[i] = Message(r, "assistant")
  \/ Len(q) = MaxMessages

\* A request in flight has the last word in its session.
LastWord ==
  \A r \in Requests : InFlight(r) /\ on[r] \in live =>
    LET q == msgs[on[r]] IN Len(q) > 0 /\ q[Len(q)] = Message(r, "user")

\* What was acknowledged is in memory too, for the next save to write.
AcknowledgedInMemory ==
  \A r \in Requests : result[r] = "replied" /\ on[r] \in live => Keeps(msgs[on[r]], r)

MemoryTurns == \A s \in Sessions : Turns(msgs[s])
DiskTurns   == \A s \in Sessions : Turns(file.msgs[s])

\* Nobody is answered before asking.
NoEarlyResult == \A r \in Requests : pc[r] = "idle" => result[r] = "none"

HistoryInv ==
  /\ MemoryTurns
  /\ DiskTurns
  /\ LastWord
  /\ AcknowledgedInMemory
  /\ AcknowledgedIsDurable
  /\ LossIsReported
  /\ NoEarlyResult

-----------------------------------------------------------------------------
(* Appending.                                                              *)

\* An append drops at most the first message, and that of a full history only.
LEMMA AppendShifts ==
  ASSUME NEW q \in Histories, NEW m \in Messages
  PROVE  LET a == AppendMessageWithLimit(q, m) IN
         /\ a \in Histories
         /\ Len(a) > 0 /\ a[Len(a)] = m
         /\ \E d \in {0, 1} :
              /\ Len(a) = Len(q) + 1 - d
              /\ d = 1 => Len(a) = MaxMessages
              /\ \A i \in 1 .. Len(a) - 1 : a[i] = q[i + d]
<1> DEFINE all == Append(q, m)
           a == AppendMessageWithLimit(q, m)
<1>1. q \in Seq(Messages) /\ Len(q) \in Nat /\ Len(q) <= MaxMessages
      /\ MaxMessages \in Nat /\ MaxMessages > 0
  BY ChatAssumption DEF Histories
<1>2. /\ all \in Seq(Messages) /\ Len(all) = Len(q) + 1
      /\ all[Len(q) + 1] = m /\ \A i \in 1 .. Len(q) : all[i] = q[i]
  BY <1>1
<1>3. a \in Histories
  BY <1>1, AppendType
<1> HIDE DEF all
<1>4. CASE Len(all) > MaxMessages
  <2>1. a = SubSeq(all, 2, Len(all)) /\ Len(q) = MaxMessages
    BY <1>1, <1>2, <1>4 DEF AppendMessageWithLimit, all
  <2>2. Len(a) = Len(q) /\ \A i \in 1 .. Len(q) : a[i] = all[i + 1]
    <3> HIDE DEF a
    <3>1. QED BY <1>1, <1>2, <2>1, SubSeqProperties
  <2>3. a[Len(a)] = m /\ \A i \in 1 .. Len(a) - 1 : a[i] = q[i + 1]
    <3> HIDE DEF a
    <3>1. QED BY <1>1, <1>2, <2>1, <2>2
  <2>4. QED
    <3> HIDE DEF a
    <3>1. Len(a) = Len(q) + 1 - 1 /\ Len(a) = MaxMessages
      BY <1>1, <2>1, <2>2
    <3>2. QED BY <1>1, <1>3, <2>3, <3>1 DEF a
<1>5. CASE ~(Len(all) > MaxMessages)
  <2>1. a = all
    BY <1>5 DEF AppendMessageWithLimit, all
  <2> HIDE DEF a
  <2>2. /\ Len(a) = Len(q) + 1 - 0 /\ a[Len(a)] = m
        /\ \A i \in 1 .. Len(a) - 1 : a[i] = q[i + 0]
    BY <1>1, <1>2, <2>1
  <2>3. QED BY <1>1, <1>3, <2>2 DEF a
<1>6. QED BY <1>4, <1>5

\* A message keeps the turns, and so does a reply to the last word.
LEMMA AppendKeepsTurns ==
  ASSUME NEW q \in Histories, NEW m \in Messages, Turns(q),
         m.role = "assistant" => Len(q) > 0 /\ q[Len(q)] = Message(m.by, "user")
  PROVE  Turns(AppendMessageWithLimit(q, m))
<1> DEFINE a == AppendMessageWithLimit(q, m)
<1>1. PICK d \in {0, 1} : Len(a) = Len(q) + 1 - d /\ \A i \in 1 .. Len(a) - 1 : a[i] = q[i + d]
  BY AppendShifts
<1>2. a[Len(a)] = m /\ Len(a) \in Nat /\ Len(q) \in Nat
  <2>1. a \in Histories /\ a[Len(a)] = m
    BY AppendShifts
  <2>2. QED BY <2>1 DEF Histories
<1> HIDE DEF a
<1> SUFFICES ASSUME NEW i \in 2 .. Len(a), a[i].role = "assistant"
             PROVE  a[i - 1] = Message(a[i].by, "user")
  BY DEF Turns, a
<1>3. i - 1 \in 1 .. Len(a) - 1 /\ a[i - 1] = q[i - 1 + d]
  BY <1>1, <1>2
<1>4. CASE i = Len(a)
  <2>1. i - 1 + d = Len(q)
    BY <1>1, <1>2, <1>4
  <2>2. QED BY <1>2, <1>3, <1>4, <2>1
<1>5. CASE i # Len(a)
  <2>1. i \in 1 .. Len(a) - 1 /\ i + d \in 2 .. Len(q) /\ i - 1 + d = (i + d) - 1
    BY <1>1, <1>2, <1>5
  <2>2. a[i] = q[i + d]
    BY <1>1, <2>1
  <2>3. q[(i + d) - 1] = Message(q[i + d].by, "user")
    BY <2>1, <2>2 DEF Turns
  <2>4. QED BY <1>3, <2>1, <2>2, <2>3
<1>6. QED BY <1>4, <1>5

\* No append takes a reply from a history that is not full.
LEMMA AppendKeepsReplies ==
  ASSUME NEW q \in Histories, NEW m \in Messages, NEW r \in Requests,
         Keeps(q, r) \/ m = Message(r, "assistant")
  PROVE  Keeps(AppendMessageWithLimit(q, m), r)
<1> DEFINE a == AppendMessageWithLimit(q, m)
<1>1. PICK d \in {0, 1} :
        /\ Len(a) = Len(q) + 1 - d
        /\ d = 1 => Len(a) = MaxMessages
        /\ \A i \in 1 .. Len(a) - 1 : a[i] = q[i + d]
  BY AppendShifts
<1>2. /\ a[Len(a)] = m /\ Len(a) \in Nat /\ Len(a) > 0 /\ Len(a) <= MaxMessages
      /\ Len(q) \in Nat /\ MaxMessages \in Nat
  <2>1. a \in Histories /\ a[Len(a)] = m /\ Len(a) > 0
    BY AppendShifts
  <2>2. QED BY <2>1, ChatAssumption DEF Histories
<1> HIDE DEF a
<1>3. CASE d = 1
  BY <1>1, <1>3 DEF Keeps, a
<1>4. CASE m = Message(r, "assistant")
  <2>1. Len(a) \in 1 .. Len(a)
    BY <1>2
  <2>2. QED BY <1>2, <1>4, <2>1 DEF Keeps, a
<1>5. CASE d = 0 /\ Keeps(q, r)
  <2>1. CASE Len(q) = MaxMessages
    BY <1>1, <1>2, <1>5, <2>1
  <2>2. CASE Len(q) # MaxMessages
    <3>1. PICK i \in 1 .. Len(q) : q[i] = Message(r, "assistant")
      BY <1>5, <2>2 DEF Keeps
    <3>2. i \in 1 .. Len(a) /\ a[i] = Message(r, "assistant")
      BY <1>1, <1>2, <1>5, <3>1
    <3>3. QED BY <3>2 DEF Keeps, a
  <2>3. QED BY <2>1, <2>2
<1>6. QED BY <1>3, <1>4, <1>5

-----------------------------------------------------------------------------
(* Saving.                                                                 *)

LEMMA NothingIsInOrder == Turns(<<>>)
  BY DEF Turns

LEMMA TornHistory == Torn.torn /\ Torn.ids = {} /\ \A s \in Sessions : Torn.msgs[s] = <<>>
  BY DEF Torn, Blank

\* A save that succeeds brings the histories of the map to disk.
LEMMA SaveKeepsHistories ==
  SaveSucceeds /\ live' \subseteq Sessions /\ MemoryTurns' /\ AcknowledgedInMemory'
    => DiskTurns' /\ AcknowledgedIsDurable' /\ LossIsReported'
<1> SUFFICES ASSUME SaveSucceeds, live' \subseteq Sessions, MemoryTurns', AcknowledgedInMemory'
             PROVE  DiskTurns' /\ AcknowledgedIsDurable' /\ LossIsReported'
  OBVIOUS
<1>1. /\ file'.ids = live'
      /\ \A s \in Sessions : file'.msgs[s] = IF s \in live' THEN msgs'[s] ELSE <<>>
  BY DEF SaveSucceeds, Saved
<1>2. DiskTurns'
  BY <1>1, NothingIsInOrder DEF DiskTurns, MemoryTurns
<1>3. AcknowledgedIsDurable'
  <2> SUFFICES ASSUME NEW r \in Requests, result'[r] = "replied", on'[r] \in file'.ids
               PROVE  Keeps(file'.msgs[on'[r]], r)
    BY DEF AcknowledgedIsDurable, Keeps
  <2>1. on'[r] \in live' /\ file'.msgs[on'[r]] = msgs'[on'[r]]
    BY <1>1
  <2>2. QED BY <2>1 DEF AcknowledgedInMemory
<1>4. LossIsReported'
  BY <1>1 DEF LossIsReported
<1>5. QED BY <1>2, <1>3, <1>4

\* A file that is left alone or torn keeps what it promises.
LEMMA FileKeepsHistories ==
  HistoryInv /\ SaveFails
  /\ (\A r \in Requests : result'[r] = "replied" => result[r] = "replied" /\ on'[r] = on[r])
    => DiskTurns' /\ AcknowledgedIsDurable'
<1> SUFFICES ASSUME HistoryInv, SaveFails,
                    \A r \in Requests :
                      result'[r] = "replied" => result[r] = "replied" /\ on'[r] = on[r]
             PROVE  DiskTurns' /\ AcknowledgedIsDurable'
  OBVIOUS
<1>1. CASE file' = file
  BY <1>1 DEF HistoryInv, DiskTurns, AcknowledgedIsDurable
<1>2. CASE file' = Torn
  BY <1>2, TornHistory, NothingIsInOrder DEF DiskTurns, AcknowledgedIsDurable
<1>3. QED BY <1>1, <1>2 DEF SaveFails

-----------------------------------------------------------------------------
(* Requests.                                                               *)

\* A request that begins has the last word in a session that nobody works on.
LEMMA BeginKeepsHistories ==
  ASSUME CoreInv, HistoryInv, NEW r \in Requests, NEW s \in Sessions, BeginRequest(r, s)
  PROVE  HistoryInv'
<1> DEFINE q == msgs[s]
           m == Message(r, "user")
           a == AppendMessageWithLimit(q, m)
<1>1. /\ s \in live /\ live' = live /\ live \subseteq Sessions
      /\ file' = file /\ up' = up /\ result' = result
      /\ pc[r] = "idle" /\ InFlight(r)' /\ on'[r] = s
      /\ \A p \in Requests \ {r} : on'[p] = on[p] /\ (InFlight(p)' <=> InFlight(p))
      /\ \A p \in Requests : InFlight(p) => on[p] # s
      /\ \A p \in Requests : pc'[p] = "idle" => pc[p] = "idle"
  BY DEF BeginRequest, Free, CoreInv, TypeInv, TypeOK, BusyIsOwned, InFlight
<1>2. msgs'[s] = a /\ \A t \in Sessions \ {s} : msgs'[t] = msgs[t]
  BY DEF BeginRequest, CoreInv, TypeInv, TypeOK
<1>3. q \in Histories /\ m \in Messages /\ m.role = "user"
  BY DEF Histories, Message, Messages, CoreInv, TypeInv, TypeOK
<1>4. Turns(a) /\ a[Len(a)] = m /\ Len(a) > 0
  BY <1>3, AppendKeepsTurns, AppendShifts DEF HistoryInv, MemoryTurns
<1>5. \A p \in Requests : Keeps(q, p) => Keeps(a, p)
  BY <1>3, AppendKeepsReplies
<1>6. result[r] = "none"
  BY <1>1 DEF HistoryInv, NoEarlyResult
<1> HIDE DEF a, m, q
<1>7. MemoryTurns'
  BY <1>2, <1>4 DEF HistoryInv, MemoryTurns
<1>8. LastWord'
  <2> SUFFICES ASSUME NEW p \in Requests, InFlight(p)', on'[p] \in live'
               PROVE  Len(msgs'[on'[p]]) > 0
                      /\ msgs'[on'[p]][Len(msgs'[on'[p]])] = Message(p, "user")
    BY DEF LastWord
  <2>1. CASE p = r
    BY <1>1, <1>2, <1>4, <2>1 DEF m
  <2>2. CASE p # r
    <3>1. on'[p] = on[p] /\ on[p] # s /\ InFlight(p) /\ on[p] \in live
      BY <1>1, <2>2
    <3>2. msgs'[on[p]] = msgs[on[p]]
      BY <1>1, <1>2, <3>1
    <3>3. QED BY <3>1, <3>2 DEF HistoryInv, LastWord
  <2>3. QED BY <2>1, <2>2
<1>9. AcknowledgedInMemory'
  <2> SUFFICES ASSUME NEW p \in Requests, result'[p] = "replied", on'[p] \in live'
               PROVE  Keeps(msgs'[on'[p]], p)
    BY DEF AcknowledgedInMemory
  <2>1. p # r /\ on'[p] = on[p] /\ Keeps(msgs[on[p]], p)
    BY <1>1, <1>6 DEF HistoryInv, AcknowledgedInMemory
  <2>2. CASE on[p] = s
    BY <1>2, <1>5, <2>1, <2>2 DEF q
  <2>3. CASE on[p] # s
    BY <1>1, <1>2, <2>1, <2>3
  <2>4. QED BY <2>2, <2>3
<1>10. DiskTurns' /\ AcknowledgedIsDurable'
  <2>1. SaveFails
    BY <1>1 DEF SaveFails
  <2>2. \A p \in Requests : result'[p] = "replied" => result[p] = "replied" /\ on'[p] = on[p]
    BY <1>1, <1>6
  <2>3. QED BY <2>1, <2>2, FileKeepsHistories
<1>11. LossIsReported'
  <2> SUFFICES ASSUME up', ~file'.torn, NEW t \in live', msgs'[t] # file'.msgs[t]
               PROVE  \E p \in Requests : on'[p] = t /\ (InFlight(p)' \/ result'[p] = "unsaved")
    BY DEF LossIsReported
  <2>1. CASE t = s
    BY <1>1, <2>1
  <2>2. CASE t # s
    <3>1. PICK p \in Requests : on[p] = t /\ (InFlight(p) \/ result[p] = "unsaved")
      BY <1>1, <1>2, <2>2 DEF HistoryInv, LossIsReported
    <3>2. p # r
      BY <1>1, <1>6, <3>1 DEF InFlight
    <3>3. QED BY <1>1, <3>1, <3>2
  <2>3. QED BY <2>1, <2>2
<1>12. NoEarlyResult'
  BY <1>1 DEF HistoryInv, NoEarlyResult
<1>13. QED BY <1>7, <1>8, <1>9, <1>10, <1>11, <1>12 DEF HistoryInv

\* A request that completes adds its reply, if it has one, to its own message;
\* it saves it, or the caller is told that it is not saved.
LEMMA CompleteKeepsHistories ==
  ASSUME CoreInv, HistoryInv, NEW r \in Requests, Complete(r)
  PROVE  HistoryInv'
<1> DEFINE s == on[r]
           q == msgs[s]
           m == Message(r, "assistant")
           a == AppendMessageWithLimit(q, m)
<1>1. /\ s \in live /\ s \in Sessions /\ live' = live /\ live \subseteq Sessions
      /\ up' = up /\ on' = on /\ InFlight(r) /\ pc'[r] = "completed"
      /\ \A p \in Requests \ {r} : pc'[p] = pc[p] /\ result'[p] = result[p]
      /\ \A p \in Requests : InFlight(p) /\ on[p] = s => p = r
      /\ \A t \in Sessions \ {s} : msgs'[t] = msgs[t]
  BY DEF Complete, CoreInv, TypeInv, TypeOK, BusyIsOwned, InFlight
<1>2. q \in Histories /\ m \in Messages /\ m.by = r
  BY <1>1 DEF Histories, Message, Messages, CoreInv, TypeInv, TypeOK
<1>3. Turns(q) /\ Turns(a)
  <2>1. Turns(q) /\ Len(q) > 0 /\ q[Len(q)] = Message(r, "user")
    BY <1>1 DEF HistoryInv, MemoryTurns, LastWord
  <2>2. QED BY <1>2, <2>1, AppendKeepsTurns
<1>4. \A p \in Requests : Keeps(q, p) => Keeps(a, p)
  BY <1>2, AppendKeepsReplies
<1>5. Keeps(a, r)
  BY <1>2, AppendKeepsReplies
<1>6. /\ msgs'[s] = q \/ msgs'[s] = a
      /\ result'[r] = "replied" => msgs'[s] = a /\ SaveSucceeds
      /\ SaveSucceeds \/ (SaveFails /\ result'[r] = "unsaved")
      /\ result'[r] # "none"
  BY <1>1 DEF Complete, CoreInv, TypeInv, TypeOK
<1> HIDE DEF a, m, q, s
<1>7. MemoryTurns'
  BY <1>1, <1>3, <1>6 DEF HistoryInv, MemoryTurns
<1>8. LastWord'
  <2> SUFFICES ASSUME NEW p \in Requests, InFlight(p)', on'[p] \in live'
               PROVE  Len(msgs'[on'[p]]) > 0
                      /\ msgs'[on'[p]][Len(msgs'[on'[p]])] = Message(p, "user")
    BY DEF LastWord
  <2>1. p # r /\ InFlight(p) /\ on[p] # s
    BY <1>1 DEF InFlight, s
  <2>2. msgs'[on[p]] = msgs[on[p]] /\ on[p] \in live
    BY <1>1, <2>1
  <2>3. QED BY <1>1, <2>1, <2>2 DEF HistoryInv, LastWord
<1>9. AcknowledgedInMemory'
  <2> SUFFICES ASSUME NEW p \in Requests, result'[p] = "replied", on'[p] \in live'
               PROVE  Keeps(msgs'[on'[p]], p)
    BY DEF AcknowledgedInMemory
  <2>1. CASE p = r
    BY <1>1, <1>5, <1>6, <2>1 DEF s
  <2>2. CASE p # r
    <3>1. Keeps(msgs[on[p]], p)
      BY <1>1, <2>2 DEF HistoryInv, AcknowledgedInMemory
    <3>2. CASE on[p] = s
      BY <1>1, <1>4, <1>6, <3>1, <3>2 DEF q
    <3>3. CASE on[p] # s
      BY <1>1, <3>1, <3>3
    <3>4. QED BY <3>2, <3>3
  <2>3. QED BY <2>1, <2>2
<1>10. CASE SaveSucceeds
  <2>1. DiskTurns' /\ AcknowledgedIsDurable' /\ LossIsReported'
    BY <1>1, <1>7, <1>9, <1>10, SaveKeepsHistories
  <2>2. NoEarlyResult'
    BY <1>1 DEF HistoryInv, NoEarlyResult
  <2>3. QED BY <1>7, <1>8, <1>9, <2>1, <2>2 DEF HistoryInv
<1>11. CASE SaveFails /\ result'[r] = "unsaved"
  <2>1. DiskTurns' /\ AcknowledgedIsDurable'
    <3>1. \A p \in Requests : result'[p] = "replied" => result[p] = "replied" /\ on'[p] = on[p]
      BY <1>1, <1>11
    <3>2. QED BY <1>11, <3>1, FileKeepsHistories
  <2>2. LossIsReported'
    <3> SUFFICES ASSUME up', ~file'.torn, NEW t \in live', msgs'[t] # file'.msgs[t]
                 PROVE  \E p \in Requests :
                          on'[p] = t /\ (InFlight(p)' \/ result'[p] = "unsaved")
      BY DEF LossIsReported
    <3>1. CASE t = s
      BY <1>1, <1>11, <3>1 DEF s
    <3>2. CASE t # s
      <4>1. file' = file /\ msgs'[t] = msgs[t] /\ t \in live
        BY <1>1, <1>11, <3>2, TornHistory DEF SaveFails
      <4>2. PICK p \in Requests : on[p] = t /\ (InFlight(p) \/ result[p] = "unsaved")
        BY <1>1, <4>1 DEF HistoryInv, LossIsReported
      <4>3. p # r /\ pc'[p] = pc[p] /\ result'[p] = result[p]
        BY <1>1, <3>2, <4>2 DEF s
      <4>4. QED BY <1>1, <4>2, <4>3 DEF InFlight
    <3>3. QED BY <3>1, <3>2
  <2>3. NoEarlyResult'
    BY <1>1 DEF HistoryInv, NoEarlyResult
  <2>4. QED BY <1>7, <1>8, <1>9, <2>1, <2>2, <2>3 DEF HistoryInv
<1>12. QED BY <1>6, <1>10, <1>11

-----------------------------------------------------------------------------
(* The other operations, and restarts.                                     *)

\* CreateSession, SetActive and DeleteSession.
LEMMA SessionStepKeepsHistories ==
  ASSUME CoreInv, HistoryInv, NEW s \in Sessions, SessionStep(s)
  PROVE  HistoryInv'
<1>1. /\ up' = up /\ pc' = pc /\ on' = on /\ result' = result
      /\ \A r \in Requests : (InFlight(r)' <=> InFlight(r))
      /\ live' \subseteq Sessions /\ live \subseteq Sessions
  BY DEF SessionStep, CreateSession, SetActive, DeleteSession, requests, InFlight,
         CoreInv, TypeInv, TypeOK
<1>2. \A t \in Sessions : msgs'[t] = msgs[t] \/ (msgs'[t] = <<>> /\ t \notin live')
  BY DEF SessionStep, CreateSession, SetActive, DeleteSession, CoreInv, TypeInv, TypeOK
<1>3. \A r \in Requests : pc[r] # "idle" /\ on[r] \in live' => on[r] \in live
  BY DEF SessionStep, CreateSession, SetActive, DeleteSession, CoreInv, TypeInv, TypeOK,
         RequestsPlaced
<1>4. \/ SaveSucceeds
      \/ SaveFails /\ live' = live /\ msgs' = msgs
  BY DEF SessionStep, CreateSession, SetActive, DeleteSession
<1>5. MemoryTurns'
  BY <1>2, NothingIsInOrder DEF HistoryInv, MemoryTurns
<1>6. LastWord'
  <2> SUFFICES ASSUME NEW r \in Requests, InFlight(r), on[r] \in live'
               PROVE  Len(msgs'[on[r]]) > 0
                      /\ msgs'[on[r]][Len(msgs'[on[r]])] = Message(r, "user")
    BY <1>1 DEF LastWord
  <2>1. on[r] \in live
    BY <1>3 DEF InFlight
  <2>2. msgs'[on[r]] = msgs[on[r]]
    BY <1>1, <1>2
  <2>3. QED BY <2>1, <2>2 DEF HistoryInv, LastWord
<1>7. AcknowledgedInMemory'
  <2> SUFFICES ASSUME NEW r \in Requests, result[r] = "replied", on[r] \in live'
               PROVE  Keeps(msgs'[on[r]], r)
    BY <1>1 DEF AcknowledgedInMemory
  <2>1. on[r] \in live
    BY <1>3 DEF HistoryInv, NoEarlyResult
  <2>2. msgs'[on[r]] = msgs[on[r]]
    BY <1>1, <1>2
  <2>3. QED BY <2>1, <2>2 DEF HistoryInv, AcknowledgedInMemory
<1>8. NoEarlyResult'
  BY <1>1 DEF HistoryInv, NoEarlyResult
<1>9. CASE SaveSucceeds
  <2>1. DiskTurns' /\ AcknowledgedIsDurable' /\ LossIsReported'
    BY <1>1, <1>5, <1>7, <1>9, SaveKeepsHistories
  <2>2. QED BY <1>5, <1>6, <1>7, <1>8, <2>1 DEF HistoryInv
<1>10. CASE SaveFails /\ live' = live /\ msgs' = msgs
  <2>1. DiskTurns' /\ AcknowledgedIsDurable'
    BY <1>1, <1>10, FileKeepsHistories
  <2>2. LossIsReported'
    <3>1. CASE file' = file
      BY <1>1, <1>10, <3>1 DEF HistoryInv, LossIsReported
    <3>2. CASE file' = Torn
      BY <3>2, TornHistory DEF LossIsReported
    <3>3. QED BY <1>10, <3>1, <3>2 DEF SaveFails
  <2>3. QED BY <1>5, <1>6, <1>7, <1>8, <2>1, <2>2 DEF HistoryInv
<1>11. QED BY <1>4, <1>9, <1>10

\* EmitBusy, CompleteDeleted and EmitIdle: no session of the map loses the
\* request that explains what it has not saved.
LEMMA EventKeepsHistories ==
  ASSUME CoreInv, HistoryInv, NEW r \in Requests,
         EmitBusy(r) \/ CompleteDeleted(r) \/ EmitIdle(r)
  PROVE  HistoryInv'
<1>1. /\ up' = up /\ live' = live /\ msgs' = msgs /\ file' = file /\ on' = on
      /\ live \subseteq Sessions
      /\ \A p \in Requests : InFlight(p)' => InFlight(p)
      /\ \A p \in Requests : InFlight(p) => InFlight(p)' \/ on[p] \notin live
      /\ \A p \in Requests : pc'[p] = "idle" => pc[p] = "idle"
      /\ \A p \in Requests : pc'[p] = "idle" => result'[p] = result[p]
      /\ \A p \in Requests : result'[p] = "replied" => result[p] = "replied"
      /\ \A p \in Requests :
           result[p] = "unsaved" => result'[p] = "unsaved" \/ on[p] \notin live
  BY DEF EmitBusy, CompleteDeleted, EmitIdle, sessions, InFlight, CoreInv, TypeInv, TypeOK
<1>2. MemoryTurns' /\ NoEarlyResult'
  BY <1>1 DEF HistoryInv, MemoryTurns, NoEarlyResult
<1>3. LastWord' /\ AcknowledgedInMemory'
  BY <1>1 DEF HistoryInv, LastWord, AcknowledgedInMemory
<1>4. DiskTurns' /\ AcknowledgedIsDurable'
  <2>1. SaveFails
    BY <1>1 DEF SaveFails
  <2>2. QED BY <1>1, <2>1, FileKeepsHistories
<1>5. LossIsReported'
  BY <1>1 DEF HistoryInv, LossIsReported
<1>6. QED BY <1>2, <1>3, <1>4, <1>5 DEF HistoryInv

\* Shutdown, crashes and restarts: what is on disk becomes the map again.
LEMMA ProcessStepKeepsHistories ==
  ASSUME CoreInv, HistoryInv, ProcessStep
  PROVE  HistoryInv'
<1>1. result' = result /\ on' = on /\ SaveFails
      /\ \A r \in Requests : pc'[r] = "idle" => pc[r] = "idle"
  BY DEF ProcessStep, Shutdown, WaitReturns, Crash, CrashInSave, Exit, Die, Boot,
         requests, SaveFails, CoreInv, TypeInv, TypeOK
<1>2. DiskTurns' /\ AcknowledgedIsDurable' /\ NoEarlyResult'
  <2>1. NoEarlyResult'
    BY <1>1 DEF HistoryInv, NoEarlyResult
  <2>2. QED BY <1>1, <2>1, FileKeepsHistories
<1>3. CASE Shutdown \/ WaitReturns
  BY <1>1, <1>2, <1>3
     DEF Shutdown, WaitReturns, sessions, requests, HistoryInv, MemoryTurns, LastWord,
         InFlight, AcknowledgedInMemory, LossIsReported
<1>4. CASE Die
  <2>1. ~up' /\ live' = {} /\ \A s \in Sessions : msgs'[s] = <<>>
    BY <1>4 DEF Die
  <2>2. MemoryTurns'
    BY <2>1, NothingIsInOrder DEF MemoryTurns
  <2>3. QED
    BY <1>2, <2>1, <2>2 DEF HistoryInv, LastWord, AcknowledgedInMemory, LossIsReported
<1>5. CASE Boot
  <2>1. /\ live' = file.ids /\ msgs' = file.msgs /\ file' = file
        /\ \A r \in Requests : ~InFlight(r)'
    BY <1>5 DEF Boot, requests, CoreInv, TypeInv, RequestsPlaced, InFlight
  <2>2. MemoryTurns'
    BY <2>1 DEF HistoryInv, MemoryTurns, DiskTurns
  <2>3. LastWord' /\ LossIsReported'
    BY <2>1 DEF LastWord, LossIsReported
  <2>4. AcknowledgedInMemory'
    BY <1>1, <2>1 DEF HistoryInv, AcknowledgedIsDurable, AcknowledgedInMemory, Keeps
  <2>5. QED BY <1>2, <2>2, <2>3, <2>4 DEF HistoryInv
<1>6. QED BY <1>3, <1>4, <1>5 DEF ProcessStep, Crash, CrashInSave, Exit

-----------------------------------------------------------------------------

LEMMA InitHistoryInv == Init => HistoryInv
<1> SUFFICES ASSUME Init PROVE HistoryInv
  OBVIOUS
<1>1. /\ ~up /\ live = {} /\ file.ids = {} /\ \A r \in Requests : result[r] = "none"
      /\ \A s \in Sessions : msgs[s] = <<>> /\ file.msgs[s] = <<>>
  BY DEF Init, NoState, Blank
<1>2. MemoryTurns /\ DiskTurns
  BY <1>1, NothingIsInOrder DEF MemoryTurns, DiskTurns
<1>3. QED
  BY <1>1, <1>2
     DEF HistoryInv, LastWord, AcknowledgedInMemory, AcknowledgedIsDurable, LossIsReported,
         NoEarlyResult

LEMMA NextHistoryInv == CoreInv /\ HistoryInv /\ [Next]_vars => HistoryInv'
<1> SUFFICES ASSUME CoreInv, HistoryInv, [Next]_vars PROVE HistoryInv'
  OBVIOUS
<1>1. CASE \E s \in Sessions : SessionStep(s)
  BY <1>1, SessionStepKeepsHistories
<1>2. ASSUME NEW r \in Requests, RequestStep(r) PROVE HistoryInv'
  <2>1. CASE \E s \in Sessions : BeginRequest(r, s)
    BY <2>1, BeginKeepsHistories
  <2>2. CASE Complete(r)
    BY <2>2, CompleteKeepsHistories
  <2>3. CASE EmitBusy(r) \/ CompleteDeleted(r) \/ EmitIdle(r)
    BY <2>3, EventKeepsHistories
  <2>4. QED BY <1>2, <2>1, <2>2, <2>3 DEF RequestStep
<1>3. CASE ProcessStep
  BY <1>3, ProcessStepKeepsHistories
<1>4. CASE UNCHANGED vars
  BY <1>4
     DEF vars, sessions, requests, HistoryInv, MemoryTurns, DiskTurns, LastWord, InFlight,
         AcknowledgedInMemory, AcknowledgedIsDurable, LossIsReported, NoEarlyResult
<1>5. QED BY <1>1, <1>2, <1>3, <1>4 DEF Next

\* HistoriesAreKept, for every instance: whichever saves fail and whenever rcod
\* dies, the turns of a session do not interleave, an acknowledged reply stays on
\* disk until its session is deleted or its history is cut, and a crash takes
\* only what a caller knows to be unsaved.
THEOREM HistoriesAlwaysKept == Spec => []HistoriesAreKept
<1>1. HistoryInv => HistoriesAreKept
  BY DEF HistoryInv, HistoriesAreKept, MemoryTurns, Turns, TurnsDoNotInterleave
<1>2. QED
  BY <1>1, InitCoreInv, InitHistoryInv, NextCoreInv, NextHistoryInv, PTL DEF Spec

===============================================================================
