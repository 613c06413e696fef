--------------------------- MODULE RalphLoop_proofs ---------------------------
(***************************************************************************)
(* Theorems about RalphLoop, for every set of paths, every limit and every *)
(* number of commits, reviews and failures.                                *)
(***************************************************************************)
EXTENDS RalphLoop, SequenceTheorems, FiniteSetTheorems, TLAPS

-----------------------------------------------------------------------------
(* Types and attempts.                                                     *)

\* The runs of the tool and the attempt that is counted, by position in the
\* iteration: verifyWithRetry starts at attempt 1 for a review and 2 for CI.
LastAttempt == IF it.job = "ci" /\ MaxRetries = 0 THEN 2 ELSE MaxRetries + 1
RunsCounted ==
  it.attempt \in 1 .. LastAttempt /\ it.runs = (IF it.job = "ci" THEN it.attempt - 1
                                                               ELSE it.attempt)
AttemptsCounted ==
  /\ pc \in {"off", "push stranded", "status", "ci", "review", "pull", "tool",
     "sleep"}
       => it.runs = 0 /\ it.attempt = 0
  /\ pc = "verify" => RunsCounted
  /\ pc = "repair" => RunsCounted /\ it.attempt <= MaxRetries
  /\ ToolRunsAreBounded

TypeInv == TypeOK /\ AttemptsCounted

\* What a fix commits is a commit.
LEMMA CommitType ==
  ASSUME TypeOK
  PROVE  [ralph |-> TRUE, review |-> it.seen, date |-> review,
          sensitive |-> index \cap Sensitive # {}] \in Commits
  BY DEF TypeOK, Commits, Iterations

\* Replaying changes the dates and nothing else.
LEMMA ReplayType ==
  ASSUME TypeOK, Replay
  PROVE  /\ ahead' \in Seq(Commits)
         /\ Len(ahead') = Len(ahead)
         /\ \A i \in 1 .. Len(ahead) :
              /\ ahead'[i].ralph = ahead[i].ralph
              /\ ahead'[i].review = ahead[i].review
              /\ ahead'[i].sensitive = ahead[i].sensitive
              /\ ahead'[i].date = ahead[i].date \/ ahead'[i].date = review
         /\ base # Len(remote) => \A i \in 1 .. Len(ahead) : ahead'[i].date = review
<1> DEFINE moved == [i \in 1 .. Len(ahead) |-> [ahead[i] EXCEPT !.date = review]]
<1>1. ahead \in Seq(Commits) /\ Len(ahead) \in Nat /\ review \in 0 .. MaxReviews
  BY DEF TypeOK
<1>2. \A i \in 1 .. Len(ahead) : ahead[i] \in Commits
  BY <1>1
<1>3. \A i \in 1 .. Len(ahead) :
        /\ moved[i] \in Commits
        /\ moved[i].ralph = ahead[i].ralph
        /\ moved[i].review = ahead[i].review
        /\ moved[i].sensitive = ahead[i].sensitive
        /\ moved[i].date = review
  BY <1>1, <1>2 DEF Commits
<1>4. moved \in Seq(Commits) /\ Len(moved) = Len(ahead)
  <2>1. moved \in [1 .. Len(ahead) -> Commits]
    BY <1>3
  <2> HIDE DEF moved
  <2>2. QED BY <2>1, <1>1
<1>5. ahead' = IF base = Len(remote) THEN ahead ELSE moved
  BY DEF Replay
<1> HIDE DEF moved
<1>6. QED
  BY <1>1, <1>2, <1>3, <1>4, <1>5

\* A push appends the unpushed commits.
LEMMA LandType ==
  ASSUME TypeOK, Land
  PROVE  /\ remote' \in Seq(Commits) /\ ahead' = <<>> /\ ahead' \in Seq(Commits)
         /\ Len(remote') = Len(remote) + Len(ahead) /\ base' = Len(remote')
         /\ Len(remote') >= Len(remote) /\ base' \in 1 .. Len(remote')
         /\ \A i \in 1 .. Len(remote) : remote'[i] = remote[i]
         /\ \A i \in Len(remote) + 1 .. Len(remote') :
              remote'[i] = ahead[i - Len(remote)]
<1>1. remote \in Seq(Commits) /\ ahead \in Seq(Commits) /\ base \in 1 .. Len(remote)
  BY DEF TypeOK
<1>2. remote' = remote \o ahead /\ base' = Len(remote') /\ ahead' = <<>>
  BY DEF Land
<1>3. remote' \in Seq(Commits) /\ Len(remote') = Len(remote) + Len(ahead)
  BY <1>1, <1>2
<1>4. Len(remote) \in Nat /\ Len(ahead) \in Nat
  BY <1>1
<1>5. QED
  BY <1>1, <1>2, <1>3, <1>4

\* The three commands of the cleanup.
LEMMA CleanupCount ==
  ASSUME NEW done \in SUBSET {"unstage", "restore", "clean"}
  PROVE  /\ Cardinality(done) \in 0 .. 3
         /\ Cardinality(done) = 3 => done = {"unstage", "restore", "clean"}
<1> DEFINE all == {"unstage", "restore", "clean"}
<1>1. IsFiniteSet({"unstage"}) /\ Cardinality({"unstage"}) = 1
  BY FS_Singleton
<1>2. IsFiniteSet({"unstage", "restore"}) /\ Cardinality({"unstage", "restore"}) = 2
  <2>1. {"unstage", "restore"} = {"unstage"} \cup {"restore"} /\ "restore" \notin
     {"unstage"}
    OBVIOUS
  <2>2. QED BY <1>1, <2>1, FS_AddElement
<1>3. IsFiniteSet(all) /\ Cardinality(all) = 3
  <2>1. all = {"unstage", "restore"} \cup {"clean"} /\ "clean" \notin {"unstage",
     "restore"}
    OBVIOUS
  <2>2. QED BY <1>2, <2>1, FS_AddElement
<1> HIDE DEF all
<1>4. IsFiniteSet(done) /\ Cardinality(done) <= 3 /\ (Cardinality(done) = 3 => done
   = all)
  BY <1>3, FS_Subset DEF all
<1>5. Cardinality(done) \in Nat
  BY <1>4, FS_CardinalityType
<1>6. QED BY <1>4, <1>5 DEF all

\* The two halves of the types: of ralph, and of the clone and GitHub.
LoopTyped == pc \in Steps /\ it \in Iterations /\ AttemptsCounted
CloneTyped ==
  /\ tree \subseteq Paths /\ index \subseteq Paths
  /\ ahead \in Seq(Commits) /\ remote \in Seq(Commits)
  /\ base \in 1 .. Len(remote) /\ upstream \in 1 .. Len(remote)
  /\ aside \in Seq(Commits)
StatusTyped ==
  /\ cancelled \in BOOLEAN
  /\ rebasing \in BOOLEAN
  /\ ci \in {"running", "success", "failure"}
  /\ pr \in {"OPEN", "CLOSED"}
  /\ review \in 0 .. MaxReviews
  /\ approved \in BOOLEAN
  /\ faults \in 0 .. MaxFaults

LEMMA TypeSplit == TypeInv <=> LoopTyped /\ CloneTyped /\ StatusTyped
  BY DEF TypeInv, TypeOK, LoopTyped, CloneTyped, StatusTyped

LEMMA TypeSplitNext == TypeInv' <=> (LoopTyped /\ CloneTyped /\ StatusTyped)'
  BY DEF TypeInv, TypeOK, LoopTyped, CloneTyped, StatusTyped

LEMMA Bounds ==
  /\ MaxRetries \in Nat /\ MaxReviews \in Nat /\ MaxOthers \in Nat
  /\ MaxFixes \in Nat /\ MaxFaults \in Nat
  BY RalphAssumption

\* An iteration that ends is as good as new.
LEMMA FreshTyped == Fresh \in Iterations /\ Fresh.runs = 0 /\ Fresh.attempt = 0
  BY Bounds DEF Fresh, Iterations

LEMMA InitTypeInv == Init => TypeInv
<1> SUFFICES ASSUME Init PROVE TypeInv
  OBVIOUS
<1>1. Theirs(0) \in Commits
  BY Bounds DEF Theirs, Commits
<1>2. CloneTyped
  BY <1>1 DEF Init, CloneTyped
<1>3. pc = "off" /\ it \in Iterations /\ it.runs = 0 /\ it.attempt = 0
  BY FreshTyped DEF Init
<1>4. LoopTyped
  BY <1>3, Bounds DEF LoopTyped, AttemptsCounted, ToolRunsAreBounded, Steps
<1>5. StatusTyped
  <2>1. cancelled \in BOOLEAN /\ rebasing \in BOOLEAN /\ approved \in BOOLEAN
    BY Zenon DEF Init
  <2>2. review \in 0 .. MaxReviews /\ faults \in 0 .. MaxFaults
    BY Bounds DEF Init
  <2>3. ci \in {"running", "success", "failure"} /\ pr \in {"OPEN", "CLOSED"}
    BY DEF Init
  <2>4. QED BY <2>1, <2>2, <2>3 DEF StatusTyped
<1>6. QED BY <1>2, <1>4, <1>5, TypeSplit

\* A command leaves the context alone and spends at most one fault.
LEMMA CommandSpends ==
  ASSUME NEW s, Runs(s) \/ Fails(s), faults \in 0 .. MaxFaults
  PROVE  UNCHANGED cancelled /\ faults' \in 0 .. MaxFaults
<1>1. UNCHANGED cancelled
  BY DEF Runs, Fails
<1>2. faults' = faults \/ (faults < MaxFaults /\ faults' = faults + 1)
  BY DEF Runs, Fails
<1>3. QED BY <1>1, <1>2, Bounds

LEMMA StatusStep == TypeInv /\ [Next]_vars => StatusTyped'
<1> SUFFICES ASSUME TypeInv, [Next]_vars PROVE StatusTyped'
  OBVIOUS
<1>0. StatusTyped
  BY TypeSplit
<1> USE Bounds DEF StatusTyped, Runs, Fails, clone, branch, head, github
<1>1. CASE Start
  BY <1>0, <1>1 DEF Start
<1>2. CASE PushUnpushedCommits
  <2> HIDE DEF Runs, Fails, StatusTyped
  <2>1. \E s : Runs(s) \/ Fails(s)
    BY <1>2 DEF PushUnpushedCommits
  <2>2. UNCHANGED cancelled /\ faults' \in 0 .. MaxFaults
    BY <1>0, <2>1, CommandSpends DEF StatusTyped
  <2>3. UNCHANGED rebasing /\ UNCHANGED <<ci, pr, review, approved>>
    BY <1>2 DEF PushUnpushedCommits, PushSucceeds, PushAnswerLost, Land
  <2>4. QED BY <1>0, <2>2, <2>3 DEF StatusTyped
<1>3. CASE GetPRStatus
  BY <1>0, <1>3 DEF GetPRStatus
<1>4. CASE GetFailedCILogs
  BY <1>0, <1>4 DEF GetFailedCILogs
<1>5. CASE FetchReview
  BY <1>0, <1>5 DEF FetchReview
<1>6. CASE GitPull
  <2> HIDE DEF Runs, Fails, StatusTyped
  <2>1. \E s : Runs(s) \/ Fails(s)
    BY <1>6 DEF GitPull
  <2>2. UNCHANGED cancelled /\ faults' \in 0 .. MaxFaults
    BY <1>0, <2>1, CommandSpends DEF StatusTyped
  <2>3. UNCHANGED rebasing /\ UNCHANGED <<ci, pr, review, approved>>
    BY <1>6 DEF GitPull, Replay, PullFails, Fetches
  <2>4. QED BY <1>0, <2>2, <2>3 DEF StatusTyped
<1>7. CASE RunTool
  BY <1>0, <1>7 DEF RunTool, ToolEdits
<1>8. CASE Verify
  BY <1>0, <1>8 DEF Verify
<1>9. CASE Repair
  BY <1>0, <1>9 DEF Repair, ToolEdits
<1>10. CASE Stage
  BY <1>0, <1>10 DEF Stage
<1>11. CASE Commit
  BY <1>0, <1>11 DEF Commit
<1>12. CASE Push
  <2> HIDE DEF Runs, Fails, StatusTyped
  <2>1. \E s : Runs(s) \/ Fails(s)
    BY <1>12 DEF Push
  <2>2. UNCHANGED cancelled /\ faults' \in 0 .. MaxFaults
    BY <1>0, <2>1, CommandSpends DEF StatusTyped
  <2>3. UNCHANGED rebasing /\ UNCHANGED <<ci, pr, review, approved>>
    BY <1>12 DEF Push, PushSucceeds, PushAnswerLost, Land
  <2>4. QED BY <1>0, <2>2, <2>3 DEF StatusTyped
<1>13. CASE Rebase
  <2> HIDE DEF Runs, Fails, StatusTyped
  <2>1. \E s : Runs(s) \/ Fails(s)
    BY <1>13 DEF Rebase
  <2>2. UNCHANGED cancelled /\ faults' \in 0 .. MaxFaults
    BY <1>0, <2>1, CommandSpends DEF StatusTyped
  <2>3. (UNCHANGED rebasing \/ rebasing' = TRUE) /\ UNCHANGED <<ci, pr, review, approved>>
    BY <1>13 DEF Rebase, Replay, StopsMidway, PullFails, Fetches
  <2>4. QED BY <1>0, <2>2, <2>3 DEF StatusTyped
<1>14. CASE Abort
  <2> HIDE DEF Runs, Fails, StatusTyped
  <2>1. \E s : Runs(s) \/ Fails(s)
    BY <1>14 DEF Abort
  <2>2. UNCHANGED cancelled /\ faults' \in 0 .. MaxFaults
    BY <1>0, <2>1, CommandSpends DEF StatusTyped
  <2>3. (UNCHANGED rebasing \/ rebasing' = FALSE) /\ UNCHANGED <<ci, pr, review, approved>>
    BY <1>14 DEF Abort
  <2>4. QED BY <1>0, <2>2, <2>3 DEF StatusTyped
<1>15. CASE PushAgain
  <2> HIDE DEF Runs, Fails, StatusTyped
  <2>1. \E s : Runs(s) \/ Fails(s)
    BY <1>15 DEF PushAgain
  <2>2. UNCHANGED cancelled /\ faults' \in 0 .. MaxFaults
    BY <1>0, <2>1, CommandSpends DEF StatusTyped
  <2>3. UNCHANGED rebasing /\ UNCHANGED <<ci, pr, review, approved>>
    BY <1>15 DEF PushAgain, PushSucceeds, PushAnswerLost, Land
  <2>4. QED BY <1>0, <2>2, <2>3 DEF StatusTyped
<1>16. CASE CleanupWorkingTree
  <2>1. PICK done \in SUBSET {"unstage", "restore", "clean"} :
          faults' = faults + 3 - Cardinality(done)
    BY <1>16 DEF CleanupWorkingTree
  <2>2. faults' \in 0 .. MaxFaults
    BY <1>0, <1>16, <2>1, CleanupCount DEF CleanupWorkingTree
  <2>3. QED BY <1>0, <1>16, <2>2 DEF CleanupWorkingTree
<1>17. CASE Poll
  BY <1>0, <1>17 DEF Poll
<1>18. CASE Stop
  BY <1>0, <1>18 DEF Stop
<1>19. CASE Signal
  BY <1>0, <1>19 DEF Signal
<1>20. CASE OperatorTidies
  BY <1>0, <1>20 DEF OperatorTidies
<1>21. CASE OthersPush
  BY <1>0, <1>21 DEF OthersPush
<1>22. CASE ReviewerUpdates
  BY <1>0, <1>22 DEF ReviewerUpdates
<1>23. CASE CIStarts
  BY <1>0, <1>23 DEF CIStarts
<1>24. CASE CIEnds
  BY <1>0, <1>24 DEF CIEnds
<1>25. CASE PRCloses
  BY <1>0, <1>25 DEF PRCloses
<1>26. CASE UNCHANGED vars
  BY <1>0, <1>26 DEF vars
<1>27. QED
  BY <1>1, <1>2, <1>3, <1>4, <1>5, <1>6, <1>7, <1>8, <1>9, <1>10, <1>11, <1>12,
     <1>13, <1>14, <1>15, <1>16, <1>17, <1>18, <1>19, <1>20, <1>21, <1>22, <1>23,
     <1>24, <1>25, <1>26 DEF Next, Ralph, World

LEMMA CloneStep == TypeInv /\ [Next]_vars => CloneTyped'
<1> SUFFICES ASSUME TypeInv, [Next]_vars PROVE CloneTyped'
  OBVIOUS
<1>0. CloneTyped /\ TypeOK /\ Len(remote) \in Nat /\ remote[Len(remote)] \in Commits
  <2>1. CloneTyped
    BY TypeSplit
  <2>2. Len(remote) \in Nat /\ Len(remote) \in 1 .. Len(remote)
    BY <2>1 DEF CloneTyped
  <2>3. QED BY <2>1, <2>2 DEF TypeInv, CloneTyped
<1>1. CASE Start
  BY <1>0, <1>1 DEF Start, CloneTyped, clone, branch, head, work, github
<1>2. CASE PushUnpushedCommits
  <2>1. CASE UNCHANGED <<clone, github>>
    BY <1>0, <2>1 DEF CloneTyped, clone, branch, head, work, github
  <2>2. CASE Land /\ upstream' \in {upstream, base'}
    <3>1. /\ upstream \in 1 .. Len(remote) /\ aside' \in Seq(Commits)
          /\ tree' \subseteq Paths /\ index' \subseteq Paths
      BY <1>0, <2>2 DEF CloneTyped, Land, work, head
    <3>2. QED BY <1>0, <2>2, <3>1, LandType DEF CloneTyped
  <2>3. QED BY <1>2, <2>1, <2>2 DEF PushUnpushedCommits, PushSucceeds, PushAnswerLost
<1>3. CASE GetPRStatus
  BY <1>0, <1>3 DEF GetPRStatus, CloneTyped, clone, branch, head, work, github
<1>4. CASE GetFailedCILogs
  BY <1>0, <1>4 DEF GetFailedCILogs, CloneTyped, clone, branch, head, work, github
<1>5. CASE FetchReview
  BY <1>0, <1>5 DEF FetchReview, CloneTyped, clone, branch, head, work, github
<1>6. CASE GitPull
  <2>1. CASE Replay
    <3>1. ahead' \in Seq(Commits)
      BY <1>0, <2>1, ReplayType
    <3>2. base' = Len(remote) /\ upstream' = Len(remote) /\ UNCHANGED <<tree, index, remote, aside>>
      BY <1>6, <2>1 DEF GitPull, Replay, branch, head, work, github
    <3>3. QED BY <1>0, <3>1, <3>2 DEF CloneTyped
  <2>2. CASE ~Replay
    <3>1. upstream' \in {upstream, Len(remote)} /\ UNCHANGED <<tree, index, base, ahead, remote, aside>>
      BY <1>6, <2>2 DEF GitPull, StopsMidway, PullFails, Fetches,
         clone, branch, head, work, github
    <3>2. QED BY <1>0, <3>1 DEF CloneTyped
  <2>3. QED BY <2>1, <2>2
<1>7. CASE RunTool
  BY <1>0, <1>7 DEF RunTool, ToolEdits, CloneTyped, clone, branch, head, work, github
<1>8. CASE Verify
  BY <1>0, <1>8 DEF Verify, CloneTyped, clone, branch, head, work, github
<1>9. CASE Repair
  BY <1>0, <1>9 DEF Repair, ToolEdits, CloneTyped, clone, branch, head, work, github
<1>10. CASE Stage
  BY <1>0, <1>10 DEF Stage, Stageable, CloneTyped, clone, branch, head, work, github
<1>11. CASE Commit
  <2> DEFINE c == [ralph |-> TRUE, review |-> it.seen, date |-> review,
                   sensitive |-> index \cap Sensitive # {}]
  <2>1. c \in Commits
    BY <1>0, CommitType
  <2>2. /\ ahead' = ahead \/ ahead' = Append(ahead, c)
        /\ aside' = aside \/ aside' = Append(aside, c)
    BY <1>11 DEF Commit
  <2> HIDE DEF c
  <2>3. ahead' \in Seq(Commits) /\ aside' \in Seq(Commits)
    <3>1. ahead \in Seq(Commits) /\ aside \in Seq(Commits)
      BY <1>0 DEF CloneTyped
    <3>2. Append(ahead, c) \in Seq(Commits) /\ Append(aside, c) \in Seq(Commits)
      BY <2>1, <3>1
    <3>3. QED BY <2>2, <3>1, <3>2
  <2>4. index' \subseteq Paths /\ UNCHANGED <<tree, base, upstream, remote>>
    BY <1>0, <1>11 DEF Commit, CloneTyped, github
  <2>5. QED BY <1>0, <2>3, <2>4 DEF CloneTyped
<1>12. CASE Push
  <2>1. CASE UNCHANGED <<clone, github>>
    BY <1>0, <2>1 DEF CloneTyped, clone, branch, head, work, github
  <2>2. CASE Land /\ upstream' \in {upstream, base'}
    <3>1. /\ upstream \in 1 .. Len(remote) /\ aside' \in Seq(Commits)
          /\ tree' \subseteq Paths /\ index' \subseteq Paths
      BY <1>0, <2>2 DEF CloneTyped, Land, work, head
    <3>2. QED BY <1>0, <2>2, <3>1, LandType DEF CloneTyped
  <2>3. QED BY <1>12, <2>1, <2>2 DEF Push, PushSucceeds, PushAnswerLost
<1>13. CASE Rebase
  <2>1. CASE Replay
    <3>1. ahead' \in Seq(Commits)
      BY <1>0, <2>1, ReplayType
    <3>2. base' = Len(remote) /\ upstream' = Len(remote) /\ UNCHANGED <<tree, index, remote, aside>>
      BY <1>13, <2>1 DEF Rebase, Replay, branch, head, work, github
    <3>3. QED BY <1>0, <3>1, <3>2 DEF CloneTyped
  <2>2. CASE ~Replay
    <3>1. upstream' \in {upstream, Len(remote)} /\ UNCHANGED <<tree, base, ahead, remote, aside>>
          /\ index' \subseteq Paths
      BY <1>0, <1>13, <2>2 DEF CloneTyped, Rebase, StopsMidway, PullFails, Fetches,
         clone, branch, head, work, github
    <3>2. QED BY <1>0, <3>1 DEF CloneTyped
  <2>3. QED BY <2>1, <2>2
<1>14. CASE Abort
  <2>1. UNCHANGED <<remote, base, ahead, upstream>>
    BY <1>14 DEF Abort, branch, github
  <2>2. aside' \in Seq(Commits) /\ tree' \subseteq Paths /\ index' \subseteq Paths
    <3>1. CASE UNCHANGED <<head, work>>
      BY <1>0, <3>1 DEF CloneTyped, head, work
    <3>2. CASE aside' = <<>> /\ index' = {} /\ tree' = tree \ Tracked
      BY <1>0, <3>2 DEF CloneTyped
    <3>3. QED BY <1>14, <3>1, <3>2 DEF Abort
  <2>3. QED BY <1>0, <2>1, <2>2 DEF CloneTyped
<1>15. CASE PushAgain
  <2>1. CASE UNCHANGED <<clone, github>>
    BY <1>0, <2>1 DEF CloneTyped, clone, branch, head, work, github
  <2>2. CASE Land /\ upstream' \in {upstream, base'}
    <3>1. /\ upstream \in 1 .. Len(remote) /\ aside' \in Seq(Commits)
          /\ tree' \subseteq Paths /\ index' \subseteq Paths
      BY <1>0, <2>2 DEF CloneTyped, Land, work, head
    <3>2. QED BY <1>0, <2>2, <3>1, LandType DEF CloneTyped
  <2>3. QED BY <1>15, <2>1, <2>2 DEF PushAgain, PushSucceeds, PushAnswerLost
<1>16. CASE CleanupWorkingTree
  BY <1>0, <1>16 DEF CleanupWorkingTree, RestoreAndClean, CloneTyped, branch, head,
     github
<1>17. CASE Poll
  BY <1>0, <1>17 DEF Poll, CloneTyped, clone, branch, head, work, github
<1>18. CASE Stop
  BY <1>0, <1>18 DEF Stop, CloneTyped, clone, branch, head, work, github
<1>19. CASE Signal
  BY <1>0, <1>19 DEF Signal, CloneTyped, clone, branch, head, work, github
<1>20. CASE OperatorTidies
  BY <1>0, <1>20 DEF OperatorTidies, CloneTyped, clone, branch, head, work, github
<1>21. CASE OthersPush
  <2>1. PICK date \in remote[Len(remote)].date .. review :
          remote' = Append(remote, Theirs(date))
    BY <1>21 DEF OthersPush
  <2>2. Theirs(date) \in Commits
    <3>1. remote[Len(remote)].date \in 0 .. MaxReviews /\ review \in 0 .. MaxReviews
      BY <1>0 DEF Commits, TypeOK
    <3>2. date \in 0 .. MaxReviews
      BY <2>1, <3>1, Bounds
    <3>3. QED BY <3>2, Bounds DEF Theirs, Commits
  <2>3. remote' \in Seq(Commits) /\ Len(remote') = Len(remote) + 1
    BY <1>0, <2>1, <2>2 DEF CloneTyped
  <2>4. QED BY <1>0, <1>21, <2>3 DEF OthersPush, CloneTyped, clone, branch, head, work
<1>22. CASE ReviewerUpdates
  BY <1>0, <1>22 DEF ReviewerUpdates, CloneTyped, clone, branch, head, work, github
<1>23. CASE CIStarts
  BY <1>0, <1>23 DEF CIStarts, CloneTyped, clone, branch, head, work, github
<1>24. CASE CIEnds
  BY <1>0, <1>24 DEF CIEnds, CloneTyped, clone, branch, head, work, github
<1>25. CASE PRCloses
  BY <1>0, <1>25 DEF PRCloses, CloneTyped, clone, branch, head, work, github
<1>26. CASE UNCHANGED vars
  BY <1>0, <1>26 DEF vars, CloneTyped, clone, branch, head, work, github
<1>27. QED
  BY <1>1, <1>2, <1>3, <1>4, <1>5, <1>6, <1>7, <1>8, <1>9, <1>10, <1>11, <1>12,
     <1>13, <1>14, <1>15, <1>16, <1>17, <1>18, <1>19, <1>20, <1>21, <1>22, <1>23,
     <1>24, <1>25, <1>26 DEF Next, Ralph, World

LEMMA LoopStep == TypeInv /\ [Next]_vars => LoopTyped'
<1> SUFFICES ASSUME TypeInv, [Next]_vars PROVE LoopTyped'
  OBVIOUS
<1>0. LoopTyped /\ review \in 0 .. MaxReviews /\ Len(remote) \in Nat
  BY TypeSplit DEF StatusTyped, CloneTyped
<1>a. CASE UNCHANGED <<pc, it>>
  <2>1. pc' = pc /\ it' = it
    BY <1>a
  <2>2. ToolRunsAreBounded' /\ (RunsCounted => RunsCounted')
    BY <1>0, <2>1 DEF LoopTyped, AttemptsCounted, ToolRunsAreBounded, RunsCounted, LastAttempt
  <2>3. pc' \in Steps /\ it' \in Iterations
    BY <1>0, <2>1 DEF LoopTyped, Steps, Iterations
  <2>4. AttemptsCounted'
    BY <1>0, <2>1, <2>2 DEF LoopTyped, AttemptsCounted
  <2>5. QED BY <2>3, <2>4 DEF LoopTyped
<1>b. CASE pc' \in {"off", "sleep"} /\ it' = Fresh
  <2>1. it' \in Iterations /\ it'.runs = 0 /\ it'.attempt = 0
    BY <1>b, FreshTyped
  <2>2. ToolRunsAreBounded'
    BY <2>1, Bounds DEF ToolRunsAreBounded
  <2>3. AttemptsCounted'
    BY <1>b, <2>1, <2>2 DEF AttemptsCounted
  <2>4. QED BY <1>b, <2>1, <2>3 DEF LoopTyped, Steps
<1>c. CASE /\ UNCHANGED it
           /\ pc' \in {"stage", "commit", "push", "rebase", "abort", "push again",
              "cleanup"}
  BY <1>0, <1>c DEF LoopTyped, AttemptsCounted, ToolRunsAreBounded, Steps
<1>d. CASE /\ it.runs = 0 /\ it.attempt = 0 /\ UNCHANGED it
           /\ pc' \in {"push stranded", "status", "ci", "review", "pull", "tool",
              "off"}
  BY <1>0, <1>d DEF LoopTyped, AttemptsCounted, ToolRunsAreBounded, Steps
<1>g. it \in Iterations /\ it = [job |-> it.job, seen |-> it.seen, sha |-> it.sha,
                                attempt |-> it.attempt, runs |-> it.runs]
  BY <1>0 DEF LoopTyped, Iterations
<1>e. CASE /\ it.runs = 0 /\ it.attempt = 0 /\ pc' \in {"ci", "pull"}
           /\ \E j \in {"none", "ci", "review"}, v \in 0 .. MaxReviews, h \in Nat :
                it' = [it EXCEPT !.job = j, !.seen = v, !.sha = h]
  <2>1. PICK j \in {"none", "ci", "review"}, v \in 0 .. MaxReviews, h \in Nat :
          it' = [it EXCEPT !.job = j, !.seen = v, !.sha = h]
    BY <1>e
  <2>2. it' = [job |-> j, seen |-> v, sha |-> h, attempt |-> 0, runs |-> 0]
    BY <1>e, <1>g, <2>1
  <2>3. it' \in Iterations /\ it'.runs = 0 /\ it'.attempt = 0
    BY <2>2, Bounds DEF Iterations
  <2>4. pc' \in {"ci", "pull"}
    BY <1>e
  <2>5. ToolRunsAreBounded'
    BY <2>3, Bounds DEF ToolRunsAreBounded
  <2>6. AttemptsCounted'
    BY <2>3, <2>4, <2>5 DEF AttemptsCounted
  <2>7. QED BY <2>3, <2>4, <2>6 DEF LoopTyped, Steps
<1> USE DEF At, Then, Ends, Runs, Fails
<1>f. pc \in {"off", "push stranded", "status", "ci", "review", "pull", "tool",
   "sleep"}
        => it.runs = 0 /\ it.attempt = 0
  BY <1>0 DEF LoopTyped, AttemptsCounted
<1>1. CASE Start
  BY <1>1, <1>b, <1>c, <1>d, <1>f DEF Start
<1>2. CASE PushUnpushedCommits
  BY <1>2, <1>b, <1>c, <1>d, <1>f DEF PushUnpushedCommits
<1>3. CASE GetPRStatus
  <2>1. it.runs = 0 /\ it.attempt = 0
    BY <1>3, <1>f DEF GetPRStatus
  <2>2. CASE pc' = "ci"
    <3>1. it' = [it EXCEPT !.job = it.job, !.seen = it.seen, !.sha = Len(remote)]
      BY <1>3, <1>g, <2>2 DEF GetPRStatus
    <3>2. QED BY <1>0, <1>e, <1>g, <2>1, <2>2, <3>1 DEF Iterations
  <2>3. CASE pc' # "ci"
    BY <1>3, <1>b, <1>d, <2>1, <2>3 DEF GetPRStatus
  <2>4. QED BY <2>2, <2>3
<1>4. CASE GetFailedCILogs
  <2>1. it.runs = 0 /\ it.attempt = 0
    BY <1>4, <1>f DEF GetFailedCILogs
  <2>2. CASE pc' = "pull"
    <3>1. it' = [it EXCEPT !.job = "ci", !.seen = it.seen, !.sha = 0]
      BY <1>4, <1>g, <2>2 DEF GetFailedCILogs
    <3>2. QED BY <1>0, <1>e, <1>g, <2>1, <2>2, <3>1 DEF Iterations
  <2>3. CASE pc' # "pull"
    BY <1>4, <1>b, <1>d, <2>1, <2>3 DEF GetFailedCILogs
  <2>4. QED BY <2>2, <2>3
<1>5. CASE FetchReview
  <2>1. it.runs = 0 /\ it.attempt = 0
    BY <1>5, <1>f DEF FetchReview
  <2>2. CASE pc' = "pull"
    <3>1. it' = [it EXCEPT !.job = "review", !.seen = review, !.sha = 0]
      BY <1>5, <1>g, <2>2 DEF FetchReview
    <3>2. QED BY <1>0, <1>e, <1>g, <2>1, <2>2, <3>1 DEF Iterations
  <2>3. CASE pc' # "pull"
    BY <1>5, <1>b, <1>d, <2>1, <2>3 DEF FetchReview
  <2>4. QED BY <2>2, <2>3
<1>6. CASE GitPull
  BY <1>6, <1>b, <1>c, <1>d, <1>f DEF GitPull
<1>7. CASE RunTool
  <2>1. CASE pc' = "verify"
    <3>1. it' = [it EXCEPT !.attempt = FirstAttempt, !.runs = 1]
      BY <1>7, <2>1 DEF RunTool
    <3>2. it' \in Iterations /\ it'.job = it.job /\ it'.runs = 1
            /\ it'.attempt = (IF it.job = "ci" THEN 2 ELSE 1)
      <4>1. FirstAttempt \in 0 .. MaxRetries + 2 /\ 1 \in 0 .. MaxRetries + 2
              /\ FirstAttempt = (IF it.job = "ci" THEN 2 ELSE 1)
        BY Bounds DEF FirstAttempt
      <4>2. it' = [job |-> it.job, seen |-> it.seen, sha |-> it.sha,
                  attempt |-> FirstAttempt, runs |-> 1]
        BY <1>g, <3>1
      <4>3. QED BY <1>g, <4>1, <4>2 DEF Iterations
    <3>3. QED
      BY <2>1, <3>2, Bounds DEF LoopTyped, AttemptsCounted, RunsCounted,
         LastAttempt, ToolRunsAreBounded, Steps
  <2>2. CASE pc' # "verify"
    BY <1>7, <1>b, <2>2 DEF RunTool
  <2>3. QED BY <2>1, <2>2
<1>8. CASE Verify
  <2>1. CASE pc' = "repair"
    <3>1. RunsCounted /\ ToolRunsAreBounded /\ it.attempt <= MaxRetries /\ UNCHANGED
       it
      BY <1>0, <1>8, <1>g, <2>1, Bounds DEF Verify, NoAttemptLeft, LoopTyped,
         AttemptsCounted, Iterations
    <3>2. RunsCounted' /\ ToolRunsAreBounded' /\ it'.attempt <= MaxRetries
      BY <3>1 DEF RunsCounted, LastAttempt, ToolRunsAreBounded
    <3>3. QED BY <1>g, <2>1, <3>1, <3>2 DEF LoopTyped, AttemptsCounted, Steps
  <2>2. CASE pc' # "repair"
    BY <1>8, <1>c, <2>2 DEF Verify
  <2>3. QED BY <2>1, <2>2
<1>9. CASE Repair
  <2>1. RunsCounted /\ it.attempt <= MaxRetries
    BY <1>0, <1>9 DEF Repair, LoopTyped, AttemptsCounted
  <2>2. it' \in Iterations /\ it'.job = it.job /\ it'.runs = it.runs + 1
          /\ it'.attempt = it.attempt + 1
    <3>1. it.attempt \in Nat /\ it.runs \in Nat
      BY <1>g DEF Iterations
    <3>2. it.attempt + 1 \in 0 .. MaxRetries + 2 /\ it.runs + 1 \in 0 .. MaxRetries + 2
      BY <2>1, <3>1, Bounds DEF RunsCounted
    <3>3. it' = [job |-> it.job, seen |-> it.seen, sha |-> it.sha,
                attempt |-> it.attempt + 1, runs |-> it.runs + 1]
      BY <1>9, <1>g DEF Repair
    <3>4. QED BY <1>g, <3>2, <3>3 DEF Iterations
  <2>3. RunsCounted' /\ ToolRunsAreBounded'
    BY <1>g, <2>1, <2>2, Bounds DEF RunsCounted, LastAttempt, ToolRunsAreBounded,
       Iterations
  <2>4. pc' \in {"verify", "cleanup"}
    BY <1>9 DEF Repair
  <2>5. QED BY <2>2, <2>3, <2>4 DEF LoopTyped, AttemptsCounted, Steps
<1>10. CASE Stage
  BY <1>10, <1>b, <1>c, <1>d, <1>f DEF Stage
<1>11. CASE Commit
  BY <1>11, <1>b, <1>c, <1>d, <1>f DEF Commit
<1>12. CASE Push
  BY <1>12, <1>b, <1>c, <1>d, <1>f DEF Push
<1>13. CASE Rebase
  BY <1>13, <1>b, <1>c, <1>d, <1>f DEF Rebase
<1>14. CASE Abort
  BY <1>14, <1>b, <1>c, <1>d, <1>f DEF Abort
<1>15. CASE PushAgain
  BY <1>15, <1>b, <1>c, <1>d, <1>f DEF PushAgain
<1>16. CASE CleanupWorkingTree
  BY <1>16, <1>b, <1>c, <1>d, <1>f DEF CleanupWorkingTree
<1>17. CASE Poll
  BY <1>17, <1>b, <1>c, <1>d, <1>f DEF Poll
<1>18. CASE Stop
  BY <1>18, <1>b, <1>c, <1>d, <1>f DEF Stop
<1>19. CASE Signal
  BY <1>19, <1>a DEF Signal
<1>20. CASE OperatorTidies
  BY <1>20, <1>a DEF OperatorTidies
<1>21. CASE OthersPush
  BY <1>21, <1>a DEF OthersPush
<1>22. CASE ReviewerUpdates
  BY <1>22, <1>a DEF ReviewerUpdates
<1>23. CASE CIStarts
  BY <1>23, <1>a DEF CIStarts
<1>24. CASE CIEnds
  BY <1>24, <1>a DEF CIEnds
<1>25. CASE PRCloses
  BY <1>25, <1>a DEF PRCloses
<1>26. CASE UNCHANGED vars
  BY <1>26, <1>a DEF vars
<1>27. QED
  BY <1>1, <1>2, <1>3, <1>4, <1>5, <1>6, <1>7, <1>8, <1>9, <1>10, <1>11, <1>12,
     <1>13, <1>14, <1>15, <1>16, <1>17, <1>18, <1>19, <1>20, <1>21, <1>22, <1>23,
     <1>24, <1>25, <1>26 DEF Next, Ralph, World

LEMMA NextTypeInv == TypeInv /\ [Next]_vars => TypeInv'
  BY StatusStep, CloneStep, LoopStep, TypeSplitNext

\* TypeOK, for every instance.
THEOREM TypeCorrect == Spec => []TypeOK
<1>1. TypeInv => TypeOK
  BY DEF TypeInv
<1>2. QED
  BY InitTypeInv, NextTypeInv, <1>1, PTL DEF Spec

\* ToolRunsAreBounded, for every limit, zero included.
THEOREM ToolRunsBounded == Spec => []ToolRunsAreBounded
<1>1. TypeInv => ToolRunsAreBounded
  BY DEF TypeInv, AttemptsCounted
<1>2. QED
  BY InitTypeInv, NextTypeInv, <1>1, PTL DEF Spec

-----------------------------------------------------------------------------
(* What a step does to the branch.                                         *)

NewCommit == [ralph |-> TRUE, review |-> it.seen, date |-> review,
              sensitive |-> index \cap Sensitive # {}]
OthersCommit ==
  \E date \in remote[Len(remote)].date .. review :
          remote' = Append(remote, Theirs(date))

\* A step leaves the commits alone, or pushes, replays, commits, or is
\* somebody else's push.
BranchMoves ==
  \/ UNCHANGED <<remote, ahead, base>>
  \/ Accepted /\ Land
  \/ Replay /\ UNCHANGED <<remote, review>>
  \/ /\ pc = "commit"
     /\ ahead' = Append(ahead, NewCommit)
     /\ UNCHANGED <<remote, base, review, it>>
  \/ OthersCommit /\ UNCHANGED <<ahead, base, review, pc, it>>

LEMMA BranchStep == [Next]_vars => BranchMoves
<1> SUFFICES ASSUME [Next]_vars PROVE BranchMoves
  OBVIOUS
<1> USE DEF BranchMoves, clone, branch, github
<1>1. CASE Start
  BY <1>1 DEF Start
<1>2. CASE PushUnpushedCommits
  BY <1>2 DEF PushUnpushedCommits, PushSucceeds, PushAnswerLost
<1>3. CASE GetPRStatus
  BY <1>3 DEF GetPRStatus
<1>4. CASE GetFailedCILogs
  BY <1>4 DEF GetFailedCILogs
<1>5. CASE FetchReview
  BY <1>5 DEF FetchReview
<1>6. CASE GitPull
  BY <1>6 DEF GitPull, PullFails, Fetches
<1>7. CASE RunTool
  BY <1>7 DEF RunTool, ToolEdits
<1>8. CASE Verify
  BY <1>8 DEF Verify
<1>9. CASE Repair
  BY <1>9 DEF Repair, ToolEdits
<1>10. CASE Stage
  BY <1>10 DEF Stage
<1>11. CASE Commit
  BY <1>11 DEF Commit, NewCommit, At, Then, Runs
<1>12. CASE Push
  BY <1>12 DEF Push, PushSucceeds, PushAnswerLost
<1>13. CASE Rebase
  BY <1>13 DEF Rebase, StopsMidway, PullFails, Fetches
<1>14. CASE Abort
  BY <1>14 DEF Abort
<1>15. CASE PushAgain
  BY <1>15 DEF PushAgain, PushSucceeds, PushAnswerLost
<1>16. CASE CleanupWorkingTree
  BY <1>16 DEF CleanupWorkingTree
<1>17. CASE Poll
  BY <1>17 DEF Poll
<1>18. CASE Stop
  BY <1>18 DEF Stop
<1>19. CASE Signal
  BY <1>19 DEF Signal
<1>20. CASE OperatorTidies
  BY <1>20 DEF OperatorTidies
<1>21. CASE OthersPush
  BY <1>21 DEF OthersPush, OthersCommit
<1>22. CASE ReviewerUpdates
  BY <1>22 DEF ReviewerUpdates
<1>23. CASE CIStarts
  BY <1>23 DEF CIStarts
<1>24. CASE CIEnds
  BY <1>24 DEF CIEnds
<1>25. CASE PRCloses
  BY <1>25 DEF PRCloses
<1>26. CASE UNCHANGED vars
  BY <1>26 DEF vars
<1>27. QED
  BY <1>1, <1>2, <1>3, <1>4, <1>5, <1>6, <1>7, <1>8, <1>9, <1>10, <1>11, <1>12,
     <1>13, <1>14, <1>15, <1>16, <1>17, <1>18, <1>19, <1>20, <1>21, <1>22, <1>23,
     <1>24, <1>25, <1>26 DEF Next, Ralph, World

\* The commits of the branch.
LEMMA HistoryElements ==
  ASSUME TypeOK
  PROVE  /\ Len(History) = base + Len(ahead)
         /\ base \in 1 .. Len(remote) /\ Len(ahead) \in Nat /\ Len(remote) \in Nat
         /\ \A i \in 1 .. base : History[i] = remote[i]
         /\ \A i \in base + 1 .. base + Len(ahead) : History[i] = ahead[i - base]
<1>1. remote \in Seq(Commits) /\ ahead \in Seq(Commits) /\ base \in 1 .. Len(remote)
  BY DEF TypeOK
<1> DEFINE below == SubSeq(remote, 1, base)
<1>2. /\ below \in Seq(Commits) /\ Len(below) = base
      /\ \A i \in 1 .. base : below[i] = remote[i]
  BY <1>1
<1>3. Len(ahead) \in Nat /\ Len(remote) \in Nat /\ base \in Nat
  BY <1>1
<1> HIDE DEF below
<1>4. /\ Len(below \o ahead) = base + Len(ahead)
      /\ \A i \in 1 .. base : (below \o ahead)[i] = below[i]
      /\ \A i \in base + 1 .. base + Len(ahead) :
           (below \o ahead)[i] = ahead[i - base]
  BY <1>1, <1>2, <1>3
<1>5. QED
  BY <1>1, <1>2, <1>3, <1>4 DEF History, below

-----------------------------------------------------------------------------
(* What may be committed.                                                  *)

SafeInv ==
  /\ index \cap Sensitive = {}
  /\ \A i \in 1 .. Len(remote) : ~remote[i].sensitive
  /\ \A i \in 1 .. Len(ahead) : ~ahead[i].sensitive
  /\ \A i \in 1 .. Len(aside) : ~aside[i].sensitive

LEMMA IndexStep == SafeInv /\ [Next]_vars => (index \cap Sensitive = {})'
<1> SUFFICES ASSUME index \cap Sensitive = {}, [Next]_vars
             PROVE  index' \cap Sensitive = {}
  BY DEF SafeInv
<1> USE DEF clone, work
<1>1. CASE Start
  BY <1>1 DEF Start
<1>2. CASE PushUnpushedCommits
  BY <1>2 DEF PushUnpushedCommits, PushSucceeds, PushAnswerLost, Land
<1>3. CASE GetPRStatus
  BY <1>3 DEF GetPRStatus
<1>4. CASE GetFailedCILogs
  BY <1>4 DEF GetFailedCILogs
<1>5. CASE FetchReview
  BY <1>5 DEF FetchReview
<1>6. CASE GitPull
  BY <1>6 DEF GitPull, Replay, PullFails, Fetches
<1>7. CASE RunTool
  BY <1>7 DEF RunTool, ToolEdits
<1>8. CASE Verify
  BY <1>8 DEF Verify
<1>9. CASE Repair
  BY <1>9 DEF Repair, ToolEdits
<1>10. CASE Stage
  BY <1>10 DEF Stage, Stageable
<1>11. CASE Commit
  BY <1>11 DEF Commit
<1>12. CASE Push
  BY <1>12 DEF Push, PushSucceeds, PushAnswerLost, Land
<1>13. CASE Rebase
  BY <1>13 DEF Rebase, Replay, StopsMidway, PullFails, Fetches
<1>14. CASE Abort
  BY <1>14 DEF Abort
<1>15. CASE PushAgain
  BY <1>15 DEF PushAgain, PushSucceeds, PushAnswerLost, Land
<1>16. CASE CleanupWorkingTree
  BY <1>16 DEF CleanupWorkingTree
<1>17. CASE Poll
  BY <1>17 DEF Poll
<1>18. CASE Stop
  BY <1>18 DEF Stop
<1>19. CASE Signal
  BY <1>19 DEF Signal
<1>20. CASE OperatorTidies
  BY <1>20 DEF OperatorTidies
<1>21. CASE OthersPush
  BY <1>21 DEF OthersPush
<1>22. CASE ReviewerUpdates
  BY <1>22 DEF ReviewerUpdates
<1>23. CASE CIStarts
  BY <1>23 DEF CIStarts
<1>24. CASE CIEnds
  BY <1>24 DEF CIEnds
<1>25. CASE PRCloses
  BY <1>25 DEF PRCloses
<1>26. CASE UNCHANGED vars
  BY <1>26 DEF vars
<1>27. QED
  BY <1>1, <1>2, <1>3, <1>4, <1>5, <1>6, <1>7, <1>8, <1>9, <1>10, <1>11, <1>12,
     <1>13, <1>14, <1>15, <1>16, <1>17, <1>18, <1>19, <1>20, <1>21, <1>22, <1>23,
     <1>24, <1>25, <1>26 DEF Next, Ralph, World

\* What is on the detached HEAD stays, is dropped, or gets the new commit.
LEMMA AsideStep ==
  [Next]_vars => aside' = aside \/ aside' = <<>> \/ aside' = Append(aside, NewCommit)
<1> SUFFICES ASSUME [Next]_vars
             PROVE  aside' = aside \/ aside' = <<>> \/ aside' = Append(aside, NewCommit)
  OBVIOUS
<1> USE DEF clone, head
<1>1. CASE Start
  BY <1>1 DEF Start
<1>2. CASE PushUnpushedCommits
  BY <1>2 DEF PushUnpushedCommits, PushSucceeds, PushAnswerLost, Land
<1>3. CASE GetPRStatus
  BY <1>3 DEF GetPRStatus
<1>4. CASE GetFailedCILogs
  BY <1>4 DEF GetFailedCILogs
<1>5. CASE FetchReview
  BY <1>5 DEF FetchReview
<1>6. CASE GitPull
  BY <1>6 DEF GitPull, Replay, PullFails, Fetches
<1>7. CASE RunTool
  BY <1>7 DEF RunTool, ToolEdits
<1>8. CASE Verify
  BY <1>8 DEF Verify
<1>9. CASE Repair
  BY <1>9 DEF Repair, ToolEdits
<1>10. CASE Stage
  BY <1>10 DEF Stage
<1>11. CASE Commit
  BY <1>11 DEF Commit, NewCommit
<1>12. CASE Push
  BY <1>12 DEF Push, PushSucceeds, PushAnswerLost, Land
<1>13. CASE Rebase
  BY <1>13 DEF Rebase, Replay, StopsMidway, PullFails, Fetches
<1>14. CASE Abort
  BY <1>14 DEF Abort
<1>15. CASE PushAgain
  BY <1>15 DEF PushAgain, PushSucceeds, PushAnswerLost, Land
<1>16. CASE CleanupWorkingTree
  BY <1>16 DEF CleanupWorkingTree
<1>17. CASE Poll
  BY <1>17 DEF Poll
<1>18. CASE Stop
  BY <1>18 DEF Stop
<1>19. CASE World
  BY <1>19 DEF World, Signal, OperatorTidies, OthersPush, ReviewerUpdates, CIStarts,
     CIEnds, PRCloses
<1>20. CASE UNCHANGED vars
  BY <1>20 DEF vars
<1>21. QED
  BY <1>1, <1>2, <1>3, <1>4, <1>5, <1>6, <1>7, <1>8, <1>9, <1>10, <1>11, <1>12,
     <1>13, <1>14, <1>15, <1>16, <1>17, <1>18, <1>19, <1>20 DEF Next, Ralph

LEMMA AsideSafe ==
  ASSUME TypeInv, SafeInv, [Next]_vars
  PROVE  \A i \in 1 .. Len(aside') : ~aside'[i].sensitive
<1>1. TypeOK /\ aside \in Seq(Commits) /\ \A i \in 1 .. Len(aside) : ~aside[i].sensitive
  BY DEF TypeInv, TypeOK, SafeInv
<1>2. NewCommit \in Commits /\ ~NewCommit.sensitive
  BY <1>1, CommitType DEF NewCommit, SafeInv
<1>3. CASE aside' = Append(aside, NewCommit)
  <2>1. \A i \in 1 .. Len(aside') :
          aside'[i] = NewCommit \/ (i \in 1 .. Len(aside) /\ aside'[i] = aside[i])
    BY <1>1, <1>2, <1>3
  <2>2. QED BY <1>1, <1>2, <2>1
<1>4. CASE aside' = <<>>
  BY <1>4
<1>5. QED
  BY <1>1, <1>3, <1>4, AsideStep

LEMMA SafeStep == TypeInv /\ SafeInv /\ [Next]_vars => SafeInv'
<1> SUFFICES ASSUME TypeInv, SafeInv, [Next]_vars
             PROVE  /\ \A i \in 1 .. Len(remote') : ~remote'[i].sensitive
                    /\ \A i \in 1 .. Len(ahead') : ~ahead'[i].sensitive
  BY IndexStep, AsideSafe DEF SafeInv
<1>1. TypeOK /\ remote \in Seq(Commits) /\ ahead \in Seq(Commits)
  BY DEF TypeInv, TypeOK
<1>2. /\ \A i \in 1 .. Len(remote) : ~remote[i].sensitive
      /\ \A i \in 1 .. Len(ahead) : ~ahead[i].sensitive
  BY DEF SafeInv
<1>3. CASE UNCHANGED <<remote, ahead, base>>
  BY <1>2, <1>3
<1>4. CASE Accepted /\ Land
  <2>1. \A i \in 1 .. Len(remote') : ~remote'[i].sensitive
    <3> SUFFICES ASSUME NEW i \in 1 .. Len(remote') PROVE ~remote'[i].sensitive
      OBVIOUS
    <3>1. /\ Len(remote) \in Nat /\ Len(ahead) \in Nat
          /\ Len(remote') = Len(remote) + Len(ahead)
      BY <1>1, <1>4, LandType
    <3>2. CASE i <= Len(remote)
      BY <1>1, <1>2, <1>4, <3>1, <3>2, LandType
    <3>3. CASE i > Len(remote)
      BY <1>1, <1>2, <1>4, <3>1, <3>3, LandType
    <3>4. QED BY <3>1, <3>2, <3>3
  <2>2. Len(ahead') = 0
    BY <1>1, <1>4, LandType
  <2>3. QED BY <2>1, <2>2
<1>5. CASE Replay /\ UNCHANGED <<remote, review>>
  BY <1>1, <1>2, <1>5, ReplayType
<1>6. CASE ahead' = Append(ahead, NewCommit) /\ UNCHANGED <<remote, base, review, it>>
  <2>1. NewCommit \in Commits /\ ~NewCommit.sensitive
    BY <1>1, CommitType DEF NewCommit, SafeInv
  <2>2. \A i \in 1 .. Len(ahead') :
          ahead'[i] = NewCommit \/ (i \in 1 .. Len(ahead) /\ ahead'[i] = ahead[i])
    BY <1>1, <1>6, <2>1
  <2>3. QED BY <1>2, <1>6, <2>1, <2>2
<1>7. CASE OthersCommit /\ UNCHANGED <<ahead, base, review, pc, it>>
  <2>1. PICK date \in remote[Len(remote)].date .. review :
          remote' = Append(remote, Theirs(date))
    BY <1>7 DEF OthersCommit
  <2>2. ~Theirs(date).sensitive
    BY DEF Theirs
  <2>3. \A i \in 1 .. Len(remote') :
          remote'[i] = Theirs(date) \/ (i \in 1 .. Len(remote) /\ remote'[i] = remote[i])
    BY <1>1, <2>1
  <2>4. QED BY <1>2, <1>7, <2>2, <2>3
<1>8. QED
  BY <1>3, <1>4, <1>5, <1>6, <1>7, BranchStep DEF BranchMoves

LEMMA SafeInit == Init => SafeInv
  BY DEF Init, SafeInv, Theirs

\* SensitivePathsStayLocal, for every set of sensitive paths.
THEOREM SensitiveStaysLocal == Spec => []SensitivePathsStayLocal
<1>1. TypeInv /\ SafeInv => SensitivePathsStayLocal
  <2> SUFFICES ASSUME TypeInv, SafeInv, NEW i \in 1 .. Len(History)
               PROVE  ~History[i].sensitive
    BY DEF SensitivePathsStayLocal, SafeInv
  <2>1. TypeOK
    BY DEF TypeInv
  <2>2. i \in 1 .. base \/ i \in base + 1 .. base + Len(ahead)
    BY <2>1, HistoryElements
  <2>3. CASE i \in 1 .. base
    BY <2>1, <2>3, HistoryElements DEF SafeInv
  <2>4. CASE i \in base + 1 .. base + Len(ahead)
    <3>1. i - base \in 1 .. Len(ahead) /\ History[i] = ahead[i - base]
      BY <2>1, <2>4, HistoryElements
    <3>2. QED BY <3>1 DEF SafeInv
  <2>5. QED BY <2>2, <2>3, <2>4
<1>2. QED
  BY InitTypeInv, NextTypeInv, SafeInit, SafeStep, <1>1, PTL DEF Spec

-----------------------------------------------------------------------------
(* Where work starts.                                                      *)

\* After pushUnpushedCommits the branch has nothing unpushed, unless a rebase is
\* left behind, or the context has been cancelled, and then the next command ends
\* the iteration.
WorkSteps == {"tool", "verify", "repair", "stage", "commit"}
PushedInv ==
  /\ Len(ahead) <= 1
  /\ pc = "status" => ahead = <<>> \/ cancelled \/ rebasing
  /\ WorkStartsFromPushedHead

LEMMA PushedStep == TypeInv /\ PushedInv /\ [Next]_vars => PushedInv'
<1> SUFFICES ASSUME TypeInv, PushedInv, [Next]_vars PROVE PushedInv'
  OBVIOUS
<1>0. /\ TypeOK /\ ahead \in Seq(Commits) /\ Len(ahead) \in Nat /\ Len(ahead) <= 1
      /\ pc = "status" => ahead = <<>> \/ cancelled \/ rebasing
      /\ pc \in WorkSteps => Unpushed = <<>>
      /\ pc \in {"ci", "review", "pull"} => rebasing \/ ahead = <<>>
  BY DEF TypeInv, TypeOK, PushedInv, WorkStartsFromPushedHead, WorkSteps
<1> USE DEF Unpushed, WorkSteps
<1>a. ASSUME Len(ahead') <= 1,
             pc' = "status" => ahead' = <<>> \/ cancelled' \/ rebasing',
             pc' \in WorkSteps => Unpushed' = <<>>,
             pc' \in {"ci", "review", "pull"} => rebasing' \/ ahead' = <<>>
      PROVE  PushedInv'
  BY <1>a DEF PushedInv, WorkStartsFromPushedHead
<1> DEFINE same == UNCHANGED <<ahead, rebasing, aside>>
           rest == {"off", "push stranded", "push", "rebase", "abort", "push again",
                    "cleanup", "sleep"}
<1>b. ASSUME ahead' = <<>> \/ UNCHANGED ahead, pc' \in rest PROVE PushedInv'
  <2>1. Len(ahead') <= 1
    <3>1. CASE ahead' = <<>>
      <4>1. Len(ahead') = 0
        BY <3>1
      <4>2. QED BY <4>1
    <3>2. CASE UNCHANGED ahead
      BY <1>0, <3>2
    <3>3. QED BY <1>b, <3>1, <3>2
  <2>2. pc' # "status" /\ pc' \notin WorkSteps /\ pc' \notin {"ci", "review", "pull"}
    BY <1>b
  <2>3. QED BY <1>a, <2>1, <2>2
<1>c. ASSUME same, UNCHANGED pc, UNCHANGED cancelled \/ cancelled' PROVE PushedInv'
  BY <1>0, <1>a, <1>c
<1>d. ASSUME same, pc \in WorkSteps, pc' \in WorkSteps \cup rest PROVE PushedInv'
  BY <1>0, <1>a, <1>d
<1>e. ASSUME same, pc \in {"ci", "review", "pull"},
             pc' \in {"ci", "review", "pull"} \cup rest
      PROVE  PushedInv'
  BY <1>0, <1>a, <1>e
<1> USE DEF At, Then, Ends, clone, branch, head, github, work
<1>1. CASE Start
  BY <1>1, <1>b DEF Start
<1>2. CASE PushUnpushedCommits
  <2>1. CASE Land
    <3>1. ahead' = <<>> /\ pc' \in {"status", "sleep"}
      BY <1>2, <2>1 DEF PushUnpushedCommits, Land
    <3>2. Len(ahead') <= 1 /\ pc' \notin WorkSteps /\ pc' \notin {"ci", "review", "pull"}
      BY <3>1
    <3>3. QED BY <1>a, <3>1, <3>2
  <2>2. CASE ~Land
    <3>1. same /\ UNCHANGED cancelled /\ pc' \in {"status", "sleep"}
      BY <1>2, <2>2 DEF PushUnpushedCommits, PushSucceeds, PushAnswerLost, Runs, Fails
    <3>2. pc' = "status" => ahead = <<>> \/ cancelled \/ rebasing
      BY <1>2, <2>2 DEF PushUnpushedCommits, PushSucceeds, PushAnswerLost, Runs, Fails
    <3>3. QED BY <1>0, <1>a, <3>1, <3>2
  <2>3. QED BY <2>1, <2>2
<1>3. CASE GetPRStatus
  <2>1. same /\ pc' \in {"ci", "off", "sleep"}
    BY <1>3 DEF GetPRStatus
  <2>2. pc' = "ci" => pc = "status" /\ ~cancelled
    BY <1>3 DEF GetPRStatus, Runs
  <2>3. QED BY <1>0, <1>a, <2>1, <2>2
<1>4. CASE GetFailedCILogs
  BY <1>4, <1>e DEF GetFailedCILogs, Runs, Fails
<1>5. CASE FetchReview
  BY <1>5, <1>b, <1>e DEF FetchReview, Runs, Fails
<1>6. CASE GitPull
  <2>1. CASE pc' = "tool"
    <3>1. pc = "pull" /\ UNCHANGED <<rebasing, aside>> /\ (rebasing => aside = <<>>)
      BY <1>6, <2>1 DEF GitPull, Replay, PullFails, Fetches, Runs, Fails
    <3>2. Replay \/ UNCHANGED ahead
      BY <1>6 DEF GitPull, PullFails, Fetches
    <3>3. Len(ahead') <= 1 /\ (~rebasing => ahead' = <<>>)
      <4>1. CASE Replay
        <5>1. ahead' \in Seq(Commits) /\ Len(ahead') = Len(ahead)
          BY <1>0, <4>1, ReplayType
        <5>2. QED BY <1>0, <3>1, <5>1
      <4>2. CASE UNCHANGED ahead
        BY <1>0, <3>1, <4>2
      <4>3. QED BY <3>2, <4>1, <4>2
    <3>4. QED BY <1>a, <2>1, <3>1, <3>3
  <2>2. CASE pc' # "tool"
    BY <1>6, <2>2, <1>b DEF GitPull, PullFails, Fetches
  <2>3. QED BY <2>1, <2>2
<1>7. CASE RunTool
  BY <1>7, <1>d DEF RunTool, Runs, Fails, ToolEdits
<1>8. CASE Verify
  BY <1>8, <1>d DEF Verify, Runs, Fails
<1>9. CASE Repair
  BY <1>9, <1>d DEF Repair, Runs, Fails, ToolEdits
<1>10. CASE Stage
  BY <1>10, <1>d DEF Stage, Runs, Fails
<1>11. CASE Commit
  <2>1. Unpushed = <<>> /\ pc' \in {"push", "cleanup"}
    BY <1>0, <1>11 DEF Commit, Runs, Fails
  <2>2. Len(ahead') <= 1
    <3>1. CASE ahead' = ahead
      BY <1>0, <3>1
    <3>2. CASE ahead = <<>> /\ ahead' = Append(ahead, NewCommit)
      BY <1>0, <3>2, CommitType DEF NewCommit
    <3>3. QED BY <1>11, <2>1, <3>1, <3>2 DEF Commit, NewCommit
  <2>3. QED BY <1>a, <2>1, <2>2
<1>12. CASE Push
  BY <1>12, <1>b DEF Push, PushSucceeds, PushAnswerLost, Land
<1>13. CASE Rebase
  <2>1. pc' \in {"push again", "abort"}
    BY <1>13 DEF Rebase
  <2>2. Len(ahead') = Len(ahead)
    <3>1. CASE Replay
      BY <1>0, <3>1, ReplayType
    <3>2. CASE ~Replay
      BY <1>13, <3>2 DEF Rebase, StopsMidway, PullFails, Fetches
    <3>3. QED BY <3>1, <3>2
  <2>3. QED BY <1>0, <1>a, <2>1, <2>2
<1>14. CASE Abort
  BY <1>14, <1>b DEF Abort
<1>15. CASE PushAgain
  BY <1>15, <1>b DEF PushAgain, PushSucceeds, PushAnswerLost, Land
<1>16. CASE CleanupWorkingTree
  BY <1>16, <1>b DEF CleanupWorkingTree
<1>17. CASE Poll
  BY <1>17, <1>b DEF Poll
<1>18. CASE Stop
  BY <1>18, <1>b DEF Stop
<1>19. CASE Signal
  BY <1>19, <1>c DEF Signal
<1>20. CASE OperatorTidies
  BY <1>20, <1>b DEF OperatorTidies
<1>21. CASE OthersPush
  BY <1>21, <1>c DEF OthersPush
<1>22. CASE ReviewerUpdates
  BY <1>22, <1>c DEF ReviewerUpdates
<1>23. CASE CIStarts
  BY <1>23, <1>c DEF CIStarts
<1>24. CASE CIEnds
  BY <1>24, <1>c DEF CIEnds
<1>25. CASE PRCloses
  BY <1>25, <1>c DEF PRCloses
<1>26. CASE UNCHANGED vars
  BY <1>26, <1>c DEF vars
<1>27. QED
  BY <1>1, <1>2, <1>3, <1>4, <1>5, <1>6, <1>7, <1>8, <1>9, <1>10, <1>11, <1>12,
     <1>13, <1>14, <1>15, <1>16, <1>17, <1>18, <1>19, <1>20, <1>21, <1>22, <1>23,
     <1>24, <1>25, <1>26 DEF Next, Ralph, World

LEMMA PushedInit == Init => PushedInv
  BY DEF Init, PushedInv, WorkStartsFromPushedHead, Unpushed

\* WorkStartsFromPushedHead, for every instance.
THEOREM WorkOnPushedHead == Spec => []WorkStartsFromPushedHead
<1>1. PushedInv => WorkStartsFromPushedHead
  BY DEF PushedInv
<1>2. QED
  BY InitTypeInv, NextTypeInv, PushedInit, PushedStep, <1>1, PTL DEF Spec

-----------------------------------------------------------------------------
(* What an iteration leaves behind.                                        *)

\* Position by position: only refused edits before the pull and after the
\* staging, nothing staged but between the staging and the commit, and after a
\* rebase that stopped.
TidySteps == {"push stranded", "status", "ci", "review", "pull", "tool", "commit",
              "push", "rebase", "abort", "push again", "sleep"}
TidyInv ==
  faults = 0 /\ ~cancelled =>
    /\ pc \in TidySteps => tree \subseteq Sensitive
    /\ pc \notin {"off", "abort", "commit", "cleanup"} => index = {}

LEMMA TidyStep == TypeInv /\ TidyInv /\ [Next]_vars => TidyInv'
<1> SUFFICES ASSUME TypeInv, TidyInv, [Next]_vars, faults' = 0, ~cancelled'
             PROVE  /\ pc' \in TidySteps => tree' \subseteq Sensitive
                    /\ pc' \notin {"off", "abort", "commit", "cleanup"} => index' = {}
  BY DEF TidyInv
<1>0. faults \in Nat /\ pc \in Steps /\ tree \subseteq Paths
  BY Bounds DEF TypeInv, TypeOK
<1> USE DEF At, Then, Ends, TidySteps, clone, branch, head, github, work
<1>a. faults = 0 /\ ~cancelled
        => /\ pc \in TidySteps => tree \subseteq Sensitive
           /\ pc \notin {"off", "abort", "commit", "cleanup"} => index = {}
  BY DEF TidyInv
<1>b. \A s \in Steps : ~Fails(s)
  BY <1>0 DEF Fails
<1>c. \A s \in Steps : Runs(s) =>
        /\ pc = s
        /\ pc \in TidySteps => tree \subseteq Sensitive
        /\ pc \notin {"off", "abort", "commit", "cleanup"} => index = {}
  <2> SUFFICES ASSUME NEW s \in Steps, Runs(s)
               PROVE  /\ pc = s
                      /\ faults = 0 /\ ~cancelled
    BY <1>a
  <2>1. QED BY DEF Runs
<1>1. CASE Start
  BY <1>1 DEF Start
<1>2. CASE PushUnpushedCommits
  BY <1>2, <1>b, <1>c DEF Steps, PushUnpushedCommits, PushSucceeds, PushAnswerLost,
     Land
<1>3. CASE GetPRStatus
  BY <1>3, <1>b, <1>c DEF Steps, GetPRStatus
<1>4. CASE GetFailedCILogs
  BY <1>4, <1>b, <1>c DEF Steps, GetFailedCILogs
<1>5. CASE FetchReview
  BY <1>5, <1>b, <1>c DEF Steps, FetchReview
<1>6. CASE GitPull
  BY <1>6, <1>b, <1>c DEF Steps, GitPull, Replay, PullFails, Fetches
<1>7. CASE RunTool
  BY <1>7, <1>b, <1>c DEF Steps, RunTool, ToolEdits
<1>8. CASE Verify
  BY <1>8, <1>b, <1>c DEF Steps, Verify
<1>9. CASE Repair
  BY <1>9, <1>b, <1>c DEF Steps, Repair, ToolEdits
<1>10. CASE Stage
  BY <1>10, <1>b, <1>c DEF Steps, Stage, Stageable
<1>11. CASE Commit
  BY <1>11, <1>b, <1>c DEF Steps, Commit
<1>12. CASE Push
  BY <1>12, <1>b, <1>c DEF Steps, Push, PushSucceeds, PushAnswerLost, Land
<1>13. CASE Rebase
  BY <1>13, <1>b, <1>c DEF Steps, Rebase, Replay, StopsMidway, PullFails, Fetches
<1>14. CASE Abort
  BY <1>14, <1>a DEF Abort
<1>15. CASE PushAgain
  BY <1>15, <1>b, <1>c DEF Steps, PushAgain, PushSucceeds, PushAnswerLost, Land
<1>16. CASE CleanupWorkingTree
  <2>1. PICK done \in SUBSET {"unstage", "restore", "clean"} :
          /\ faults' = faults + 3 - Cardinality(done)
          /\ tree' = RestoreAndClean(tree \cup (index \ (IF "unstage" \in done THEN
             {} ELSE index)), done)
          /\ index' = (IF "unstage" \in done THEN {} ELSE index)
    BY <1>16 DEF CleanupWorkingTree
  <2>2. Cardinality(done) = 3
    BY <1>0, <2>1, CleanupCount
  <2>3. done = {"unstage", "restore", "clean"}
    BY <2>2, CleanupCount
  <2>4. index' = {} /\ tree' = RestoreAndClean(tree \cup index, done)
    BY <2>1, <2>3
  <2>5. index \subseteq Paths
    BY DEF TypeInv, TypeOK
  <2>6. tree' = {}
    BY <1>0, <2>3, <2>4, <2>5 DEF RestoreAndClean, Paths
  <2>7. QED BY <2>4, <2>6
<1>17. CASE Poll
  BY <1>17, <1>b, <1>c DEF Steps, Poll
<1>18. CASE Stop
  BY <1>18, <1>a DEF Stop
<1>19. CASE Signal
  BY <1>19, <1>a DEF Signal
<1>20. CASE OperatorTidies
  BY <1>20, <1>a DEF OperatorTidies
<1>21. CASE OthersPush
  BY <1>21, <1>a DEF OthersPush
<1>22. CASE ReviewerUpdates
  BY <1>22, <1>a DEF ReviewerUpdates
<1>23. CASE CIStarts
  BY <1>23, <1>a DEF CIStarts
<1>24. CASE CIEnds
  BY <1>24, <1>a DEF CIEnds
<1>25. CASE PRCloses
  BY <1>25, <1>a DEF PRCloses
<1>26. CASE UNCHANGED vars
  BY <1>26, <1>a DEF vars
<1>27. QED
  BY <1>1, <1>2, <1>3, <1>4, <1>5, <1>6, <1>7, <1>8, <1>9, <1>10, <1>11, <1>12,
     <1>13, <1>14, <1>15, <1>16, <1>17, <1>18, <1>19, <1>20, <1>21, <1>22, <1>23,
     <1>24, <1>25, <1>26 DEF Next, Ralph, World

LEMMA TidyInit == Init => TidyInv
  BY DEF Init, TidyInv, TidySteps

\* OnlyRefusedEditsRemain, for every set of paths.
THEOREM IterationsAreTidy == Spec => []OnlyRefusedEditsRemain
<1>1. TidyInv => OnlyRefusedEditsRemain
  BY DEF TidyInv, TidySteps, OnlyRefusedEditsRemain
<1>2. QED
  BY InitTypeInv, NextTypeInv, TidyInit, TidyStep, <1>1, PTL DEF Spec

-----------------------------------------------------------------------------
(* One fix per version of the review.                                      *)

\* Of every commit: the review that it addresses is older than the commit, and
\* the commit is not from the future.  On the branch dates only grow, and what
\* is not pushed is younger than what it is on top of.
DatesInv ==
  /\ \A i \in 1 .. Len(remote) :
       remote[i].review <= remote[i].date /\ remote[i].date <= review
  /\ \A i, j \in 1 .. Len(remote) : i <= j => remote[i].date <= remote[j].date
  /\ \A i \in 1 .. Len(ahead) :
       /\ ahead[i].review <= ahead[i].date /\ ahead[i].date <= review
       /\ remote[base].date <= ahead[i].date

\* No version is answered twice on the branch, nor by what will be pushed.
Answers(c, r) == c.ralph /\ c.review = r
UniqueInv ==
  /\ \A i, j \in 1 .. Len(remote), r \in 1 .. MaxReviews :
       Answers(remote[i], r) /\ Answers(remote[j], r) => i = j
  /\ \A i \in 1 .. Len(ahead), j \in 1 .. Len(remote), r \in 1 .. MaxReviews :
       ~(Answers(ahead[i], r) /\ Answers(remote[j], r))

\* What the iteration knows: no commit of ralph is on top of the head it asked
\* for, and the version it applies is unanswered.
Working == {"pull", "tool", "verify", "repair", "stage", "commit"}
HeadKnown ==
  /\ it.sha \in 1 .. Len(remote)
  /\ \A j \in it.sha + 1 .. Len(remote) : ~remote[j].ralph
Unanswered == \A j \in 1 .. Len(remote) : ~Answers(remote[j], it.seen)
SeenInv ==
  /\ it.seen <= review
  /\ pc \in {"off", "push stranded", "status", "ci", "review", "sleep"} => it.seen = 0
  /\ pc \in {"ci", "review"} => HeadKnown
  /\ pc \in Working /\ it.seen # 0 => Unanswered

FixInv == DatesInv /\ UniqueInv /\ SeenInv

LEMMA CommitFields ==
  ASSUME NEW c \in Commits
  PROVE  /\ c.ralph \in BOOLEAN /\ c.review \in Nat /\ c.date \in Nat
         /\ c.review \in Int /\ c.date \in Int
  BY Bounds DEF Commits

LEMMA ReviewGrows ==
  TypeInv /\ [Next]_vars => review \in Nat /\ review' \in Nat /\ review <= review'
<1> SUFFICES ASSUME TypeInv, [Next]_vars
             PROVE  review \in Nat /\ review' \in Nat /\ review <= review'
  OBVIOUS
<1>0. review \in Nat
  BY Bounds DEF TypeInv, TypeOK
<1> SUFFICES review' = review \/ review' = review + 1
  BY <1>0
<1> USE DEF github
<1>1. CASE Start
  BY <1>1 DEF Start
<1>2. CASE PushUnpushedCommits
  BY <1>2 DEF PushUnpushedCommits, PushSucceeds, PushAnswerLost, Land
<1>3. CASE GetPRStatus
  BY <1>3 DEF GetPRStatus
<1>4. CASE GetFailedCILogs
  BY <1>4 DEF GetFailedCILogs
<1>5. CASE FetchReview
  BY <1>5 DEF FetchReview
<1>6. CASE GitPull
  BY <1>6 DEF GitPull, PullFails, Fetches
<1>7. CASE RunTool
  BY <1>7 DEF RunTool
<1>8. CASE Verify
  BY <1>8 DEF Verify
<1>9. CASE Repair
  BY <1>9 DEF Repair
<1>10. CASE Stage
  BY <1>10 DEF Stage
<1>11. CASE Commit
  BY <1>11 DEF Commit
<1>12. CASE Push
  BY <1>12 DEF Push, PushSucceeds, PushAnswerLost, Land
<1>13. CASE Rebase
  BY <1>13 DEF Rebase
<1>14. CASE Abort
  BY <1>14 DEF Abort
<1>15. CASE PushAgain
  BY <1>15 DEF PushAgain, PushSucceeds, PushAnswerLost, Land
<1>16. CASE CleanupWorkingTree
  BY <1>16 DEF CleanupWorkingTree
<1>17. CASE Poll
  BY <1>17 DEF Poll
<1>18. CASE Stop
  BY <1>18 DEF Stop
<1>19. CASE Signal
  BY <1>19 DEF Signal
<1>20. CASE OperatorTidies
  BY <1>20 DEF OperatorTidies
<1>21. CASE OthersPush
  BY <1>21 DEF OthersPush
<1>22. CASE ReviewerUpdates
  BY <1>22 DEF ReviewerUpdates
<1>23. CASE CIStarts
  BY <1>23 DEF CIStarts
<1>24. CASE CIEnds
  BY <1>24 DEF CIEnds
<1>25. CASE PRCloses
  BY <1>25 DEF PRCloses
<1>26. CASE UNCHANGED vars
  BY <1>26 DEF vars
<1>27. QED
  BY <1>1, <1>2, <1>3, <1>4, <1>5, <1>6, <1>7, <1>8, <1>9, <1>10, <1>11, <1>12,
     <1>13, <1>14, <1>15, <1>16, <1>17, <1>18, <1>19, <1>20, <1>21, <1>22, <1>23,
     <1>24, <1>25, <1>26 DEF Next, Ralph, World

LEMMA DatesStep == TypeInv /\ PushedInv /\ DatesInv /\ SeenInv /\ [Next]_vars => DatesInv'
<1> SUFFICES ASSUME TypeInv, PushedInv, DatesInv, SeenInv, [Next]_vars PROVE DatesInv'
  OBVIOUS
<1>1. /\ TypeOK /\ remote \in Seq(Commits) /\ ahead \in Seq(Commits)
      /\ Len(remote) \in Nat /\ Len(ahead) \in Nat /\ base \in 1 .. Len(remote)
  BY DEF TypeInv, TypeOK
<1>2. review \in Nat /\ review' \in Nat /\ review <= review'
  BY ReviewGrows
<1>3. \A i \in 1 .. Len(remote) :
        /\ remote[i].review \in Nat /\ remote[i].date \in Nat
        /\ remote[i].review <= remote[i].date /\ remote[i].date <= review
  BY <1>1, CommitFields DEF DatesInv
<1>4. \A i, j \in 1 .. Len(remote) : i <= j => remote[i].date <= remote[j].date
  BY DEF DatesInv
<1>5. \A i \in 1 .. Len(ahead) :
        /\ ahead[i].review \in Nat /\ ahead[i].date \in Nat
        /\ ahead[i].review <= ahead[i].date /\ ahead[i].date <= review
        /\ remote[base].date <= ahead[i].date
  BY <1>1, CommitFields DEF DatesInv
<1>6. CASE UNCHANGED <<remote, ahead, base>>
  BY <1>2, <1>3, <1>4, <1>5, <1>6 DEF DatesInv
<1>7. CASE Accepted /\ Land
  <2>1. /\ Len(remote') = Len(remote) + Len(ahead) /\ Len(ahead') = 0
        /\ \A i \in 1 .. Len(remote) : remote'[i] = remote[i]
        /\ \A i \in Len(remote) + 1 .. Len(remote') : remote'[i] = ahead[i - Len(remote)]
    BY <1>1, <1>7, LandType
  <2>2. base = Len(remote) /\ review' = review
    BY <1>7 DEF Accepted, Land
  <2>3. \A i \in Len(remote) + 1 .. Len(remote') : i - Len(remote) \in 1 .. Len(ahead)
    BY <1>1, <2>1
  <2>4. \A i \in 1 .. Len(remote') :
          remote'[i].review <= remote'[i].date /\ remote'[i].date <= review'
    <3> SUFFICES ASSUME NEW i \in 1 .. Len(remote')
                 PROVE  remote'[i].review <= remote'[i].date /\ remote'[i].date <= review'
      OBVIOUS
    <3>1. CASE i \in 1 .. Len(remote)
      BY <1>3, <2>1, <2>2, <3>1
    <3>2. CASE i \in Len(remote) + 1 .. Len(remote')
      BY <1>5, <2>1, <2>2, <2>3, <3>2
    <3>3. QED BY <1>1, <2>1, <3>1, <3>2
  <2>5. Len(ahead) <= 1
    BY DEF PushedInv
  <2>6. \A i, j \in 1 .. Len(remote') : i <= j => remote'[i].date <= remote'[j].date
    <3> SUFFICES ASSUME NEW i \in 1 .. Len(remote'), NEW j \in 1 .. Len(remote'), i <= j
                 PROVE  remote'[i].date <= remote'[j].date
      OBVIOUS
    <3>1. CASE j \in 1 .. Len(remote)
      BY <1>1, <1>4, <2>1, <3>1
    <3>2. CASE i \in 1 .. Len(remote) /\ j \in Len(remote) + 1 .. Len(remote')
      <4>1. remote[i].date <= remote[base].date /\ base \in 1 .. Len(remote)
        BY <1>1, <1>4, <2>2, <3>2
      <4>2. remote[base].date <= ahead[j - Len(remote)].date
        BY <1>5, <2>3, <3>2
      <4>3. ahead[j - Len(remote)].date \in Nat
        BY <1>5, <2>3, <3>2
      <4>4. remote[i].date \in Nat /\ remote[base].date \in Nat
        BY <1>1, <1>3, <3>2
      <4>5. /\ remote'[i].date = remote[i].date
            /\ remote'[j].date = ahead[j - Len(remote)].date
        BY <2>1, <3>2
      <4>6. QED BY <4>1, <4>2, <4>3, <4>4, <4>5
    <3>3. CASE {i, j} \subseteq Len(remote) + 1 .. Len(remote')
      <4>1. i = j
        BY <1>1, <2>1, <2>5, <3>3
      <4>2. remote'[i].date \in Nat
        BY <1>5, <2>1, <2>3, <3>3
      <4>3. QED BY <4>1, <4>2
    <3>4. QED BY <1>1, <2>1, <3>1, <3>2, <3>3
  <2>7. QED BY <2>1, <2>4, <2>6 DEF DatesInv
<1>8. CASE Replay /\ UNCHANGED <<remote, review>>
  <2>1. \A i \in 1 .. Len(ahead') :
          /\ i \in 1 .. Len(ahead)
          /\ ahead'[i].review = ahead[i].review
          /\ ahead'[i].date = ahead[i].date \/ ahead'[i].date = review
          /\ base # Len(remote) => ahead'[i].date = review
    BY <1>1, <1>8, ReplayType
  <2>2. base' = Len(remote) /\ base' \in 1 .. Len(remote)
    BY <1>1, <1>8 DEF Replay
  <2>3. \A i \in 1 .. Len(ahead') :
          /\ ahead'[i].review <= ahead'[i].date /\ ahead'[i].date <= review
          /\ remote[base'].date <= ahead'[i].date
    <3> SUFFICES ASSUME NEW i \in 1 .. Len(ahead')
                 PROVE  /\ ahead'[i].review <= ahead'[i].date /\ ahead'[i].date <= review
                        /\ remote[base'].date <= ahead'[i].date
      OBVIOUS
    <3>1. CASE ahead'[i].date = review
      <4>1. /\ ahead[i].review \in Nat /\ ahead[i].date \in Nat
            /\ ahead[i].review <= ahead[i].date /\ ahead[i].date <= review
            /\ ahead'[i].review = ahead[i].review
        BY <1>5, <2>1
      <4>2. remote[base'].date <= review
        BY <1>3, <2>2
      <4>3. QED BY <1>2, <3>1, <4>1, <4>2
    <3>2. CASE ahead'[i].date = ahead[i].date /\ base = Len(remote)
      BY <1>2, <1>3, <1>5, <2>1, <2>2, <3>2
    <3>3. QED BY <2>1, <3>1, <3>2
  <2>4. QED BY <1>3, <1>4, <1>8, <2>3 DEF DatesInv
<1>9. CASE ahead' = Append(ahead, NewCommit) /\ UNCHANGED <<remote, base, review, it>>
  <2>1. NewCommit \in Commits /\ NewCommit.review = it.seen /\ NewCommit.date = review
    BY <1>1, CommitType DEF NewCommit
  <2>2. it.seen <= review /\ it.seen \in Nat
    <3>1. it \in Iterations
      BY <1>1 DEF TypeOK
    <3>2. it.seen \in Nat
      BY <3>1, Bounds DEF Iterations
    <3>3. it.seen <= review
      BY DEF SeenInv
    <3>4. QED BY <3>2, <3>3
  <2>3. \A i \in 1 .. Len(ahead') :
          ahead'[i] = NewCommit \/ (i \in 1 .. Len(ahead) /\ ahead'[i] = ahead[i])
    BY <1>1, <1>9, <2>1
  <2>4. remote[base].date <= review
    BY <1>1, <1>3
  <2>5. \A i \in 1 .. Len(ahead') :
          /\ ahead'[i].review <= ahead'[i].date /\ ahead'[i].date <= review
          /\ remote[base].date <= ahead'[i].date
    <3> SUFFICES ASSUME NEW i \in 1 .. Len(ahead')
                 PROVE  /\ ahead'[i].review <= ahead'[i].date /\ ahead'[i].date <= review
                        /\ remote[base].date <= ahead'[i].date
      OBVIOUS
    <3>1. CASE ahead'[i] = NewCommit
      BY <1>2, <2>1, <2>2, <2>4, <3>1
    <3>2. CASE i \in 1 .. Len(ahead) /\ ahead'[i] = ahead[i]
      BY <1>5, <3>2
    <3>3. QED BY <2>3, <3>1, <3>2
  <2>6. QED BY <1>3, <1>4, <1>9, <2>5 DEF DatesInv
<1>10. CASE OthersCommit /\ UNCHANGED <<ahead, base, review, pc, it>>
  <2>1. PICK date \in remote[Len(remote)].date .. review :
          remote' = Append(remote, Theirs(date))
    BY <1>10 DEF OthersCommit
  <2>2. Theirs(date).review = 0 /\ Theirs(date).date = date
    BY DEF Theirs
  <2>3. Len(remote) \in 1 .. Len(remote) /\ remote[Len(remote)].date \in Nat
    BY <1>1, <1>3
  <2>4. date \in Nat /\ remote[Len(remote)].date <= date /\ date <= review
    BY <1>2, <2>3
  <2>5. /\ Len(remote') = Len(remote) + 1
        /\ \A i \in 1 .. Len(remote) : remote'[i] = remote[i]
        /\ remote'[Len(remote) + 1] = Theirs(date)
    BY <1>1, <2>1
  <2>6. \A i \in 1 .. Len(remote') : i \in 1 .. Len(remote) \/ i = Len(remote) + 1
    BY <1>1, <2>5
  <2>7. \A i \in 1 .. Len(remote') :
          remote'[i].review <= remote'[i].date /\ remote'[i].date <= review
    BY <1>3, <2>2, <2>4, <2>5, <2>6
  <2>8. \A i, j \in 1 .. Len(remote') : i <= j => remote'[i].date <= remote'[j].date
    <3> SUFFICES ASSUME NEW i \in 1 .. Len(remote'), NEW j \in 1 .. Len(remote'), i <= j
                 PROVE  remote'[i].date <= remote'[j].date
      OBVIOUS
    <3>1. CASE j \in 1 .. Len(remote)
      BY <1>1, <1>4, <2>5, <3>1
    <3>2. CASE i \in 1 .. Len(remote) /\ j = Len(remote) + 1
      <4>1. remote[i].date <= remote[Len(remote)].date /\ remote[i].date \in Nat
        BY <1>1, <1>3, <1>4, <2>3, <3>2
      <4>2. remote'[i].date = remote[i].date /\ remote'[j].date = date
        BY <2>2, <2>5, <3>2
      <4>3. QED BY <2>3, <2>4, <4>1, <4>2
    <3>3. CASE i = Len(remote) + 1 /\ j = Len(remote) + 1
      BY <2>2, <2>4, <2>5, <3>3
    <3>4. QED BY <1>1, <2>6, <3>1, <3>2, <3>3
  <2>9. base' \in 1 .. Len(remote) /\ remote'[base'] = remote[base]
    BY <1>1, <1>10, <2>5
  <2>10. QED BY <1>5, <1>10, <2>7, <2>8, <2>9 DEF DatesInv
<1>11. QED
  BY <1>6, <1>7, <1>8, <1>9, <1>10, BranchStep DEF BranchMoves

LEMMA UniqueStep == TypeInv /\ PushedInv /\ UniqueInv /\ SeenInv /\ [Next]_vars => UniqueInv'
<1> SUFFICES ASSUME TypeInv, PushedInv, UniqueInv, SeenInv, [Next]_vars PROVE UniqueInv'
  OBVIOUS
<1>1. /\ TypeOK /\ remote \in Seq(Commits) /\ ahead \in Seq(Commits)
      /\ Len(remote) \in Nat /\ Len(ahead) \in Nat /\ Len(ahead) <= 1
  BY DEF TypeInv, TypeOK, PushedInv
<1>2. \A i, j \in 1 .. Len(remote), r \in 1 .. MaxReviews :
        Answers(remote[i], r) /\ Answers(remote[j], r) => i = j
  BY DEF UniqueInv
<1>3. \A i \in 1 .. Len(ahead), j \in 1 .. Len(remote), r \in 1 .. MaxReviews :
        ~(Answers(ahead[i], r) /\ Answers(remote[j], r))
  BY DEF UniqueInv
<1>4. CASE UNCHANGED <<remote, ahead, base>>
  BY <1>2, <1>3, <1>4 DEF UniqueInv
<1>5. CASE Accepted /\ Land
  <2>1. /\ Len(remote') = Len(remote) + Len(ahead) /\ Len(ahead') = 0
        /\ \A i \in 1 .. Len(remote) : remote'[i] = remote[i]
        /\ \A i \in Len(remote) + 1 .. Len(remote') : remote'[i] = ahead[i - Len(remote)]
    BY <1>1, <1>5, LandType
  <2>2. \A i \in Len(remote) + 1 .. Len(remote') : i - Len(remote) \in 1 .. Len(ahead)
    BY <1>1, <2>1
  <2>3. SUFFICES ASSUME NEW i \in 1 .. Len(remote'), NEW j \in 1 .. Len(remote'),
                        NEW r \in 1 .. MaxReviews,
                        Answers(remote'[i], r), Answers(remote'[j], r)
                 PROVE  i = j
    BY <2>1 DEF UniqueInv
  <2>4. CASE i \in 1 .. Len(remote) /\ j \in 1 .. Len(remote)
    <3>1. Answers(remote[i], r) /\ Answers(remote[j], r)
      BY <2>1, <2>3, <2>4
    <3>2. QED BY <1>2, <2>4, <3>1
  <2>5. CASE i \in 1 .. Len(remote) /\ j \in Len(remote) + 1 .. Len(remote')
    <3>1. Answers(remote[i], r) /\ Answers(ahead[j - Len(remote)], r)
      BY <2>1, <2>3, <2>5
    <3>2. QED BY <1>3, <2>2, <2>5, <3>1
  <2>6. CASE i \in Len(remote) + 1 .. Len(remote') /\ j \in 1 .. Len(remote)
    <3>1. Answers(remote[j], r) /\ Answers(ahead[i - Len(remote)], r)
      BY <2>1, <2>3, <2>6
    <3>2. QED BY <1>3, <2>2, <2>6, <3>1
  <2>7. CASE {i, j} \subseteq Len(remote) + 1 .. Len(remote')
    BY <1>1, <2>1, <2>7
  <2>8. QED BY <1>1, <2>1, <2>4, <2>5, <2>6, <2>7
<1>6. CASE Replay /\ UNCHANGED <<remote, review>>
  <2>1. \A i \in 1 .. Len(ahead') :
          /\ i \in 1 .. Len(ahead)
          /\ ahead'[i].review = ahead[i].review /\ ahead'[i].ralph = ahead[i].ralph
    BY <1>1, <1>6, ReplayType
  <2>2. \A i \in 1 .. Len(ahead'), r \in 1 .. MaxReviews :
          Answers(ahead'[i], r) => i \in 1 .. Len(ahead) /\ Answers(ahead[i], r)
    BY <2>1 DEF Answers
  <2>3. QED BY <1>2, <1>3, <1>6, <2>2 DEF UniqueInv
<1>7. CASE /\ pc = "commit"
           /\ ahead' = Append(ahead, NewCommit)
           /\ UNCHANGED <<remote, base, review, it>>
  <2>1. NewCommit \in Commits /\ NewCommit.review = it.seen
    BY <1>1, CommitType DEF NewCommit
  <2>2. \A i \in 1 .. Len(ahead') :
          ahead'[i] = NewCommit \/ (i \in 1 .. Len(ahead) /\ ahead'[i] = ahead[i])
    BY <1>1, <1>7, <2>1
  <2>3. \A j \in 1 .. Len(remote), r \in 1 .. MaxReviews :
          ~(Answers(NewCommit, r) /\ Answers(remote[j], r))
    <3> SUFFICES ASSUME NEW j \in 1 .. Len(remote), NEW r \in 1 .. MaxReviews,
                        Answers(NewCommit, r)
                 PROVE  ~Answers(remote[j], r)
      OBVIOUS
    <3>1. r = it.seen
      BY <2>1 DEF Answers
    <3>2. it.seen > 0
      BY <3>1
    <3>3. \A k \in 1 .. Len(remote) : ~Answers(remote[k], it.seen)
      BY <1>7, <3>2 DEF SeenInv, Working, Unanswered
    <3>4. QED BY <3>1, <3>3
  <2>4. SUFFICES ASSUME NEW i \in 1 .. Len(ahead'), NEW j \in 1 .. Len(remote),
                        NEW r \in 1 .. MaxReviews
                 PROVE  ~(Answers(ahead'[i], r) /\ Answers(remote[j], r))
    BY <1>2, <1>7 DEF UniqueInv
  <2>5. CASE ahead'[i] = NewCommit
    BY <2>3, <2>5
  <2>6. CASE i \in 1 .. Len(ahead) /\ ahead'[i] = ahead[i]
    BY <1>3, <2>6
  <2>7. QED BY <2>2, <2>5, <2>6
<1>8. CASE OthersCommit /\ UNCHANGED <<ahead, base, review, pc, it>>
  <2>1. PICK date \in remote[Len(remote)].date .. review :
          remote' = Append(remote, Theirs(date))
    BY <1>8 DEF OthersCommit
  <2>2. \A r : ~Answers(Theirs(date), r)
    BY DEF Theirs, Answers
  <2>3. \A i \in 1 .. Len(remote') :
          remote'[i] = Theirs(date) \/ (i \in 1 .. Len(remote) /\ remote'[i] = remote[i])
    BY <1>1, <2>1
  <2>4. \A i \in 1 .. Len(remote'), r \in 1 .. MaxReviews :
          Answers(remote'[i], r) => i \in 1 .. Len(remote) /\ Answers(remote[i], r)
    BY <2>2, <2>3
  <2>5. QED BY <1>2, <1>3, <1>8, <2>4 DEF UniqueInv
<1>9. QED
  BY <1>4, <1>5, <1>6, <1>7, <1>8, BranchStep DEF BranchMoves

LEMMA SeenStep == TypeInv /\ DatesInv /\ SeenInv /\ [Next]_vars => SeenInv'
<1> SUFFICES ASSUME TypeInv, DatesInv, SeenInv, [Next]_vars PROVE SeenInv'
  OBVIOUS
<1>0. /\ pc \in Steps /\ it \in Iterations /\ remote \in Seq(Commits)
      /\ Len(remote) \in Nat /\ Len(remote) \in 1 .. Len(remote)
  BY DEF TypeInv, TypeOK
<1>r. review \in Nat /\ review' \in Nat /\ review <= review'
  BY ReviewGrows
<1>s. it.seen \in Nat /\ it.sha \in Nat /\ it.seen <= review
  <2>1. it.seen \in Nat /\ it.sha \in Nat
    BY <1>0, Bounds DEF Iterations
  <2>2. it.seen <= review
    BY DEF SeenInv
  <2>3. QED BY <2>1, <2>2
<1>z. pc \in {"off", "push stranded", "status", "ci", "review", "sleep"} => it.seen = 0
  BY DEF SeenInv
<1>m. it'.seen = it.seen \/ it'.seen = 0 => it'.seen <= review'
  BY <1>r, <1>s
<1>a. CASE it'.seen = 0 /\ pc' \notin {"ci", "review"}
  BY <1>m, <1>a DEF SeenInv
<1>b. CASE it'.seen = it.seen /\ UNCHANGED remote /\ {pc, pc'} \subseteq Working
  <2>1. Unanswered => Unanswered'
    BY <1>b DEF Unanswered
  <2>2. QED BY <1>m, <1>b, <2>1 DEF SeenInv, Working
<1>c. CASE UNCHANGED it /\ pc' \in {"push", "rebase", "abort", "push again", "cleanup"}
  BY <1>m, <1>c DEF SeenInv, Working
<1>d. CASE UNCHANGED <<pc, it, remote>>
  <2>1. (Unanswered => Unanswered') /\ (HeadKnown => HeadKnown')
    BY <1>d DEF Unanswered, HeadKnown
  <2>2. QED BY <1>m, <1>d, <2>1 DEF SeenInv
<1>e. Fresh.seen = 0
  BY DEF Fresh
<1>g. it = [job |-> it.job, seen |-> it.seen, sha |-> it.sha, attempt |-> it.attempt,
            runs |-> it.runs]
  BY <1>0 DEF Iterations
<1> USE DEF At, Then, Ends, Runs, Fails, github
<1>1. CASE Start
  BY <1>1, <1>a, <1>z DEF Start
<1>2. CASE PushUnpushedCommits
  BY <1>2, <1>a, <1>e, <1>z DEF PushUnpushedCommits
<1>3. CASE GetPRStatus
  <2>1. CASE pc' = "ci"
    <3>1. it' = [it EXCEPT !.sha = Len(remote)] /\ pc = "status" /\ UNCHANGED remote
      BY <1>3, <2>1 DEF GetPRStatus
    <3>2. it'.sha = Len(remote) /\ it'.seen = 0
      BY <1>g, <1>z, <3>1
    <3>3. HeadKnown'
      BY <1>0, <3>1, <3>2 DEF HeadKnown
    <3>4. QED BY <1>m, <2>1, <3>2, <3>3 DEF SeenInv, Working
  <2>2. CASE pc' # "ci"
    BY <1>3, <1>a, <1>e, <2>2 DEF GetPRStatus
  <2>3. QED BY <2>1, <2>2
<1>4. CASE GetFailedCILogs
  <2>1. CASE pc' = "pull"
    <3>1. it' = [it EXCEPT !.job = "ci", !.sha = 0] /\ pc = "ci"
      BY <1>4, <2>1 DEF GetFailedCILogs
    <3>2. it'.seen = 0
      BY <1>g, <1>z, <3>1
    <3>3. QED BY <1>a, <2>1, <3>2
  <2>2. CASE pc' = "review"
    <3>1. UNCHANGED <<it, remote>> /\ pc = "ci"
      BY <1>4, <2>2 DEF GetFailedCILogs
    <3>2. HeadKnown'
      BY <3>1 DEF SeenInv, HeadKnown
    <3>3. QED BY <1>m, <1>z, <2>2, <3>1, <3>2 DEF SeenInv, Working
  <2>3. CASE pc' \notin {"pull", "review"}
    BY <1>4, <1>a, <1>e, <2>3 DEF GetFailedCILogs
  <2>4. QED BY <2>1, <2>2, <2>3
<1>5. CASE FetchReview
  <2>1. CASE pc' = "pull"
    <3>1. /\ it' = [it EXCEPT !.job = "review", !.seen = review, !.sha = 0]
          /\ pc = "review" /\ UNCHANGED <<remote, review>>
          /\ review > remote[it.sha].date
      BY <1>5, <2>1 DEF FetchReview, UpdatedAfter
    <3>2. it'.seen = review
      BY <1>g, <3>1
    <3>3. /\ it.sha \in 1 .. Len(remote)
          /\ \A j \in it.sha + 1 .. Len(remote) : ~remote[j].ralph
      BY <3>1 DEF SeenInv, HeadKnown
    <3>4. ASSUME NEW j \in 1 .. Len(remote) PROVE ~Answers(remote[j], review)
      <4>1. CASE j \in it.sha + 1 .. Len(remote)
        BY <3>3, <4>1 DEF Answers
      <4>2. CASE j <= it.sha
        <5>1. remote[j].date <= remote[it.sha].date /\ remote[j].review <= remote[j].date
          BY <3>3, <4>2 DEF DatesInv
        <5>2. /\ remote[j].date \in Nat /\ remote[j].review \in Nat
              /\ remote[it.sha].date \in Nat
          BY <1>0, <3>3, CommitFields
        <5>3. remote[j].review # review
          BY <1>r, <3>1, <5>1, <5>2
        <5>4. QED BY <5>3 DEF Answers
      <4>3. QED BY <1>s, <4>1, <4>2
    <3>5. Unanswered'
      BY <3>1, <3>2, <3>4 DEF Unanswered
    <3>6. QED BY <1>r, <2>1, <3>1, <3>2, <3>5 DEF SeenInv, Working
  <2>2. CASE pc' # "pull"
    BY <1>5, <1>a, <1>e, <2>2 DEF FetchReview
  <2>3. QED BY <2>1, <2>2
<1>6. CASE GitPull
  BY <1>6, <1>a, <1>b, <1>c, <1>e DEF GitPull, Working
<1>7. CASE RunTool
  <2>1. CASE pc' = "verify"
    <3>1. it' = [it EXCEPT !.attempt = FirstAttempt, !.runs = 1] /\ UNCHANGED remote /\ pc = "tool"
      BY <1>7, <2>1 DEF RunTool
    <3>2. it'.seen = it.seen
      BY <1>g, <3>1
    <3>3. QED BY <1>b, <2>1, <3>1, <3>2 DEF Working
  <2>2. CASE pc' # "verify"
    BY <1>7, <1>a, <1>e, <2>2 DEF RunTool
  <2>3. QED BY <2>1, <2>2
<1>8. CASE Verify
  BY <1>8, <1>a, <1>b, <1>c, <1>e DEF Verify, Working
<1>9. CASE Repair
  <2>1. it' = [it EXCEPT !.attempt = @ + 1, !.runs = @ + 1] /\ UNCHANGED remote /\ pc = "repair"
    BY <1>9 DEF Repair
  <2>2. it'.seen = it.seen
    BY <1>g, <2>1
  <2>3. CASE pc' = "verify"
    BY <1>b, <2>1, <2>2, <2>3 DEF Working
  <2>4. CASE pc' = "cleanup"
    BY <1>m, <2>2, <2>4 DEF SeenInv, Working
  <2>5. QED BY <1>9, <2>3, <2>4 DEF Repair
<1>10. CASE Stage
  BY <1>10, <1>a, <1>b, <1>c, <1>e DEF Stage, Working
<1>11. CASE Commit
  BY <1>11, <1>a, <1>b, <1>c, <1>e DEF Commit, Working
<1>12. CASE Push
  BY <1>12, <1>a, <1>c, <1>e DEF Push
<1>13. CASE Rebase
  BY <1>13, <1>a, <1>c, <1>e DEF Rebase
<1>14. CASE Abort
  BY <1>14, <1>a, <1>c, <1>e DEF Abort
<1>15. CASE PushAgain
  BY <1>15, <1>a, <1>c, <1>e DEF PushAgain
<1>16. CASE CleanupWorkingTree
  BY <1>16, <1>a, <1>c, <1>e DEF CleanupWorkingTree
<1>17. CASE Poll
  BY <1>17, <1>a, <1>z DEF Poll
<1>18. CASE Stop
  BY <1>18, <1>a, <1>z DEF Stop
<1>19. CASE Signal
  BY <1>19, <1>d DEF Signal
<1>20. CASE OperatorTidies
  BY <1>20, <1>d DEF OperatorTidies
<1>21. CASE OthersPush
  <2>1. PICK date \in remote[Len(remote)].date .. review :
          remote' = Append(remote, Theirs(date))
    BY <1>21 DEF OthersPush
  <2>2. ~Theirs(date).ralph /\ \A r : ~Answers(Theirs(date), r)
    BY DEF Theirs, Answers
  <2>3. Len(remote') = Len(remote) + 1
    BY <1>0, <2>1
  <2>4. \A i \in 1 .. Len(remote') :
          remote'[i] = Theirs(date) \/ (i \in 1 .. Len(remote) /\ remote'[i] = remote[i])
    BY <1>0, <2>1
  <2>5. pc' = pc /\ it' = it
    BY <1>21 DEF OthersPush
  <2>6. ASSUME HeadKnown PROVE HeadKnown'
    <3>1. /\ it.sha \in 1 .. Len(remote)
          /\ \A j \in it.sha + 1 .. Len(remote) : ~remote[j].ralph
      BY <2>6 DEF HeadKnown
    <3>2. ASSUME NEW j \in it.sha + 1 .. Len(remote') PROVE ~remote'[j].ralph
      <4>1. j \in 1 .. Len(remote') /\ j \in Nat
        BY <1>0, <1>s, <2>3
      <4>2. CASE remote'[j] = Theirs(date)
        BY <2>2, <4>2
      <4>3. CASE j \in 1 .. Len(remote) /\ remote'[j] = remote[j]
        <5>1. j \in it.sha + 1 .. Len(remote)
          BY <1>0, <1>s, <4>3
        <5>2. QED BY <3>1, <4>3, <5>1
      <4>4. QED BY <2>4, <4>1, <4>2, <4>3
    <3>3. QED BY <1>0, <2>3, <2>5, <3>1, <3>2 DEF HeadKnown
  <2>7. Unanswered => Unanswered'
    BY <2>2, <2>4, <2>5 DEF Unanswered
  <2>8. QED BY <1>m, <2>5, <2>6, <2>7 DEF SeenInv
<1>22. CASE ReviewerUpdates
  BY <1>22, <1>d DEF ReviewerUpdates
<1>23. CASE CIStarts
  BY <1>23, <1>d DEF CIStarts
<1>24. CASE CIEnds
  BY <1>24, <1>d DEF CIEnds
<1>25. CASE PRCloses
  BY <1>25, <1>d DEF PRCloses
<1>26. CASE UNCHANGED vars
  BY <1>26, <1>d DEF vars
<1>27. QED
  BY <1>1, <1>2, <1>3, <1>4, <1>5, <1>6, <1>7, <1>8, <1>9, <1>10, <1>11, <1>12,
     <1>13, <1>14, <1>15, <1>16, <1>17, <1>18, <1>19, <1>20, <1>21, <1>22, <1>23,
     <1>24, <1>25, <1>26 DEF Next, Ralph, World

LEMMA FixInit == Init => FixInv
  BY DEF Init, FixInv, DatesInv, UniqueInv, SeenInv, Working, Answers, Theirs, Fresh

\* OneFixPerReview, for every number of reviews, of other people's commits and
\* of failing commands.
THEOREM ReviewsFixedOnce == Spec => []OneFixPerReview
<1>1. TypeInv /\ PushedInv /\ FixInv /\ [Next]_vars => FixInv'
  BY DatesStep, UniqueStep, SeenStep DEF FixInv
<1>2. TypeInv /\ PushedInv /\ FixInv => OneFixPerReview
  <2> SUFFICES ASSUME TypeInv, PushedInv, FixInv PROVE OneFixPerReview
    OBVIOUS
  <2>1. /\ TypeOK /\ remote \in Seq(Commits) /\ ahead \in Seq(Commits)
        /\ Len(remote) \in Nat /\ Len(ahead) \in Nat /\ Len(ahead) <= 1
        /\ base \in 1 .. Len(remote)
    BY DEF TypeInv, TypeOK, PushedInv
  <2>2. \A c \in Commits : c.review > 0 => c.review \in 1 .. MaxReviews
    BY Bounds DEF Commits
  <2>3. \A i, j \in 1 .. Len(remote), r \in 1 .. MaxReviews :
          Answers(remote[i], r) /\ Answers(remote[j], r) => i = j
    BY DEF FixInv, UniqueInv
  <2>4. \A i \in 1 .. Len(ahead), j \in 1 .. Len(remote), r \in 1 .. MaxReviews :
          ~(Answers(ahead[i], r) /\ Answers(remote[j], r))
    BY DEF FixInv, UniqueInv
  <2>5. ASSUME NEW i \in 1 .. Len(remote), NEW j \in 1 .. Len(remote),
               remote[i].ralph, remote[j].ralph,
               remote[i].review = remote[j].review, remote[i].review > 0
        PROVE  i = j
    <3>1. Answers(remote[i], remote[i].review) /\ Answers(remote[j], remote[i].review)
      BY <2>5 DEF Answers
    <3>2. remote[i].review \in 1 .. MaxReviews
      BY <2>1, <2>2, <2>5
    <3>3. QED BY <2>3, <3>1, <3>2
  <2>6. ASSUME NEW i \in 1 .. Len(History), NEW j \in 1 .. Len(History),
               History[i].ralph, History[j].ralph,
               History[i].review = History[j].review, History[i].review > 0
        PROVE  i = j
    <3> DEFINE r == History[i].review
    <3>1. Answers(History[i], r) /\ Answers(History[j], r)
      BY <2>6 DEF Answers
    <3>2. \A k \in 1 .. Len(History) :
            \/ k \in 1 .. Len(remote) /\ History[k] = remote[k]
            \/ /\ k \in base + 1 .. base + Len(ahead)
               /\ k - base \in 1 .. Len(ahead) /\ History[k] = ahead[k - base]
      BY <2>1, HistoryElements
    <3>3. r \in 1 .. MaxReviews
      BY <2>1, <2>2, <2>6, <3>2
    <3> HIDE DEF r
    <3>4. CASE /\ i \in 1 .. Len(remote) /\ History[i] = remote[i]
               /\ j \in 1 .. Len(remote) /\ History[j] = remote[j]
      BY <2>3, <3>1, <3>3, <3>4
    <3>5. CASE /\ i \in 1 .. Len(remote) /\ History[i] = remote[i]
               /\ j - base \in 1 .. Len(ahead) /\ History[j] = ahead[j - base]
      BY <2>4, <3>1, <3>3, <3>5
    <3>6. CASE /\ i - base \in 1 .. Len(ahead) /\ History[i] = ahead[i - base]
               /\ j \in 1 .. Len(remote) /\ History[j] = remote[j]
      BY <2>4, <3>1, <3>3, <3>6
    <3>7. CASE {i, j} \subseteq base + 1 .. base + Len(ahead)
      BY <2>1, <3>7
    <3>8. QED BY <3>2, <3>4, <3>5, <3>6, <3>7
  <2>7. QED BY <2>5, <2>6 DEF OneFixPerReview
<1>3. QED
  BY InitTypeInv, NextTypeInv, PushedInit, PushedStep, FixInit, <1>1, <1>2, PTL DEF Spec

=============================================================================
