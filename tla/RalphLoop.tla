------------------------------ MODULE RalphLoop ------------------------------
(***************************************************************************)
(* ralph (cmd/ralph, internal/ralph): the loop that polls a pull request,  *)
(* lets the coding tool fix a failing CI run or apply a review, verifies   *)
(* the result with tests and builds, commits it and pushes it.             *)
(*                                                                         *)
(* ralph is sequential: a program counter names the command it runs next,  *)
(* and every command is one action.  What happens between two commands is  *)
(* the work of others: GitHub, the reviewer, people who push to the same   *)
(* branch, a signal, the operator.                                         *)
(*                                                                         *)
(* Abstracted: file contents, texts, shas.  A commit date is the version   *)
(* the review had when the commit was made, so that "updated after the     *)
(* commit" is a comparison of versions; the clocks of this machine and of  *)
(* GitHub are taken to agree.  The tool edits the working tree only: it    *)
(* runs no git command.  Git commands that only read the clone fail when   *)
(* the context is cancelled and never for reasons of their own, and no     *)
(* untracked file is in the way of a pull.                                 *)
(*                                                                         *)
(* A rebase that stopped and was not aborted leaves HEAD detached at the   *)
(* remote branch as it was then.  In that state git push and               *)
(* git rev-parse @{u} fail, and git pull --rebase fails too, except in a   *)
(* clone of this branch alone as long as nothing is committed on the       *)
(* detached HEAD: there it moves HEAD forward.                             *)
(***************************************************************************)
EXTENDS Integers, Sequences, FiniteSets

CONSTANTS
  Tracked,    \* paths in the repository
  Untracked,  \* paths that may be created
  Sensitive,  \* the paths below .github/ and .git/
  MaxRetries, \* cfg.MaxRetries
  MaxReviews, \* bound: updates of the review comment
  MaxOthers,  \* bound: commits other people push
  MaxFixes,   \* bound: commits of ralph, before the tool edits nothing more
  MaxFaults   \* bound: commands that fail for reasons of their own

Paths == Tracked \cup Untracked

ASSUME RalphAssumption ==
  /\ Tracked \cap Untracked = {}
  /\ Sensitive \subseteq Paths
  /\ MaxRetries \in Nat
  /\ {MaxReviews, MaxOthers, MaxFixes, MaxFaults} \subseteq Nat

VARIABLES
  \* the ralph process
  pc,        \* the command that is next, "off" when ralph does not run
  it,        \* what this iteration holds in local variables
  cancelled, \* is the context cancelled?
  \* the clone
  tree,      \* paths changed in the working tree and not staged
  index,     \* paths staged
  base,      \* the branch is the first base commits of remote ...
  ahead,     \* ... and then these, which are not pushed
  upstream,  \* the remote-tracking branch, as a position in remote
  rebasing,  \* is a rebase in progress?  Then HEAD is detached, and these ...
  aside,     \* ... are committed there, on no branch
  \* GitHub
  remote,    \* the commits of the branch
  ci,        \* the status of the latest CI run; none counts as success
  pr,        \* the state of the pull request; a merge closes it
  review,    \* the version of the review comment, 0 for none
  approved,  \* is that version's confidence 5/5?
  faults     \* the commands that failed for reasons of their own

work   == <<tree, index>>
branch == <<base, ahead>>
head   == <<rebasing, aside>>
clone  == <<work, branch, upstream, head>>
github == <<remote, ci, pr, review, approved>>
vars   == <<pc, it, cancelled, clone, github, faults>>

\* By ralph or not; the review version that a fix addresses (0: none, or CI);
\* the date; is a path in it sensitive?
Commits == [ralph : BOOLEAN, review : 0 .. MaxReviews, date : 0 .. MaxReviews,
            sensitive : BOOLEAN]
Theirs(d) == [ralph |-> FALSE, review |-> 0, date |-> d, sensitive |-> FALSE]
History == SubSeq(remote, 1, base) \o ahead   \* the commits of the branch

\* What is fixed, the version of the review that is applied (0: none), the
\* position of status.HeadSHA in remote, attempt in verifyWithRetry, and the
\* runs of the tool so far.
Iterations == [job : {"none", "ci", "review"}, seen : 0 .. MaxReviews, sha : Nat,
               attempt : 0 .. MaxRetries + 2, runs : 0 .. MaxRetries + 2]
Fresh == [job |-> "none", seen |-> 0, sha |-> 0, attempt |-> 0, runs |-> 0]

Steps == {"off", "push stranded", "status", "ci", "review", "pull", "tool", "verify",
          "repair", "stage", "commit", "push", "rebase", "abort", "push again",
          "cleanup", "sleep"}

TypeOK ==
  /\ pc \in Steps
  /\ it \in Iterations
  /\ cancelled \in BOOLEAN
  /\ tree \subseteq Paths
  /\ index \subseteq Paths
  /\ base \in 1 .. Len(remote)
  /\ ahead \in Seq(Commits)
  /\ upstream \in 1 .. Len(remote)
  /\ rebasing \in BOOLEAN
  /\ aside \in Seq(Commits)
  /\ remote \in Seq(Commits)
  /\ ci \in {"running", "success", "failure"}
  /\ pr \in {"OPEN", "CLOSED"}
  /\ review \in 0 .. MaxReviews
  /\ approved \in BOOLEAN
  /\ faults \in 0 .. MaxFaults

Init ==
  /\ pc = "off"
  /\ it = Fresh
  /\ cancelled = FALSE
  /\ tree = {} /\ index = {}
  /\ base = 1 /\ ahead = <<>> /\ upstream = 1
  /\ rebasing = FALSE /\ aside = <<>>
  /\ remote = <<Theirs(0)>>
  /\ ci = "success"
  /\ pr = "OPEN" /\ review = 0 /\ approved = FALSE
  /\ faults = 0

-----------------------------------------------------------------------------
(* Commands.                                                               *)

\* ralph runs the command of step s next.
At(s) == pc = s
Then(s) == pc' = s /\ UNCHANGED it
Ends(s) == pc' = s /\ it' = Fresh     \* runOnce returns

\* A command succeeds only while the context lives.
Runs(s) == At(s) /\ ~cancelled /\ UNCHANGED <<cancelled, faults>>

\* A command fails: the context is cancelled, or for a reason of its own.
Fails(s) ==
  /\ At(s)
  /\ \/ cancelled /\ UNCHANGED faults
     \/ faults < MaxFaults /\ faults' = faults + 1
  /\ UNCHANGED cancelled

\* git push: accepted when HEAD is the branch and contains the remote branch.
Accepted == ~rebasing /\ base = Len(remote)
Land ==
  /\ remote' = remote \o ahead
  /\ base' = Len(remote')
  /\ ahead' = <<>>
  /\ UNCHANGED <<ci, pr, review, approved, work, head>>
PushSucceeds == Accepted /\ Land /\ upstream' = base'
PushAnswerLost == Accepted /\ Land /\ UNCHANGED upstream

\* git pull --rebase refuses a tree with changes to tracked files, before it
\* fetches.  Else it fetches and replays ahead, whose dates become now; at a
\* conflict it stops midway, with the files of the commit in the index.  It may
\* also fail after its fetch.
TreeIsClean == tree \cap Tracked = {} /\ index = {}
Replay ==
  /\ base' = Len(remote)
  /\ upstream' = Len(remote)
  /\ ahead' = IF base = Len(remote) THEN ahead
              ELSE [i \in 1 .. Len(ahead) |-> [ahead[i] EXCEPT !.date = review]]
  /\ UNCHANGED <<work, head>>
StopsMidway ==
  /\ ahead # <<>> /\ base # Len(remote)
  /\ upstream' = Len(remote)
  /\ rebasing' = TRUE
  /\ \E files \in SUBSET (Paths \ Sensitive) : index' = files
  /\ UNCHANGED <<tree, branch, aside>>
Fetches == upstream' = Len(remote) /\ UNCHANGED <<work, branch, head>>
PullFails == UNCHANGED clone \/ (TreeIsClean /\ Fetches)

\* One run of the tool: any edits, also when it fails.
FixesMade == Cardinality({i \in 1 .. Len(remote) : remote[i].ralph})
             + Len(ahead) + Len(aside)
ToolEdits ==
  /\ IF FixesMade < MaxFixes THEN \E e \in SUBSET Paths : tree' = tree \cup e
                             ELSE UNCHANGED tree
  /\ UNCHANGED <<index, branch, upstream, head>>

-----------------------------------------------------------------------------
(* One iteration: runOnce and fixCI.                                       *)

\* Run up to its loop.  It refuses a dirty tree, and untracked files are dirt.
\* On a detached HEAD it cannot find the pull request, unless its number is given.
Start ==
  /\ At("off")
  /\ cancelled' = FALSE
  /\ \/ tree \cup index = {} /\ Then("push stranded")
     \/ (tree \cup index # {} \/ rebasing) /\ Then("off")
  /\ UNCHANGED <<clone, github, faults>>

\* Mutant: a push that fails does not end the iteration.
PushOrGoOn ==
  /\ Then("status")
  /\ \/ Runs("push stranded") /\ PushSucceeds
     \/ Runs("push stranded") /\ ~Accepted /\ UNCHANGED <<clone, github>>
     \/ Fails("push stranded") /\ UNCHANGED <<clone, github>>
\* An error of git rev-parse @{u}, here by cancellation or because HEAD is
\* detached, is taken for a branch without upstream: the iteration goes on.
PushUnpushedCommits ==
  LET nothing == rebasing \/ (ahead = <<>> /\ base = upstream) IN
  \/ Runs("push stranded") /\ nothing /\ UNCHANGED <<clone, github>> /\ Then("status")
  \/ Runs("push stranded") /\ ~nothing /\ PushSucceeds /\ Then("status")
  \/ Runs("push stranded") /\ ~nothing /\ ~Accepted /\ UNCHANGED <<clone, github>>
     /\ Ends("sleep")
  \/ Fails("push stranded") /\ (cancelled \/ ~nothing) /\ UNCHANGED <<clone, github>>
     /\ (Ends("sleep") \/ (cancelled /\ Then("status")))
  \/ Fails("push stranded") /\ ~nothing /\ PushAnswerLost /\ Ends("sleep")

\* The mutant finishes the fix of a failing CI run first.
GetPRStatusOfGreenCI ==
  /\ \/ Runs("status") /\ (pr = "OPEN" \/ ci = "failure")
        /\ pc' = "ci" /\ it' = [it EXCEPT !.sha = Len(remote)]
     \/ Runs("status") /\ pr # "OPEN" /\ ci # "failure" /\ Ends("off")
     \/ Fails("status") /\ Ends("sleep")
  /\ UNCHANGED <<clone, github>>
GetPRStatus ==
  /\ \/ Runs("status") /\ pr = "OPEN"
        /\ pc' = "ci" /\ it' = [it EXCEPT !.sha = Len(remote)]
     \/ Runs("status") /\ pr # "OPEN" /\ Ends("off")
     \/ Fails("status") /\ Ends("sleep")
  /\ UNCHANGED <<clone, github>>

\* A failed run whose log is empty is taken for no failure, and a detached HEAD
\* has no runs.
GetFailedCILogs ==
  /\ \/ Runs("ci") /\ ci = "failure" /\ ~rebasing
        /\ pc' = "pull" /\ it' = [it EXCEPT !.job = "ci", !.sha = 0]
     \/ Runs("ci") /\ Then("review")
     \/ Fails("ci") /\ Ends("sleep")
  /\ UNCHANGED <<clone, github>>

\* GetCommitDate of the head, then FetchGreptileComment.  (The mutant takes a
\* review of the same moment for a newer one.)
NotBefore(date) == review > 0 /\ review >= date
UpdatedAfter(date) == review > date
FetchReview ==
  LET news == UpdatedAfter(remote[it.sha].date) IN
  /\ \/ Runs("review") /\ ~news /\ Ends("sleep")
     \/ Runs("review") /\ news /\ approved /\ Ends("off")
     \/ Runs("review") /\ news /\ ~approved
        /\ pc' = "pull"
        /\ it' = [it EXCEPT !.job = "review", !.seen = review, !.sha = 0]
     \/ Fails("review") /\ Ends("sleep")
  /\ UNCHANGED <<clone, github>>

\* ahead is empty here, so there is no conflict.
GitPull ==
  /\ \/ Runs("pull") /\ TreeIsClean /\ ~rebasing /\ Replay /\ Then("tool")
     \/ Runs("pull") /\ TreeIsClean /\ rebasing /\ aside = <<>> /\ Fetches /\ Then("tool")
     \/ Runs("pull") /\ (rebasing \/ ~TreeIsClean) /\ PullFails /\ Ends("sleep")
     \/ Fails("pull") /\ PullFails /\ Ends("sleep")
  /\ UNCHANGED github

\* ApplyReviewFixes, or the first FixBuildErrors of fixCI.  An error leaves the
\* edits in the tree.
FirstAttempt == IF it.job = "ci" THEN 2 ELSE 1
RunTool ==
  /\ ToolEdits
  /\ \/ Runs("tool") /\ pc' = "verify"
        /\ it' = [it EXCEPT !.attempt = FirstAttempt, !.runs = 1]
     \/ Fails("tool") /\ Ends("sleep")
  /\ UNCHANGED github

\* verifyWithRetry: tests and builds pass, fail or cannot be run.  (The mutants
\* never give up, and allow one attempt more.)
AlwaysOneLeft == FALSE
OneMoreThanLeft == it.attempt > MaxRetries + 1
NoAttemptLeft == it.attempt > MaxRetries
Verify ==
  /\ \/ Runs("verify") /\ Then("stage")
     \/ Runs("verify") /\ NoAttemptLeft /\ Then("cleanup")
     \/ Runs("verify") /\ ~NoAttemptLeft /\ Then("repair")
     \/ Fails("verify") /\ Then("cleanup")
  /\ UNCHANGED <<clone, github>>
Repair ==
  /\ ToolEdits
  /\ it' = [it EXCEPT !.attempt = @ + 1, !.runs = @ + 1]
  /\ \/ Runs("repair") /\ pc' = "verify"
     \/ Fails("repair") /\ pc' = "cleanup"
  /\ UNCHANGED github

\* commitAndPush: git diff --name-only, git ls-files --others and git add.
\* (The mutant stages everything.)
StageAll(files) == files
Stageable(files) == files \ Sensitive
Stage ==
  /\ \/ LET files == Stageable(tree) IN
        /\ Runs("stage")
        /\ tree' = tree \ files
        /\ index' = index \cup files
        /\ IF files = {} THEN Then("cleanup") ELSE Then("commit")
     \/ Fails("stage") /\ UNCHANGED work /\ Then("cleanup")
  /\ UNCHANGED <<branch, upstream, head, github>>

\* On the branch or, in a rebase left behind, on the detached HEAD.
Commit ==
  LET c == [ralph |-> TRUE, review |-> it.seen, date |-> review,
            sensitive |-> index \cap Sensitive # {}] IN
  /\ \/ /\ Runs("commit") /\ Then("push")
        /\ ahead' = IF rebasing THEN ahead ELSE Append(ahead, c)
        /\ aside' = IF rebasing THEN Append(aside, c) ELSE aside
        /\ index' = {}
     \/ Fails("commit") /\ UNCHANGED <<ahead, aside, index>> /\ Then("cleanup")
  /\ UNCHANGED <<tree, base, upstream, rebasing, github>>

\* The push, and postPRComment, whose failure is ignored.
Push ==
  \/ Runs("push") /\ PushSucceeds /\ Ends("sleep")
  \/ Runs("push") /\ ~Accepted /\ UNCHANGED <<clone, github>> /\ Then("rebase")
  \/ Fails("push") /\ (PushAnswerLost \/ UNCHANGED <<clone, github>>) /\ Then("rebase")

Rebase ==
  /\ \/ Runs("rebase") /\ TreeIsClean /\ ~rebasing /\ Replay /\ Then("push again")
     \/ Runs("rebase") /\ TreeIsClean /\ ~rebasing /\ StopsMidway /\ Then("abort")
     \/ Runs("rebase") /\ (rebasing \/ ~TreeIsClean) /\ PullFails /\ Then("abort")
     \/ Fails("rebase") /\ PullFails /\ Then("abort")
     \/ Fails("rebase") /\ TreeIsClean /\ ~rebasing /\ StopsMidway   \* killed
        /\ Then("abort")
  /\ UNCHANGED github

\* git rebase --abort goes back to the branch and its files.  Its error, as when
\* no rebase is in progress, is ignored.
Abort ==
  /\ \/ Runs("abort") /\ rebasing
        /\ rebasing' = FALSE /\ aside' = <<>>
        /\ index' = {} /\ tree' = tree \ Tracked
     \/ Runs("abort") /\ ~rebasing /\ UNCHANGED <<head, work>>
     \/ Fails("abort") /\ UNCHANGED <<head, work>>
  /\ Then("cleanup")
  /\ UNCHANGED <<branch, upstream, github>>

PushAgain ==
  \/ Runs("push again") /\ PushSucceeds /\ Ends("sleep")
  \/ Runs("push again") /\ ~Accepted /\ UNCHANGED <<clone, github>> /\ Then("cleanup")
  \/ Fails("push again") /\ (PushAnswerLost \/ UNCHANGED <<clone, github>>)
     /\ Then("cleanup")

\* cleanupWorkingTree: git restore --staged, git restore and git clean, with a
\* context of its own; each may fail, with a warning.  (The mutant forgets the
\* files the tool created.)
RestoreOnly(changes, done) == changes \ (IF "restore" \in done THEN Tracked ELSE {})
RestoreAndClean(changes, done) ==
  changes \ ((IF "restore" \in done THEN Tracked ELSE {})
             \cup (IF "clean" \in done THEN Untracked ELSE {}))
CleanupWorkingTree ==
  /\ At("cleanup") /\ Ends("sleep")
  /\ \E done \in SUBSET {"unstage", "restore", "clean"} :
       /\ faults' = faults + 3 - Cardinality(done)
       /\ LET staged == IF "unstage" \in done THEN {} ELSE index
          IN  tree' = RestoreAndClean(tree \cup (index \ staged), done) /\ index' = staged
  /\ faults' <= MaxFaults
  /\ UNCHANGED <<cancelled, branch, upstream, head, github>>

\* The select of Run: the timer, or the context.  When both are ready the next
\* iteration's first command fails, which is the same as sleeping on.
Poll == Runs("sleep") /\ Then("push stranded") /\ UNCHANGED <<clone, github>>
Stop ==
  /\ At("sleep") /\ cancelled /\ Then("off")
  /\ UNCHANGED <<cancelled, clone, github, faults>>

-----------------------------------------------------------------------------
(* The world around.                                                       *)

\* SIGINT or SIGTERM.
Signal ==
  /\ pc # "off" /\ ~cancelled
  /\ cancelled' = TRUE
  /\ UNCHANGED <<pc, it, clone, github, faults>>

\* Before the next start the operator brings the clone in order.
OperatorTidies ==
  /\ At("off") /\ (rebasing \/ tree \cup index # {})
  /\ tree' = {} /\ index' = {} /\ rebasing' = FALSE /\ aside' = <<>>
  /\ UNCHANGED <<pc, it, cancelled, branch, upstream, github, faults>>

\* Somebody commits on top of the branch, maybe some time ago, and pushes, also
\* when the pull request is closed.
OthersPush ==
  /\ Cardinality({i \in 1 .. Len(remote) : ~remote[i].ralph}) <= MaxOthers
  /\ \E date \in remote[Len(remote)].date .. review :
       remote' = Append(remote, Theirs(date))
  /\ UNCHANGED <<pc, it, cancelled, clone, ci, pr, review, approved, faults>>

ReviewerUpdates ==
  /\ review < MaxReviews
  /\ review' = review + 1
  /\ approved' \in BOOLEAN
  /\ UNCHANGED <<pc, it, cancelled, clone, remote, ci, pr, faults>>

\* A run starts, on a push or by hand, some time later or never.
CIStarts ==
  /\ ci # "running"
  /\ ci' = "running"
  /\ UNCHANGED <<pc, it, cancelled, clone, remote, pr, review, approved, faults>>
CIEnds ==
  /\ ci = "running"
  /\ ci' \in {"success", "failure"}
  /\ UNCHANGED <<pc, it, cancelled, clone, remote, pr, review, approved, faults>>

\* It is closed or merged, and not opened again.
PRCloses ==
  /\ pr = "OPEN"
  /\ pr' = "CLOSED"
  /\ UNCHANGED <<pc, it, cancelled, clone, remote, ci, review, approved, faults>>

Ralph ==
  \/ PushUnpushedCommits \/ GetPRStatus \/ GetFailedCILogs \/ FetchReview
  \/ GitPull \/ RunTool \/ Verify \/ Repair \/ Stage \/ Commit \/ Push \/ Rebase
  \/ Abort \/ PushAgain \/ CleanupWorkingTree \/ Poll \/ Stop
World ==
  \/ Signal \/ OperatorTidies \/ OthersPush \/ ReviewerUpdates \/ CIStarts \/ CIEnds
  \/ PRCloses

Next == Start \/ Ralph \/ World

\* A started ralph goes on; the world owes nothing.
Spec == Init /\ [][Next]_vars /\ WF_vars(Ralph)

-----------------------------------------------------------------------------
(* What the loop promises.                                                 *)

\* No version of the review is answered twice: of the commits of the branch,
\* here and at GitHub, at most one addresses it, although the push of that
\* commit may have failed, its answer may have been lost, ralph may have been
\* started again meanwhile, and others may have pushed commits with older dates.
\* The filter is the date of the head commit (FetchGreptileComment).
OneFixPerReview ==
  \A q \in {remote, History} : \A i, j \in 1 .. Len(q) :
    q[i].ralph /\ q[j].ralph /\ q[i].review = q[j].review /\ q[i].review > 0 => i = j

\* The tool never works, and nothing is staged or committed, with a commit below
\* HEAD that is not pushed: pushUnpushedCommits lets no iteration pass that
\* cannot push them, or the pull before the tool fails.  A rebase that could not
\* be aborted (commitAndPush ignores that) lets iterations pass it, and keeps
\* the unpushed commit on the branch and off HEAD; then the tool may work on the
\* detached HEAD once, and never on top of what is committed there.
Unpushed == IF rebasing THEN aside ELSE ahead
WorkStartsFromPushedHead ==
  /\ pc \in {"tool", "verify", "repair", "stage", "commit"} => Unpushed = <<>>
  /\ pc \in {"ci", "review", "pull"} => rebasing \/ ahead = <<>>

\* No commit of ralph, pushed or not, contains a path below .github/ or .git/,
\* also when an earlier iteration left such an edit behind or staged files
\* behind (commitAndPush).
SensitivePathsStayLocal ==
  \A q \in {remote, History, aside} : \A i \in 1 .. Len(q) : ~q[i].sensitive

\* As long as no command failed for reasons of its own and nobody cancelled,
\* an iteration leaves at most the edits it refused to stage: the tree is
\* clean or dirty below .github/ only, whatever way the iteration ended.
OnlyRefusedEditsRemain ==
  faults = 0 /\ ~cancelled /\ pc \in {"sleep", "push stranded", "status", "ci", "review"}
    => tree \subseteq Sensitive /\ index = {}

\* An iteration runs the tool at most once to apply and MaxRetries times to
\* repair; in CI mode the first run is itself an attempt, and happens even when
\* no attempts are allowed (verifyWithRetry's startAttempt and its comparison).
ToolRunsAreBounded ==
  it.runs <= IF it.job = "ci" /\ MaxRetries > 0 THEN MaxRetries ELSE MaxRetries + 1

\* When the pull request is closed while the clone contains its branch, the
\* loop ends, or somebody pushes to the branch meanwhile: whatever ralph is doing
\* then, failing tests, failing commands, unpushed commits, comes to an end in
\* this iteration or a later.
ClosedPREndsLoop ==
  (pr # "OPEN" /\ base = Len(remote)) ~> (pc = "off" \/ base # Len(remote))

\* "Run executes the main loop until the context is cancelled or the PR is
\* closed/merged."
PREndEndsLoop == (pr # "OPEN") ~> (pc = "off")
=============================================================================
