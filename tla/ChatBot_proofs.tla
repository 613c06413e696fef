----------------------------- MODULE ChatBot_proofs -----------------------------
(***************************************************************************)
(* Proofs about the chat part of the Telegram bot: its messages reach the  *)
(* session that the user has chosen, none is turned away while a session   *)
(* is there, and a button makes a session where it says.                   *)
(*                                                                         *)
(* Inv is inductive.  Its parts are about the bounds and the bot's own     *)
(* state, the buttons, the sessions and their lists, the handlers one by   *)
(* one, and the choice: while a session is chosen, every handler that may  *)
(* still choose is a message that was meant for it.                        *)
(***************************************************************************)
EXTENDS ChatBot, Selections_proofs, FiniteSetTheorems

-----------------------------------------------------------------------------
(* Sequences without repetition.                                           *)

\* No element is there twice.
Distinct(q) == \A i, j \in DOMAIN q : q[i] = q[j] => i = j

\* One element more is a repetition, or not.
LEMMA DistinctAppend ==
  ASSUME NEW T, NEW q \in Seq(T), NEW x \in T
  PROVE  Distinct(Append(q, x)) <=> Distinct(q) /\ x \notin ToSet(q)
<1> DEFINE a == Append(q, x)
           n == Len(q)
<1>1. /\ n \in Nat /\ DOMAIN q = 1 .. n /\ DOMAIN a = 1 .. n + 1 /\ a[n + 1] = x
      /\ \A i \in 1 .. n : a[i] = q[i]
  OBVIOUS
<1>2. x \in ToSet(q) <=> \E i \in DOMAIN q : q[i] = x
  BY DEF ToSet
<1> HIDE DEF a, n
<1>3. ASSUME Distinct(a) PROVE Distinct(q) /\ x \notin ToSet(q)
  <2>1. Distinct(q)
    BY <1>1, <1>3 DEF Distinct
  <2>2. ASSUME NEW i \in 1 .. n, q[i] = x PROVE FALSE
    <3>1. a[i] = a[n + 1] /\ i \in DOMAIN a /\ n + 1 \in DOMAIN a /\ i # n + 1
      BY <1>1, <2>2
    <3> QED BY <1>3, <3>1 DEF Distinct
  <2> QED BY <1>1, <1>2, <2>1, <2>2
<1>4. ASSUME Distinct(q), x \notin ToSet(q) PROVE Distinct(a)
  <2> SUFFICES ASSUME NEW i \in 1 .. n + 1, NEW j \in 1 .. n + 1, a[i] = a[j] PROVE i = j
    BY <1>1 DEF Distinct
  <2>1. CASE i \in 1 .. n /\ j \in 1 .. n
    BY <1>1, <1>4, <2>1 DEF Distinct
  <2>2. CASE i = n + 1 /\ j \in 1 .. n
    BY <1>1, <1>2, <1>4, <2>2
  <2>3. CASE i \in 1 .. n /\ j = n + 1
    BY <1>1, <1>2, <1>4, <2>3
  <2> QED BY <1>1, <2>1, <2>2, <2>3
<1> QED BY <1>3, <1>4 DEF a

\* Selecting repeats nothing.
LEMMA OnlyDistinct ==
  ASSUME NEW T, NEW s \in Seq(T), NEW S, Distinct(s)
  PROVE  Distinct(Only(s, S))
<1> DEFINE P == {q \in Seq(T) : Distinct(q) => Distinct(Only(q, S))}
<1>1. <<>> \in P
  BY OnlyEmpty DEF Distinct
<1>2. ASSUME NEW q \in Seq(T), NEW x \in T, q \in P PROVE Append(q, x) \in P
  <2>1. Append(q, x) \in Seq(T)
    OBVIOUS
  <2> SUFFICES ASSUME Distinct(Append(q, x)) PROVE Distinct(Only(Append(q, x), S))
    BY <2>1
  <2>2. Distinct(q) /\ x \notin ToSet(q)
    BY DistinctAppend
  <2>3. Only(q, S) \in Seq(T \cap S) /\ ToSet(Only(q, S)) = ToSet(q) \cap S
    BY OnlyType
  <2>4. Distinct(Only(q, S))
    BY <1>2, <2>2
  <2>5. CASE x \in S
    <3>1. Only(Append(q, x), S) = Append(Only(q, S), x)
      BY <2>5, OnlyAppend
    <3>2. x \in T \cap S /\ x \notin ToSet(Only(q, S))
      BY <2>2, <2>3, <2>5
    <3>3. Distinct(Append(Only(q, S), x))
      BY <2>3, <2>4, <3>2, DistinctAppend
    <3> QED BY <3>1, <3>3
  <2>6. CASE x \notin S
    <3>1. Only(Append(q, x), S) = Only(q, S)
      BY <2>6, OnlyAppend
    <3> QED BY <2>4, <3>1
  <2> QED BY <2>5, <2>6
<1> HIDE DEF P
<1>3. Seq(T) \subseteq P
  BY <1>1, <1>2, SequenceInduction
<1> QED BY <1>3 DEF P

\* A sequence without repetition is as long as it has elements.
LEMMA DistinctLength ==
  ASSUME NEW T, NEW s \in Seq(T), Distinct(s)
  PROVE  Cardinality(ToSet(s)) = Len(s)
<1> DEFINE P == {q \in Seq(T) : Distinct(q) => IsFiniteSet(ToSet(q))
                                               /\ Cardinality(ToSet(q)) = Len(q)}
<1>1. <<>> \in P
  <2>1. ToSet(<<>>) = {} /\ Len(<<>>) = 0 /\ <<>> \in Seq(T)
    BY DEF ToSet
  <2> QED BY <2>1, FS_EmptySet
<1>2. ASSUME NEW q \in Seq(T), NEW x \in T, q \in P PROVE Append(q, x) \in P
  <2>1. Append(q, x) \in Seq(T) /\ Len(Append(q, x)) = Len(q) + 1
    OBVIOUS
  <2>2. ToSet(Append(q, x)) = ToSet(q) \cup {x}
    BY ToSetOfAppend
  <2> SUFFICES ASSUME Distinct(Append(q, x))
               PROVE  /\ IsFiniteSet(ToSet(q) \cup {x})
                      /\ Cardinality(ToSet(q) \cup {x}) = Len(q) + 1
    BY <2>1, <2>2
  <2>3. Distinct(q) /\ x \notin ToSet(q)
    BY DistinctAppend
  <2>4. IsFiniteSet(ToSet(q)) /\ Cardinality(ToSet(q)) = Len(q)
    BY <1>2, <2>3
  <2> QED BY <2>3, <2>4, FS_AddElement
<1> HIDE DEF P
<1>3. Seq(T) \subseteq P
  BY <1>1, <1>2, SequenceInduction
<1> QED BY <1>3 DEF P

-----------------------------------------------------------------------------
(* The inductive invariant.                                                *)

Pcs == {"idle", "done", "read", "lost", "stillLost", "set", "activate", "create", "found",
        "resolved", "sending", "noSession"}

SessionType == [of : Providers \cup {"none"}, folder : Nat, live : BOOLEAN, busy : BOOLEAN,
                as : Nat]
JobType ==
  [pc : Pcs, op : Ops \cup {"none"}, of : Providers \cup {"none"}, id : Nat, folder : Nat,
   as : Nat, want : Nat, steady : SUBSET Providers, alone : BOOLEAN]
LimitType ==
  [sessions : 0 .. MaxSessions, updates : 0 .. MaxUpdates, ops : SUBSET Ops,
   repos : SUBSET Repos, changes : Nat, restarts : Nat, faults : Nat]

Folders(R) == Only([i \in Repos |-> i], R)

\* A button has the name of the repository at its position in the list.
ButtonOk(b) ==
  /\ b \in [of : Providers, index : Nat, label : Nat, among : SUBSET Repos]
  /\ b.index \in 1 .. Len(Folders(b.among)) /\ b.label = Folders(b.among)[b.index]

LiveIn(S, p) == {s \in Sessions : S[s].live /\ S[s].of = p}

\* The sessions S, the lists R of them and the active ones A belong together; d of
\* them have been created.
SessionsOk(S, d) ==
  /\ S \in [Sessions -> SessionType]
  /\ \A s \in Sessions :
       /\ s <= d => S[s].of \in Providers
       /\ s > d => S[s] = NoSession
       /\ S[s].as # 0 => S[s].folder = S[s].as
ListOk(S, q, a, p) ==
  /\ q \in Seq(Sessions) /\ Distinct(q) /\ ToSet(q) = LiveIn(S, p)
  /\ a \in LiveIn(S, p) \/ (a = 0 /\ LiveIn(S, p) = {})
ListsOk(S, R, A) ==
  /\ DOMAIN R = Providers /\ DOMAIN A = Providers
  /\ \A p \in Providers : ListOk(S, R[p], A[p], p)

\* What a handler works on exists.
JobOk(j, S, d) ==
  /\ j \in JobType
  /\ j.pc = "idle" => j = Idle
  /\ j.pc \in {"set", "create", "found"} => j.of \in Providers
  /\ j.pc \in {"activate", "resolved", "sending"} => j.id \in 1 .. d
  /\ j.pc \in {"activate", "set"} /\ j.op # "text" => j.id \in 1 .. d /\ S[j.id].of = j.of
  /\ j.pc = "create" /\ j.as # 0 => j.folder = j.as
  /\ j.pc \in {"activate", "create"} => j.op # "text"
  /\ j.pc \in {"read", "lost", "stillLost"} => j.op = "text"

\* The providers that had a session all the time have one now, and are not the ones
\* that have been asked in vain.
SteadyOk(j, A) ==
  /\ j.steady \subseteq {p \in Providers : A[p] # 0}
  /\ j.pc \in {"stillLost", "noSession"} => "codex" \notin j.steady
  /\ j.pc = "noSession" => j.steady = {}

\* A message that is meant for the chosen session is on its way to it.
WantOk(j, S, c) ==
  j.want # 0 =>
    /\ j.op = "text" /\ j.pc \in {"read", "found", "resolved", "sending"}
    /\ j.pc # "sending" => j.want = c
    /\ j.pc \in {"read", "found"} => j.of = S[j.want].of
    /\ j.pc \in {"resolved", "sending"} => j.id = j.want

ChoosingPcs == {"read", "lost", "stillLost", "set", "activate", "create"}

\* Nobody undoes a choice: it is made when no other handler chooses, and whoever
\* has come since is a message to it.
AloneOk(js, u) ==
  js[u].pc \in ChoosingPcs /\ js[u].op # "text" /\ js[u].alone =>
    \A v \in Updates : js[v].pc \in ChoosingPcs => v = u
ChoiceOk(js, S, A, c, d, cur) ==
  c # 0 =>
    /\ c \in 1 .. d /\ S[c].live /\ S[c].of \in Providers /\ A[S[c].of] = c
    /\ cur = S[c].of
    /\ \A u \in Updates : js[u].pc \in ChoosingPcs =>
         js[u].op = "text" /\ js[u].pc = "read" /\ js[u].want = c

JobsOk(js, S, A, c, d) ==
  /\ DOMAIN js = Updates
  /\ \A u \in Updates : JobOk(js[u], S, d) /\ SteadyOk(js[u], A) /\ WantOk(js[u], S, c)
AllAlone(js) == \A u \in Updates : AloneOk(js, u)

BasicInv ==
  /\ limit \in LimitType
  /\ drawn \in 0 .. limit.sessions /\ updates \in 0 .. limit.updates
  /\ current \in Providers \cup {"none"} /\ saved \in Providers \cup {"none", "torn"}
  /\ repos \subseteq Repos /\ chosen \in Sessions \cup {0}
ButtonsInv == \A b \in buttons : ButtonOk(b)
MapInv     == SessionsOk(sess, drawn) /\ ListsOk(sess, recent, active)
JobsInv    == JobsOk(job, sess, active, chosen, drawn)
ChoiceInv  == AllAlone(job) /\ ChoiceOk(job, sess, active, chosen, drawn, current)

Inv == BasicInv /\ ButtonsInv /\ MapInv /\ JobsInv /\ ChoiceInv

-----------------------------------------------------------------------------
(* Handlers.                                                               *)

\* Two records of a handler that differ in what the first predicate does not read.
Alike(x, w) ==
  /\ x.pc = w.pc /\ x.op = w.op /\ x.of = w.of /\ x.id = w.id /\ x.folder = w.folder
  /\ x.as = w.as

\* What is said of a handler's work holds of one that works on the same.
LEMMA AlikeOk ==
  ASSUME NEW x \in JobType, NEW w, NEW S, NEW d, JobOk(w, S, d), Alike(x, w),
         x.pc = "idle" => x = Idle
  PROVE  JobOk(x, S, d)
BY DEF Alike, JobOk

\* The same, of what it wants.
LEMMA AlikeWant ==
  ASSUME NEW x, NEW w, NEW S, NEW c, WantOk(w, S, c), Alike(x, w), x.want = w.want
  PROVE  WantOk(x, S, c)
BY DEF Alike, WantOk

\* A handler that has answered, and one that has not begun, want nothing.
LEMMA DoneOk ==
  ASSUME NEW S, NEW d, NEW A, NEW c
  PROVE  /\ JobOk(Done, S, d) /\ SteadyOk(Done, A) /\ WantOk(Done, S, c)
         /\ JobOk(Idle, S, d) /\ SteadyOk(Idle, A) /\ WantOk(Idle, S, c)
         /\ Done.pc = "done" /\ Done.steady = {} /\ Done.want = 0 /\ Done.op = "none"
         /\ Idle.pc = "idle" /\ Idle.op = "none"
<1>1. Idle \in JobType /\ Done \in JobType
  BY DEF Idle, Done, JobType, Pcs
<1>2. /\ Done.pc = "done" /\ Done.steady = {} /\ Done.want = 0 /\ Done.op = "none"
      /\ Idle.pc = "idle" /\ Idle.op = "none" /\ Idle.steady = {} /\ Idle.want = 0
  BY DEF Idle, Done
<1> QED BY <1>1, <1>2 DEF JobOk, SteadyOk, WantOk

\* A change that an operator makes to the handlers one by one.
LEMMA JobsOkEach ==
  ASSUME NEW js, NEW S, NEW A, NEW c, NEW d, DOMAIN js = Updates,
         \A u \in Updates : JobOk(js[u], S, d) /\ SteadyOk(js[u], A) /\ WantOk(js[u], S, c)
  PROVE  JobsOk(js, S, A, c, d)
BY DEF JobsOk

\* A change of the active sessions, noticed by every handler.
LEMMA NoticedOk ==
  ASSUME NEW js, NEW S, NEW A, NEW B, NEW c, NEW d, JobsOk(js, S, A, c, d)
  PROVE  /\ JobsOk(Noticed(js, B), S, B, c, d)
         /\ \A u \in Updates : /\ Noticed(js, B)[u].pc = js[u].pc
                               /\ Noticed(js, B)[u].op = js[u].op
                               /\ Noticed(js, B)[u].want = js[u].want
                               /\ Noticed(js, B)[u].alone = js[u].alone
<1> DEFINE ns == Noticed(js, B)
<1>1. ASSUME NEW u \in Updates
      PROVE  /\ JobOk(ns[u], S, d) /\ SteadyOk(ns[u], B) /\ WantOk(ns[u], S, c)
             /\ ns[u].pc = js[u].pc /\ ns[u].op = js[u].op /\ ns[u].want = js[u].want
             /\ ns[u].alone = js[u].alone
  <2> DEFINE w == js[u]
             left == {p \in w.steady : B[p] # 0}
             x == [w EXCEPT !.steady = left]
  <2>1. ns[u] = x
    BY DEF Noticed
  <2>2. JobOk(w, S, d) /\ SteadyOk(w, A) /\ WantOk(w, S, c)
    BY DEF JobsOk
  <2>3. w \in JobType
    BY <2>2 DEF JobOk
  <2>4. left \in SUBSET Providers /\ left \subseteq w.steady
    BY <2>3 DEF JobType
  <2>5. left \subseteq {p \in Providers : B[p] # 0}
    BY <2>4
  <2> HIDE DEF w, left
  <2>6. /\ x \in JobType /\ Alike(x, w) /\ x.steady = left /\ x.want = w.want
        /\ x.alone = w.alone /\ x.pc = w.pc /\ x.op = w.op
    BY <2>3, <2>4 DEF JobType, Alike
  <2>7. x.pc = "idle" => x = Idle
    <3>1. SUFFICES ASSUME w.pc = "idle" PROVE x = Idle
      BY <2>6
    <3>2. w = Idle
      BY <2>2, <3>1 DEF JobOk
    <3>3. left = {} /\ Idle.steady = {}
      BY <2>4, <3>2 DEF Idle
    <3> QED BY <3>2, <3>3 DEF Idle
  <2> HIDE DEF x
  <2>8. JobOk(x, S, d)
    BY <2>2, <2>6, <2>7, AlikeOk
  <2>9. WantOk(x, S, c)
    BY <2>2, <2>6, AlikeWant
  <2>10. SteadyOk(x, B)
    BY <2>2, <2>4, <2>5, <2>6 DEF SteadyOk
  <2> QED BY <2>1, <2>6, <2>8, <2>9, <2>10 DEF w
<1>2. DOMAIN ns = Updates
  BY DEF Noticed
<1> HIDE DEF ns
<1>3. JobsOk(ns, S, B, c, d)
  BY <1>1, <1>2, JobsOkEach
<1> QED BY <1>1, <1>3 DEF ns

\* The end of a choice, noticed by every handler.
LEMMA DroppedOk ==
  ASSUME NEW js, NEW S, NEW A, NEW c, NEW d, NEW s, JobsOk(js, S, A, c, d)
  PROVE  /\ JobsOk(Dropped(js, s), S, A, IF c = s THEN 0 ELSE c, d)
         /\ \A u \in Updates : /\ Dropped(js, s)[u].pc = js[u].pc
                               /\ Dropped(js, s)[u].op = js[u].op
                               /\ Dropped(js, s)[u].alone = js[u].alone
                               /\ js[u].want # s =>
                                    Dropped(js, s)[u].want = js[u].want
<1> DEFINE ns == Dropped(js, s)
           e == IF c = s THEN 0 ELSE c
<1>1. ASSUME NEW u \in Updates
      PROVE  /\ JobOk(ns[u], S, d) /\ SteadyOk(ns[u], A) /\ WantOk(ns[u], S, e)
             /\ ns[u].pc = js[u].pc /\ ns[u].op = js[u].op /\ ns[u].alone = js[u].alone
             /\ js[u].want # s => ns[u].want = js[u].want
  <2> DEFINE w == js[u]
             x == [w EXCEPT !.want = 0]
  <2>1. ns[u] = IF w.want = s /\ w.pc # "sending" THEN x ELSE w
    BY DEF Dropped
  <2>2. JobOk(w, S, d) /\ SteadyOk(w, A) /\ WantOk(w, S, c)
    BY DEF JobsOk
  <2>3. w \in JobType
    BY <2>2 DEF JobOk
  <2> HIDE DEF w
  <2>4. CASE w.want = s /\ w.pc # "sending"
    <3>1. /\ x \in JobType /\ Alike(x, w) /\ x.steady = w.steady /\ x.want = 0
          /\ x.alone = w.alone /\ x.pc = w.pc /\ x.op = w.op
      BY <2>3 DEF JobType, Alike
    <3>2. x.pc = "idle" => x = Idle
      <4>1. SUFFICES ASSUME w.pc = "idle" PROVE x = Idle
        BY <3>1
      <4>2. w = Idle
        BY <2>2, <4>1 DEF JobOk
      <4> QED BY <4>2 DEF Idle
    <3> HIDE DEF x
    <3>3. JobOk(x, S, d)
      BY <2>2, <3>1, <3>2, AlikeOk
    <3>4. WantOk(x, S, e) /\ SteadyOk(x, A)
      BY <2>2, <3>1 DEF WantOk, SteadyOk
    <3> QED BY <2>1, <2>4, <3>1, <3>3, <3>4 DEF w
  <2>5. CASE ~(w.want = s /\ w.pc # "sending")
    <3>1. WantOk(w, S, e)
      BY <2>2, <2>5 DEF WantOk
    <3> QED BY <2>1, <2>2, <2>5, <3>1 DEF w
  <2> QED BY <2>4, <2>5
<1>2. DOMAIN ns = Updates
  BY DEF Dropped
<1> HIDE DEF ns, e
<1>3. JobsOk(ns, S, A, e, d)
  BY <1>1, <1>2, JobsOkEach
<1> QED BY <1>1, <1>3 DEF ns, e

\* The sessions change, but not those that the handlers work on.
LEMMA JobsOkLater ==
  ASSUME NEW js, NEW S, NEW A, NEW c \in Nat, NEW d \in Nat, NEW S2, NEW B, NEW d2 \in Nat,
         JobsOk(js, S, A, c, d), d <= d2, c \in 0 .. d,
         \A s \in 1 .. d : S2[s].of = S[s].of,
         \A p \in Providers : A[p] # 0 => B[p] # 0
  PROVE  JobsOk(js, S2, B, c, d2)
<1>1. ASSUME NEW u \in Updates
      PROVE  JobOk(js[u], S2, d2) /\ SteadyOk(js[u], B) /\ WantOk(js[u], S2, c)
  <2> DEFINE w == js[u]
  <2>1. JobOk(w, S, d) /\ SteadyOk(w, A) /\ WantOk(w, S, c)
    BY DEF JobsOk
  <2> HIDE DEF w
  <2>2. JobOk(w, S2, d2)
    BY <2>1 DEF JobOk
  <2>3. SteadyOk(w, B)
    BY <2>1 DEF SteadyOk
  <2>4. WantOk(w, S2, c)
    BY <2>1 DEF WantOk
  <2> QED BY <2>2, <2>3, <2>4 DEF w
<1> QED BY <1>1 DEF JobsOk

\* One handler goes on.
LEMMA JobsOkExcept ==
  ASSUME NEW js, NEW S, NEW A, NEW c, NEW d, JobsOk(js, S, A, c, d), NEW u \in Updates, NEW x,
         JobOk(x, S, d), SteadyOk(x, A), WantOk(x, S, c)
  PROVE  JobsOk([js EXCEPT ![u] = x], S, A, c, d)
BY DEF JobsOk

\* It keeps its part in the choice, or has no part in it any more.
LEMMA AloneExcept ==
  ASSUME NEW js, DOMAIN js = Updates, AllAlone(js), NEW u \in Updates, NEW x,
         \/ x.pc \notin ChoosingPcs
         \/ js[u].pc \in ChoosingPcs /\ x.op = js[u].op /\ x.alone = js[u].alone
  PROVE  AllAlone([js EXCEPT ![u] = x])
BY DEF AllAlone, AloneOk

\* The same, of what is chosen.
LEMMA ChoiceExcept ==
  ASSUME NEW js, DOMAIN js = Updates, NEW S, NEW A, NEW c, NEW d, NEW cur,
         ChoiceOk(js, S, A, c, d, cur), NEW u \in Updates, NEW x, x.pc \notin ChoosingPcs
  PROVE  ChoiceOk([js EXCEPT ![u] = x], S, A, c, d, cur)
BY DEF ChoiceOk

\* What other handlers see leaves the choice alone.
LEMMA AloneSame ==
  ASSUME NEW js, NEW ns, AllAlone(js),
         \A u \in Updates : ns[u].pc = js[u].pc /\ ns[u].op = js[u].op /\ ns[u].alone = js[u].alone
  PROVE  AllAlone(ns)
BY DEF AllAlone, AloneOk

\* The same, when the chosen session stays as it is.
LEMMA ChoiceSame ==
  ASSUME NEW js, NEW ns, NEW S, NEW A, NEW c, NEW d, NEW S2, NEW B, NEW d2, NEW cur,
         ChoiceOk(js, S, A, c, d, cur),
         \A u \in Updates : /\ ns[u].pc = js[u].pc /\ ns[u].op = js[u].op
                            /\ js[u].want = c => ns[u].want = c,
         c # 0 => /\ c \in 1 .. d2 /\ S2[c].live /\ S2[c].of = S[c].of
                  /\ B[S[c].of] = A[S[c].of]
  PROVE  ChoiceOk(ns, S2, B, c, d2, cur)
BY DEF ChoiceOk

\* Without a choice there is nothing to keep.
LEMMA NoChoice ==
  ASSUME NEW js, NEW S, NEW A, NEW d, NEW cur
  PROVE  ChoiceOk(js, S, A, 0, d, cur)
BY DEF ChoiceOk

\* The handlers that choose, by their positions.
LEMMA ChoosingIs ==
  ASSUME NEW u \in Updates
  PROVE  u \in Choosing <=> job[u].pc \in ChoosingPcs
BY DEF Choosing, ChoosingPcs

\* A new handler is the only one that chooses, or does not count as alone.
LEMMA ReceivedOk ==
  ASSUME NEW u \in Updates, NEW j, NEW S, NEW c, NEW d, JobsOk(job, S, active, c, d),
         AllAlone(job),
         JobOk(j, S, d), WantOk(j, S, c), j.steady = {}, j.pc \notin {"idle", "stillLost", "noSession"}
  PROVE  /\ JobsOk(Received(u, j), S, active, c, d)
         /\ AllAlone(Received(u, j))
         /\ \A v \in Updates : LET w == IF v = u THEN j ELSE job[v] IN
              /\ Received(u, j)[v].pc = w.pc /\ Received(u, j)[v].op = w.op
              /\ Received(u, j)[v].want = w.want
<1> DEFINE ns == Received(u, j)
           all == {p \in Providers : active[p] # 0}
           at == [j EXCEPT !.steady = all]
           an == [j EXCEPT !.alone = j = Done \/ Choosing = {}]
           W(v) == [job[v] EXCEPT !.alone = @ /\ (job[v].op = "text" \/ v \notin Choosing)]
<1>1. /\ j.op = "text" => ns[u] = at
      /\ j.op # "text" => ns[u] = an
      /\ \A v \in Updates : v # u => ns[v] = W(v)
  <2>1. \A v \in Updates :
          ns[v] = CASE v = u /\ j.op = "text" -> at
                    [] v = u /\ j.op # "text" -> an
                    [] v # u -> W(v)
    BY DEF Received
  <2> HIDE DEF ns, at, an, W
  <2>2. ASSUME j.op = "text" PROVE ns[u] = at
    BY <2>1, <2>2
  <2>3. ASSUME j.op # "text" PROVE ns[u] = an
    BY <2>1, <2>3
  <2>4. ASSUME NEW v \in Updates, v # u PROVE ns[v] = W(v)
    BY <2>1, <2>4
  <2> QED BY <2>2, <2>3, <2>4
<1>2. j \in JobType
  BY DEF JobOk
<1>3. DOMAIN ns = Updates
  BY DEF Received
<1>4. /\ at \in JobType /\ Alike(at, j) /\ at.want = j.want /\ at.steady = all
      /\ at.pc = j.pc /\ at.op = j.op
  BY <1>2 DEF JobType, Alike
<1>5. /\ an \in JobType /\ Alike(an, j) /\ an.want = j.want /\ an.steady = {}
      /\ an.pc = j.pc /\ an.op = j.op /\ (an.alone <=> j = Done \/ Choosing = {})
  BY <1>2 DEF JobType, Alike
<1>6. ASSUME NEW v \in Updates
      PROVE  /\ JobOk(W(v), S, d) /\ SteadyOk(W(v), active) /\ WantOk(W(v), S, c)
             /\ W(v).pc = job[v].pc /\ W(v).op = job[v].op /\ W(v).want = job[v].want
             /\ job[v].pc \in ChoosingPcs /\ job[v].op # "text" => ~W(v).alone
  <2> DEFINE w == job[v]
             y == w.alone /\ (w.op = "text" \/ v \notin Choosing)
             x == [w EXCEPT !.alone = y]
  <2>1. JobOk(w, S, d) /\ SteadyOk(w, active) /\ WantOk(w, S, c)
    BY DEF JobsOk
  <2>2. w \in JobType
    BY <2>1 DEF JobOk
  <2>3. v \in Choosing <=> w.pc \in ChoosingPcs
    BY ChoosingIs
  <2>4. y \in BOOLEAN
    OBVIOUS
  <2>5. W(v) = x
    OBVIOUS
  <2> HIDE DEF w, y, W
  <2>6. /\ x \in JobType /\ Alike(x, w) /\ x.steady = w.steady /\ x.want = w.want
        /\ x.pc = w.pc /\ x.op = w.op /\ x.alone = y
    BY <2>2, <2>4 DEF JobType, Alike
  <2>7. x.pc = "idle" => x = Idle
    <3> SUFFICES ASSUME w.pc = "idle" PROVE x = Idle
      BY <2>6
    <3>1. w = Idle /\ w.alone = TRUE
      BY <2>1 DEF JobOk, Idle
    <3>2. v \notin Choosing
      BY <2>3 DEF ChoosingPcs
    <3>3. y = TRUE
      BY <3>1, <3>2 DEF y
    <3> QED BY <3>1, <3>3 DEF Idle
  <2> HIDE DEF x
  <2>8. JobOk(x, S, d) /\ WantOk(x, S, c)
    BY <2>1, <2>6, <2>7, AlikeOk, AlikeWant
  <2>9. SteadyOk(x, active)
    BY <2>1, <2>6 DEF SteadyOk
  <2>10. w.pc \in ChoosingPcs /\ w.op # "text" => ~x.alone
    BY <2>3, <2>6 DEF y
  <2> QED BY <2>5, <2>6, <2>8, <2>9, <2>10 DEF w
<1> HIDE DEF ns, at, an, W, all
<1>7. JobOk(ns[u], S, d) /\ WantOk(ns[u], S, c) /\ SteadyOk(ns[u], active)
      /\ ns[u].pc = j.pc /\ ns[u].op = j.op /\ ns[u].want = j.want
  <2>1. CASE j.op = "text"
    <3>1. JobOk(at, S, d) /\ WantOk(at, S, c)
      BY <1>4, AlikeOk, AlikeWant
    <3>2. SteadyOk(at, active)
      BY <1>4 DEF SteadyOk, all
    <3> QED BY <1>1, <1>4, <2>1, <3>1, <3>2
  <2>2. CASE j.op # "text"
    <3>1. JobOk(an, S, d) /\ WantOk(an, S, c)
      BY <1>5, AlikeOk, AlikeWant
    <3>2. SteadyOk(an, active)
      BY <1>5 DEF SteadyOk
    <3> QED BY <1>1, <1>5, <2>2, <3>1, <3>2
  <2> QED BY <2>1, <2>2
<1>8. JobsOk(ns, S, active, c, d)
  <2>1. \A v \in Updates : JobOk(ns[v], S, d) /\ SteadyOk(ns[v], active) /\ WantOk(ns[v], S, c)
    BY <1>1, <1>6, <1>7
  <2> QED BY <1>3, <2>1, JobsOkEach
<1>9. \A v \in Updates : LET w == IF v = u THEN j ELSE job[v] IN
        ns[v].pc = w.pc /\ ns[v].op = w.op /\ ns[v].want = w.want
  BY <1>1, <1>6, <1>7
<1>10. AllAlone(ns)
  <2> SUFFICES ASSUME NEW v \in Updates, ns[v].pc \in ChoosingPcs, ns[v].op # "text", ns[v].alone,
                      NEW x \in Updates, ns[x].pc \in ChoosingPcs
               PROVE  x = v
    BY DEF AllAlone, AloneOk
  <2>1. v = u
    BY <1>1, <1>6
  <2>2. j = Done \/ Choosing = {}
    BY <1>1, <1>5, <1>7, <2>1
  <2>3. j # Done
    BY <1>7, <2>1, DoneOk DEF ChoosingPcs
  <2>4. x # u => x \in Choosing
    BY <1>1, <1>6, ChoosingIs
  <2> QED BY <2>1, <2>2, <2>3, <2>4
<1> QED BY <1>8, <1>9, <1>10 DEF ns

\* A choice begins: nothing is chosen, and no message that is not on its way is
\* meant for anything.
LEMMA ChoiceBeginsOk ==
  ASSUME NEW u \in Updates, NEW j, JobsOk(job, sess, active, chosen, drawn), AllAlone(job),
         JobOk(j, sess, drawn), j.want = 0, j.steady = {},
         j.pc \notin {"idle", "stillLost", "noSession"}, ChoiceBegins(u, j)
  PROVE  JobsOk(job', sess, active, 0, drawn) /\ AllAlone(job') /\ chosen' = 0
<1> DEFINE rs == Received(u, j)
<1>1. WantOk(j, sess, chosen)
  BY DEF WantOk
<1>2. /\ JobsOk(rs, sess, active, chosen, drawn) /\ AllAlone(rs)
      /\ \A v \in Updates : LET w == IF v = u THEN j ELSE job[v] IN
           rs[v].pc = w.pc /\ rs[v].op = w.op /\ rs[v].want = w.want
  BY <1>1, ReceivedOk
<1> HIDE DEF rs
<1>3. /\ chosen' = 0
      /\ job' = [v \in Updates |-> [rs[v] EXCEPT !.want = IF job[v].pc = "sending" THEN @ ELSE 0]]
  BY DEF ChoiceBegins, rs
<1>4. ASSUME NEW v \in Updates
      PROVE  /\ JobOk(job'[v], sess, drawn) /\ SteadyOk(job'[v], active)
             /\ WantOk(job'[v], sess, 0)
             /\ job'[v].pc = rs[v].pc /\ job'[v].op = rs[v].op /\ job'[v].alone = rs[v].alone
  <2> DEFINE w == rs[v]
             y == IF job[v].pc = "sending" THEN w.want ELSE 0
             x == [w EXCEPT !.want = y]
  <2>1. job'[v] = x
    BY <1>3
  <2>2. JobOk(w, sess, drawn) /\ SteadyOk(w, active) /\ WantOk(w, sess, chosen)
    BY <1>2 DEF JobsOk
  <2>3. w \in JobType
    BY <2>2 DEF JobOk
  <2>4. y \in Nat /\ (y = w.want \/ y = 0)
    BY <2>3 DEF JobType
  <2>5. y # 0 => w.pc = "sending"
    <3>1. v = u => w.want = 0
      BY <1>2
    <3>2. v # u => w.pc = job[v].pc
      BY <1>2
    <3> QED BY <3>1, <3>2
  <2> HIDE DEF w, y
  <2>6. /\ x \in JobType /\ Alike(x, w) /\ x.steady = w.steady /\ x.want = y
        /\ x.pc = w.pc /\ x.op = w.op /\ x.alone = w.alone
    BY <2>3, <2>4 DEF JobType, Alike
  <2>7. x.pc = "idle" => x = Idle
    <3> SUFFICES ASSUME w.pc = "idle" PROVE x = Idle
      BY <2>6
    <3>1. w = Idle /\ y = 0
      BY <2>2, <2>5 DEF JobOk
    <3> QED BY <3>1 DEF Idle
  <2> HIDE DEF x
  <2>8. JobOk(x, sess, drawn)
    BY <2>2, <2>6, <2>7, AlikeOk
  <2>9. SteadyOk(x, active)
    BY <2>2, <2>6 DEF SteadyOk
  <2>10. WantOk(x, sess, 0)
    BY <2>2, <2>4, <2>5, <2>6 DEF WantOk, Alike
  <2> QED BY <2>1, <2>6, <2>8, <2>9, <2>10 DEF w
<1>5. DOMAIN job' = Updates
  BY <1>3
<1>6. JobsOk(job', sess, active, 0, drawn)
  BY <1>4, <1>5, JobsOkEach
<1>7. AllAlone(job')
  BY <1>2, <1>4, AloneSame
<1> QED BY <1>3, <1>6, <1>7

-----------------------------------------------------------------------------
(* The lists of the sessions.                                              *)

\* A list without one of its sessions.
LEMMA WithoutOk ==
  ASSUME NEW q \in Seq(Sessions), Distinct(q), NEW s \in Sessions
  PROVE  /\ Without(q, s) \in Seq(Sessions) /\ Distinct(Without(q, s))
         /\ ToSet(Without(q, s)) = ToSet(q) \ {s}
<1> DEFINE O == Sessions \ {s}
           w == Without(q, s)
<1>1. w = Only(q, O)
  BY DEF Without
<1>2. w \in Seq(Sessions \cap O) /\ ToSet(w) = ToSet(q) \cap O /\ Distinct(w)
  BY <1>1, OnlyType, OnlyDistinct
<1>3. ToSet(q) \subseteq Sessions
  BY DEF ToSet
<1> HIDE DEF w
<1>4. w \in Seq(Sessions)
  <2> HIDE DEF Sessions
  <2> QED BY <1>2
<1> QED BY <1>2, <1>3, <1>4 DEF w

\* A session that is the latest: created, activated or answered.
LEMMA AppendedOk ==
  ASSUME NEW q \in Seq(Sessions), Distinct(q), NEW s \in Sessions, s \notin ToSet(q)
  PROVE  /\ Append(q, s) \in Seq(Sessions) /\ Distinct(Append(q, s))
         /\ ToSet(Append(q, s)) = ToSet(q) \cup {s}
BY DistinctAppend, ToSetOfAppend

\* The latest session is one of the list.
LEMMA LatestOk ==
  ASSUME NEW q \in Seq(Sessions)
  PROVE  IF ToSet(q) = {} THEN Latest(q) = 0 ELSE Latest(q) \in ToSet(q)
<1>1. CASE q = <<>>
  <2>1. ToSet(q) = {} /\ Latest(q) = 0
    BY <1>1 DEF ToSet, Latest
  <2> QED BY <2>1
<1>2. CASE q # <<>>
  <2>1. Len(q) \in DOMAIN q
    BY <1>2
  <2>2. Latest(q) = q[Len(q)] /\ q[Len(q)] \in ToSet(q)
    BY <1>2, <2>1 DEF Latest, Last, ToSet
  <2> QED BY <2>2
<1> QED BY <1>1, <1>2

\* A list with one of its sessions moved to the end.
LEMMA UpdatedOk ==
  ASSUME NEW q \in Seq(Sessions), Distinct(q), NEW s \in ToSet(q), s \in Sessions
  PROVE  /\ Append(Without(q, s), s) \in Seq(Sessions) /\ Distinct(Append(Without(q, s), s))
         /\ ToSet(Append(Without(q, s), s)) = ToSet(q)
<1> DEFINE w == Without(q, s)
<1>1. w \in Seq(Sessions) /\ Distinct(w) /\ ToSet(w) = ToSet(q) \ {s}
  BY WithoutOk
<1> HIDE DEF w
<1>2. /\ Append(w, s) \in Seq(Sessions) /\ Distinct(Append(w, s))
      /\ ToSet(Append(w, s)) = ToSet(w) \cup {s}
  BY <1>1, AppendedOk
<1> QED BY <1>1, <1>2 DEF w

\* The bounds as numbers.
LEMMA SessionNumbers ==
  ASSUME BasicInv
  PROVE  /\ drawn \in Nat /\ drawn \in 0 .. MaxSessions /\ MaxSessions \in Nat
         /\ limit.sessions \in 0 .. MaxSessions
         /\ 1 .. drawn \subseteq Sessions /\ chosen \in Nat
         /\ limit.updates \in 0 .. MaxUpdates /\ repos \subseteq Nat
         /\ 0 \notin Sessions /\ 0 \notin repos
<1>1. limit.sessions \in 0 .. MaxSessions /\ limit.updates \in 0 .. MaxUpdates
  BY DEF BasicInv, LimitType
<1> QED BY <1>1, BotAssumption DEF BasicInv, Sessions, Repos


\* The list of one provider changes.
LEMMA ListsExcept ==
  ASSUME NEW S, NEW R, NEW A, NEW T, ListsOk(S, R, A), NEW p \in Providers, NEW q, NEW a,
         ListOk(T, q, a, p),
         \A x \in Providers : x # p => LiveIn(T, x) = LiveIn(S, x)
  PROVE  ListsOk(T, [R EXCEPT ![p] = q], [A EXCEPT ![p] = a])
<1> DEFINE Q == [R EXCEPT ![p] = q]
           B == [A EXCEPT ![p] = a]
<1>1. DOMAIN R = Providers /\ DOMAIN A = Providers
  BY DEF ListsOk
<1>2. /\ DOMAIN Q = Providers /\ DOMAIN B = Providers /\ Q[p] = q /\ B[p] = a
      /\ \A x \in Providers : x # p => Q[x] = R[x] /\ B[x] = A[x]
  BY <1>1
<1> HIDE DEF Q, B
<1>3. ASSUME NEW x \in Providers PROVE ListOk(T, Q[x], B[x], x)
  <2>1. CASE x = p
    BY <1>2, <2>1
  <2>2. CASE x # p
    <3>1. ListOk(S, R[x], A[x], x)
      BY DEF ListsOk
    <3>2. LiveIn(T, x) = LiveIn(S, x) /\ Q[x] = R[x] /\ B[x] = A[x]
      BY <1>2, <2>2
    <3> QED BY <3>1, <3>2 DEF ListOk
  <2> QED BY <2>1, <2>2
<1>4. ListsOk(T, Q, B)
  BY <1>2, <1>3 DEF ListsOk
<1> QED BY <1>4 DEF Q, B

\* CreateSession: the sessions, their lists and the active ones still belong together.
LEMMA CreateStep ==
  ASSUME BasicInv, MapInv, NEW p \in Providers, NEW f \in Nat, NEW as \in Nat,
         as # 0 => f = as, drawn < limit.sessions, Create(p, f, as)
  PROVE  /\ SessionsOk(sess', drawn') /\ ListsOk(sess', recent', active')
         /\ drawn' = drawn + 1 /\ drawn' \in 0 .. limit.sessions
         /\ sess'[drawn + 1].of = p /\ active'[p] = drawn + 1
         /\ \A s \in 1 .. drawn : sess'[s] = sess[s]
         /\ \A q \in Providers : q # p => active'[q] = active[q]
<1> DEFINE n == drawn + 1
           x == [of |-> p, folder |-> f, live |-> TRUE, busy |-> FALSE, as |-> as]
           T == [sess EXCEPT ![n] = x]
<1>1. n \in Sessions /\ n \in 0 .. limit.sessions /\ n > drawn /\ drawn \in Nat /\ n # 0
      /\ n \notin 1 .. drawn
  BY SessionNumbers DEF Sessions
<1>2. /\ drawn' = n /\ sess' = T
      /\ recent' = [recent EXCEPT ![p] = Append(@, n)] /\ active' = [active EXCEPT ![p] = n]
  BY DEF Create
<1>3. x \in SessionType /\ x.of = p /\ x.live /\ (x.as # 0 => x.folder = x.as)
  BY DEF SessionType
<1>4. sess \in [Sessions -> SessionType] /\ sess[n] = NoSession
  BY <1>1 DEF MapInv, SessionsOk
<1>5. T \in [Sessions -> SessionType] /\ T[n] = x /\ \A s \in Sessions : s # n => T[s] = sess[s]
  <2> HIDE DEF x
  <2> QED BY <1>1, <1>3, <1>4
<1>6. LiveIn(T, p) = LiveIn(sess, p) \cup {n} /\ n \notin LiveIn(sess, p)
  <2>1. ~NoSession.live
    BY DEF NoSession
  <2> HIDE DEF T, x
  <2> QED BY <1>1, <1>3, <1>4, <1>5, <2>1 DEF LiveIn
<1>7. \A q \in Providers : q # p => LiveIn(T, q) = LiveIn(sess, q)
  <2>1. ~NoSession.live
    BY DEF NoSession
  <2> HIDE DEF T, x
  <2> QED BY <1>1, <1>3, <1>4, <1>5, <2>1 DEF LiveIn
<1>8. SessionsOk(T, n)
  <2> HIDE DEF T, x
  <2>1. ASSUME NEW s \in Sessions
        PROVE  /\ s <= n => T[s].of \in Providers
               /\ s > n => T[s] = NoSession
               /\ T[s].as # 0 => T[s].folder = T[s].as
    <3>1. /\ s <= drawn => sess[s].of \in Providers
          /\ s > drawn => sess[s] = NoSession
          /\ sess[s].as # 0 => sess[s].folder = sess[s].as
      BY DEF MapInv, SessionsOk
    <3>2. s \in Nat
      BY DEF Sessions
    <3> QED BY <1>1, <1>3, <1>5, <3>1, <3>2
  <2> QED BY <1>5, <2>1 DEF SessionsOk
<1>9. ListOk(T, Append(recent[p], n), n, p)
  <2>1. ListOk(sess, recent[p], active[p], p)
    BY DEF MapInv, ListsOk
  <2> HIDE DEF T, x
  <2>2. recent[p] \in Seq(Sessions) /\ Distinct(recent[p]) /\ n \notin ToSet(recent[p])
    BY <1>6, <2>1 DEF ListOk
  <2>3. /\ Append(recent[p], n) \in Seq(Sessions) /\ Distinct(Append(recent[p], n))
        /\ ToSet(Append(recent[p], n)) = ToSet(recent[p]) \cup {n}
    BY <1>1, <2>2, AppendedOk
  <2> QED BY <1>6, <2>1, <2>3 DEF ListOk
<1>10. DOMAIN recent = Providers /\ DOMAIN active = Providers
  BY DEF MapInv, ListsOk
<1> HIDE DEF T, x
<1>11. ListsOk(sess', recent', active')
  BY <1>2, <1>7, <1>9, ListsExcept DEF MapInv
<1>12. \A s \in 1 .. drawn : sess'[s] = sess[s]
  BY <1>1, <1>2, <1>5, SessionNumbers
<1> QED BY <1>1, <1>2, <1>3, <1>5, <1>8, <1>10, <1>11, <1>12

\* A live session is in the list of its provider.
LEMMA LivesHere ==
  ASSUME BasicInv, MapInv, NEW s \in Sessions, sess[s].live
  PROVE  /\ s \in 1 .. drawn /\ sess[s].of \in Providers /\ s \in LiveIn(sess, sess[s].of)
         /\ ListOk(sess, recent[sess[s].of], active[sess[s].of], sess[s].of)
<1>1. s \in 1 .. drawn
  <2>1. ~NoSession.live
    BY DEF NoSession
  <2>2. s \in Nat \ {0} /\ drawn \in Nat
    BY SessionNumbers DEF Sessions
  <2>3. s > drawn => sess[s] = NoSession
    BY DEF MapInv, SessionsOk
  <2> QED BY <2>1, <2>2, <2>3
<1>2. sess[s].of \in Providers
  BY <1>1 DEF MapInv, SessionsOk
<1> QED BY <1>1, <1>2 DEF LiveIn, MapInv, ListsOk

\* Fields of a session that do not matter to the lists change.
LEMMA SessionExcept ==
  ASSUME BasicInv, MapInv, NEW s \in 1 .. drawn, NEW x \in SessionType,
         x.of = sess[s].of, x.folder = sess[s].folder, x.as = sess[s].as
  PROVE  /\ SessionsOk([sess EXCEPT ![s] = x], drawn)
         /\ \A t \in Sessions : /\ [sess EXCEPT ![s] = x][t].of = sess[t].of
                                /\ [sess EXCEPT ![s] = x][t] = IF t = s THEN x ELSE sess[t]
<1> DEFINE T == [sess EXCEPT ![s] = x]
<1>1. s \in Sessions /\ ~(s > drawn)
  BY SessionNumbers
<1>2. /\ T \in [Sessions -> SessionType]
      /\ \A t \in Sessions : T[t] = IF t = s THEN x ELSE sess[t]
  <2>1. sess \in [Sessions -> SessionType]
    BY DEF MapInv, SessionsOk
  <2> HIDE DEF SessionType
  <2> QED BY <1>1, <2>1
<1> HIDE DEF T
<1>3. SessionsOk(T, drawn)
  BY <1>1, <1>2 DEF MapInv, SessionsOk
<1> QED BY <1>2, <1>3 DEF T

\* DeleteSession, likewise.
LEMMA DeleteStep ==
  ASSUME BasicInv, MapInv, NEW s \in Sessions, Delete(s)
  PROVE  /\ SessionsOk(sess', drawn') /\ ListsOk(sess', recent', active')
         /\ drawn' = drawn
         /\ \A t \in Sessions : sess'[t].of = sess[t].of
         /\ \A t \in Sessions : t # s => sess'[t] = sess[t]
         /\ \A q \in Providers : active[q] # s => active'[q] = active[q]
<1> DEFINE p == sess[s].of
           rest == Without(recent[p], s)
           x == [sess[s] EXCEPT !.live = FALSE, !.busy = FALSE]
           T == [sess EXCEPT ![s] = x]
           a == IF active[p] = s THEN Latest(rest) ELSE active[p]
<1>1. /\ sess[s].live /\ drawn' = drawn
      /\ sess' = [sess EXCEPT ![s].live = FALSE, ![s].busy = FALSE]
      /\ recent' = [recent EXCEPT ![p] = rest] /\ active' = [active EXCEPT ![p] = a]
  BY DEF Delete
<1>2. /\ s \in 1 .. drawn /\ p \in Providers /\ s \in LiveIn(sess, p)
      /\ ListOk(sess, recent[p], active[p], p)
  BY <1>1, LivesHere
<1>3. sess[s] \in SessionType
  BY DEF MapInv, SessionsOk
<1>4. /\ x \in SessionType /\ x.of = sess[s].of /\ x.folder = sess[s].folder
      /\ x.as = sess[s].as /\ ~x.live
  BY <1>3 DEF SessionType
<1>5. sess' = T
  BY <1>1
<1> HIDE DEF x
<1>6. /\ SessionsOk(T, drawn)
      /\ \A t \in Sessions : T[t].of = sess[t].of /\ T[t] = IF t = s THEN x ELSE sess[t]
  BY <1>2, <1>4, SessionExcept
<1> HIDE DEF T, rest
<1>7. /\ rest \in Seq(Sessions) /\ Distinct(rest) /\ ToSet(rest) = ToSet(recent[p]) \ {s}
  BY <1>2, WithoutOk DEF ListOk, rest
<1>8. LiveIn(T, p) = LiveIn(sess, p) \ {s}
  BY <1>4, <1>6 DEF LiveIn
<1>9. \A q \in Providers : q # p => LiveIn(T, q) = LiveIn(sess, q)
  BY <1>4, <1>6 DEF LiveIn
<1>10. a \in LiveIn(T, p) \/ (a = 0 /\ LiveIn(T, p) = {})
  <2>1. active[p] \in LiveIn(sess, p)
    BY <1>2 DEF ListOk
  <2>2. ToSet(rest) = LiveIn(T, p)
    BY <1>2, <1>7, <1>8 DEF ListOk
  <2>3. IF ToSet(rest) = {} THEN Latest(rest) = 0 ELSE Latest(rest) \in ToSet(rest)
    BY <1>7, LatestOk
  <2>4. CASE active[p] = s
    BY <2>2, <2>3, <2>4
  <2>5. CASE active[p] # s
    BY <1>8, <2>1, <2>5
  <2> QED BY <2>4, <2>5
<1>11. ListOk(T, rest, a, p)
  BY <1>2, <1>7, <1>8, <1>10 DEF ListOk
<1>12. DOMAIN active = Providers
  BY DEF MapInv, ListsOk
<1>13. \A q \in Providers : active[q] # s => active'[q] = active[q]
  BY <1>1, <1>2, <1>12
<1> HIDE DEF a
<1>14. ListsOk(T, recent', active')
  BY <1>1, <1>2, <1>9, <1>11, ListsExcept DEF MapInv
<1> QED BY <1>1, <1>5, <1>6, <1>13, <1>14

\* SetActive, likewise.
LEMMA SetActiveStep ==
  ASSUME BasicInv, MapInv, NEW s \in Sessions, SetActive(s)
  PROVE  /\ sess' = sess /\ drawn' = drawn /\ ListsOk(sess, recent', active')
         /\ \A q \in Providers : active[q] # 0 => active'[q] # 0
<1> DEFINE p == sess[s].of
           q == Append(Without(recent[p], s), s)
<1>1. /\ sess[s].live /\ drawn' = drawn /\ sess' = sess
      /\ recent' = [recent EXCEPT ![p] = q] /\ active' = [active EXCEPT ![p] = s]
  BY DEF SetActive
<1>2. /\ s \in 1 .. drawn /\ p \in Providers /\ s \in LiveIn(sess, p)
      /\ ListOk(sess, recent[p], active[p], p)
  BY <1>1, LivesHere
<1>3. q \in Seq(Sessions) /\ Distinct(q) /\ ToSet(q) = ToSet(recent[p])
  BY <1>2, UpdatedOk DEF ListOk
<1> HIDE DEF q
<1>4. ListOk(sess, q, s, p)
  BY <1>2, <1>3 DEF ListOk
<1>5. ListsOk(sess, recent', active')
  BY <1>1, <1>2, <1>4, ListsExcept DEF MapInv
<1>6. DOMAIN active = Providers /\ s # 0
  BY SessionNumbers DEF MapInv, ListsOk
<1> QED BY <1>1, <1>2, <1>5, <1>6

\* A session becomes busy or idle.
LEMMA BusyStep ==
  ASSUME BasicInv, MapInv, NEW s \in 1 .. drawn, NEW b \in BOOLEAN
  PROVE  /\ SessionsOk([sess EXCEPT ![s].busy = b], drawn)
         /\ ListsOk([sess EXCEPT ![s].busy = b], recent, active)
         /\ \A t \in Sessions : /\ [sess EXCEPT ![s].busy = b][t].of = sess[t].of
                                /\ [sess EXCEPT ![s].busy = b][t].live = sess[t].live
<1> DEFINE x == [sess[s] EXCEPT !.busy = b]
           T == [sess EXCEPT ![s] = x]
<1>1. s \in Sessions
  BY SessionNumbers
<1>2. sess[s] \in SessionType
  BY <1>1 DEF MapInv, SessionsOk
<1>3. /\ x \in SessionType /\ x.of = sess[s].of /\ x.folder = sess[s].folder
      /\ x.as = sess[s].as /\ x.live = sess[s].live
  BY <1>2 DEF SessionType
<1> HIDE DEF x
<1>4. /\ SessionsOk(T, drawn)
      /\ \A t \in Sessions : T[t].of = sess[t].of /\ T[t] = IF t = s THEN x ELSE sess[t]
  BY <1>3, SessionExcept
<1> HIDE DEF T
<1>5. \A t \in Sessions : T[t].live = sess[t].live
  BY <1>3, <1>4
<1>6. \A p \in Providers : LiveIn(T, p) = LiveIn(sess, p)
  BY <1>4, <1>5 DEF LiveIn
<1>7. ListsOk(T, recent, active)
  BY <1>6 DEF MapInv, ListsOk, ListOk
<1>8. [sess EXCEPT ![s].busy = b] = T
  BY DEF T, x
<1> QED BY <1>4, <1>5, <1>7, <1>8

\* The parts of the next state's invariant that speak of the same things.
LEMMA NextParts ==
  ASSUME SessionsOk(sess', drawn'), ListsOk(sess', recent', active'),
         JobsOk(job', sess', active', chosen', drawn'), AllAlone(job'),
         ChoiceOk(job', sess', active', chosen', drawn', current')
  PROVE  MapInv' /\ JobsInv' /\ ChoiceInv'
BY DEF MapInv, JobsInv, ChoiceInv

\* The managers' part, when no manager has moved.
LEMMA MapSame ==
  ASSUME MapInv, UNCHANGED coreVars
  PROVE  SessionsOk(sess', drawn') /\ ListsOk(sess', recent', active')
BY DEF MapInv, coreVars

-----------------------------------------------------------------------------
(* The dashboard and the disk.                                             *)

\* A session of the dashboard ends the choice of its provider, and only that.
LEMMA DashboardCreatesKeeps ==
  ASSUME Inv, NEW p \in Providers, DashboardCreates(p)
  PROVE  Inv'
<1> USE DEF Inv
<1>1. PICK f \in repos : Create(p, f, 0)
  BY DEF DashboardCreates
<1> DEFINE lost == IF chosen # 0 /\ sess[chosen].of = p THEN chosen ELSE 0
           js == IF lost = 0 THEN job ELSE Dropped(job, lost)
           e == IF lost = 0 THEN chosen ELSE 0
<1>2. /\ drawn < limit.sessions /\ chosen' = e /\ job' = Noticed(js, active')
      /\ UNCHANGED <<limit, botVars, repos, buttons, updates>>
  BY DEF DashboardCreates
<1>3. f \in Nat
  BY SessionNumbers
<1>4. /\ SessionsOk(sess', drawn') /\ ListsOk(sess', recent', active')
      /\ drawn' = drawn + 1 /\ drawn' \in 0 .. limit.sessions
      /\ sess'[drawn + 1].of = p /\ active'[p] = drawn + 1
      /\ \A s \in 1 .. drawn : sess'[s] = sess[s]
      /\ \A q \in Providers : q # p => active'[q] = active[q]
  BY <1>1, <1>2, <1>3, CreateStep
<1>5. BasicInv'
  BY <1>2, <1>4 DEF BasicInv, botVars
<1>6. ButtonsInv'
  BY <1>2 DEF ButtonsInv
<1>7. /\ JobsOk(js, sess, active, e, drawn)
      /\ \A u \in Updates : /\ js[u].pc = job[u].pc /\ js[u].op = job[u].op
                            /\ js[u].alone = job[u].alone
                            /\ e # 0 => js[u].want = job[u].want
  <2>1. JobsOk(job, sess, active, chosen, drawn)
    BY DEF JobsInv
  <2>2. CASE lost = 0
    BY <2>1, <2>2
  <2>3. CASE lost # 0
    <3>1. js = Dropped(job, lost) /\ lost = chosen /\ e = 0
      BY <2>3
    <3>2. /\ JobsOk(Dropped(job, lost), sess, active, IF chosen = lost THEN 0 ELSE chosen, drawn)
          /\ \A u \in Updates : /\ Dropped(job, lost)[u].pc = job[u].pc
                                /\ Dropped(job, lost)[u].op = job[u].op
                                /\ Dropped(job, lost)[u].alone = job[u].alone
      BY <2>1, DroppedOk
    <3> QED BY <3>1, <3>2
  <2> QED BY <2>2, <2>3
<1>8. e # 0 => e = chosen /\ sess[e].of # p
  OBVIOUS
<1> HIDE DEF js, e, lost
<1>9. /\ JobsOk(job', sess, active', e, drawn)
      /\ \A u \in Updates : /\ job'[u].pc = js[u].pc /\ job'[u].op = js[u].op
                            /\ job'[u].want = js[u].want /\ job'[u].alone = js[u].alone
  BY <1>2, <1>7, NoticedOk
<1>10. JobsOk(job', sess', active', e, drawn')
  <2>1. e \in 0 .. drawn
    BY <1>8, SessionNumbers DEF ChoiceInv, ChoiceOk
  <2>2. e \in Nat /\ drawn \in Nat /\ drawn' \in Nat /\ drawn <= drawn'
    BY <1>4, <2>1, SessionNumbers
  <2>3. \A s \in 1 .. drawn : sess'[s].of = sess[s].of
    BY <1>4
  <2> QED BY <1>9, <2>1, <2>2, <2>3, JobsOkLater
<1>11. \A u \in Updates : /\ job'[u].pc = job[u].pc /\ job'[u].op = job[u].op
                          /\ job'[u].alone = job[u].alone
                          /\ e # 0 => job'[u].want = job[u].want
  BY <1>7, <1>9
<1>12. AllAlone(job')
  BY <1>11, AloneSame DEF ChoiceInv
<1>13. ChoiceOk(job', sess', active', e, drawn', current')
  <2>1. CASE e = 0
    BY <2>1, NoChoice
  <2>2. CASE e # 0
    <3>1. ChoiceOk(job, sess, active, e, drawn, current)
      BY <1>8, <2>2 DEF ChoiceInv
    <3>2. /\ e \in 1 .. drawn /\ sess[e].live /\ sess[e].of \in Providers
          /\ active[sess[e].of] = e
      BY <2>2, <3>1 DEF ChoiceOk
    <3>3. e \in 1 .. drawn' /\ sess'[e] = sess[e] /\ active'[sess[e].of] = active[sess[e].of]
      BY <1>4, <1>8, <2>2, <3>2, SessionNumbers
    <3>4. current' = current
      BY <1>2 DEF botVars
    <3> QED BY <1>11, <2>2, <3>1, <3>2, <3>3, <3>4, ChoiceSame
  <2> QED BY <2>1, <2>2
<1> QED BY <1>2, <1>4, <1>5, <1>6, <1>10, <1>12, <1>13, NextParts

\* A session is deleted: by the dashboard, or by the handler u.
LEMMA DeleteKeeps ==
  ASSUME BasicInv, MapInv, NEW s \in Sessions, Delete(s), NEW js,
         JobsOk(js, sess, active, chosen, drawn), AllAlone(js),
         ChoiceOk(js, sess, active, chosen, drawn, current),
         chosen' = (IF chosen = s THEN 0 ELSE chosen),
         job' = Noticed(Dropped(js, s), active'), current' = current
  PROVE  MapInv' /\ JobsInv' /\ ChoiceInv' /\ drawn' = drawn /\ chosen' \in {0, chosen}
<1> DEFINE e == IF chosen = s THEN 0 ELSE chosen
           ds == Dropped(js, s)
<1>1. /\ SessionsOk(sess', drawn') /\ ListsOk(sess', recent', active')
      /\ drawn' = drawn
      /\ \A t \in Sessions : sess'[t].of = sess[t].of
      /\ \A t \in Sessions : t # s => sess'[t] = sess[t]
      /\ \A q \in Providers : active[q] # s => active'[q] = active[q]
  BY DeleteStep
<1>2. /\ JobsOk(ds, sess, active, e, drawn)
      /\ \A u \in Updates : /\ ds[u].pc = js[u].pc /\ ds[u].op = js[u].op
                            /\ ds[u].alone = js[u].alone
                            /\ js[u].want # s => ds[u].want = js[u].want
  BY DroppedOk
<1>3. e # 0 => e = chosen /\ chosen # s
  OBVIOUS
<1>4. chosen' = e /\ job' = Noticed(ds, active')
  OBVIOUS
<1> HIDE DEF e, ds
<1>5. /\ JobsOk(job', sess, active', e, drawn)
      /\ \A u \in Updates : /\ job'[u].pc = ds[u].pc /\ job'[u].op = ds[u].op
                            /\ job'[u].want = ds[u].want /\ job'[u].alone = ds[u].alone
  BY <1>2, <1>4, NoticedOk
<1>6. JobsOk(job', sess', active', e, drawn')
  <2>1. e \in 0 .. drawn
    BY <1>3, SessionNumbers DEF ChoiceOk
  <2>2. e \in Nat /\ drawn \in Nat
    BY <2>1, SessionNumbers
  <2>3. \A t \in 1 .. drawn : sess'[t].of = sess[t].of
    BY <1>1, SessionNumbers
  <2> QED BY <1>1, <1>5, <2>1, <2>2, <2>3, JobsOkLater
<1>7. AllAlone(job')
  <2>1. \A u \in Updates : /\ job'[u].pc = js[u].pc /\ job'[u].op = js[u].op
                           /\ job'[u].alone = js[u].alone
    BY <1>2, <1>5
  <2> QED BY <2>1, AloneSame
<1>8. ChoiceOk(job', sess', active', e, drawn', current')
  <2>1. CASE e = 0
    BY <2>1, NoChoice
  <2>2. CASE e # 0
    <3>1. ChoiceOk(js, sess, active, e, drawn, current)
      BY <1>3, <2>2
    <3>2. /\ e \in 1 .. drawn /\ sess[e].live /\ sess[e].of \in Providers
          /\ active[sess[e].of] = e
      BY <2>2, <3>1 DEF ChoiceOk
    <3>3. e \in 1 .. drawn' /\ sess'[e] = sess[e] /\ active'[sess[e].of] = active[sess[e].of]
      BY <1>1, <1>3, <2>2, <3>2, SessionNumbers
    <3>4. \A u \in Updates : /\ job'[u].pc = js[u].pc /\ job'[u].op = js[u].op
                             /\ js[u].want = e => job'[u].want = e
      BY <1>2, <1>3, <1>5, <2>2
    <3> QED BY <2>2, <3>1, <3>2, <3>3, <3>4, ChoiceSame
  <2> QED BY <2>1, <2>2
<1>9. chosen' \in {0, chosen}
  OBVIOUS
<1> QED BY <1>1, <1>4, <1>6, <1>7, <1>8, <1>9, NextParts

\* The dashboard deletes a session.
LEMMA DashboardDeletesKeeps ==
  ASSUME Inv, NEW s \in Sessions, DashboardDeletes(s)
  PROVE  Inv'
<1> USE DEF Inv
<1>1. /\ Delete(s) /\ chosen' = (IF chosen = s THEN 0 ELSE chosen)
      /\ job' = Noticed(Dropped(job, s), active')
      /\ UNCHANGED <<limit, botVars, repos, buttons, updates>>
  BY DEF DashboardDeletes
<1>2. MapInv' /\ JobsInv' /\ ChoiceInv' /\ drawn' = drawn /\ chosen' \in {0, chosen}
  <2>1. current' = current
    BY <1>1 DEF botVars
  <2>2. JobsOk(job, sess, active, chosen, drawn) /\ AllAlone(job)
        /\ ChoiceOk(job, sess, active, chosen, drawn, current)
    BY DEF JobsInv, ChoiceInv
  <2> QED BY <1>1, <2>1, <2>2, DeleteKeeps
<1>3. BasicInv'
  BY <1>1, <1>2 DEF BasicInv, botVars
<1>4. ButtonsInv'
  BY <1>1 DEF ButtonsInv
<1> QED BY <1>2, <1>3, <1>4

\* A repository comes or goes: the buttons keep the list they were made from.
LEMMA ReposChangeKeeps ==
  ASSUME Inv, NEW f \in Repos, ReposChange(f)
  PROVE  Inv'
<1> USE DEF Inv
<1>1. /\ limit.changes > 0 /\ limit' = [limit EXCEPT !.changes = @ - 1]
      /\ repos' = (IF f \in repos THEN repos \ {f} ELSE repos \cup {f})
      /\ UNCHANGED <<coreVars, botVars, buttons, updates, job, chosen>>
  BY DEF ReposChange
<1>2. BasicInv'
  <2>1. limit' \in LimitType /\ limit'.sessions = limit.sessions /\ limit'.updates = limit.updates
    BY <1>1 DEF BasicInv, LimitType
  <2>2. repos' \subseteq Repos
    BY <1>1 DEF BasicInv
  <2> QED BY <1>1, <2>1, <2>2 DEF BasicInv, coreVars, botVars
<1>3. ButtonsInv'
  BY <1>1 DEF ButtonsInv
<1>4. MapInv' /\ JobsInv' /\ ChoiceInv'
  BY <1>1 DEF MapInv, JobsInv, ChoiceInv, coreVars, botVars
<1> QED BY <1>2, <1>3, <1>4

-----------------------------------------------------------------------------
(* Updates.                                                                *)

\* The number of updates stays in its bound.
LEMMA ReceiveBasic ==
  ASSUME BasicInv, NEW u \in Updates, NEW op, Receive(u, op)
  PROVE  updates' \in 0 .. limit.updates
<1>1. u \in Nat /\ u <= limit.updates /\ updates' = u
  BY DEF Receive, Updates
<1> QED BY <1>1, SessionNumbers

\* A message, or a handler that has nothing to do with the choice, leaves it alone.
LEMMA ReceivedChoice ==
  ASSUME NEW u \in Updates, NEW j, NEW S, NEW A, NEW c, NEW d, NEW cur, NEW js,
         ChoiceOk(job, S, A, c, d, cur),
         \A v \in Updates : LET w == IF v = u THEN j ELSE job[v] IN
              js[v].pc = w.pc /\ js[v].op = w.op /\ js[v].want = w.want,
         c # 0 /\ j.pc \in ChoosingPcs => j.op = "text" /\ j.pc = "read" /\ j.want = c
  PROVE  ChoiceOk(js, S, A, c, d, cur)
<1> SUFFICES ASSUME c # 0 PROVE ChoiceOk(js, S, A, c, d, cur)
  BY NoChoice
<1>1. ASSUME NEW v \in Updates, js[v].pc \in ChoosingPcs
      PROVE  js[v].op = "text" /\ js[v].pc = "read" /\ js[v].want = c
  <2>1. CASE v = u
    BY <1>1, <2>1
  <2>2. CASE v # u
    BY <1>1, <2>2 DEF ChoiceOk
  <2> QED BY <2>1, <2>2
<1> QED BY <1>1 DEF ChoiceOk

\* A plain message is meant for the session that is chosen.
LEMMA HandleChatKeeps ==
  ASSUME Inv, NEW u \in Updates, HandleChat(u)
  PROVE  Inv'
<1> USE DEF Inv
<1> DEFINE j == [Idle EXCEPT !.pc = "read", !.op = "text", !.of = current, !.want = chosen]
<1>1. /\ Receive(u, "text") /\ job' = Received(u, j)
      /\ UNCHANGED <<limit, coreVars, botVars, repos, buttons, chosen>>
  BY DEF HandleChat
<1>2. /\ j \in JobType /\ j.pc = "read" /\ j.op = "text" /\ j.of = current /\ j.want = chosen
      /\ j.steady = {}
  BY SessionNumbers DEF Idle, JobType, Pcs, BasicInv, Ops
<1> HIDE DEF j
<1>3. JobOk(j, sess, drawn)
  BY <1>2 DEF JobOk
<1>4. ChoiceOk(job, sess, active, chosen, drawn, current)
  BY DEF ChoiceInv
<1>5. WantOk(j, sess, chosen)
  BY <1>2, <1>4 DEF WantOk, ChoiceOk
<1>6. /\ JobsOk(job', sess, active, chosen, drawn) /\ AllAlone(job')
      /\ \A v \in Updates : LET w == IF v = u THEN j ELSE job[v] IN
           job'[v].pc = w.pc /\ job'[v].op = w.op /\ job'[v].want = w.want
  <2>1. JobsOk(job, sess, active, chosen, drawn) /\ AllAlone(job)
    BY DEF JobsInv, ChoiceInv
  <2>2. j.steady = {} /\ j.pc \notin {"idle", "stillLost", "noSession"}
    BY <1>2
  <2>3. job' = Received(u, j)
    BY <1>1
  <2> QED BY <1>3, <1>5, <2>1, <2>2, <2>3, ReceivedOk
<1>7. ChoiceOk(job', sess, active, chosen, drawn, current)
  BY <1>2, <1>4, <1>6, ReceivedChoice
<1>8. MapInv' /\ JobsInv' /\ ChoiceInv'
  BY <1>1, <1>6, <1>7, MapSame, NextParts DEF coreVars, botVars
<1>9. BasicInv' /\ ButtonsInv'
  BY <1>1, ReceiveBasic DEF BasicInv, ButtonsInv, coreVars, botVars
<1> QED BY <1>8, <1>9

\* A handler that begins a choice.
LEMMA ChoiceKeeps ==
  ASSUME Inv, NEW u \in Updates, NEW op, NEW j, Receive(u, op), JobOk(j, sess, drawn),
         j.want = 0, j.steady = {}, j.pc \notin {"idle", "stillLost", "noSession"},
         ChoiceBegins(u, j), UNCHANGED <<limit, coreVars, botVars, repos, buttons>>
  PROVE  Inv'
<1> USE DEF Inv
<1>1. JobsOk(job', sess, active, 0, drawn) /\ AllAlone(job') /\ chosen' = 0
  BY ChoiceBeginsOk DEF JobsInv, ChoiceInv
<1>2. ChoiceOk(job', sess, active, 0, drawn, current)
  BY NoChoice
<1>3. MapInv' /\ JobsInv' /\ ChoiceInv'
  BY <1>1, <1>2, MapSame, NextParts DEF coreVars, botVars
<1>4. BasicInv' /\ ButtonsInv'
  BY <1>1, ReceiveBasic DEF BasicInv, ButtonsInv, coreVars, botVars
<1> QED BY <1>3, <1>4

\* The command /use and its button.
LEMMA HandleUseKeeps ==
  ASSUME Inv, NEW u \in Updates, NEW s \in Sessions, HandleUse(u, s)
  PROVE  Inv'
<1> DEFINE j == [Idle EXCEPT !.pc = "activate", !.op = "use", !.of = sess[s].of, !.id = s]
<1>1. /\ Receive(u, "use") /\ s <= drawn /\ ChoiceBegins(u, j)
      /\ UNCHANGED <<limit, coreVars, botVars, repos, buttons>>
  BY DEF HandleUse
<1>2. s \in 1 .. drawn /\ sess[s].of \in Providers
  BY <1>1, SessionNumbers DEF Inv, MapInv, SessionsOk, Sessions
<1>3. /\ j \in JobType /\ j.pc = "activate" /\ j.op = "use" /\ j.of = sess[s].of /\ j.id = s
      /\ j.want = 0 /\ j.steady = {}
  <2>1. s \in Nat
    BY DEF Sessions
  <2> QED BY <1>2, <2>1 DEF Idle, JobType, Pcs, Ops
<1> HIDE DEF j
<1>4. JobOk(j, sess, drawn)
  BY <1>2, <1>3 DEF JobOk
<1> QED BY <1>1, <1>3, <1>4, ChoiceKeeps

\* A button for a repository finds the one it shows, in the list it was made from.
LEMMA HandleProviderPickKeeps ==
  ASSUME Inv, NEW u \in Updates, NEW b \in buttons, HandleProviderPick(u, b)
  PROVE  Inv'
<1> DEFINE folders == ListGitFolders
           as == IF b.among = repos THEN b.label ELSE 0
           p == [Idle EXCEPT !.pc = "create", !.op = "pick", !.of = b.of,
                             !.folder = folders[b.index], !.as = as]
           j == IF b.index > Len(folders) THEN Done ELSE p
<1>1. /\ Receive(u, "pick") /\ ChoiceBegins(u, j)
      /\ UNCHANGED <<limit, coreVars, botVars, repos, buttons>>
  BY DEF HandleProviderPick
<1>2. ButtonOk(b)
  BY DEF Inv, ButtonsInv
<1>3. folders = Folders(repos)
  BY DEF ListGitFolders, Folders
<1>4. folders \in Seq(Nat)
  <2>1. [i \in Repos |-> i] \in Seq(Nat)
    BY BotAssumption DEF Repos
  <2>2. folders \in Seq(Nat \cap repos)
    BY <1>3, <2>1, OnlyType DEF Folders
  <2> HIDE DEF folders
  <2> QED BY <2>2
<1> HIDE DEF folders
<1>5. b.index \in Nat \ {0} /\ b.label \in Nat /\ b.of \in Providers
  BY <1>2 DEF ButtonOk
<1>6. ASSUME ~(b.index > Len(folders))
      PROVE  /\ folders[b.index] \in Nat /\ as \in Nat
             /\ as # 0 => folders[b.index] = as
  <2>1. folders[b.index] \in Nat
    BY <1>4, <1>5, <1>6
  <2>2. b.among = repos => b.label = folders[b.index]
    BY <1>2, <1>3 DEF ButtonOk
  <2> QED BY <1>5, <2>1, <2>2
<1> HIDE DEF as
<1>7. ASSUME ~(b.index > Len(folders))
      PROVE  /\ p \in JobType /\ p.pc = "create" /\ p.op = "pick" /\ p.of = b.of
             /\ p.folder = folders[b.index] /\ p.as = as /\ p.want = 0 /\ p.steady = {}
  BY <1>5, <1>6, <1>7 DEF Idle, JobType, Pcs, Ops
<1> HIDE DEF p
<1>8. JobOk(j, sess, drawn) /\ j.want = 0 /\ j.steady = {} /\ j.pc \in {"create", "done"}
  <2>1. CASE b.index > Len(folders)
    BY <2>1, DoneOk
  <2>2. CASE ~(b.index > Len(folders))
    <3>1. JobOk(p, sess, drawn)
      BY <1>5, <1>6, <1>7, <2>2 DEF JobOk
    <3> QED BY <1>7, <2>2, <3>1
  <2> QED BY <2>1, <2>2
<1> HIDE DEF j
<1> QED BY <1>1, <1>8, ChoiceKeeps

\* A handler that has answered at once, and has changed no session.
LEMMA AnsweredKeeps ==
  ASSUME Inv, NEW u \in Updates
  PROVE  /\ JobsOk(Received(u, Done), sess, active, chosen, drawn)
         /\ AllAlone(Received(u, Done))
         /\ ChoiceOk(Received(u, Done), sess, active, chosen, drawn, current)
<1> USE DEF Inv
<1>1. /\ JobOk(Done, sess, drawn) /\ WantOk(Done, sess, chosen)
      /\ Done.pc = "done" /\ Done.steady = {}
  BY DoneOk
<1>2. /\ JobsOk(Received(u, Done), sess, active, chosen, drawn)
      /\ AllAlone(Received(u, Done))
      /\ \A v \in Updates : LET w == IF v = u THEN Done ELSE job[v] IN
           /\ Received(u, Done)[v].pc = w.pc /\ Received(u, Done)[v].op = w.op
           /\ Received(u, Done)[v].want = w.want
  BY <1>1, ReceivedOk DEF JobsInv, ChoiceInv
<1>3. Done.pc \notin ChoosingPcs
  BY <1>1 DEF ChoosingPcs
<1>4. ChoiceOk(Received(u, Done), sess, active, chosen, drawn, current)
  BY <1>2, <1>3, ReceivedChoice DEF ChoiceInv
<1> QED BY <1>2, <1>4

\* The command /close and its button.
LEMMA HandleCloseKeeps ==
  ASSUME Inv, NEW u \in Updates, NEW s \in Sessions, HandleClose(u, s)
  PROVE  Inv'
<1> USE DEF Inv
<1> DEFINE js == Received(u, Done)
<1>1. /\ JobsOk(js, sess, active, chosen, drawn) /\ AllAlone(js)
      /\ ChoiceOk(js, sess, active, chosen, drawn, current)
  BY AnsweredKeeps
<1>2. Receive(u, "close") /\ UNCHANGED <<limit, botVars, repos, buttons>>
  BY DEF HandleClose
<1>3. ButtonsInv'
  BY <1>2 DEF ButtonsInv
<1>4. CASE /\ Delete(s) /\ chosen' = (IF chosen = s THEN 0 ELSE chosen)
           /\ job' = Noticed(Dropped(js, s), active')
  <2> HIDE DEF js
  <2>1. current' = current
    BY <1>2 DEF botVars
  <2>2. MapInv' /\ JobsInv' /\ ChoiceInv' /\ drawn' = drawn /\ chosen' \in {0, chosen}
    BY <1>1, <1>4, <2>1, DeleteKeeps
  <2>3. BasicInv'
    BY <1>2, <2>2, ReceiveBasic DEF BasicInv, botVars
  <2> QED BY <1>3, <2>2, <2>3
<1>5. CASE job' = js /\ UNCHANGED <<coreVars, chosen>>
  <2>1. MapInv' /\ JobsInv' /\ ChoiceInv'
    BY <1>1, <1>2, <1>5, MapSame, NextParts DEF coreVars, botVars
  <2>2. BasicInv'
    BY <1>2, <1>5, ReceiveBasic DEF BasicInv, botVars, coreVars
  <2> QED BY <1>3, <2>1, <2>2
<1> QED BY <1>4, <1>5 DEF HandleClose

-----------------------------------------------------------------------------
(* Buttons.                                                                *)

\* The list of the repositories has them all.
LEMMA FoldersOk ==
  ASSUME repos \subseteq Repos
  PROVE  /\ ListGitFolders = Folders(repos) /\ ListGitFolders \in Seq(Repos)
         /\ ToSet(ListGitFolders) = repos
<1> DEFINE all == [i \in Repos |-> i]
<1>1. all \in Seq(Repos)
  BY BotAssumption DEF Repos
<1>2. ToSet(all) = Repos
  BY DEF ToSet
<1>3. ListGitFolders = Only(all, repos) /\ ListGitFolders = Folders(repos)
  BY DEF ListGitFolders, Folders
<1> HIDE DEF all
<1>4. ListGitFolders \in Seq(Repos \cap repos) /\ ToSet(ListGitFolders) = Repos \cap repos
  <2>1. Only(all, repos) \in Seq(Repos \cap repos) /\ ToSet(Only(all, repos)) = ToSet(all) \cap repos
    BY <1>1, OnlyType
  <2> HIDE DEF Repos
  <2> QED BY <1>2, <1>3, <2>1
<1>5. Repos \cap repos = repos
  OBVIOUS
<1>6. ListGitFolders \in Seq(Repos)
  <2> DEFINE l == ListGitFolders
  <2> HIDE DEF l, Repos
  <2>1. l \in Seq(Repos \cap repos)
    BY <1>4 DEF l
  <2>2. l \in Seq(Repos)
    BY <2>1
  <2> QED BY <2>2 DEF l
<1> QED BY <1>3, <1>4, <1>5, <1>6

\* New buttons, at the positions that the list has now.
LEMMA ButtonsAdded ==
  ASSUME Inv, NEW u \in Updates, NEW op, NEW new, Receive(u, op), job' = Received(u, Done),
         buttons' = buttons \cup new,
         \A b \in new : /\ b \in [of : Providers, index : Nat, label : Nat, among : SUBSET Repos]
                        /\ b.among = repos /\ b.index \in 1 .. Len(ListGitFolders)
                        /\ b.label = ListGitFolders[b.index],
         UNCHANGED <<limit, coreVars, botVars, repos, chosen>>
  PROVE  Inv'
<1> USE DEF Inv
<1>1. repos \subseteq Repos
  BY DEF BasicInv
<1>2. ListGitFolders = Folders(repos)
  BY <1>1, FoldersOk
<1>3. ButtonsInv'
  <2>1. \A b \in new : ButtonOk(b)
    BY <1>2 DEF ButtonOk
  <2> QED BY <2>1 DEF ButtonsInv
<1>4. /\ JobsOk(Received(u, Done), sess, active, chosen, drawn)
      /\ AllAlone(Received(u, Done))
      /\ ChoiceOk(Received(u, Done), sess, active, chosen, drawn, current)
  BY AnsweredKeeps
<1>5. MapInv' /\ JobsInv' /\ ChoiceInv'
  BY <1>4, MapSame, NextParts DEF coreVars, botVars
<1>6. BasicInv'
  BY ReceiveBasic DEF BasicInv, coreVars, botVars
<1> QED BY <1>3, <1>5, <1>6

\* Pages begin at a natural number.
LEMMA PageStart ==
  ASSUME NEW l \in Nat, l # 0, NEW page \in Nat
  PROVE  LET last == (l - 1) \div PageSize
         IN  PageSize * (IF page > last THEN last ELSE page) \in Nat
<1> DEFINE last == (l - 1) \div PageSize
           k == IF page > last THEN last ELSE page
<1>1. last \in Nat
  BY BotAssumption
<1> HIDE DEF last
<1>2. k \in Nat /\ PageSize \in Nat
  BY <1>1, BotAssumption
<1> HIDE DEF k
<1>3. PageSize * k \in Nat
  BY <1>2
<1> QED BY <1>3 DEF k, last

\* The buttons of a page.
LEMMA BrowseKeeps ==
  ASSUME Inv, NEW u \in Updates, NEW p \in Providers, NEW page \in Nat, Browse(u, p, page)
  PROVE  Inv'
<1> DEFINE folders == ListGitFolders
           last == (Len(folders) - 1) \div PageSize
           start == PageSize * (IF page > last THEN last ELSE page)
           B(i) == [of |-> p, index |-> InList(start, i), label |-> folders[start + i],
                    among |-> repos]
           new == FolderPickerMarkup(p, page)
<1>1. /\ Receive(u, "browse") /\ repos # {} /\ buttons' = buttons \cup new
      /\ job' = Received(u, Done) /\ UNCHANGED <<limit, coreVars, botVars, repos, chosen>>
  BY DEF Browse
<1>2. repos \subseteq Repos
  BY DEF Inv, BasicInv
<1>3. folders \in Seq(Repos) /\ ToSet(folders) = repos
  BY <1>2, FoldersOk
<1>4. new = {B(i) : i \in {j \in 1 .. PageSize : start + j <= Len(folders)}}
  BY DEF FolderPickerMarkup
<1> HIDE DEF new, folders
<1>5. Len(folders) \in Nat /\ Len(folders) # 0
  <2>1. PICK f \in repos : TRUE
    BY <1>1
  <2>2. f \in ToSet(folders)
    BY <1>3
  <2>3. \E i \in DOMAIN folders : TRUE
    BY <2>2 DEF ToSet
  <2> QED BY <1>3, <2>3
<1>6. start \in Nat
  BY <1>5, PageStart
<1> HIDE DEF start
<1>7. ASSUME NEW b \in new
      PROVE  /\ b \in [of : Providers, index : Nat, label : Nat, among : SUBSET Repos]
             /\ b.among = repos /\ b.index \in 1 .. Len(folders)
             /\ b.label = folders[b.index]
  <2>1. PICK i \in 1 .. PageSize : start + i <= Len(folders) /\ b = B(i)
    BY <1>4
  <2> DEFINE x == start + i
  <2>2. x \in 1 .. Len(folders) /\ x \in Nat
    BY <1>5, <1>6, <2>1, BotAssumption
  <2>3. folders[x] \in Repos
    <3> HIDE DEF Repos, x
    <3> QED BY <1>3, <1>5, <2>2
  <2>4. folders[x] \in Nat
    BY <2>3 DEF Repos
  <2>5. b = [of |-> p, index |-> x, label |-> folders[x], among |-> repos]
    BY <2>1 DEF InList
  <2> HIDE DEF x
  <2> QED BY <1>2, <2>2, <2>4, <2>5
<1> QED BY <1>1, <1>7, ButtonsAdded DEF folders

\* The buttons of /new.
LEMMA HandleNewKeeps ==
  ASSUME Inv, NEW u \in Updates, NEW f \in Repos, HandleNew(u, f)
  PROVE  Inv'
<1> DEFINE folders == ListGitFolders
           index == CHOOSE i \in 1 .. Len(folders) : folders[i] = f
           new == {[of |-> p, index |-> index, label |-> f, among |-> repos] : p \in Providers}
<1>1. /\ Receive(u, "new") /\ f \in repos /\ buttons' = buttons \cup new
      /\ job' = Received(u, Done) /\ UNCHANGED <<limit, coreVars, botVars, repos, chosen>>
  BY DEF HandleNew
<1>2. repos \subseteq Repos
  BY DEF Inv, BasicInv
<1>3. folders \in Seq(Repos) /\ ToSet(folders) = repos
  BY <1>2, FoldersOk
<1> HIDE DEF folders
<1>4. \E i \in 1 .. Len(folders) : folders[i] = f
  <2>1. PICK i \in DOMAIN folders : folders[i] = f
    BY <1>1, <1>3 DEF ToSet
  <2>2. DOMAIN folders = 1 .. Len(folders)
    BY <1>3
  <2> QED BY <2>1, <2>2
<1>5. index \in 1 .. Len(folders) /\ folders[index] = f
  BY <1>4
<1>6. index \in Nat /\ f \in Nat
  BY <1>5 DEF Repos
<1> HIDE DEF index
<1>7. ASSUME NEW b \in new
      PROVE  /\ b \in [of : Providers, index : Nat, label : Nat, among : SUBSET Repos]
             /\ b.among = repos /\ b.index \in 1 .. Len(folders)
             /\ b.label = folders[b.index]
  <2>1. PICK p \in Providers : b = [of |-> p, index |-> index, label |-> f, among |-> repos]
    OBVIOUS
  <2> QED BY <1>2, <1>5, <1>6, <2>1
<1> HIDE DEF new
<1> QED BY <1>1, <1>7, ButtonsAdded DEF folders

-----------------------------------------------------------------------------
(* The steps of a handler.                                                 *)

\* One handler goes on, and nothing that the others depend on changes.
LEMMA HandlerKeeps ==
  ASSUME JobsInv, ChoiceInv, NEW u \in Updates, NEW x, JobOk(x, sess, drawn),
         SteadyOk(x, active), WantOk(x, sess, chosen),
         job' = [job EXCEPT ![u] = x],
         \/ x.pc \notin ChoosingPcs
         \/ /\ job[u].pc \in ChoosingPcs /\ x.op = job[u].op /\ x.alone = job[u].alone
            /\ chosen = 0
  PROVE  /\ JobsOk(job', sess, active, chosen, drawn) /\ AllAlone(job')
         /\ ChoiceOk(job', sess, active, chosen, drawn, current)
<1>1. DOMAIN job = Updates /\ AllAlone(job) /\ JobsOk(job, sess, active, chosen, drawn)
      /\ ChoiceOk(job, sess, active, chosen, drawn, current)
  BY DEF JobsInv, JobsOk, ChoiceInv
<1>2. JobsOk(job', sess, active, chosen, drawn)
  BY <1>1, JobsOkExcept
<1>3. AllAlone(job')
  BY <1>1, AloneExcept
<1>4. ChoiceOk(job', sess, active, chosen, drawn, current)
  <2>1. CASE chosen = 0
    BY <2>1, NoChoice
  <2>2. CASE chosen # 0
    BY <1>1, <2>2, ChoiceExcept
  <2> QED BY <2>1, <2>2
<1> QED BY <1>2, <1>3, <1>4

\* A handler that chooses, unless it is a message that has only been read: nothing
\* is chosen.
LEMMA NothingChosen ==
  ASSUME ChoiceInv, NEW u \in Updates, job[u].pc \in ChoosingPcs,
         job[u].pc # "read" \/ job[u].op # "text"
  PROVE  chosen = 0
BY DEF ChoiceInv, ChoiceOk

\* What the invariant says of one handler.
LEMMA JobKnown ==
  ASSUME JobsInv, NEW u \in Updates
  PROVE  /\ JobOk(job[u], sess, drawn) /\ SteadyOk(job[u], active)
         /\ WantOk(job[u], sess, chosen) /\ job[u] \in JobType
BY DEF JobsInv, JobsOk, JobOk

\* What only the handlers and the choice of provider touch.
LEMMA OwnKeeps ==
  ASSUME Inv, UNCHANGED <<limit, coreVars, botVars, repos, buttons, updates, chosen>>,
         JobsOk(job', sess, active, chosen, drawn), AllAlone(job'),
         ChoiceOk(job', sess, active, chosen, drawn, current)
  PROVE  Inv'
<1> USE DEF Inv
<1>1. MapInv' /\ JobsInv' /\ ChoiceInv'
  BY MapSame, NextParts DEF coreVars, botVars
<1>2. BasicInv' /\ ButtonsInv'
  BY DEF BasicInv, ButtonsInv, coreVars, botVars
<1> QED BY <1>1, <1>2

\* A message that is meant for the chosen session finds it at its provider.
LEMMA CheckCurrentKeeps ==
  ASSUME Inv, NEW u \in Updates, CheckCurrent(u)
  PROVE  Inv'
<1> USE DEF Inv
<1> DEFINE w == job[u]
           x == [w EXCEPT !.pc = "found", !.steady = {}]
           y == [w EXCEPT !.pc = "lost"]
<1>1. /\ w.pc = "read"
      /\ job' = [job EXCEPT ![u] = IF HasActive(w.of) THEN x ELSE y]
      /\ UNCHANGED <<limit, coreVars, botVars, repos, buttons, updates, chosen>>
  BY DEF CheckCurrent, Found
<1>2. /\ JobOk(w, sess, drawn) /\ SteadyOk(w, active) /\ WantOk(w, sess, chosen)
      /\ w \in JobType
  BY JobKnown
<1> HIDE DEF w
<1>3. w.op = "text"
  BY <1>1, <1>2 DEF JobOk
<1>4. CASE HasActive(w.of)
  <2>1. /\ x \in JobType /\ x.pc = "found" /\ x.steady = {} /\ x.op = "text"
        /\ x.of = w.of /\ x.want = w.want
    BY <1>2, <1>3 DEF JobType, Pcs
  <2> HIDE DEF x
  <2>2. JobOk(x, sess, drawn) /\ SteadyOk(x, active)
    BY <1>4, <2>1 DEF JobOk, SteadyOk, HasActive
  <2>3. WantOk(x, sess, chosen)
    BY <1>1, <1>2, <2>1 DEF WantOk
  <2>4. x.pc \notin ChoosingPcs
    BY <2>1 DEF ChoosingPcs
  <2>5. job' = [job EXCEPT ![u] = x]
    BY <1>1, <1>4
  <2> QED BY <1>1, <2>2, <2>3, <2>4, <2>5, HandlerKeeps, OwnKeeps
<1>5. CASE ~HasActive(w.of)
  <2>1. chosen = 0
    <3> SUFFICES ASSUME chosen # 0 PROVE FALSE
      OBVIOUS
    <3>1. ChoiceOk(job, sess, active, chosen, drawn, current)
      BY DEF ChoiceInv
    <3>2. w.want = chosen
      BY <1>1, <3>1 DEF ChoiceOk, ChoosingPcs, w
    <3>3. w.of = sess[chosen].of
      BY <1>1, <1>2, <3>2 DEF WantOk
    <3> QED BY <1>5, <3>1, <3>3 DEF ChoiceOk, HasActive
  <2>2. /\ y \in JobType /\ y.pc = "lost" /\ y.steady = w.steady /\ y.op = "text"
        /\ y.of = w.of /\ y.want = w.want /\ y.alone = w.alone
    BY <1>2, <1>3 DEF JobType, Pcs
  <2> HIDE DEF y
  <2>3. w.want = 0
    BY <1>1, <1>2, <2>1 DEF WantOk
  <2>4. JobOk(y, sess, drawn) /\ SteadyOk(y, active) /\ WantOk(y, sess, chosen)
    BY <1>2, <2>2, <2>3 DEF JobOk, SteadyOk, WantOk
  <2>5. job[u].pc \in ChoosingPcs /\ y.op = job[u].op /\ y.alone = job[u].alone
    BY <1>1, <1>3, <2>2 DEF ChoosingPcs, w
  <2>6. job' = [job EXCEPT ![u] = y]
    BY <1>1, <1>5
  <2> QED BY <1>1, <2>1, <2>4, <2>5, <2>6, HandlerKeeps, OwnKeeps
<1> QED BY <1>4, <1>5

\* The fallback asks Codex ...
LEMMA FallBackToCodexKeeps ==
  ASSUME Inv, NEW u \in Updates, FallBackToCodex(u)
  PROVE  Inv'
<1> USE DEF Inv
<1> DEFINE w == job[u]
           x == [w EXCEPT !.pc = "set", !.of = "codex"]
           y == [w EXCEPT !.pc = "stillLost"]
           z == IF HasActive("codex") THEN x ELSE y
<1>1. /\ w.pc = "lost" /\ job' = [job EXCEPT ![u] = z]
      /\ UNCHANGED <<limit, coreVars, botVars, repos, buttons, updates, chosen>>
  BY DEF FallBackToCodex
<1>2. /\ JobOk(w, sess, drawn) /\ SteadyOk(w, active) /\ WantOk(w, sess, chosen)
      /\ w \in JobType
  BY JobKnown
<1>3. job[u].pc \in ChoosingPcs /\ chosen = 0
  BY <1>1, NothingChosen DEF ChoosingPcs
<1> HIDE DEF w
<1>4. w.op = "text" /\ w.want = 0
  BY <1>1, <1>2, <1>3 DEF JobOk, WantOk
<1>5. /\ z \in JobType /\ z.op = "text" /\ z.want = 0 /\ z.alone = w.alone
      /\ z.steady = w.steady
      /\ IF HasActive("codex") THEN z.pc = "set" /\ z.of = "codex" ELSE z.pc = "stillLost"
  BY <1>2, <1>4 DEF JobType, Pcs, Providers
<1> HIDE DEF z
<1>6. JobOk(z, sess, drawn) /\ WantOk(z, sess, chosen)
  BY <1>4, <1>5 DEF JobOk, WantOk, Providers
<1>7. SteadyOk(z, active)
  BY <1>2, <1>5 DEF SteadyOk, HasActive, Providers
<1>8. z.op = job[u].op /\ z.alone = job[u].alone
  BY <1>4, <1>5 DEF w
<1> QED BY <1>1, <1>3, <1>6, <1>7, <1>8, HandlerKeeps, OwnKeeps

\* ... and then Gemini.
LEMMA FallBackToGeminiKeeps ==
  ASSUME Inv, NEW u \in Updates, FallBackToGemini(u)
  PROVE  Inv'
<1> USE DEF Inv
<1> DEFINE w == job[u]
           x == [w EXCEPT !.pc = "set", !.of = "gemini"]
           y == [w EXCEPT !.pc = "noSession"]
           z == IF HasActive("gemini") THEN x ELSE y
<1>1. /\ w.pc = "stillLost" /\ job' = [job EXCEPT ![u] = z]
      /\ UNCHANGED <<limit, coreVars, botVars, repos, buttons, updates, chosen>>
  BY DEF FallBackToGemini
<1>2. /\ JobOk(w, sess, drawn) /\ SteadyOk(w, active) /\ WantOk(w, sess, chosen)
      /\ w \in JobType
  BY JobKnown
<1>3. job[u].pc \in ChoosingPcs /\ chosen = 0
  BY <1>1, NothingChosen DEF ChoosingPcs
<1> HIDE DEF w
<1>4. w.op = "text" /\ w.want = 0
  BY <1>1, <1>2, <1>3 DEF JobOk, WantOk
<1>5. /\ z \in JobType /\ z.op = "text" /\ z.want = 0 /\ z.alone = w.alone
      /\ z.steady = w.steady
      /\ IF HasActive("gemini") THEN z.pc = "set" /\ z.of = "gemini" ELSE z.pc = "noSession"
  BY <1>2, <1>4 DEF JobType, Pcs, Providers
<1> HIDE DEF z
<1>6. JobOk(z, sess, drawn) /\ WantOk(z, sess, chosen)
  BY <1>4, <1>5 DEF JobOk, WantOk, Providers
<1>7. SteadyOk(z, active)
  <2>1. w.steady \subseteq {p \in Providers : active[p] # 0} /\ "codex" \notin w.steady
    BY <1>1, <1>2 DEF SteadyOk
  <2>2. CASE HasActive("gemini")
    BY <1>5, <2>1, <2>2 DEF SteadyOk
  <2>3. CASE ~HasActive("gemini")
    <3>1. w.steady = {}
      BY <2>1, <2>3 DEF HasActive, Providers
    <3> QED BY <1>5, <3>1 DEF SteadyOk
  <2> QED BY <2>2, <2>3
<1>8. z.op = job[u].op /\ z.alone = job[u].alone
  BY <1>4, <1>5 DEF w
<1> QED BY <1>1, <1>3, <1>6, <1>7, <1>8, HandlerKeeps, OwnKeeps

\* A session becomes busy or idle while a handler goes on.
LEMMA BusyKeeps ==
  ASSUME Inv, NEW s \in 1 .. drawn, NEW b \in BOOLEAN, sess' = [sess EXCEPT ![s].busy = b],
         ListsOk(sess', recent', active'), active' = active,
         UNCHANGED <<limit, drawn, botVars, repos, buttons, updates, chosen>>,
         JobsOk(job', sess, active, chosen, drawn), AllAlone(job'),
         ChoiceOk(job', sess, active, chosen, drawn, current)
  PROVE  Inv'
<1> USE DEF Inv
<1>1. /\ SessionsOk(sess', drawn)
      /\ \A t \in Sessions : sess'[t].of = sess[t].of /\ sess'[t].live = sess[t].live
  BY BusyStep
<1>2. chosen \in Nat /\ drawn \in Nat /\ chosen \in 0 .. drawn /\ 1 .. drawn \subseteq Sessions
  BY SessionNumbers DEF ChoiceInv, ChoiceOk
<1>3. \A t \in 1 .. drawn : sess'[t].of = sess[t].of /\ sess'[t].live = sess[t].live
  BY <1>1, <1>2
<1>4. JobsOk(job', sess', active, chosen, drawn)
  <2> SUFFICES ASSUME NEW v \in Updates
               PROVE  JobOk(job'[v], sess', drawn) /\ SteadyOk(job'[v], active)
                      /\ WantOk(job'[v], sess', chosen)
    BY DEF JobsOk
  <2>1. JobOk(job'[v], sess, drawn) /\ SteadyOk(job'[v], active) /\ WantOk(job'[v], sess, chosen)
    BY DEF JobsOk
  <2>2. JobOk(job'[v], sess', drawn)
    BY <1>3, <2>1 DEF JobOk
  <2>3. WantOk(job'[v], sess', chosen)
    BY <1>2, <1>3, <2>1 DEF WantOk
  <2> QED BY <2>1, <2>2, <2>3
<1>5. ChoiceOk(job', sess', active, chosen, drawn, current)
  BY <1>3 DEF ChoiceOk
<1>6. MapInv' /\ JobsInv' /\ ChoiceInv'
  BY <1>1, <1>4, <1>5, NextParts DEF botVars
<1>7. BasicInv' /\ ButtonsInv'
  BY DEF BasicInv, ButtonsInv, botVars
<1> QED BY <1>6, <1>7

\* A handler that answers.
LEMMA EndedKeeps ==
  ASSUME Inv, NEW u \in Updates, job' = Ended(u)
  PROVE  /\ JobsOk(job', sess, active, chosen, drawn) /\ AllAlone(job')
         /\ ChoiceOk(job', sess, active, chosen, drawn, current)
<1>1. /\ JobOk(Done, sess, drawn) /\ SteadyOk(Done, active) /\ WantOk(Done, sess, chosen)
      /\ Done.pc \notin ChoosingPcs
  BY DoneOk DEF ChoosingPcs
<1>2. job' = [job EXCEPT ![u] = Done]
  BY DEF Ended
<1> QED BY <1>1, <1>2, HandlerKeeps DEF Inv

\* The active session is the one that was meant.
LEMMA ResolveActiveKeeps ==
  ASSUME Inv, NEW u \in Updates, ResolveActive(u)
  PROVE  Inv'
<1> USE DEF Inv
<1> DEFINE w == job[u]
           s == active[w.of]
           x == [w EXCEPT !.pc = "resolved", !.id = s]
<1>1. /\ w.pc = "found"
      /\ job' = IF s # 0 THEN [job EXCEPT ![u] = x] ELSE Ended(u)
      /\ UNCHANGED <<limit, coreVars, botVars, repos, buttons, updates, chosen>>
  BY DEF ResolveActive
<1>2. CASE s = 0
  BY <1>1, <1>2, EndedKeeps, OwnKeeps
<1>3. CASE s # 0
  <2>1. /\ JobOk(w, sess, drawn) /\ SteadyOk(w, active) /\ WantOk(w, sess, chosen)
        /\ w \in JobType
    BY JobKnown
  <2>2. w.of \in Providers
    BY <1>1, <2>1 DEF JobOk
  <2>3. s \in LiveIn(sess, w.of)
    BY <1>3, <2>2 DEF MapInv, ListsOk, ListOk
  <2>4. s \in 1 .. drawn
    BY <2>3, LivesHere DEF LiveIn
  <2>5. w.want # 0 => s = w.want
    <3>1. ChoiceOk(job, sess, active, chosen, drawn, current)
      BY DEF ChoiceInv
    <3> QED BY <1>1, <2>1, <3>1 DEF WantOk, ChoiceOk
  <2>6. s \in Nat
    BY <2>4, SessionNumbers
  <2>7. job' = [job EXCEPT ![u] = x]
    BY <1>1, <1>3
  <2> HIDE DEF w, s
  <2>8. /\ x \in JobType /\ x.pc = "resolved" /\ x.id = s /\ x.steady = w.steady
        /\ x.op = w.op /\ x.want = w.want
    BY <2>1, <2>6 DEF JobType, Pcs
  <2> HIDE DEF x
  <2>9. JobOk(x, sess, drawn) /\ SteadyOk(x, active) /\ WantOk(x, sess, chosen)
    <3>1. JobOk(x, sess, drawn)
      BY <2>4, <2>8 DEF JobOk
    <3>2. SteadyOk(x, active)
      BY <2>1, <2>8 DEF SteadyOk
    <3>3. WantOk(x, sess, chosen)
      BY <1>1, <2>1, <2>5, <2>8 DEF WantOk
    <3> QED BY <3>1, <3>2, <3>3
  <2>10. x.pc \notin ChoosingPcs
    BY <2>8 DEF ChoosingPcs
  <2> QED BY <1>1, <2>7, <2>9, <2>10, HandlerKeeps, OwnKeeps
<1> QED BY <1>2, <1>3

\* A message is sent, or refused.
LEMMA BeginSendKeeps ==
  ASSUME Inv, NEW u \in Updates, BeginSend(u)
  PROVE  Inv'
<1> USE DEF Inv
<1> DEFINE w == job[u]
           s == w.id
           x == [w EXCEPT !.pc = "sending"]
<1>1. /\ w.pc = "resolved"
      /\ IF sess[s].live /\ ~sess[s].busy
           THEN sess' = [sess EXCEPT ![s].busy = TRUE] /\ job' = [job EXCEPT ![u] = x]
           ELSE UNCHANGED sess /\ job' = Ended(u)
      /\ UNCHANGED <<limit, drawn, recent, active, botVars, repos, buttons, updates, chosen>>
  BY DEF BeginSend
<1>2. CASE ~(sess[s].live /\ ~sess[s].busy)
  <2>1. UNCHANGED <<limit, coreVars, botVars, repos, buttons, updates, chosen>>
    BY <1>1, <1>2 DEF coreVars
  <2> QED BY <1>1, <1>2, <2>1, EndedKeeps, OwnKeeps
<1>3. CASE sess[s].live /\ ~sess[s].busy
  <2>1. /\ JobOk(w, sess, drawn) /\ SteadyOk(w, active) /\ WantOk(w, sess, chosen)
        /\ w \in JobType
    BY JobKnown
  <2>2. s \in 1 .. drawn
    BY <1>1, <2>1 DEF JobOk
  <2>3. job' = [job EXCEPT ![u] = x] /\ sess' = [sess EXCEPT ![s].busy = TRUE]
    BY <1>1, <1>3
  <2> HIDE DEF w
  <2>4. /\ x \in JobType /\ x.pc = "sending" /\ x.id = s /\ x.steady = w.steady
        /\ x.op = w.op /\ x.want = w.want
    BY <2>1 DEF JobType, Pcs
  <2> HIDE DEF x
  <2>5. JobOk(x, sess, drawn)
    BY <2>2, <2>4 DEF JobOk
  <2>6. SteadyOk(x, active)
    BY <2>1, <2>4 DEF SteadyOk
  <2>7. WantOk(x, sess, chosen)
    BY <1>1, <2>1, <2>4 DEF WantOk
  <2>8. x.pc \notin ChoosingPcs
    BY <2>4 DEF ChoosingPcs
  <2>9. /\ JobsOk(job', sess, active, chosen, drawn) /\ AllAlone(job')
        /\ ChoiceOk(job', sess, active, chosen, drawn, current)
    BY <2>3, <2>5, <2>6, <2>7, <2>8, HandlerKeeps
  <2> HIDE DEF s
  <2>10. ListsOk(sess', recent', active')
    <3>1. ListsOk(sess', recent, active)
      BY <2>2, <2>3, BusyStep
    <3> QED BY <1>1, <3>1
  <2>11. UNCHANGED <<limit, drawn, botVars, repos, buttons, updates, chosen>> /\ active' = active
    BY <1>1
  <2> QED BY <2>2, <2>3, <2>9, <2>10, <2>11, BusyKeeps
<1> QED BY <1>2, <1>3

\* A message is answered.
LEMMA EndSendKeeps ==
  ASSUME Inv, NEW u \in Updates, EndSend(u)
  PROVE  Inv'
<1> USE DEF Inv
<1> DEFINE s == job[u].id
           p == sess[s].of
           q == Append(Without(recent[p], s), s)
           T == [sess EXCEPT ![s].busy = FALSE]
<1>1. /\ job[u].pc = "sending" /\ sess' = T
      /\ recent' = IF sess[s].live THEN [recent EXCEPT ![p] = q] ELSE recent
      /\ job' = Ended(u)
      /\ UNCHANGED <<limit, drawn, active, botVars, repos, buttons, updates, chosen>>
  BY DEF EndSend
<1>2. s \in 1 .. drawn
  BY <1>1, JobKnown DEF JobOk
<1>3. /\ JobsOk(job', sess, active, chosen, drawn) /\ AllAlone(job')
      /\ ChoiceOk(job', sess, active, chosen, drawn, current)
  BY <1>1, EndedKeeps
<1> HIDE DEF s
<1>4. ListsOk(T, recent, active) /\ SessionsOk(T, drawn)
      /\ \A t \in Sessions : T[t].of = sess[t].of /\ T[t].live = sess[t].live
  BY <1>2, BusyStep
<1> HIDE DEF T
<1>5. ListsOk(T, recent', active)
  <2>1. CASE ~sess[s].live
    BY <1>1, <1>4, <2>1
  <2>2. CASE sess[s].live
    <3>1. s \in Sessions
      BY <1>2, SessionNumbers
    <3>2. /\ p \in Providers /\ s \in LiveIn(sess, p)
          /\ ListOk(sess, recent[p], active[p], p)
      BY <2>2, <3>1, LivesHere
    <3>3. q \in Seq(Sessions) /\ Distinct(q) /\ ToSet(q) = ToSet(recent[p])
      BY <3>1, <3>2, UpdatedOk DEF ListOk
    <3> HIDE DEF q
    <3>4. ListOk(T, recent[p], active[p], p)
      BY <1>4, <3>2 DEF ListsOk
    <3>5. ListOk(T, q, active[p], p)
      BY <3>3, <3>4 DEF ListOk
    <3> DEFINE R == [recent EXCEPT ![p] = q]
    <3>6. /\ DOMAIN recent = Providers /\ DOMAIN active = Providers
          /\ \A x \in Providers : ListOk(T, recent[x], active[x], x)
      BY <1>4 DEF ListsOk
    <3>7. DOMAIN R = Providers /\ \A x \in Providers : R[x] = IF x = p THEN q ELSE recent[x]
      BY <3>2, <3>6
    <3>8. R = recent'
      BY <1>1, <2>2
    <3> HIDE DEF R
    <3>9. \A x \in Providers : ListOk(T, R[x], active[x], x)
      BY <3>5, <3>6, <3>7
    <3> QED BY <3>6, <3>7, <3>8, <3>9 DEF ListsOk
  <2> QED BY <2>1, <2>2
<1>6. /\ sess' = [sess EXCEPT ![s].busy = FALSE] /\ ListsOk(sess', recent', active')
      /\ active' = active
      /\ UNCHANGED <<limit, drawn, botVars, repos, buttons, updates, chosen>>
  BY <1>1, <1>5 DEF T
<1> QED BY <1>2, <1>3, <1>6, BusyKeeps

\* The chosen session is made the active one.
LEMMA ActivateKeeps ==
  ASSUME Inv, NEW u \in Updates, Activate(u)
  PROVE  Inv'
<1> USE DEF Inv
<1> DEFINE w == job[u]
           x == [w EXCEPT !.pc = "set"]
<1>1. w.pc = "activate" /\ UNCHANGED <<limit, botVars, repos, buttons, updates, chosen>>
  BY DEF Activate
<1>2. CASE UNCHANGED coreVars /\ job' = Ended(u)
  BY <1>1, <1>2, EndedKeeps, OwnKeeps
<1>3. CASE SetActive(w.id) /\ job' = [job EXCEPT ![u] = x]
  <2>1. /\ JobOk(w, sess, drawn) /\ SteadyOk(w, active) /\ WantOk(w, sess, chosen)
        /\ w \in JobType
    BY JobKnown
  <2>2. job[u].pc \in ChoosingPcs /\ chosen = 0
    BY <1>1, NothingChosen DEF ChoosingPcs
  <2>3. SetActive(w.id) /\ job' = [job EXCEPT ![u] = x]
    BY <1>3
  <2> HIDE DEF w
  <2>4. w.id \in 1 .. drawn /\ sess[w.id].of = w.of /\ w.op # "text" /\ w.of \in Providers
    <3>1. w.id \in 1 .. drawn /\ sess[w.id].of = w.of /\ w.op # "text"
      BY <1>1, <2>1 DEF JobOk
    <3> QED BY <3>1, SessionNumbers DEF MapInv, SessionsOk
  <2>5. /\ x \in JobType /\ x.pc = "set" /\ x.op = w.op /\ x.of = w.of /\ x.id = w.id
        /\ x.want = w.want /\ x.steady = w.steady /\ x.alone = w.alone
    BY <2>1 DEF JobType, Pcs
  <2> HIDE DEF x
  <2>6. JobOk(x, sess, drawn) /\ SteadyOk(x, active) /\ WantOk(x, sess, chosen)
    <3>1. JobOk(x, sess, drawn)
      BY <2>4, <2>5 DEF JobOk
    <3>2. SteadyOk(x, active)
      BY <2>1, <2>5 DEF SteadyOk
    <3>3. WantOk(x, sess, chosen)
      BY <1>1, <2>1, <2>5 DEF WantOk
    <3> QED BY <3>1, <3>2, <3>3
  <2>7. x.op = job[u].op /\ x.alone = job[u].alone
    BY <2>5 DEF w
  <2>8. JobsOk(job', sess, active, chosen, drawn) /\ AllAlone(job')
    BY <2>2, <2>3, <2>6, <2>7, HandlerKeeps
  <2>9. w.id \in Sessions
    BY <2>4, SessionNumbers
  <2>10. /\ sess' = sess /\ drawn' = drawn /\ ListsOk(sess, recent', active')
         /\ \A q \in Providers : active[q] # 0 => active'[q] # 0
    BY <2>3, <2>9, SetActiveStep
  <2>11. JobsOk(job', sess, active', 0, drawn)
    <3>1. drawn \in Nat /\ 0 \in 0 .. drawn /\ drawn <= drawn
      BY SessionNumbers
    <3>2. \A s \in 1 .. drawn : sess[s].of = sess[s].of
      OBVIOUS
    <3>3. JobsOk(job', sess, active, 0, drawn)
      BY <2>2, <2>8
    <3> HIDE DEF Inv
    <3> QED BY <2>10, <3>1, <3>2, <3>3, JobsOkLater
  <2>12. MapInv' /\ JobsInv' /\ ChoiceInv'
    <3>1. SessionsOk(sess', drawn')
      BY <2>10 DEF MapInv
    <3>2. ChoiceOk(job', sess', active', 0, drawn', current')
      BY NoChoice
    <3>3. chosen' = 0
      BY <1>1, <2>2
    <3> QED BY <2>8, <2>10, <2>11, <3>1, <3>2, <3>3, NextParts
  <2>13. BasicInv' /\ ButtonsInv'
    BY <1>1, <2>10 DEF BasicInv, ButtonsInv, botVars
  <2> QED BY <2>12, <2>13
<1> QED BY <1>2, <1>3 DEF Activate

\* A session is created in the repository of a button.
LEMMA CreatePickedKeeps ==
  ASSUME Inv, NEW u \in Updates, CreatePicked(u)
  PROVE  Inv'
<1> USE DEF Inv
<1> DEFINE w == job[u]
           x == [w EXCEPT !.pc = "set", !.id = drawn + 1]
           js == [job EXCEPT ![u] = x]
<1>1. w.pc = "create" /\ UNCHANGED <<limit, botVars, repos, buttons, updates, chosen>>
  BY DEF CreatePicked
<1>2. CASE UNCHANGED coreVars /\ job' = Ended(u)
  BY <1>1, <1>2, EndedKeeps, OwnKeeps
<1>3. CASE /\ w.folder \in repos /\ drawn < limit.sessions
           /\ Create(w.of, w.folder, w.as) /\ job' = Noticed(js, active')
  <2>1. /\ JobOk(w, sess, drawn) /\ SteadyOk(w, active) /\ WantOk(w, sess, chosen)
        /\ w \in JobType
    BY JobKnown
  <2>2. job[u].pc \in ChoosingPcs /\ chosen = 0
    BY <1>1, NothingChosen DEF ChoosingPcs
  <2>3. drawn < limit.sessions /\ Create(w.of, w.folder, w.as) /\ job' = Noticed(js, active')
    BY <1>3
  <2>4. drawn \in Nat /\ drawn + 1 \in Nat
    BY SessionNumbers
  <2> HIDE DEF w
  <2>5. /\ w.of \in Providers /\ w.folder \in Nat /\ w.as \in Nat
        /\ w.as # 0 => w.folder = w.as
    BY <1>1, <2>1 DEF JobOk, JobType
  <2>6. /\ SessionsOk(sess', drawn') /\ ListsOk(sess', recent', active')
        /\ drawn' = drawn + 1 /\ drawn' \in 0 .. limit.sessions
        /\ sess'[drawn + 1].of = w.of /\ active'[w.of] = drawn + 1
        /\ \A s \in 1 .. drawn : sess'[s] = sess[s]
        /\ \A q \in Providers : q # w.of => active'[q] = active[q]
    BY <2>3, <2>5, CreateStep
  <2>7. /\ x \in JobType /\ x.pc = "set" /\ x.op = w.op /\ x.of = w.of /\ x.id = drawn + 1
        /\ x.want = w.want /\ x.steady = w.steady /\ x.alone = w.alone
    BY <2>1, <2>4 DEF JobType, Pcs
  <2> HIDE DEF x
  <2>8. JobOk(x, sess', drawn')
    <3>1. drawn + 1 \in 1 .. drawn'
      BY <2>4, <2>6
    <3> QED BY <2>5, <2>6, <2>7, <3>1 DEF JobOk
  <2>9. \A q \in Providers : active[q] # 0 => active'[q] # 0
    BY <2>4, <2>6
  <2>10. SteadyOk(x, active')
    BY <2>1, <2>7, <2>9 DEF SteadyOk
  <2>11. WantOk(x, sess', 0)
    BY <1>1, <2>1, <2>7 DEF WantOk
  <2>12. JobsOk(job, sess', active', 0, drawn')
    <3>1. 0 \in 0 .. drawn /\ drawn <= drawn' /\ drawn' \in Nat
      BY <2>4, <2>6
    <3>2. \A s \in 1 .. drawn : sess'[s].of = sess[s].of
      BY <2>6
    <3>3. JobsOk(job, sess, active, 0, drawn)
      BY <2>2 DEF JobsInv
    <3> HIDE DEF Inv
    <3> QED BY <2>4, <2>9, <3>1, <3>2, <3>3, JobsOkLater
  <2>13. JobsOk(js, sess', active', 0, drawn')
    BY <2>8, <2>10, <2>11, <2>12, JobsOkExcept
  <2>14. AllAlone(js)
    <3>1. x.op = job[u].op /\ x.alone = job[u].alone
      BY <2>7 DEF w
    <3>2. DOMAIN job = Updates /\ AllAlone(job)
      BY DEF JobsInv, JobsOk, ChoiceInv
    <3> QED BY <2>2, <3>1, <3>2, AloneExcept
  <2> HIDE DEF js
  <2>15. /\ JobsOk(job', sess', active', 0, drawn')
         /\ \A v \in Updates : /\ job'[v].pc = js[v].pc /\ job'[v].op = js[v].op
                               /\ job'[v].alone = js[v].alone
    BY <2>3, <2>13, NoticedOk
  <2>16. AllAlone(job')
    BY <2>14, <2>15, AloneSame
  <2>17. ChoiceOk(job', sess', active', 0, drawn', current')
    BY NoChoice
  <2>18. chosen' = 0
    BY <1>1, <2>2
  <2>19. MapInv' /\ JobsInv' /\ ChoiceInv'
    BY <2>6, <2>15, <2>16, <2>17, <2>18, NextParts
  <2>20. BasicInv' /\ ButtonsInv'
    BY <1>1, <2>6 DEF BasicInv, ButtonsInv, botVars
  <2> QED BY <2>19, <2>20
<1> QED BY <1>2, <1>3 DEF CreatePicked

\* A write, or one that fails.
LEMMA SaveBasic ==
  ASSUME BasicInv, NEW p \in Providers, Save(p)
  PROVE  /\ limit' \in LimitType /\ limit'.sessions = limit.sessions
         /\ limit'.updates = limit.updates /\ saved' \in Providers \cup {"none", "torn"}
<1>1. limit \in LimitType
  BY DEF BasicInv
<1>2. CASE saved' = p /\ UNCHANGED limit
  BY <1>1, <1>2
<1>3. CASE /\ limit.faults > 0 /\ limit' = [limit EXCEPT !.faults = @ - 1]
           /\ saved' \in {saved, "torn"}
  <2>1. /\ limit' \in LimitType /\ limit'.sessions = limit.sessions
        /\ limit'.updates = limit.updates
    BY <1>1, <1>3 DEF LimitType
  <2> QED BY <1>3, <2>1 DEF BasicInv
<1> QED BY <1>2, <1>3 DEF Save

\* As long as nothing is chosen, a session may be.
LEMMA ChoiceMade ==
  ASSUME NEW js, NEW S, NEW A, NEW c, NEW d, JobsOk(js, S, A, 0, d)
  PROVE  JobsOk(js, S, A, c, d)
BY DEF JobsOk, WantOk

\* A choice takes effect, if no other handler has chosen meanwhile.
LEMMA SetCurrentKeeps ==
  ASSUME Inv, NEW u \in Updates, SetCurrent(u)
  PROVE  Inv'
<1> USE DEF Inv
<1> DEFINE w == job[u]
           f == [w EXCEPT !.pc = "found", !.steady = {}]
           x == IF w.op = "text" THEN f ELSE Done
           c == IF w.op # "text" /\ w.alone /\ active[w.of] = w.id THEN w.id ELSE chosen
<1>1. /\ w.pc = "set" /\ current' = w.of /\ Save(w.of) /\ job' = [job EXCEPT ![u] = x]
      /\ chosen' = c /\ UNCHANGED <<coreVars, repos, buttons, updates>>
  BY DEF SetCurrent, Found, Ended
<1>2. /\ JobOk(w, sess, drawn) /\ SteadyOk(w, active) /\ WantOk(w, sess, chosen)
      /\ w \in JobType
  BY JobKnown
<1>3. job[u].pc \in ChoosingPcs /\ chosen = 0
  BY <1>1, NothingChosen DEF ChoosingPcs
<1>4. w.of \in Providers
  BY <1>1, <1>2 DEF JobOk
<1>5. w.op # "text" => w.id \in 1 .. drawn /\ sess[w.id].of = w.of
  BY <1>1, <1>2 DEF JobOk
<1>6. AloneOk(job, u)
  BY DEF ChoiceInv, AllAlone
<1>7. JobOk(x, sess, drawn) /\ SteadyOk(x, active) /\ WantOk(x, sess, 0)
      /\ x.pc \notin ChoosingPcs
  <2>1. CASE w.op = "text"
    <3>1. /\ f \in JobType /\ f.pc = "found" /\ f.steady = {} /\ f.op = "text"
          /\ f.of = w.of /\ f.want = w.want
      BY <1>2, <2>1 DEF JobType, Pcs
    <3>2. w.want = 0
      BY <1>1, <1>2 DEF WantOk
    <3> HIDE DEF f, w
    <3>3. JobOk(f, sess, drawn) /\ SteadyOk(f, active) /\ WantOk(f, sess, 0)
      BY <1>4, <3>1, <3>2 DEF JobOk, SteadyOk, WantOk
    <3> QED BY <2>1, <3>1, <3>3 DEF ChoosingPcs
  <2>2. CASE w.op # "text"
    BY <2>2, DoneOk DEF ChoosingPcs
  <2> QED BY <2>1, <2>2
<1>8. JobsOk(job', sess, active, 0, drawn) /\ AllAlone(job')
  <2> HIDE DEF x
  <2> QED BY <1>1, <1>3, <1>7, HandlerKeeps
<1>9. JobsOk(job', sess, active, c, drawn)
  BY <1>8, ChoiceMade
<1>10. ChoiceOk(job', sess, active, c, drawn, w.of) /\ c \in Sessions \cup {0}
  <2>1. CASE w.op # "text" /\ w.alone /\ active[w.of] = w.id
    <3>1. c = w.id /\ w.id \in 1 .. drawn /\ sess[w.id].of = w.of
      BY <1>5, <2>1
    <3>2. w.id # 0 /\ w.id \in Sessions
      BY <3>1, SessionNumbers
    <3>3. sess[w.id].live
      BY <1>4, <2>1, <3>2 DEF MapInv, ListsOk, ListOk, LiveIn
    <3>4. \A v \in Updates : job'[v].pc \notin ChoosingPcs
      <4> SUFFICES ASSUME NEW v \in Updates, job'[v].pc \in ChoosingPcs PROVE FALSE
        OBVIOUS
      <4>1. DOMAIN job = Updates
        BY DEF JobsInv, JobsOk
      <4> HIDE DEF x
      <4>2. v # u /\ job[v].pc \in ChoosingPcs
        BY <1>1, <1>7, <4>1
      <4> QED BY <1>3, <1>6, <2>1, <4>2 DEF AloneOk
    <3> HIDE DEF w, c
    <3> QED BY <1>4, <2>1, <3>1, <3>2, <3>3, <3>4 DEF ChoiceOk
  <2>2. CASE ~(w.op # "text" /\ w.alone /\ active[w.of] = w.id)
    <3>1. c = 0
      BY <1>3, <2>2
    <3> QED BY <3>1, NoChoice
  <2> QED BY <2>1, <2>2
<1> HIDE DEF c, x, w
<1>11. MapInv' /\ JobsInv' /\ ChoiceInv'
  <2>1. SessionsOk(sess', drawn') /\ ListsOk(sess', recent', active')
    BY <1>1, MapSame
  <2>2. sess' = sess /\ active' = active /\ drawn' = drawn
    BY <1>1 DEF coreVars
  <2> QED BY <1>1, <1>8, <1>9, <1>10, <2>1, <2>2, NextParts
<1>12. BasicInv'
  <2>1. /\ limit' \in LimitType /\ limit'.sessions = limit.sessions
        /\ limit'.updates = limit.updates /\ saved' \in Providers \cup {"none", "torn"}
    BY <1>1, <1>4, SaveBasic
  <2> QED BY <1>1, <1>4, <1>10, <2>1 DEF BasicInv, coreVars
<1>13. ButtonsInv'
  BY <1>1 DEF ButtonsInv
<1> QED BY <1>11, <1>12, <1>13

\* A restart keeps a choice that was saved.
LEMMA RestartKeeps ==
  ASSUME Inv, Restart
  PROVE  Inv'
<1> USE DEF Inv
<1>1. /\ limit.restarts > 0 /\ limit' = [limit EXCEPT !.restarts = @ - 1]
      /\ saved' \in {saved, "torn"} /\ current' = LoadState(saved')
      /\ sess' = [s \in Sessions |-> [sess[s] EXCEPT !.busy = FALSE]]
      /\ job' = [u \in Updates |-> Idle]
      /\ chosen' = (IF saved' = current THEN chosen ELSE 0)
      /\ UNCHANGED <<drawn, recent, active, repos, buttons, updates>>
  BY DEF Restart
<1>2. BasicInv'
  <2>1. limit' \in LimitType /\ limit'.sessions = limit.sessions /\ limit'.updates = limit.updates
    BY <1>1 DEF BasicInv, LimitType
  <2>2. current' \in Providers \cup {"none"}
    BY <1>1 DEF BasicInv, LoadState
  <2> QED BY <1>1, <2>1, <2>2 DEF BasicInv
<1>3. ButtonsInv'
  BY <1>1 DEF ButtonsInv
<1>4. ASSUME NEW s \in Sessions
      PROVE  /\ sess'[s] \in SessionType /\ sess'[s].of = sess[s].of
             /\ sess'[s].live = sess[s].live /\ sess'[s].folder = sess[s].folder
             /\ sess'[s].as = sess[s].as
             /\ sess[s] = NoSession => sess'[s] = NoSession
  <2>1. sess[s] \in SessionType
    BY DEF MapInv, SessionsOk
  <2>2. sess'[s] = [sess[s] EXCEPT !.busy = FALSE]
    BY <1>1
  <2>3. sess[s] = NoSession => sess'[s] = NoSession
    <3>1. [NoSession EXCEPT !.busy = FALSE] = NoSession
      <4>1. NoSession.busy = FALSE
        BY DEF NoSession
      <4>2. NoSession = [i \in DOMAIN NoSession |-> NoSession[i]]
        BY DEF NoSession
      <4> HIDE DEF NoSession
      <4> QED BY <4>1, <4>2
    <3> QED BY <2>2, <3>1
  <2>4. /\ sess'[s] \in SessionType /\ sess'[s].of = sess[s].of
        /\ sess'[s].live = sess[s].live /\ sess'[s].folder = sess[s].folder
        /\ sess'[s].as = sess[s].as
    BY <2>1, <2>2 DEF SessionType
  <2> QED BY <2>3, <2>4
<1>5. SessionsOk(sess', drawn')
  <2>1. sess' \in [Sessions -> SessionType]
    <3> HIDE DEF SessionType
    <3> QED BY <1>1, <1>4
  <2> QED BY <1>1, <1>4, <2>1 DEF MapInv, SessionsOk
<1>6. \A p \in Providers : LiveIn(sess', p) = LiveIn(sess, p)
  BY <1>4 DEF LiveIn
<1>7. ListsOk(sess', recent', active')
  BY <1>1, <1>6 DEF MapInv, ListsOk, ListOk
<1>8. JobsOk(job', sess', active', chosen', drawn')
  <2>1. DOMAIN job' = Updates /\ \A u \in Updates : job'[u] = Idle
    BY <1>1
  <2> QED BY <2>1, DoneOk, JobsOkEach
<1>9. \A u \in Updates : job'[u].pc \notin ChoosingPcs
  BY <1>1, DoneOk DEF ChoosingPcs
<1>10. AllAlone(job')
  BY <1>9 DEF AllAlone, AloneOk
<1>11. ChoiceOk(job', sess', active', chosen', drawn', current')
  <2>1. CASE chosen' = 0
    BY <2>1, NoChoice
  <2>2. CASE chosen' # 0
    <3>1. saved' = current /\ chosen' = chosen
      BY <1>1, <2>2
    <3>2. ChoiceOk(job, sess, active, chosen, drawn, current)
      BY DEF ChoiceInv
    <3>3. current \in Providers
      BY <2>2, <3>1, <3>2 DEF ChoiceOk
    <3>4. current' = current
      BY <1>1, <3>1, <3>3 DEF LoadState, Providers
    <3>5. /\ chosen \in 1 .. drawn /\ sess[chosen].live /\ sess[chosen].of \in Providers
          /\ active[sess[chosen].of] = chosen /\ current = sess[chosen].of
      BY <2>2, <3>1, <3>2 DEF ChoiceOk
    <3>6. sess'[chosen].of = sess[chosen].of /\ sess'[chosen].live = sess[chosen].live
      BY <1>4, <3>5, SessionNumbers
    <3> QED BY <1>1, <1>9, <3>1, <3>4, <3>5, <3>6 DEF ChoiceOk
  <2> QED BY <2>1, <2>2
<1>12. MapInv' /\ JobsInv' /\ ChoiceInv'
  BY <1>5, <1>7, <1>8, <1>10, <1>11, NextParts
<1> QED BY <1>2, <1>3, <1>12

-----------------------------------------------------------------------------
(* The invariant.                                                          *)

\* The first state.
LEMMA InitInv == Init => Inv
<1> SUFFICES ASSUME Init PROVE Inv
  OBVIOUS
<1>1. /\ limit \in LimitType /\ drawn = 0 /\ sess = [s \in Sessions |-> NoSession]
      /\ recent = [p \in Providers |-> <<>>] /\ active = [p \in Providers |-> 0]
      /\ current = "none" /\ saved = "none" /\ repos = limit.repos /\ buttons = {}
      /\ updates = 0 /\ job = [u \in Updates |-> Idle] /\ chosen = 0
  BY BotAssumption DEF Init, LimitType, Repos
<1>2. BasicInv
  BY <1>1 DEF BasicInv, LimitType
<1>3. ButtonsInv
  BY <1>1 DEF ButtonsInv
<1>4. NoSession \in SessionType /\ ~NoSession.live /\ NoSession.as = 0
  BY DEF NoSession, SessionType
<1>5. SessionsOk(sess, drawn)
  <2>1. sess \in [Sessions -> SessionType]
    <3> HIDE DEF SessionType
    <3> QED BY <1>1, <1>4
  <2>2. \A s \in Sessions : ~(s <= 0)
    BY DEF Sessions
  <2> QED BY <1>1, <1>4, <2>1, <2>2 DEF SessionsOk
<1>6. ListsOk(sess, recent, active)
  <2>1. ASSUME NEW p \in Providers PROVE ListOk(sess, <<>>, 0, p)
    <3>1. LiveIn(sess, p) = {}
      BY <1>1, <1>4 DEF LiveIn
    <3>2. <<>> \in Seq(Sessions) /\ Distinct(<<>>) /\ ToSet(<<>>) = {}
      BY DEF Distinct, ToSet
    <3> QED BY <3>1, <3>2 DEF ListOk
  <2> QED BY <1>1, <2>1 DEF ListsOk
<1>7. JobsOk(job, sess, active, chosen, drawn)
  <2>1. DOMAIN job = Updates /\ \A u \in Updates : job[u] = Idle
    BY <1>1
  <2> QED BY <2>1, DoneOk, JobsOkEach
<1>8. \A u \in Updates : job[u].pc \notin ChoosingPcs
  BY <1>1, DoneOk DEF ChoosingPcs
<1>9. AllAlone(job) /\ ChoiceOk(job, sess, active, chosen, drawn, current)
  BY <1>1, <1>8, NoChoice DEF AllAlone, AloneOk
<1> QED BY <1>2, <1>3, <1>5, <1>6, <1>7, <1>9 DEF Inv, MapInv, JobsInv, ChoiceInv

\* A step that changes nothing.
LEMMA StutterInv == Inv /\ UNCHANGED vars => Inv'
BY DEF vars, Inv, BasicInv, ButtonsInv, MapInv, JobsInv, ChoiceInv

\* Every step.
LEMMA StepInv == Inv /\ Next => Inv'
<1> SUFFICES ASSUME Inv, Next PROVE Inv'
  OBVIOUS
<1>1. CASE \E p \in Providers : DashboardCreates(p)
  BY <1>1, DashboardCreatesKeeps
<1>2. CASE \E s \in Sessions : DashboardDeletes(s)
  BY <1>2, DashboardDeletesKeeps
<1>3. ASSUME NEW u \in Updates, UpdateArrives(u) PROVE Inv'
  <2>1. CASE HandleChat(u)
    BY <2>1, HandleChatKeeps
  <2>2. ASSUME NEW s \in Sessions, HandleUse(u, s) \/ HandleClose(u, s) PROVE Inv'
    BY <2>2, HandleUseKeeps, HandleCloseKeeps
  <2>3. ASSUME NEW p \in Providers, NEW page \in 0 .. MaxRepos \div PageSize, Browse(u, p, page)
        PROVE  Inv'
    <3>1. page \in Nat
      BY BotAssumption
    <3> QED BY <2>3, <3>1, BrowseKeeps
  <2>4. ASSUME NEW b \in buttons, HandleProviderPick(u, b) PROVE Inv'
    BY <2>4, HandleProviderPickKeeps
  <2>5. ASSUME NEW f \in Repos, HandleNew(u, f) PROVE Inv'
    BY <2>5, HandleNewKeeps
  <2> QED BY <1>3, <2>1, <2>2, <2>3, <2>4, <2>5 DEF UpdateArrives, HandleCallback
<1>4. ASSUME NEW u \in Updates, HandlerStep(u) PROVE Inv'
  BY <1>4, ActivateKeeps, CreatePickedKeeps, SetCurrentKeeps, CheckCurrentKeeps,
     FallBackToCodexKeeps, FallBackToGeminiKeeps, ResolveActiveKeeps, BeginSendKeeps,
     EndSendKeeps DEF HandlerStep
<1>5. CASE \E f \in Repos : ReposChange(f)
  BY <1>5, ReposChangeKeeps
<1>6. CASE Restart
  BY <1>6, RestartKeeps
<1> QED BY <1>1, <1>2, <1>3, <1>4, <1>5, <1>6 DEF Next

\* The induction.
LEMMA InvIsInvariant == Spec => []Inv
<1>1. Inv /\ [Next]_vars => Inv'
  BY StepInv, StutterInv
<1> QED BY <1>1, InitInv, PTL DEF Spec

-----------------------------------------------------------------------------
(* The theorems.                                                           *)

\* The types; besides, the lists of the managers hold each live session once, one of
\* them is active as long as there is one, and a handler that sends knows its session.
THEOREM BotTypes == Spec => []TypeOK
<1>1. Inv => TypeOK
  <2> SUFFICES ASSUME Inv PROVE TypeOK
    OBVIOUS
  <2> USE DEF Inv
  <2>1. limit.restarts \in Nat /\ limit.faults \in Nat /\ limit.changes \in Nat
    BY DEF BasicInv, LimitType
  <2>2. ASSUME NEW p \in Providers
        PROVE  /\ ToSet(recent[p]) = LiveOf(p) /\ Len(recent[p]) = Cardinality(LiveOf(p))
               /\ active[p] \in LiveOf(p) \/ (active[p] = 0 /\ LiveOf(p) = {})
    <3>1. ListOk(sess, recent[p], active[p], p)
      BY DEF MapInv, ListsOk
    <3>2. LiveOf(p) = LiveIn(sess, p)
      BY DEF LiveOf, LiveIn
    <3>3. Cardinality(ToSet(recent[p])) = Len(recent[p])
      BY <3>1, DistinctLength DEF ListOk
    <3> QED BY <3>1, <3>2, <3>3 DEF ListOk
  <2>3. ASSUME NEW u \in Updates
        PROVE  /\ job[u].pc = "idle" => job[u] = Idle
               /\ job[u].pc = "sending" => job[u].id <= drawn
    <3>1. JobOk(job[u], sess, drawn)
      BY JobKnown
    <3> QED BY <3>1, SessionNumbers DEF JobOk
  <2> QED BY <2>1, <2>2, <2>3 DEF TypeOK, BasicInv
<1> QED BY <1>1, InvIsInvariant, PTL

\* A message goes to the session that the user has chosen, and is turned away only
\* when no provider has had a session all the time, however handlers, the dashboard
\* and restarts come between.
THEOREM MessagesFind == Spec => []PlainTextFinds
<1>1. Inv => PlainTextFinds
  <2> SUFFICES ASSUME Inv PROVE PlainTextFinds
    OBVIOUS
  <2>1. \A u \in Updates : SteadyOk(job[u], active) /\ WantOk(job[u], sess, chosen)
    BY DEF Inv, JobsInv, JobsOk
  <2>2. MessagesReachTheChosen
    BY <2>1 DEF MessagesReachTheChosen, WantOk
  <2>3. NoSessionIsOverlooked
    BY <2>1 DEF NoSessionIsOverlooked, SteadyOk
  <2> QED BY <2>2, <2>3 DEF PlainTextFinds
<1> QED BY <1>1, InvIsInvariant, PTL

\* A session that was created by a button is in the repository that the button shows,
\* for every number of repositories and size of a page, unless the list has changed.
THEOREM ButtonsMeanWhatTheyShow == Spec => []PicksAreAsShown
<1>1. Inv => PicksAreAsShown
  BY DEF Inv, MapInv, SessionsOk, PicksAreAsShown
<1> QED BY <1>1, InvIsInvariant, PTL
===============================================================================
