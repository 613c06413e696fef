---------------------------- MODULE LogStream_proofs ----------------------------
(***************************************************************************)
(* Proofs about the output of the processes on its way to the clients:     *)
(* what a subscription has been sent, has in its channel or is about to be *)
(* told is in order, misses nothing and repeats nothing but what was being *)
(* written while it began; a broadcast event reaches everybody.            *)
(*                                                                         *)
(* Inv is inductive.  Its parts are about the types, the ring buffer as    *)
(* the end of the log, the order of the log, the copiers, the              *)
(* subscriptions and their slots, the clients, the order of each stream    *)
(* and the lines that it has seen, the events, and the scanners.           *)
(***************************************************************************)
EXTENDS LogStream, Selections_proofs, FiniteSetTheorems

-----------------------------------------------------------------------------
(* The inductive invariant, in parts.                                      *)

LimitType ==
  [clients : SUBSET Clients, procs : 0 .. MaxProcs, subs : 0 .. MaxSubs,
   events : 0 .. MaxEvents, lines : Nat, idle : BOOLEAN]
RingType == [slots : [0 .. Size - 1 -> Line \cup {NoLine}], pos : 0 .. Size - 1, full : BOOLEAN]
CopierType ==
  [pc : {"none", "idle", "written", "calling", "ended"}, written : Nat,
   chunk : Seq(Line), subs : Seq(Subs), left : Seq(Subs)]
ScanType ==
  [armed : BOOLEAN, ringing : BOOLEAN, fired : BOOLEAN, stopped : BOOLEAN, told : Nat]
ForwardType ==
  [pc : {"none", "snapshot", "backfill", "live", "ended"}, client : Clients \cup {"none"},
   slot : Nat, rest : Seq(Line), chan : Seq(Line), since : Nat, doubled : SUBSET Line,
   lossy : BOOLEAN]
ClientType ==
  [pc : {"none", "open", "closing", "gone"}, busy : {0} \cup Subs, subscribed : BOOLEAN,
   send : Seq(Message), got : Seq(Message), lossy : BOOLEAN]
CastType == [to : SUBSET Clients, left : SUBSET Clients]

TypeInv ==
  /\ limit \in LimitType
  /\ log \in Seq(Line) /\ ring \in RingType /\ listeners \in Seq({0} \cup Subs)
  /\ procs \in 0 .. limit.procs /\ drawn \in 0 .. limit.subs /\ emitted \in 0 .. limit.events
  /\ copier \in [Procs -> CopierType] /\ scan \in [Procs -> ScanType]
  /\ fwd \in [Subs -> ForwardType] /\ client \in [Clients -> ClientType]
  /\ hub \in SUBSET Clients /\ cast \in [Events -> CastType]

\* The buffer holds the end of the log: all of it, or, once it is full, its last Size
\* lines, of which the newest are those before pos.
RingOk(r, l) ==
  IF r.full
    THEN /\ Len(l) >= Size
         /\ \A i \in 0 .. Size - 1 :
              r.slots[i] = l[IF i < r.pos THEN Len(l) - r.pos + 1 + i
                                          ELSE Len(l) - r.pos - Size + 1 + i]
    ELSE /\ Len(l) = r.pos
         /\ \A i \in 0 .. r.pos - 1 : r.slots[i] = l[i + 1]
RingInv == RingOk(ring, log)

\* Lines of one process in a sequence have the order of their numbers, but for those
\* in the set D.
Older(x, y, D) == x.by = y.by => x.no < y.no \/ y \in D
InOrder(s, D) == \A i, j \in DOMAIN s : i < j => Older(s[i], s[j], D)

\* No line in the set X has been written in the future.
KnownBy(X, K) == \A x \in X : x.no <= K[x.by].written

LogInv == InOrder(log, {}) /\ KnownBy(ToSet(log), copier)

Registered == {"backfill", "live"}

\* What a copier has read and not yet told to all is its own, and those it calls have
\* subscribed.
CopierOk(k, p, F) ==
  /\ k.pc \in {"none", "idle", "ended"} => k.chunk = <<>>
  /\ k.pc = "calling" /\ k.chunk # <<>> => k.left # <<>>
  /\ \A i \in DOMAIN k.chunk : k.chunk[i].by = p /\ k.chunk[i].no <= k.written
  /\ InOrder(k.chunk, {})
  /\ IsInjective(k.subs) /\ IsInjective(k.left) /\ ToSet(k.left) \subseteq ToSet(k.subs)
  /\ \A f \in ToSet(k.subs) : F[f].pc \in Registered \cup {"ended"}
CopiersInv ==
  /\ \A p \in Procs : CopierOk(copier[p], p, fwd)
  /\ \A p \in Procs : p > procs => copier[p] = NoCopier

\* A subscription has a slot of its own.
ForwardOk(w, f, L) ==
  /\ w.pc # "none" => w.client \in Clients
  /\ w.pc \in Registered => w.slot \in DOMAIN L /\ L[w.slot] = f
  /\ w.pc = "live" => w.rest = <<>>
  /\ w.pc \in {"none", "snapshot"} => w.chan = <<>>
  /\ Len(w.chan) <= ChanSize
ForwardsInv ==
  /\ \A f \in Subs : ForwardOk(fwd[f], f, listeners)
  /\ \A f \in Subs : /\ fwd[f].pc = "none" <=> f > drawn
                     /\ fwd[f].pc = "none" => fwd[f] = NoForward
  /\ \A i \in DOMAIN listeners :
       listeners[i] # 0 => fwd[listeners[i]].pc \in Registered /\ fwd[listeners[i]].slot = i

Slotted(F) == {f \in Subs : F[f].pc \in Registered \cup {"ended"}}
SlotsInv ==
  /\ Len(listeners) = Cardinality(Slotted(fwd))
  /\ \A f \in Subs : fwd[f].slot <= Len(listeners)

ClientsInv ==
  \A c \in Clients :
    /\ Len(client[c].send) <= SendSize
    /\ \A m \in ToSet(Queue(c)) : m.sub <= drawn

\* The lines that are on their way to a subscription.
AllComing(f) == UNION {Coming(p, f) : p \in Procs}
OrderOk(s, C, D) ==
  /\ InOrder(s, D)
  /\ \A x \in ToSet(s), y \in C : Older(x, y, D)
OrderInv ==
  \A f \in Subs : fwd[f].pc \in Registered \cup {"snapshot"} =>
    /\ OrderOk(Stream(f), AllComing(f), fwd[f].doubled)
    /\ KnownBy(ToSet(Stream(f)), copier)

SeenOk(s, C, n) == \A i \in n + 1 .. Len(log) : log[i] \in ToSet(s) \cup C
SeenInv ==
  \A f \in Subs :
    fwd[f].pc \in Registered /\ ~fwd[f].lossy /\ ~client[fwd[f].client].lossy
      => SeenOk(Stream(f), AllComing(f), fwd[f].since)

EventsInv ==
  \A e \in 1 .. emitted : \A c \in cast[e].to :
    client[c].lossy \/ c \in cast[e].left \/ EventMsg(e) \in ToSet(Queue(c))

ScanOk(s) == s.told <= 1 /\ (~s.fired => s.told = 0)
ScansInv  == \A p \in Procs : ScanOk(scan[p])

Inv ==
  /\ TypeInv /\ RingInv /\ LogInv /\ CopiersInv /\ ForwardsInv /\ SlotsInv /\ ClientsInv
  /\ OrderInv /\ SeenInv /\ EventsInv /\ ScansInv

-----------------------------------------------------------------------------
(* The ring buffer.                                                        *)

\* The remainder of a position that has not passed the end twice.
LEMMA Around ==
  ASSUME NEW a \in Nat, a < 2 * Size
  PROVE  a % Size = IF a < Size THEN a ELSE a - Size
<1>1. Size \in Nat \ {0}
  BY StreamAssumption
<1>2. CASE a < Size
  BY <1>1, <1>2
<1>3. CASE a >= Size
  BY <1>1, <1>3
<1> QED BY <1>1, <1>2, <1>3

\* One line more.
LEMMA PutRing ==
  ASSUME NEW r \in RingType, NEW l \in Seq(Line), NEW x \in Line, RingOk(r, l)
  PROVE  Put(r, x) \in RingType /\ RingOk(Put(r, x), Append(l, x))
<1> DEFINE q == Put(r, x)
           pos == (r.pos + 1) % Size
           slots == [r.slots EXCEPT ![r.pos] = x]
           m == Append(l, x)
<1>1. Size \in Nat /\ Size > 0
  BY StreamAssumption
<1>2. r.pos \in 0 .. Size - 1 /\ r.full \in BOOLEAN /\ r.slots \in [0 .. Size - 1 -> Line \cup {NoLine}]
  BY DEF RingType
<1>3. pos = IF r.pos + 1 < Size THEN r.pos + 1 ELSE 0
  <2>1. r.pos + 1 \in Nat /\ r.pos + 1 < 2 * Size /\ r.pos + 1 <= Size
    BY <1>1, <1>2
  <2> QED BY <1>1, <2>1, Around
<1>4. pos \in 0 .. Size - 1
  BY <1>1, <1>2, <1>3
<1>5. /\ slots \in [0 .. Size - 1 -> Line \cup {NoLine}]
      /\ slots[r.pos] = x
      /\ \A i \in 0 .. Size - 1 : i # r.pos => slots[i] = r.slots[i]
  BY <1>2
<1>6. q.slots = slots /\ q.pos = pos /\ (q.full <=> r.full \/ pos = 0)
  BY <1>2 DEF Put
<1>7. q \in RingType
  BY <1>2, <1>4, <1>5 DEF Put, RingType
<1>8. /\ Len(m) = Len(l) + 1 /\ m[Len(l) + 1] = x
      /\ \A i \in 1 .. Len(l) : m[i] = l[i]
      /\ Len(l) \in Nat
  OBVIOUS
<1> DEFINE p == r.pos
           n == Len(l)
<1>s. p \in Nat /\ p < Size /\ n \in Nat
  BY <1>1, <1>2
<1> HIDE DEF pos, slots, m, q, p, n
<1>9. ASSUME r.full PROVE RingOk(q, m)
  <2>1. /\ Len(l) >= Size
        /\ \A i \in 0 .. Size - 1 :
              r.slots[i] = l[IF i < r.pos THEN Len(l) - r.pos + 1 + i
                                          ELSE Len(l) - r.pos - Size + 1 + i]
    BY <1>9 DEF RingOk
  <2>2. q.full
    BY <1>6, <1>9
  <2>3. ASSUME NEW i \in 0 .. Size - 1
        PROVE  slots[i] = m[IF i < pos THEN Len(m) - pos + 1 + i
                                       ELSE Len(m) - pos - Size + 1 + i]
    <3> DEFINE at == IF i < pos THEN Len(m) - pos + 1 + i ELSE Len(m) - pos - Size + 1 + i
               was == IF i < r.pos THEN Len(l) - r.pos + 1 + i ELSE Len(l) - r.pos - Size + 1 + i
    <3>1. CASE i = r.pos
      <4>1. at = Len(l) + 1
        BY <1>1, <1>2, <1>3, <1>8, <3>1
      <4> QED BY <1>5, <1>8, <3>1, <4>1
    <3>2. CASE i # r.pos
      <4>1. at = was /\ was \in 1 .. Len(l)
        <5>1. n >= Size /\ Len(m) = n + 1
          BY <1>8, <2>1 DEF n
        <5>2. pos = IF p + 1 < Size THEN p + 1 ELSE 0
          BY <1>3 DEF p
        <5>3. i # p
          BY <3>2 DEF p
        <5> DEFINE at1 == IF i < pos THEN n + 1 - pos + 1 + i ELSE n + 1 - pos - Size + 1 + i
                   was1 == IF i < p THEN n - p + 1 + i ELSE n - p - Size + 1 + i
        <5>4. at1 = was1 /\ was1 \in 1 .. n
          BY <1>1, <1>s, <5>1, <5>2, <5>3
        <5>5. was = was1
          BY DEF p, n
        <5>6. at = at1
          BY <1>1, <1>4, <1>s, <5>1
        <5> HIDE DEF at, was, at1, was1
        <5> QED BY <5>4, <5>5, <5>6 DEF n
      <4>2. slots[i] = l[was]
        BY <1>5, <2>1, <3>2
      <4>3. m[at] = l[was]
        BY <1>8, <4>1
      <4> QED BY <4>2, <4>3
    <3> QED BY <3>1, <3>2
  <2>4. Len(m) >= Size
    BY <1>1, <1>8, <2>1
  <2> QED BY <1>6, <2>2, <2>3, <2>4 DEF RingOk
<1>10. ASSUME ~r.full PROVE RingOk(q, m)
  <2>1. Len(l) = r.pos /\ \A i \in 0 .. r.pos - 1 : r.slots[i] = l[i + 1]
    BY <1>10 DEF RingOk
  <2>2. CASE pos # 0
    <3>1. pos = r.pos + 1 /\ ~q.full
      BY <1>3, <1>6, <1>10, <2>2
    <3>2. ASSUME NEW i \in 0 .. pos - 1 PROVE slots[i] = m[i + 1]
      <4>1. CASE i = r.pos
        BY <1>5, <1>8, <2>1, <4>1
      <4>2. CASE i # r.pos
        <5>1. i \in 0 .. r.pos - 1 /\ i \in 0 .. Size - 1 /\ i + 1 \in 1 .. Len(l)
          BY <1>1, <1>2, <2>1, <3>1, <4>2
        <5> QED BY <1>5, <1>8, <2>1, <4>2, <5>1
      <4> QED BY <4>1, <4>2
    <3>3. Len(m) = pos
      BY <1>8, <2>1, <3>1
    <3> QED BY <1>6, <3>1, <3>2, <3>3 DEF RingOk
  <2>3. CASE pos = 0
    <3>1. r.pos + 1 = Size /\ q.full
      BY <1>1, <1>2, <1>3, <1>6, <2>3
    <3>2. ASSUME NEW i \in 0 .. Size - 1 PROVE slots[i] = m[i + 1]
      <4>1. CASE i = r.pos
        BY <1>5, <1>8, <2>1, <4>1
      <4>2. CASE i # r.pos
        <5>1. i \in 0 .. r.pos - 1 /\ i + 1 \in 1 .. Len(l)
          BY <1>1, <1>2, <2>1, <3>1, <4>2
        <5> QED BY <1>5, <1>8, <2>1, <4>2, <5>1
      <4> QED BY <4>1, <4>2
    <3>3. \A i \in 0 .. Size - 1 :
            (IF i < pos THEN Len(m) - pos + 1 + i ELSE Len(m) - pos - Size + 1 + i) = i + 1
      BY <1>1, <1>8, <2>1, <2>3, <3>1
    <3>4. Len(m) >= Size
      BY <1>1, <1>8, <2>1, <3>1
    <3> QED BY <1>6, <3>1, <3>2, <3>3, <3>4 DEF RingOk
  <2> QED BY <2>2, <2>3
<1> HIDE DEF RingOk
<1>11. RingOk(q, m)
  BY <1>9, <1>10
<1> QED BY <1>7, <1>11 DEF q, m

-----------------------------------------------------------------------------
\* g obeys the equation of PutUpTo up to n.
ObeysPut(g, r, chunk, n) ==
  /\ DOMAIN g = 0 .. n
  /\ g = [i \in DOMAIN g |-> g[i]]
  /\ \A i \in 0 .. n : g[i] = IF i = 0 THEN r ELSE Put(g[i - 1], chunk[i])

PutEquation(g, r, chunk, n) ==
  g = [i \in 0 .. n |-> IF i = 0 THEN r ELSE Put(g[i - 1], chunk[i])]

\* PutUpTo is defined by its recursive equation.
LEMMA ObeysPutIsEquation ==
  ASSUME NEW g, NEW r, NEW chunk, NEW n \in Nat
  PROVE  ObeysPut(g, r, chunk, n) <=> PutEquation(g, r, chunk, n)
BY DEF ObeysPut, PutEquation

\* The recursion of PutUpTo is well founded: there is such a function.
LEMMA PutUpToExists ==
  ASSUME NEW r, NEW chunk, NEW n \in Nat
  PROVE  \E g : ObeysPut(g, r, chunk, n)
<1> DEFINE T == {k \in Nat : \E g : ObeysPut(g, r, chunk, k)}
<1>1. 0 \in T
  <2>1. ObeysPut([i \in 0 .. 0 |-> r], r, chunk, 0)
    BY DEF ObeysPut
  <2> QED BY <2>1
<1>2. ASSUME NEW k \in Nat, k \in T PROVE k + 1 \in T
  <2>1. PICK g : ObeysPut(g, r, chunk, k)
    BY <1>2
  <2> DEFINE x == Put(g[k], chunk[k + 1])
             h == [i \in 0 .. k + 1 |-> IF i = k + 1 THEN x ELSE g[i]]
  <2> HIDE DEF x
  <2>2. ObeysPut(h, r, chunk, k + 1)
    <3>1. DOMAIN h = 0 .. k + 1 /\ h = [i \in DOMAIN h |-> h[i]]
      OBVIOUS
    <3>2. ASSUME NEW i \in 0 .. k + 1
          PROVE  h[i] = IF i = 0 THEN r ELSE Put(h[i - 1], chunk[i])
      <4>1. CASE i = k + 1
        <5>1. h[i] = x /\ i # 0 /\ h[i - 1] = g[k]
          BY <4>1
        <5> QED BY <4>1, <5>1 DEF x
      <4>2. CASE i # k + 1
        <5>1. i \in 0 .. k /\ h[i] = g[i]
          BY <4>2
        <5>2. i # 0 => h[i - 1] = g[i - 1]
          BY <4>2
        <5> HIDE DEF h
        <5> QED BY <2>1, <5>1, <5>2 DEF ObeysPut
      <4> QED BY <4>1, <4>2
    <3> HIDE DEF h
    <3> QED BY <3>1, <3>2 DEF ObeysPut
  <2> QED BY <2>2
<1> HIDE DEF T
<1>3. Nat \subseteq T
  BY <1>1, <1>2, NatSetInduction
<1> QED BY <1>3 DEF T

\* So it satisfies the equation.
LEMMA PutUpToObeys ==
  ASSUME NEW r, NEW chunk, Len(chunk) \in Nat
  PROVE  ObeysPut(PutUpTo(r, chunk), r, chunk, Len(chunk))
<1>1. PutUpTo(r, chunk) = CHOOSE g : PutEquation(g, r, chunk, Len(chunk))
  BY DEF PutUpTo, PutEquation
<1>2. \E g : PutEquation(g, r, chunk, Len(chunk))
  BY PutUpToExists, ObeysPutIsEquation
<1>3. PutEquation(PutUpTo(r, chunk), r, chunk, Len(chunk))
  BY <1>1, <1>2
<1> QED BY <1>3, ObeysPutIsEquation

\* What Write does with all lines of a chunk.
LEMMA PutAllRing ==
  ASSUME NEW r \in RingType, NEW l \in Seq(Line), NEW chunk \in Seq(Line), RingOk(r, l)
  PROVE  PutAll(r, chunk) \in RingType /\ RingOk(PutAll(r, chunk), l \o chunk)
<1> DEFINE g == PutUpTo(r, chunk)
           n == Len(chunk)
           upto(i) == l \o SubSeq(chunk, 1, i)
           T == {i \in Nat : i <= n => g[i] \in RingType /\ RingOk(g[i], upto(i))}
<1>1. n \in Nat /\ ObeysPut(g, r, chunk, n)
  BY PutUpToObeys
<1>2. upto(0) = l /\ upto(n) = l \o chunk
  OBVIOUS
<1>3. \A i \in Nat : i < n => /\ upto(i) \in Seq(Line) /\ chunk[i + 1] \in Line
                             /\ upto(i + 1) = Append(upto(i), chunk[i + 1])
  <2> SUFFICES ASSUME NEW i \in Nat, i < n
               PROVE /\ upto(i) \in Seq(Line) /\ chunk[i + 1] \in Line
                     /\ upto(i + 1) = Append(upto(i), chunk[i + 1])
    OBVIOUS
  <2>1. /\ SubSeq(chunk, 1, i) \in Seq(Line) /\ chunk[i + 1] \in Line
        /\ SubSeq(chunk, 1, i + 1) = Append(SubSeq(chunk, 1, i), chunk[i + 1])
    OBVIOUS
  <2> DEFINE s == SubSeq(chunk, 1, i)
             x == chunk[i + 1]
  <2> HIDE DEF s, x
  <2>2. s \in Seq(Line) /\ x \in Line => l \o Append(s, x) = Append(l \o s, x) /\ l \o s \in Seq(Line)
    OBVIOUS
  <2> QED BY <2>1, <2>2 DEF s, x
<1> HIDE DEF g, n, upto
<1>4. 0 \in T
  <2>1. g[0] = r
    <3>1. 0 \in 0 .. n
      BY <1>1
    <3> QED BY <3>1, <1>1 DEF ObeysPut
  <2> QED BY <1>2, <2>1
<1>5. ASSUME NEW i \in Nat, i \in T PROVE i + 1 \in T
  <2> SUFFICES ASSUME i + 1 <= n PROVE g[i + 1] \in RingType /\ RingOk(g[i + 1], upto(i + 1))
    OBVIOUS
  <2>1. i < n /\ g[i] \in RingType /\ RingOk(g[i], upto(i))
    BY <1>1, <1>5
  <2>2. g[i + 1] = Put(g[i], chunk[i + 1])
    <3>1. i + 1 \in 0 .. n /\ i + 1 # 0 /\ (i + 1) - 1 = i
      BY <1>1
    <3> QED BY <3>1, <1>1 DEF ObeysPut
  <2> QED BY <1>3, <2>1, <2>2, PutRing
<1> HIDE DEF T
<1>6. Nat \subseteq T
  BY <1>4, <1>5, NatSetInduction
<1>7. g[n] \in RingType /\ RingOk(g[n], upto(n))
  BY <1>1, <1>6 DEF T
<1> QED BY <1>2, <1>7 DEF PutAll, g, n

\* What a reader of the buffer gets.
LEMMA LinesAreLast ==
  ASSUME NEW r \in RingType, NEW l \in Seq(Line), RingOk(r, l), NEW n \in Nat
  PROVE  Lines(r, n) = LastOf(l, IF n < Size THEN n ELSE Size) /\ Lines(r, n) \in Seq(Line)
<1> DEFINE total == IF r.full THEN Size ELSE r.pos
           m == IF n > total THEN total ELSE n
           start == IF r.pos < m THEN r.pos + Size - m ELSE r.pos - m
           k == IF n < Size THEN n ELSE Size
           len == Len(l)
           first == IF len > k THEN len - k + 1 ELSE 1
           p == r.pos
<1>1. Size \in Nat /\ Size > 0
  BY StreamAssumption
<1>2. p \in Nat /\ p < Size /\ len \in Nat
  BY <1>1 DEF RingType
<1>3. total = (IF r.full THEN Size ELSE p) /\ start = (IF p < m THEN p + Size - m ELSE p - m)
  OBVIOUS
<1>4. /\ r.full => /\ len >= Size
                   /\ \A i \in 0 .. Size - 1 :
                        r.slots[i] = l[IF i < p THEN len - p + 1 + i ELSE len - p - Size + 1 + i]
      /\ ~r.full => len = p /\ \A i \in 0 .. p - 1 : r.slots[i] = l[i + 1]
  BY DEF RingOk
<1>5. Lines(r, n) = [i \in 1 .. m |-> r.slots[(start + i - 1) % Size]]
  BY DEF Lines
<1>6. m = (IF n > total THEN total ELSE n) /\ k = (IF n < Size THEN n ELSE Size)
      /\ first = (IF len > k THEN len - k + 1 ELSE 1)
  OBVIOUS
<1> HIDE DEF total, m, start, k, len, first, p
<1>7. total \in Nat /\ total <= Size /\ total <= len /\ (r.full \/ (total = p /\ len = p))
      /\ (r.full => total = Size)
  BY <1>1, <1>2, <1>3, <1>4
<1>8. /\ m \in Nat /\ m <= Size /\ m <= len /\ first = len - m + 1
      /\ start \in Nat /\ start <= Size /\ m <= total
  BY <1>1, <1>2, <1>3, <1>6, <1>7
<1>9. ASSUME NEW i \in 1 .. m
      PROVE  r.slots[(start + i - 1) % Size] = l[first + i - 1]
  <2> DEFINE a == start + i - 1
             b == IF a < Size THEN a ELSE a - Size
  <2>1. a \in Nat /\ a < 2 * Size
    BY <1>1, <1>2, <1>8
  <2>2. a % Size = b
    BY <2>1, Around
  <2>3. b \in 0 .. Size - 1
    BY <1>1, <2>1
  <2>4. CASE r.full
    <3>1. (IF b < p THEN len - p + 1 + b ELSE len - p - Size + 1 + b) = first + i - 1
      <4>1. CASE p < m
        <5>1. start = p + Size - m
          BY <1>3, <4>1
        <5> QED BY <1>1, <1>2, <1>8, <4>1, <5>1
      <4>2. CASE p >= m
        <5>1. start = p - m
          BY <1>2, <1>3, <1>8, <4>2
        <5> QED BY <1>1, <1>2, <1>8, <4>2, <5>1
      <4> QED BY <1>2, <1>8, <4>1, <4>2
    <3> HIDE DEF a, b
    <3>2. r.slots[b] = l[IF b < p THEN len - p + 1 + b ELSE len - p - Size + 1 + b]
      BY <1>4, <2>3, <2>4
    <3>3. r.slots[a % Size] = r.slots[b]
      BY <2>2
    <3> QED BY <3>1, <3>2, <3>3 DEF a
  <2>5. CASE ~r.full
    <3>1. b \in 0 .. p - 1 /\ b + 1 = first + i - 1
      <4>1. start = p - m /\ len = p /\ m <= p
        BY <1>1, <1>2, <1>3, <1>7, <1>8, <2>5
      <4> QED BY <1>1, <1>2, <1>8, <4>1
    <3> HIDE DEF b
    <3> QED BY <1>4, <2>2, <2>5, <3>1
  <2> QED BY <2>4, <2>5
<1>10. SubSeq(l, first, len) = [i \in 1 .. m |-> l[first + i - 1]]
  <2>1. len - first + 1 = m
    BY <1>2, <1>8
  <2> QED BY <2>1, <1>2, <1>8 DEF len
<1>11. Lines(r, n) = SubSeq(l, first, len)
  BY <1>5, <1>9, <1>10
<1>12. SubSeq(l, first, len) \in Seq(Line)
  <2>1. first \in Nat /\ first >= 1
    BY <1>2, <1>8
  <2> QED BY <2>1 DEF len
<1>13. LastOf(l, k) = SubSeq(l, first, len)
  BY <1>6 DEF LastOf, len
<1> QED BY <1>11, <1>12, <1>13 DEF k

-----------------------------------------------------------------------------
(* The types.                                                              *)

\* The bounds of a behaviour are within those of the module.
LEMMA LimitFacts ==
  ASSUME TypeInv
  PROVE  /\ limit.procs \in Nat /\ limit.procs <= MaxProcs
         /\ limit.subs \in Nat /\ limit.subs <= MaxSubs
         /\ limit.events \in Nat /\ limit.events <= MaxEvents
         /\ limit.clients \subseteq Clients /\ limit.lines \in Nat /\ limit.idle \in BOOLEAN
         /\ procs \in Nat /\ drawn \in Nat /\ emitted \in Nat
<1> USE StreamAssumption
<1>1. limit \in LimitType
  BY DEF TypeInv
<1>2. /\ limit.procs \in 0 .. MaxProcs /\ limit.subs \in 0 .. MaxSubs
      /\ limit.events \in 0 .. MaxEvents
      /\ limit.clients \in SUBSET Clients /\ limit.lines \in Nat /\ limit.idle \in BOOLEAN
  BY <1>1 DEF LimitType
<1>3. procs \in 0 .. limit.procs /\ drawn \in 0 .. limit.subs /\ emitted \in 0 .. limit.events
  BY DEF TypeInv
<1> QED BY <1>2, <1>3

\* An empty place of the buffer is no line.
LEMMA NoLineFacts == NoLine \in [by : {0}, no : {0}] /\ NoLine \notin Line
BY DEF NoLine, Line, Procs

\* Both kinds of messages.
LEMMA MessagesType ==
  /\ \A f \in Subs, x \in Line : LineOf(f, x) \in Message /\ LineOf(f, x) \in OfSub(f)
  /\ \A e \in Events : EventMsg(e) \in Message
  /\ \A e \in Events, f \in Subs : EventMsg(e) \notin OfSub(f)
  /\ \A f, g \in Subs, x \in Line : LineOf(f, x) \in OfSub(g) => f = g
  /\ \A f \in Subs, x \in Line : LineOf(f, x).line = x /\ LineOf(f, x).sub = f
  /\ \A e \in Events : EventMsg(e).sub = 0
BY DEF LineOf, EventMsg, Message, OfSub, Subs, Events

\* The first state.
LEMMA InitTypes == Init => TypeInv
<1> SUFFICES ASSUME Init PROVE TypeInv
  OBVIOUS
<1> USE StreamAssumption
<1>1. Limits \subseteq LimitType
  BY DEF LimitType
<1>2. limit \in LimitType
  BY <1>1 DEF Init
<1>3. limit.procs \in Nat /\ limit.subs \in Nat /\ limit.events \in Nat
  BY <1>2 DEF LimitType
<1>4. ring \in RingType
  <2>1. 0 \in 0 .. Size - 1
    OBVIOUS
  <2> QED BY <2>1 DEF Init, RingType
<1>5. NoCopier \in CopierType /\ NoScanner \in ScanType /\ NoCast \in CastType
  BY DEF NoCopier, NoScanner, NoCast, CopierType, ScanType, CastType
<1>6. NoForward \in ForwardType
  BY DEF NoForward, ForwardType
<1>7. NoClient \in ClientType
  BY DEF NoClient, ClientType
<1>8. /\ copier \in [Procs -> CopierType] /\ scan \in [Procs -> ScanType]
      /\ fwd \in [Subs -> ForwardType] /\ client \in [Clients -> ClientType]
      /\ cast \in [Events -> CastType]
  BY <1>5, <1>6, <1>7 DEF Init
<1>9. /\ log \in Seq(Line) /\ listeners \in Seq({0} \cup Subs) /\ hub \in SUBSET Clients
      /\ procs = 0 /\ drawn = 0 /\ emitted = 0
  BY DEF Init
<1> QED BY <1>2, <1>3, <1>4, <1>8, <1>9 DEF TypeInv

\* What a message appended to the channel of a client does, and one that does not fit.
LEMMA SentTypes ==
  ASSUME client \in [Clients -> ClientType], NEW c \in Clients, NEW m \in Message
  PROVE  /\ Sent(c, m) \in [Clients -> ClientType]
         /\ \A d \in Clients : d # c => Sent(c, m)[d] = client[d]
         /\ LET k == Sent(c, m)[c] IN
            /\ k.got = client[c].got /\ k.pc = client[c].pc /\ k.busy = client[c].busy
            /\ k.subscribed = client[c].subscribed
            /\ \/ /\ Len(client[c].send) < SendSize
                  /\ k.send = Append(client[c].send, m) /\ k.lossy = client[c].lossy
               \/ /\ Len(client[c].send) >= SendSize
                  /\ k.send = client[c].send /\ k.lossy = TRUE
<1> USE StreamAssumption
<1>1. client[c] \in ClientType
  OBVIOUS
<1>2. client[c].send \in Seq(Message) /\ Append(client[c].send, m) \in Seq(Message)
  BY <1>1 DEF ClientType
<1>3. Len(client[c].send) \in Nat
  BY <1>2
<1> DEFINE a == [client[c] EXCEPT !.send = Append(@, m)]
           b == [client[c] EXCEPT !.lossy = TRUE]
<1>4. a \in ClientType /\ b \in ClientType
  BY <1>1, <1>2 DEF ClientType
<1>5. /\ a.got = client[c].got /\ a.pc = client[c].pc /\ a.busy = client[c].busy
      /\ a.subscribed = client[c].subscribed
      /\ a.send = Append(client[c].send, m) /\ a.lossy = client[c].lossy
      /\ b.got = client[c].got /\ b.pc = client[c].pc /\ b.busy = client[c].busy
      /\ b.subscribed = client[c].subscribed
      /\ b.send = client[c].send /\ b.lossy = TRUE
  BY <1>1 DEF ClientType
<1>6. Sent(c, m) = [client EXCEPT ![c] = IF Len(client[c].send) < SendSize THEN a ELSE b]
  BY DEF Sent
<1> HIDE DEF a, b, ClientType
<1> QED BY <1>3, <1>4, <1>5, <1>6

\* What each action does to the record that it changes, and to nothing else of its
\* variable.
LEMMA CopySubscribersMoves ==
  ASSUME TypeInv, NEW p \in Procs, CopySubscribers(p)
  PROVE  LET k == copier[p]
             w == copier'[p]
             s == Only(listeners, Subs)
         IN
         /\ w \in CopierType /\ copier' = [copier EXCEPT ![p] = w] /\ k.pc = "written"
         /\ w.pc = "calling" /\ w.written = k.written /\ w.subs = s /\ w.left = s
         /\ w.chunk = (IF s = <<>> THEN <<>> ELSE k.chunk)
<1> DEFINE k == copier[p]
           s == Only(listeners, Subs)
           rest == IF s = <<>> THEN <<>> ELSE k.chunk
           w == [k EXCEPT !.pc = "calling", !.subs = s, !.left = s, !.chunk = rest]
<1>1. k \in CopierType /\ copier \in [Procs -> CopierType]
  BY DEF TypeInv
<1>2. s \in Seq(Subs)
  <2>1. listeners \in Seq({0} \cup Subs) /\ ({0} \cup Subs) \cap Subs = Subs
    BY DEF TypeInv
  <2>2. s \in Seq(({0} \cup Subs) \cap Subs)
    BY <2>1, OnlyType
  <2> QED BY <2>1, <2>2
<1>3. copier' = [copier EXCEPT ![p] = w] /\ k.pc = "written"
  BY DEF CopySubscribers
<1>a. rest \in Seq(Line)
  BY <1>1 DEF CopierType
<1> HIDE DEF s, rest
<1>4. w \in CopierType
  BY <1>1, <1>2, <1>a DEF CopierType
<1>5. /\ w.pc = "calling" /\ w.written = k.written /\ w.subs = s /\ w.left = s
      /\ w.chunk = rest
  BY <1>1 DEF CopierType
<1> HIDE DEF w
<1>6. copier'[p] = w
  BY <1>1, <1>3
<1> QED BY <1>3, <1>4, <1>5, <1>6 DEF s, rest

\* The first half of Write reads lines of its own and changes the buffer.
LEMMA WriteLinesMoves ==
  ASSUME TypeInv, NEW p \in Procs, NEW n \in 0 .. limit.lines, WriteLines(p, n)
  PROVE  LET k == copier[p]
             w == copier'[p]
             chunk == [i \in 1 .. n |-> [by |-> p, no |-> k.written + i]]
         IN
         /\ w \in CopierType /\ copier' = [copier EXCEPT ![p] = w] /\ k.pc = "idle"
         /\ w.pc = "written" /\ w.written = k.written + n /\ w.subs = k.subs /\ w.left = k.left
         /\ w.chunk = chunk /\ chunk \in Seq(Line) /\ Len(chunk) = n /\ n \in Nat
         /\ k.written \in Nat
<1> DEFINE k == copier[p]
           chunk == [i \in 1 .. n |-> [by |-> p, no |-> k.written + i]]
           w == [k EXCEPT !.pc = "written", !.written = k.written + n, !.chunk = chunk]
<1>0. n \in Nat
  BY LimitFacts
<1>1. k \in CopierType /\ copier \in [Procs -> CopierType]
  BY DEF TypeInv
<1>2. k.written \in Nat
  BY <1>1 DEF CopierType
<1>3. copier' = [copier EXCEPT ![p] = w] /\ k.pc = "idle"
  BY DEF WriteLines
<1>4. chunk \in Seq(Line) /\ Len(chunk) = n
  <2>1. \A i \in 1 .. n : [by |-> p, no |-> k.written + i] \in Line
    BY <1>0, <1>2 DEF Line
  <2> QED BY <1>0, <2>1
<1>a. k.written + n \in Nat
  BY <1>0, <1>2
<1> HIDE DEF chunk
<1>5. w \in CopierType
  <2> DEFINE sum == k.written + n
  <2> HIDE DEF sum
  <2>1. sum \in Nat
    BY <1>a DEF sum
  <2>2. [k EXCEPT !.pc = "written", !.written = sum, !.chunk = chunk] \in CopierType
    BY <1>1, <1>4, <2>1 DEF CopierType
  <2> QED BY <2>2 DEF sum
<1>6. /\ w.pc = "written" /\ w.written = k.written + n /\ w.subs = k.subs /\ w.left = k.left
      /\ w.chunk = chunk
  BY <1>1 DEF CopierType
<1> HIDE DEF w
<1>7. copier'[p] = w
  BY <1>1, <1>3
<1> QED BY <1>0, <1>2, <1>3, <1>4, <1>5, <1>6, <1>7 DEF chunk

\* One call of a subscriber.
LEMMA CallSubscriberMoves ==
  ASSUME TypeInv, CopiersInv, NEW p \in Procs, CallSubscriber(p)
  PROVE  LET k == copier[p]
             w == copier'[p]
             f == Head(k.left)
             x == Head(k.chunk)
             a == fwd[f]
             b == fwd'[f]
         IN
         /\ k.pc = "calling" /\ k.chunk # <<>> /\ k.left # <<>>
         /\ w \in CopierType /\ copier' = [copier EXCEPT ![p] = w]
         /\ w.pc = k.pc /\ w.written = k.written /\ w.subs = k.subs
         /\ \/ Len(k.left) = 1 /\ w.chunk = Tail(k.chunk) /\ w.left = k.subs
            \/ Len(k.left) # 1 /\ w.chunk = k.chunk /\ w.left = Tail(k.left)
         /\ f \in Subs /\ x \in Line
         /\ b \in ForwardType /\ fwd' = [fwd EXCEPT ![f] = b]
         /\ b.pc = a.pc /\ b.client = a.client /\ b.slot = a.slot /\ b.rest = a.rest
         /\ b.since = a.since /\ b.doubled = a.doubled
         /\ \/ Len(a.chan) < ChanSize /\ b.chan = Append(a.chan, x) /\ b.lossy = a.lossy
            \/ b.chan = a.chan /\ b.lossy = TRUE
<1> DEFINE k == copier[p]
           f == Head(k.left)
           x == Head(k.chunk)
           a == fwd[f]
           w1 == [k EXCEPT !.chunk = Tail(k.chunk), !.left = k.subs]
           w2 == [k EXCEPT !.left = Tail(k.left)]
           b1 == [a EXCEPT !.chan = Append(a.chan, x)]
           b2 == [a EXCEPT !.lossy = TRUE]
<1>1. k \in CopierType /\ copier \in [Procs -> CopierType] /\ fwd \in [Subs -> ForwardType]
  BY DEF TypeInv
<1>2. k.chunk \in Seq(Line) /\ k.left \in Seq(Subs) /\ k.subs \in Seq(Subs)
  BY <1>1 DEF CopierType
<1>3. k.pc = "calling" /\ k.chunk # <<>>
  BY DEF CallSubscriber
<1>4. k.left # <<>>
  BY <1>3 DEF CopiersInv, CopierOk
<1>5. f \in Subs /\ x \in Line /\ Tail(k.chunk) \in Seq(Line) /\ Tail(k.left) \in Seq(Subs)
  BY <1>2, <1>3, <1>4
<1>6. a \in ForwardType /\ a.chan \in Seq(Line) /\ Append(a.chan, x) \in Seq(Line)
  BY <1>1, <1>5 DEF ForwardType
<1>7. /\ copier' = [copier EXCEPT ![p] = IF Len(k.left) = 1 THEN w1 ELSE w2]
      /\ fwd' = [fwd EXCEPT ![f] = IF Len(a.chan) < ChanSize THEN b1 ELSE b2]
  <2>1. copier' = [copier EXCEPT ![p] = IF Len(k.left) = 1 THEN w1 ELSE w2]
    BY DEF CallSubscriber
  <2>2. fwd' = [fwd EXCEPT ![f] = IF Len(a.chan) < ChanSize THEN b1 ELSE b2]
    BY DEF CallSubscriber
  <2> QED BY <2>1, <2>2
<1> HIDE DEF f, x
<1>8. w1 \in CopierType /\ w2 \in CopierType
  BY <1>1, <1>2, <1>5 DEF CopierType
<1>9. /\ w1.pc = k.pc /\ w1.written = k.written /\ w1.subs = k.subs
      /\ w1.chunk = Tail(k.chunk) /\ w1.left = k.subs
      /\ w2.pc = k.pc /\ w2.written = k.written /\ w2.subs = k.subs
      /\ w2.chunk = k.chunk /\ w2.left = Tail(k.left)
  BY <1>1 DEF CopierType
<1> HIDE DEF a
<1>10. b1 \in ForwardType /\ b2 \in ForwardType
  BY <1>6 DEF ForwardType
<1>11. /\ b1.pc = a.pc /\ b1.client = a.client /\ b1.slot = a.slot /\ b1.rest = a.rest
       /\ b1.since = a.since /\ b1.doubled = a.doubled /\ b1.chan = Append(a.chan, x)
       /\ b1.lossy = a.lossy
       /\ b2.pc = a.pc /\ b2.client = a.client /\ b2.slot = a.slot /\ b2.rest = a.rest
       /\ b2.since = a.since /\ b2.doubled = a.doubled /\ b2.chan = a.chan /\ b2.lossy = TRUE
  BY <1>6 DEF ForwardType
<1> HIDE DEF w1, w2, b1, b2, k
<1>12. copier'[p] = (IF Len(k.left) = 1 THEN w1 ELSE w2)
  BY <1>1, <1>7
<1>13. fwd'[f] = (IF Len(a.chan) < ChanSize THEN b1 ELSE b2)
  BY <1>1, <1>5, <1>7
<1> DEFINE w == copier'[p]
           b == fwd'[f]
<1>14. /\ w \in CopierType /\ copier' = [copier EXCEPT ![p] = w]
       /\ w.pc = k.pc /\ w.written = k.written /\ w.subs = k.subs
       /\ \/ Len(k.left) = 1 /\ w.chunk = Tail(k.chunk) /\ w.left = k.subs
          \/ Len(k.left) # 1 /\ w.chunk = k.chunk /\ w.left = Tail(k.left)
  BY <1>7, <1>8, <1>9, <1>12
<1>15. /\ b \in ForwardType /\ fwd' = [fwd EXCEPT ![f] = b]
       /\ b.pc = a.pc /\ b.client = a.client /\ b.slot = a.slot /\ b.rest = a.rest
       /\ b.since = a.since /\ b.doubled = a.doubled
       /\ \/ Len(a.chan) < ChanSize /\ b.chan = Append(a.chan, x) /\ b.lossy = a.lossy
          \/ b.chan = a.chan /\ b.lossy = TRUE
  BY <1>7, <1>10, <1>11, <1>13
<1> HIDE DEF w, b
<1> QED BY <1>3, <1>4, <1>5, <1>14, <1>15 DEF k, f, x, a, w, b

\* The output scanner.
LEMMA ScanOutputMoves ==
  ASSUME TypeInv, NEW p \in Procs, ScanOutput(p)
  PROVE  LET k == copier[p]
             w == copier'[p]
         IN
         /\ w \in CopierType /\ copier' = [copier EXCEPT ![p] = w]
         /\ k.pc = "calling" /\ k.chunk = <<>>
         /\ w.pc = "idle" /\ w.written = k.written /\ w.subs = <<>> /\ w.left = <<>>
         /\ w.chunk = k.chunk
<1> DEFINE k == copier[p]
           w == [k EXCEPT !.pc = "idle", !.subs = <<>>, !.left = <<>>]
<1>1. k \in CopierType /\ copier \in [Procs -> CopierType]
  BY DEF TypeInv
<1>3. copier' = [copier EXCEPT ![p] = w] /\ k.pc = "calling" /\ k.chunk = <<>>
  BY DEF ScanOutput
<1>4. w \in CopierType
  <2>1. <<>> \in Seq(Subs)
    OBVIOUS
  <2> QED BY <1>1, <2>1 DEF CopierType
<1>5. /\ w.pc = "idle" /\ w.written = k.written /\ w.subs = <<>> /\ w.left = <<>>
      /\ w.chunk = k.chunk
  BY <1>1 DEF CopierType
<1> HIDE DEF w
<1>6. copier'[p] = w
  BY <1>1, <1>3
<1> QED BY <1>3, <1>4, <1>5, <1>6

\* The steps of a process that change the position of its copier alone.
LEMMA ProcessMoves ==
  ASSUME TypeInv, NEW p \in Procs,
         \/ StartProcess /\ p = procs + 1
         \/ ProcessEnds(p)
  PROVE  LET k == copier[p]
             w == copier'[p]
         IN
         /\ w \in CopierType /\ copier' = [copier EXCEPT ![p] = w]
         /\ w.pc \in {"idle", "ended"}
         /\ w.written = k.written /\ w.subs = k.subs /\ w.left = k.left
         /\ w.chunk = k.chunk
<1> DEFINE k == copier[p]
           w1 == [k EXCEPT !.pc = "idle"]
           w2 == [k EXCEPT !.pc = "ended"]
<1>1. k \in CopierType /\ copier \in [Procs -> CopierType]
  BY DEF TypeInv
<1>2. w1 \in CopierType /\ w2 \in CopierType
  BY <1>1 DEF CopierType
<1>3. \A w \in {w1, w2} :
        /\ w.pc \in {"idle", "ended"}
        /\ w.written = k.written /\ w.subs = k.subs /\ w.left = k.left
        /\ w.chunk = k.chunk
  BY <1>1 DEF CopierType
<1>4. copier' = [copier EXCEPT ![p] = w1] \/ copier' = [copier EXCEPT ![p] = w2]
  BY DEF StartProcess, ProcessEnds
<1> HIDE DEF w1, w2
<1>5. copier'[p] \in {w1, w2} /\ copier' = [copier EXCEPT ![p] = copier'[p]]
  BY <1>1, <1>4
<1> QED BY <1>2, <1>3, <1>5

\* The messages of the clients stay what they are, though some may have been written.
ClientsKeep ==
  /\ client' \in [Clients -> ClientType]
  /\ \A c \in Clients : /\ Queue(c)' = Queue(c) /\ client'[c].lossy = client[c].lossy
                        /\ Len(client'[c].send) <= Len(client[c].send)

\* Client c gets a message, or loses it because its channel is full.
ClientGets(c, m) ==
  /\ client' \in [Clients -> ClientType]
  /\ \A d \in Clients \ {c} : client'[d] = client[d]
  /\ \/ /\ Queue(c)' = Append(Queue(c), m) /\ client'[c].lossy = client[c].lossy
        /\ Len(client'[c].send) = Len(client[c].send) + 1 /\ Len(client[c].send) < SendSize
     \/ Queue(c)' = Queue(c) /\ client'[c].lossy = TRUE /\ client'[c].send = client[c].send

\* The messages of a client are a sequence.
LEMMA QueueType ==
  ASSUME TypeInv, NEW c \in Clients
  PROVE  /\ Queue(c) \in Seq(Message) /\ client[c].send \in Seq(Message)
         /\ client[c].got \in Seq(Message)
<1>1. client[c] \in ClientType
  BY DEF TypeInv
<1>2. client[c].send \in Seq(Message) /\ client[c].got \in Seq(Message)
  BY <1>1 DEF ClientType
<1> QED BY <1>2 DEF Queue

\* Nothing happens to a client.
LEMMA UnchangedKeep ==
  ASSUME TypeInv, UNCHANGED client
  PROVE  ClientsKeep
<1>1. \A c \in Clients : Len(client[c].send) \in Nat
  BY QueueType
<1> QED BY <1>1 DEF ClientsKeep, TypeInv, Queue

\* Changes of other fields of a client.
LEMMA StatusKeeps ==
  ASSUME TypeInv, NEW c \in Clients, NEW w \in ClientType,
         client' = [client EXCEPT ![c] = w],
         w.got = client[c].got, w.send = client[c].send, w.lossy = client[c].lossy
  PROVE  ClientsKeep
<1>1. client \in [Clients -> ClientType]
  BY DEF TypeInv
<1>2. client' \in [Clients -> ClientType]
  BY <1>1
<1>3. ASSUME NEW d \in Clients
      PROVE  /\ client'[d].got = client[d].got /\ client'[d].send = client[d].send
             /\ client'[d].lossy = client[d].lossy
  BY <1>1, Zenon
<1>4. \A d \in Clients : Len(client[d].send) \in Nat
  BY QueueType
<1>5. ASSUME NEW d \in Clients
      PROVE  /\ Queue(d)' = Queue(d) /\ client'[d].lossy = client[d].lossy
             /\ Len(client'[d].send) <= Len(client[d].send)
  <2>1. /\ client'[d].got = client[d].got /\ client'[d].send = client[d].send
        /\ client'[d].lossy = client[d].lossy /\ Len(client[d].send) \in Nat
    BY <1>3, <1>4
  <2>2. Queue(d)' = Queue(d)
    BY <2>1 DEF Queue
  <2>3. Len(client'[d].send) = Len(client[d].send)
    BY <2>1
  <2> QED BY <2>1, <2>2, <2>3
<1> QED BY <1>2, <1>5 DEF ClientsKeep

\* A client comes.
LEMMA HandleWSKeeps ==
  ASSUME TypeInv, NEW c \in Clients, HandleWS(c)
  PROVE  ClientsKeep
<1> DEFINE w == [client[c] EXCEPT !.pc = "open"]
<1>1. client[c] \in ClientType
  BY DEF TypeInv
<1>2. w \in ClientType /\ w.got = client[c].got /\ w.send = client[c].send /\ w.lossy = client[c].lossy
  BY <1>1 DEF ClientType
<1>3. client' = [client EXCEPT ![c] = w]
  BY DEF HandleWS
<1> HIDE DEF w
<1> QED BY <1>2, <1>3, StatusKeeps

\* A client ends its subscription ...
LEMMA UnsubscribeKeeps ==
  ASSUME TypeInv, NEW c \in Clients, Unsubscribe(c)
  PROVE  ClientsKeep
<1> DEFINE w == [client[c] EXCEPT !.subscribed = FALSE]
<1>1. client[c] \in ClientType
  BY DEF TypeInv
<1>2. w \in ClientType /\ w.got = client[c].got /\ w.send = client[c].send /\ w.lossy = client[c].lossy
  BY <1>1 DEF ClientType
<1>3. client' = [client EXCEPT ![c] = w]
  BY DEF Unsubscribe
<1> HIDE DEF w
<1> QED BY <1>2, <1>3, StatusKeeps

\* ... or its connection ...
LEMMA DisconnectKeeps ==
  ASSUME TypeInv, NEW c \in Clients, Disconnect(c)
  PROVE  ClientsKeep
<1> DEFINE w == [client[c] EXCEPT !.pc = "closing"]
<1>1. client[c] \in ClientType
  BY DEF TypeInv
<1>2. w \in ClientType /\ w.got = client[c].got /\ w.send = client[c].send /\ w.lossy = client[c].lossy
  BY <1>1 DEF ClientType
<1>3. client' = [client EXCEPT ![c] = w]
  BY DEF Disconnect
<1> HIDE DEF w
<1> QED BY <1>2, <1>3, StatusKeeps

\* ... and is removed from the hub.
LEMMA RemoveClientKeeps ==
  ASSUME TypeInv, NEW c \in Clients, RemoveClient(c)
  PROVE  ClientsKeep
<1> DEFINE w == [client[c] EXCEPT !.pc = "gone"]
<1>1. client[c] \in ClientType
  BY DEF TypeInv
<1>2. w \in ClientType /\ w.got = client[c].got /\ w.send = client[c].send /\ w.lossy = client[c].lossy
  BY <1>1 DEF ClientType
<1>3. client' = [client EXCEPT ![c] = w]
  BY DEF RemoveClient
<1> HIDE DEF w
<1> QED BY <1>2, <1>3, StatusKeeps

\* The writer moves a message from the channel to those that are written.
LEMMA WsWriterKeeps ==
  ASSUME TypeInv, NEW c \in Clients, WsWriter(c)
  PROVE  ClientsKeep
<1> DEFINE g == client[c].got
           q == client[c].send
           ng == Append(g, Head(q))
           nq == Tail(q)
           w == [client[c] EXCEPT !.got = ng, !.send = nq]
<1>1. client[c] \in ClientType /\ client \in [Clients -> ClientType]
  BY DEF TypeInv
<1>2. g \in Seq(Message) /\ q \in Seq(Message) /\ q # <<>>
  BY QueueType DEF WsWriter
<1>3. client' = [client EXCEPT ![c] = w]
  BY DEF WsWriter
<1>4. ng \in Seq(Message) /\ nq \in Seq(Message) /\ ng \o nq = g \o q /\ Len(nq) <= Len(q)
  <2> HIDE DEF g, q
  <2>1. ng \in Seq(Message) /\ nq \in Seq(Message) /\ Len(nq) = Len(q) - 1 /\ Len(ng) = Len(g) + 1
        /\ Len(q) \in Nat /\ Len(q) > 0 /\ Len(g) \in Nat
    BY <1>2
  <2>2. \A i \in 1 .. Len(g) : (ng \o nq)[i] = g[i] /\ (g \o q)[i] = g[i]
    BY <1>2, <2>1
  <2>3. \A i \in Len(g) + 1 .. Len(g) + Len(q) :
          (ng \o nq)[i] = q[i - Len(g)] /\ (g \o q)[i] = q[i - Len(g)]
    BY <1>2, <2>1
  <2>4. /\ ng \o nq \in Seq(Message) /\ g \o q \in Seq(Message)
        /\ Len(ng \o nq) = Len(g) + Len(q) /\ Len(g \o q) = Len(g) + Len(q)
    BY <1>2, <2>1
  <2>5. ASSUME NEW i \in 1 .. Len(g) + Len(q) PROVE (ng \o nq)[i] = (g \o q)[i]
    <3>1. CASE i <= Len(g)
      BY <2>1, <2>2, <3>1
    <3>2. CASE i > Len(g)
      BY <2>1, <2>3, <3>2
    <3> QED BY <2>1, <3>1, <3>2
  <2> DEFINE a == ng \o nq
             b == g \o q
  <2> HIDE DEF a, b
  <2>6. a = b
    <3>1. /\ a \in Seq(Message) /\ b \in Seq(Message) /\ Len(a) = Len(b)
          /\ \A i \in 1 .. Len(a) : a[i] = b[i]
      BY <2>1, <2>4, <2>5 DEF a, b
    <3> QED BY <3>1
  <2> QED BY <2>1, <2>6 DEF a, b
<1> HIDE DEF g, q, ng, nq
<1>5. w \in ClientType /\ w.got = ng /\ w.send = nq /\ w.lossy = client[c].lossy
  BY <1>1, <1>4 DEF ClientType
<1> HIDE DEF w
<1>6. client' \in [Clients -> ClientType] /\ client'[c] = w
  BY <1>1, <1>3, <1>5
<1>7. \A d \in Clients \ {c} : client'[d] = client[d]
  BY <1>1, <1>3
<1>8. \A d \in Clients : Len(client[d].send) \in Nat
  BY QueueType
<1>9. ASSUME NEW d \in Clients
      PROVE  /\ Queue(d)' = Queue(d) /\ client'[d].lossy = client[d].lossy
             /\ Len(client'[d].send) <= Len(client[d].send)
  <2>1. CASE d = c
    BY <1>4, <1>5, <1>6, <2>1 DEF Queue, g, q
  <2>2. CASE d # c
    <3>1. client'[d] = client[d] /\ Len(client[d].send) \in Nat
      BY <1>7, <1>8, <2>2
    <3> QED BY <3>1 DEF Queue
  <2> QED BY <2>1, <2>2
<1> QED BY <1>6, <1>9 DEF ClientsKeep

\* What the client of a sent message has afterwards.
LEMMA SentGets ==
  ASSUME TypeInv, NEW c \in Clients, NEW m \in Message, client' = Sent(c, m)
  PROVE  ClientGets(c, m)
<1>1. client \in [Clients -> ClientType]
  BY DEF TypeInv
<1> DEFINE g == client[c].got
           q == client[c].send
<1>2. g \in Seq(Message) /\ q \in Seq(Message)
  BY QueueType
<1>3. g \o Append(q, m) = Append(g \o q, m) /\ Len(Append(q, m)) = Len(q) + 1
  <2> HIDE DEF g, q
  <2> QED BY <1>2
<1>4. /\ client' \in [Clients -> ClientType]
      /\ \A d \in Clients : d # c => client'[d] = client[d]
      /\ client'[c].got = g
      /\ \/ Len(q) < SendSize /\ client'[c].send = Append(q, m) /\ client'[c].lossy = client[c].lossy
         \/ client'[c].send = q /\ client'[c].lossy = TRUE
  BY <1>1, SentTypes
<1>5. CASE Len(q) < SendSize /\ client'[c].send = Append(q, m) /\ client'[c].lossy = client[c].lossy
  <2>1. Queue(c)' = Append(Queue(c), m)
    BY <1>3, <1>4, <1>5 DEF Queue
  <2> QED BY <1>3, <1>4, <1>5, <2>1 DEF ClientGets
<1>6. CASE client'[c].send = q /\ client'[c].lossy = TRUE
  <2>1. Queue(c)' = Queue(c)
    BY <1>4, <1>6 DEF Queue
  <2> QED BY <1>4, <1>6, <2>1 DEF ClientGets
<1> QED BY <1>4, <1>5, <1>6

-----------------------------------------------------------------------------
\* What the steps of a subscription do to its record and to its client.
ForwardBecomes(f, w) == w \in ForwardType /\ fwd' = [fwd EXCEPT ![f] = w]

\* Lines that are not told yet are lines.
LEMMA UntoldType ==
  ASSUME TypeInv, NEW p \in Procs
  PROVE  Untold(p) \in SUBSET Line
<1>1. copier[p] \in CopierType
  BY DEF TypeInv
<1>2. copier[p].chunk \in Seq(Line)
  BY <1>1 DEF CopierType
<1>3. ToSet(copier[p].chunk) \in SUBSET Line
  BY <1>2 DEF ToSet
<1> QED BY <1>3 DEF Untold

\* A client subscribes.
LEMMA SubscribeMoves ==
  ASSUME TypeInv, RingInv, ForwardsInv, NEW c \in Clients, Subscribe(c)
  PROVE  LET f == drawn + 1
             w == fwd'[f]
         IN
         /\ f \in Subs /\ fwd[f] = NoForward /\ drawn' = f
         /\ ForwardBecomes(f, w) /\ w.pc = "snapshot" /\ w.client = c
         /\ w.rest = LastOf(log, IF Backlog < Size THEN Backlog ELSE Size)
         /\ w.chan = <<>> /\ w.slot = 0 /\ w.doubled = UNION {Untold(p) : p \in Procs}
         /\ ClientsKeep
<1> DEFINE f == drawn + 1
           rest == Lines(ring, Backlog)
           doubled == UNION {Untold(p) : p \in Procs}
           w == [fwd[f] EXCEPT !.pc = "snapshot", !.client = c, !.rest = rest,
                               !.doubled = doubled]
           v == [client[c] EXCEPT !.subscribed = TRUE, !.busy = f]
<1>1. f \in Subs /\ f > drawn /\ f \in Nat
  BY LimitFacts, StreamAssumption DEF Subscribe, Subs
<1>2. fwd \in [Subs -> ForwardType] /\ fwd[f] \in ForwardType
  BY <1>1 DEF TypeInv
<1>3. fwd[f] = NoForward
  BY <1>1 DEF ForwardsInv
<1>4. rest \in Seq(Line) /\ rest = LastOf(log, IF Backlog < Size THEN Backlog ELSE Size)
  BY LinesAreLast, StreamAssumption DEF TypeInv, RingInv
<1>5. doubled \in SUBSET Line
  BY UntoldType
<1>6. /\ fwd' = [fwd EXCEPT ![f] = w] /\ client' = [client EXCEPT ![c] = v]
      /\ drawn' = f
  BY DEF Subscribe
<1> HIDE DEF rest, doubled
<1>7. w \in ForwardType
  <2>1. fwd[f].client \in Clients \cup {"none"}
    BY <1>2 DEF ForwardType
  <2> QED BY <1>2, <1>4, <1>5 DEF ForwardType
<1>8. /\ w.pc = "snapshot" /\ w.client = c /\ w.rest = rest /\ w.doubled = doubled
      /\ w.chan = fwd[f].chan /\ w.slot = fwd[f].slot
  BY <1>2 DEF ForwardType
<1>9. client[c] \in ClientType
  BY DEF TypeInv
<1> HIDE DEF f
<1>10. v \in ClientType /\ v.got = client[c].got /\ v.send = client[c].send /\ v.lossy = client[c].lossy
  BY <1>1, <1>9 DEF ClientType
<1> HIDE DEF w, v
<1>11. ClientsKeep
  BY <1>6, <1>10, StatusKeeps
<1>12. fwd'[f] = w
  BY <1>1, <1>2, <1>6
<1>13. NoForward.chan = <<>> /\ NoForward.slot = 0
  BY DEF NoForward
<1> QED BY <1>1, <1>3, <1>4, <1>6, <1>7, <1>8, <1>11, <1>12, <1>13 DEF f, doubled, ForwardBecomes

\* The subscription is registered, and takes the lines of the buffer.
LEMMA SubscribeLogsMoves ==
  ASSUME TypeInv, NEW f \in Subs, SubscribeLogs(f)
  PROVE  LET a == fwd[f]
             w == fwd'[f]
         IN
         /\ a.pc = "snapshot" /\ ForwardBecomes(f, w)
         /\ w.pc = "backfill" /\ w.slot = Len(listeners) + 1 /\ w.since = Len(log)
         /\ w.client = a.client /\ w.rest = a.rest /\ w.chan = a.chan
         /\ w.doubled = a.doubled /\ w.lossy = a.lossy
         /\ listeners' = Append(listeners, f)
<1> DEFINE a == fwd[f]
           slot == Len(listeners) + 1
           since == Len(log)
           w == [a EXCEPT !.pc = "backfill", !.slot = slot, !.since = since]
<1>1. fwd \in [Subs -> ForwardType] /\ a \in ForwardType
  BY DEF TypeInv
<1>2. slot \in Nat /\ since \in Nat
  BY DEF TypeInv
<1>3. fwd' = [fwd EXCEPT ![f] = w] /\ a.pc = "snapshot" /\ listeners' = Append(listeners, f)
  BY DEF SubscribeLogs
<1> HIDE DEF slot, since
<1>4. w \in ForwardType
  BY <1>1, <1>2 DEF ForwardType
<1>5. /\ w.pc = "backfill" /\ w.slot = slot /\ w.since = since
      /\ w.client = a.client /\ w.rest = a.rest /\ w.chan = a.chan
      /\ w.doubled = a.doubled /\ w.lossy = a.lossy
  BY <1>1 DEF ForwardType
<1> HIDE DEF w
<1>6. fwd'[f] = w
  BY <1>1, <1>3
<1> QED BY <1>3, <1>4, <1>5, <1>6 DEF ForwardBecomes, slot, since

\* Sending them.
LEMMA BackfillMoves ==
  ASSUME TypeInv, ForwardsInv, NEW f \in Subs, Backfill(f)
  PROVE  LET a == fwd[f]
             w == fwd'[f]
         IN
         /\ a.pc = "backfill" /\ a.client \in Clients /\ ForwardBecomes(f, w)
         /\ w.slot = a.slot /\ w.since = a.since /\ w.client = a.client /\ w.chan = a.chan
         /\ w.doubled = a.doubled /\ w.lossy = a.lossy
         /\ \/ /\ a.rest # <<>> /\ w.pc = "backfill" /\ w.rest = Tail(a.rest)
               /\ Head(a.rest) \in Line /\ ClientGets(a.client, LineOf(f, Head(a.rest)))
            \/ a.rest = <<>> /\ w.pc = "live" /\ w.rest = <<>> /\ ClientsKeep
<1> DEFINE a == fwd[f]
           c == a.client
           w1 == [a EXCEPT !.rest = Tail(a.rest)]
           w2 == [a EXCEPT !.pc = "live"]
           v == [client[c] EXCEPT !.busy = 0]
<1>1. fwd \in [Subs -> ForwardType] /\ a \in ForwardType
  BY DEF TypeInv
<1>2. a.pc = "backfill" /\ c \in Clients
  <2>1. a.pc = "backfill"
    BY DEF Backfill
  <2> QED BY <2>1 DEF ForwardsInv, ForwardOk
<1>3. a.rest \in Seq(Line)
  BY <1>1 DEF ForwardType
<1>4. CASE a.rest # <<>>
  <2>1. Head(a.rest) \in Line /\ Tail(a.rest) \in Seq(Line)
    BY <1>3, <1>4
  <2>2. w1 \in ForwardType
    BY <1>1, <2>1 DEF ForwardType
  <2>3. /\ w1.pc = a.pc /\ w1.rest = Tail(a.rest)
        /\ w1.slot = a.slot /\ w1.since = a.since /\ w1.client = a.client /\ w1.chan = a.chan
        /\ w1.doubled = a.doubled /\ w1.lossy = a.lossy
    BY <1>1 DEF ForwardType
  <2>4. fwd' = [fwd EXCEPT ![f] = w1] /\ client' = Sent(c, LineOf(f, Head(a.rest)))
    BY <1>4 DEF Backfill
  <2>5. LineOf(f, Head(a.rest)) \in Message
    BY <2>1, MessagesType
  <2>6. ClientGets(c, LineOf(f, Head(a.rest)))
    BY <1>2, <2>4, <2>5, SentGets
  <2> HIDE DEF w1
  <2>7. fwd'[f] = w1
    BY <1>1, <2>4
  <2> QED BY <1>2, <1>4, <2>1, <2>2, <2>3, <2>4, <2>6, <2>7 DEF ForwardBecomes
<1>5. CASE a.rest = <<>>
  <2>2. w2 \in ForwardType
    BY <1>1 DEF ForwardType
  <2>3. /\ w2.pc = "live" /\ w2.rest = a.rest
        /\ w2.slot = a.slot /\ w2.since = a.since /\ w2.client = a.client /\ w2.chan = a.chan
        /\ w2.doubled = a.doubled /\ w2.lossy = a.lossy
    BY <1>1 DEF ForwardType
  <2>4. fwd' = [fwd EXCEPT ![f] = w2] /\ client' = [client EXCEPT ![c] = v]
    BY <1>5 DEF Backfill
  <2>5. client[c] \in ClientType
    BY <1>2 DEF TypeInv
  <2>6. v \in ClientType /\ v.got = client[c].got /\ v.send = client[c].send /\ v.lossy = client[c].lossy
    BY <2>5 DEF ClientType
  <2> HIDE DEF w2, v
  <2>7. ClientsKeep
    BY <1>2, <2>4, <2>6, StatusKeeps
  <2>8. fwd'[f] = w2
    BY <1>1, <2>4
  <2> QED BY <1>2, <1>5, <2>2, <2>3, <2>4, <2>7, <2>8 DEF ForwardBecomes
<1> QED BY <1>4, <1>5

\* A forwarder that ends.
LEMMA EndsMoves ==
  ASSUME TypeInv, NEW f \in Subs,
         fwd' = [fwd EXCEPT ![f].pc = "ended", ![f].chan = <<>>]
  PROVE  LET a == fwd[f]
             w == fwd'[f]
         IN
         /\ ForwardBecomes(f, w)
         /\ w.slot = a.slot /\ w.since = a.since /\ w.client = a.client /\ w.chan = <<>>
         /\ w.doubled = a.doubled /\ w.lossy = a.lossy /\ w.rest = a.rest /\ w.pc = "ended"
<1> DEFINE a == fwd[f]
           w == [a EXCEPT !.pc = "ended", !.chan = <<>>]
<1>1. fwd \in [Subs -> ForwardType] /\ a \in ForwardType
  BY DEF TypeInv
<1>2. <<>> \in Seq(Line)
  OBVIOUS
<1>3. fwd' = [fwd EXCEPT ![f] = w]
  BY DEF Backfill
<1>4. w \in ForwardType
  BY <1>1, <1>2 DEF ForwardType
<1>5. /\ w.slot = a.slot /\ w.since = a.since /\ w.client = a.client /\ w.chan = <<>>
      /\ w.doubled = a.doubled /\ w.lossy = a.lossy /\ w.rest = a.rest /\ w.pc = "ended"
  BY <1>1 DEF ForwardType
<1> HIDE DEF w
<1>6. fwd'[f] = w
  BY <1>1, <1>3
<1> QED BY <1>3, <1>4, <1>5, <1>6 DEF ForwardBecomes

\* Sending a line that was told.
LEMMA ForwardMoves ==
  ASSUME TypeInv, ForwardsInv, NEW f \in Subs, Forward(f)
  PROVE  LET a == fwd[f]
             w == fwd'[f]
         IN
         /\ a.pc = "live" /\ a.client \in Clients /\ a.chan # <<>> /\ ForwardBecomes(f, w)
         /\ w.slot = a.slot /\ w.since = a.since /\ w.client = a.client /\ w.rest = a.rest
         /\ w.doubled = a.doubled /\ w.lossy = a.lossy
         /\ \/ /\ w.pc = a.pc /\ w.chan = Tail(a.chan) /\ UNCHANGED listeners
               /\ Head(a.chan) \in Line /\ ClientGets(a.client, LineOf(f, Head(a.chan)))
            \/ /\ w.pc = "ended" /\ w.chan = <<>> /\ ClientsKeep
               /\ listeners' = Unsubscribed(a.slot)
<1> DEFINE a == fwd[f]
           c == a.client
           w1 == [a EXCEPT !.chan = Tail(a.chan)]
<1>1. fwd \in [Subs -> ForwardType] /\ a \in ForwardType
  BY DEF TypeInv
<1>2. a.pc = "live" /\ c \in Clients /\ a.chan # <<>>
  <2>1. a.pc = "live" /\ a.chan # <<>>
    BY DEF Forward
  <2> QED BY <2>1 DEF ForwardsInv, ForwardOk
<1>3. a.chan \in Seq(Line)
  BY <1>1 DEF ForwardType
<1>4. CASE client[c].subscribed
  <2>1. Head(a.chan) \in Line /\ Tail(a.chan) \in Seq(Line)
    BY <1>2, <1>3
  <2>2. w1 \in ForwardType
    BY <1>1, <2>1 DEF ForwardType
  <2>3. /\ w1.pc = a.pc /\ w1.rest = a.rest
        /\ w1.slot = a.slot /\ w1.since = a.since /\ w1.client = a.client
        /\ w1.chan = Tail(a.chan)
        /\ w1.doubled = a.doubled /\ w1.lossy = a.lossy
    BY <1>1 DEF ForwardType
  <2>4. /\ fwd' = [fwd EXCEPT ![f] = w1] /\ client' = Sent(c, LineOf(f, Head(a.chan)))
        /\ UNCHANGED listeners
    BY <1>4 DEF Forward
  <2>5. LineOf(f, Head(a.chan)) \in Message
    BY <2>1, MessagesType
  <2>6. ClientGets(c, LineOf(f, Head(a.chan)))
    BY <1>2, <2>4, <2>5, SentGets
  <2> HIDE DEF w1
  <2>7. fwd'[f] = w1
    BY <1>1, <2>4
  <2> QED BY <1>2, <2>1, <2>2, <2>3, <2>4, <2>6, <2>7 DEF ForwardBecomes
<1>5. CASE ~client[c].subscribed
  <2>1. /\ fwd' = [fwd EXCEPT ![f].pc = "ended", ![f].chan = <<>>] /\ UNCHANGED client
        /\ listeners' = Unsubscribed(a.slot)
    BY <1>5 DEF Forward
  <2>2. ClientsKeep
    BY <2>1, UnchangedKeep
  <2> QED BY <1>2, <2>1, <2>2, EndsMoves
<1> QED BY <1>4, <1>5

\* The end of the forwarder.
LEMMA ForwardDoneMoves ==
  ASSUME TypeInv, ForwardsInv, NEW f \in Subs, ForwardDone(f)
  PROVE  LET a == fwd[f]
             w == fwd'[f]
         IN
         /\ a.pc = "live" /\ ForwardBecomes(f, w)
         /\ w.slot = a.slot /\ w.since = a.since /\ w.client = a.client /\ w.chan = <<>>
         /\ w.doubled = a.doubled /\ w.lossy = a.lossy /\ w.rest = a.rest /\ w.pc = "ended"
         /\ listeners' = Unsubscribed(a.slot)
<1>1. /\ fwd' = [fwd EXCEPT ![f].pc = "ended", ![f].chan = <<>>] /\ fwd[f].pc = "live"
      /\ listeners' = Unsubscribed(fwd[f].slot)
  BY DEF ForwardDone
<1> QED BY <1>1, EndsMoves

\* The scanners, and what an event that is broadcast does.
LEMMA ScanTypes ==
  ASSUME TypeInv, NEW p \in Procs,
         \/ StartProcess \/ ScanOutput(p) \/ IdleTimer(p) \/ OnIdle(p) \/ ProcessEnds(p)
  PROVE  scan' \in [Procs -> ScanType]
<1> DEFINE s == scan[p]
<1>1. scan \in [Procs -> ScanType] /\ limit.idle \in BOOLEAN
  BY LimitFacts DEF TypeInv
<1>2. s \in ScanType
  BY <1>1
<1>3. CASE StartProcess
  <2> DEFINE q == procs + 1
             w == [scan[q] EXCEPT !.armed = limit.idle]
  <2>1. scan' = [scan EXCEPT ![q] = w]
    BY <1>3 DEF StartProcess
  <2>2. q \in Procs => w \in ScanType
    BY <1>1 DEF ScanType
  <2> HIDE DEF w, ScanType
  <2> QED BY <1>1, <2>1, <2>2
<1>4. CASE ScanOutput(p)
  <2> DEFINE w == [s EXCEPT !.fired = FALSE, !.told = 0, !.armed = limit.idle]
  <2>1. scan' = [scan EXCEPT ![p] = w]
    BY <1>4 DEF ScanOutput
  <2>2. w \in ScanType
    BY <1>1, <1>2 DEF ScanType
  <2> HIDE DEF w
  <2> QED BY <1>1, <2>1, <2>2
<1>5. CASE IdleTimer(p)
  <2> DEFINE w == [s EXCEPT !.armed = FALSE, !.ringing = TRUE]
  <2>1. scan' = [scan EXCEPT ![p] = w]
    BY <1>5 DEF IdleTimer
  <2>2. w \in ScanType
    BY <1>2 DEF ScanType
  <2> HIDE DEF w
  <2> QED BY <1>1, <2>1, <2>2
<1>6. CASE OnIdle(p)
  <2> DEFINE told == IF MayTell(s) THEN s.told + 1 ELSE s.told
             w == [s EXCEPT !.ringing = FALSE, !.fired = TRUE, !.told = told]
  <2>1. scan' = [scan EXCEPT ![p] = w]
    BY <1>6 DEF OnIdle
  <2>2. told \in Nat
    <3>1. s.told \in Nat
      BY <1>2 DEF ScanType
    <3> QED BY <3>1
  <2> HIDE DEF told
  <2>3. w \in ScanType
    BY <1>2, <2>2 DEF ScanType
  <2> HIDE DEF w
  <2> QED BY <1>1, <2>1, <2>3
<1>7. CASE ProcessEnds(p)
  <2> DEFINE w == [scan[procs] EXCEPT !.stopped = TRUE, !.armed = FALSE]
  <2>1. scan' = [scan EXCEPT ![procs] = w]
    BY <1>7 DEF ProcessEnds
  <2>2. procs \in Procs => w \in ScanType
    BY <1>1 DEF ScanType
  <2> HIDE DEF w, ScanType
  <2> QED BY <1>1, <2>1, <2>2
<1> QED BY <1>3, <1>4, <1>5, <1>6, <1>7

\* A broadcast begins.
LEMMA CastMoves ==
  ASSUME TypeInv, Cast
  PROVE  /\ emitted' \in 0 .. limit.events /\ cast' \in [Events -> CastType]
         /\ \/ UNCHANGED eventVars
            \/ /\ emitted' = emitted + 1 /\ emitted + 1 \in Events
               /\ cast'[emitted + 1].to = hub /\ cast'[emitted + 1].left = hub
               /\ \A e \in Events : e # emitted + 1 => cast'[e] = cast[e]
<1> DEFINE e == emitted + 1
           w == [to |-> hub, left |-> hub]
<1>1. cast \in [Events -> CastType] /\ hub \in SUBSET Clients /\ emitted \in 0 .. limit.events
  BY DEF TypeInv
<1>2. limit.events \in Nat /\ limit.events <= MaxEvents /\ emitted \in Nat
  BY LimitFacts
<1>3. CASE emitted = limit.events
  BY <1>1, <1>3 DEF Cast, eventVars
<1>4. CASE emitted # limit.events
  <2>1. emitted' = e /\ cast' = [cast EXCEPT ![e] = w]
    BY <1>4 DEF Cast
  <2>2. e \in Events /\ e \in 0 .. limit.events
    BY <1>1, <1>2, <1>4, StreamAssumption DEF Events
  <2>3. w \in CastType /\ w.to = hub /\ w.left = hub
    BY <1>1 DEF CastType
  <2> HIDE DEF w, CastType
  <2>4. cast'[e] = w /\ \A d \in Events : d # e => cast'[d] = cast[d]
    BY <1>1, <2>1, <2>2
  <2>5. cast' \in [Events -> CastType]
    BY <1>1, <2>1, <2>3
  <2> QED BY <2>1, <2>2, <2>3, <2>4, <2>5
<1> QED BY <1>3, <1>4

\* The idle timer fires.
LEMMA OnIdleMoves ==
  ASSUME TypeInv, NEW p \in Procs, OnIdle(p)
  PROVE  /\ emitted' \in 0 .. limit.events /\ cast' \in [Events -> CastType]
         /\ Cast \/ UNCHANGED eventVars
<1>1. Cast \/ UNCHANGED eventVars
  BY DEF OnIdle
<1>2. emitted \in 0 .. limit.events /\ cast \in [Events -> CastType]
  BY DEF TypeInv
<1> QED BY <1>1, <1>2, CastMoves DEF eventVars

\* A broadcast reaches one client.
LEMMA BroadcastMoves ==
  ASSUME TypeInv, NEW e \in Events, NEW c \in Clients, Broadcast(e, c)
  PROVE  /\ cast' \in [Events -> CastType] /\ cast'[e].to = cast[e].to
         /\ cast'[e].left = cast[e].left \ {c} /\ c \in cast[e].left
         /\ \A d \in Events : d # e => cast'[d] = cast[d]
         /\ ClientGets(c, EventMsg(e))
<1> DEFINE w == [cast[e] EXCEPT !.left = cast[e].left \ {c}]
<1>1. cast \in [Events -> CastType] /\ cast[e] \in CastType
  BY DEF TypeInv
<1>2. cast' = [cast EXCEPT ![e] = w] /\ client' = Sent(c, EventMsg(e)) /\ c \in cast[e].left
  BY DEF Broadcast
<1>3. w \in CastType /\ w.to = cast[e].to /\ w.left = cast[e].left \ {c}
  BY <1>1 DEF CastType
<1> HIDE DEF w, CastType
<1>4. cast' \in [Events -> CastType] /\ cast'[e] = w /\ \A d \in Events : d # e => cast'[d] = cast[d]
  BY <1>1, <1>2, <1>3
<1>5. ClientGets(c, EventMsg(e))
  BY <1>2, MessagesType, SentGets
<1> QED BY <1>2, <1>3, <1>4, <1>5

\* A slot that is given back.
LEMMA UnsubscribedType ==
  ASSUME TypeInv, NEW i
  PROVE  /\ Unsubscribed(i) \in Seq({0} \cup Subs) /\ Len(Unsubscribed(i)) = Len(listeners)
         /\ \A j \in DOMAIN listeners : Unsubscribed(i)[j] = IF j = i THEN 0 ELSE listeners[j]
         /\ DOMAIN Unsubscribed(i) = DOMAIN listeners
<1>1. listeners \in Seq({0} \cup Subs)
  BY DEF TypeInv
<1> DEFINE n == Len(listeners)
           T == {0} \cup Subs
           u == [listeners EXCEPT ![i] = 0]
<1>2. n \in Nat /\ listeners \in [1 .. n -> T] /\ DOMAIN listeners = 1 .. n
  BY <1>1
<1>3. 0 \in T
  OBVIOUS
<1> HIDE DEF T
<1>4. /\ u \in [1 .. n -> T] /\ DOMAIN u = 1 .. n
      /\ \A j \in 1 .. n : u[j] = IF j = i THEN 0 ELSE listeners[j]
  BY <1>2, <1>3
<1> HIDE DEF u
<1>5. u \in Seq(T) /\ Len(u) = n
  BY <1>2, <1>4
<1> QED BY <1>2, <1>4, <1>5 DEF Unsubscribed, u, T

\* Every step keeps the types.
LEMMA TypeStep ==
  ASSUME TypeInv, RingInv, CopiersInv, ForwardsInv, [Next]_vars
  PROVE  TypeInv'
<1> USE DEF TypeInv
<1>0. ASSUME NEW f, NEW w, f \in Subs, ForwardBecomes(f, w) PROVE fwd' \in [Subs -> ForwardType]
  BY <1>0 DEF ForwardBecomes
<1>1. CASE StartProcess
  <2>1. procs + 1 \in Procs /\ procs' \in 0 .. limit.procs
    <3>1. procs < limit.procs /\ procs' = procs + 1
      BY <1>1 DEF StartProcess
    <3>2. procs + 1 \in 1 .. MaxProcs /\ procs + 1 \in 0 .. limit.procs
      BY <3>1, LimitFacts, StreamAssumption
    <3> QED BY <3>1, <3>2 DEF Procs
  <2>2. copier' \in [Procs -> CopierType]
    <3> DEFINE p == procs + 1
    <3>1. copier'[p] \in CopierType /\ copier' = [copier EXCEPT ![p] = copier'[p]]
      BY <1>1, <2>1, ProcessMoves
    <3> HIDE DEF p
    <3> QED BY <3>1
  <2>3. scan' \in [Procs -> ScanType]
    BY <1>1, <2>1, ScanTypes
  <2> QED BY <1>1, <2>1, <2>2, <2>3 DEF StartProcess, bufferVars, eventVars
<1>2. ASSUME NEW p \in Procs, NEW n \in 0 .. limit.lines, WriteLines(p, n) PROVE TypeInv'
  <2> DEFINE chunk == [i \in 1 .. n |-> [by |-> p, no |-> copier[p].written + i]]
  <2>1. /\ copier'[p] \in CopierType /\ copier' = [copier EXCEPT ![p] = copier'[p]]
        /\ chunk \in Seq(Line)
    BY <1>2, WriteLinesMoves
  <2>2. copier' \in [Procs -> CopierType]
    BY <2>1
  <2>3. ring' = PutAll(ring, chunk) /\ log' = log \o chunk
    BY <1>2 DEF WriteLines
  <2> HIDE DEF chunk
  <2>4. ring' \in RingType /\ log' \in Seq(Line)
    BY <2>1, <2>3, PutAllRing DEF RingInv
  <2> QED BY <1>2, <2>2, <2>4 DEF WriteLines, eventVars
<1>3. ASSUME NEW p \in Procs, CopySubscribers(p) PROVE TypeInv'
  <2>1. copier'[p] \in CopierType /\ copier' = [copier EXCEPT ![p] = copier'[p]]
    BY <1>3, CopySubscribersMoves
  <2>2. copier' \in [Procs -> CopierType]
    BY <2>1
  <2> QED BY <1>3, <2>2 DEF CopySubscribers, bufferVars, eventVars
<1>4. ASSUME NEW p \in Procs, CallSubscriber(p) PROVE TypeInv'
  <2> DEFINE f == Head(copier[p].left)
  <2>1. /\ copier'[p] \in CopierType /\ copier' = [copier EXCEPT ![p] = copier'[p]]
        /\ f \in Subs /\ fwd'[f] \in ForwardType /\ fwd' = [fwd EXCEPT ![f] = fwd'[f]]
    BY <1>4, CallSubscriberMoves
  <2> HIDE DEF f
  <2>2. copier' \in [Procs -> CopierType] /\ fwd' \in [Subs -> ForwardType]
    BY <2>1
  <2> QED BY <1>4, <2>2 DEF CallSubscriber, bufferVars, eventVars
<1>5. ASSUME NEW p \in Procs, ScanOutput(p) PROVE TypeInv'
  <2>1. copier'[p] \in CopierType /\ copier' = [copier EXCEPT ![p] = copier'[p]]
    BY <1>5, ScanOutputMoves
  <2>2. copier' \in [Procs -> CopierType] /\ scan' \in [Procs -> ScanType]
    BY <1>5, <2>1, ScanTypes
  <2> QED BY <1>5, <2>2 DEF ScanOutput, bufferVars, eventVars
<1>6. ASSUME NEW p \in Procs, IdleTimer(p) PROVE TypeInv'
  <2>1. scan' \in [Procs -> ScanType]
    BY <1>6, ScanTypes
  <2> QED BY <1>6, <2>1 DEF IdleTimer, bufferVars, eventVars
<1>7. ASSUME NEW p \in Procs, OnIdle(p) PROVE TypeInv'
  <2>1. scan' \in [Procs -> ScanType]
    BY <1>7, ScanTypes
  <2>2. emitted' \in 0 .. limit.events /\ cast' \in [Events -> CastType]
    BY <1>7, OnIdleMoves
  <2> QED BY <1>7, <2>1, <2>2 DEF OnIdle, bufferVars
<1>8. ASSUME NEW p \in Procs, ProcessEnds(p) PROVE TypeInv'
  <2>1. copier'[p] \in CopierType /\ copier' = [copier EXCEPT ![p] = copier'[p]]
    BY <1>8, ProcessMoves
  <2>2. copier' \in [Procs -> CopierType] /\ scan' \in [Procs -> ScanType]
    BY <1>8, <2>1, ScanTypes
  <2> QED BY <1>8, <2>2 DEF ProcessEnds, bufferVars, eventVars
<1>9. ASSUME NEW f \in Subs, SubscribeLogs(f) PROVE TypeInv'
  <2>1. ForwardBecomes(f, fwd'[f]) /\ listeners' = Append(listeners, f)
    BY <1>9, SubscribeLogsMoves
  <2>2. fwd' \in [Subs -> ForwardType] /\ listeners' \in Seq({0} \cup Subs)
    BY <1>0, <2>1
  <2> QED BY <1>9, <2>2 DEF SubscribeLogs, procVars, eventVars
<1>10. ASSUME NEW f \in Subs, Backfill(f) PROVE TypeInv'
  <2>1. ForwardBecomes(f, fwd'[f]) /\ client' \in [Clients -> ClientType]
    BY <1>10, BackfillMoves DEF ClientGets, ClientsKeep
  <2>2. fwd' \in [Subs -> ForwardType]
    BY <1>0, <2>1
  <2> QED BY <1>10, <2>1, <2>2 DEF Backfill, bufferVars, procVars, eventVars
<1>11. ASSUME NEW f \in Subs, Forward(f) PROVE TypeInv'
  <2>1. /\ ForwardBecomes(f, fwd'[f]) /\ client' \in [Clients -> ClientType]
        /\ UNCHANGED listeners \/ listeners' = Unsubscribed(fwd[f].slot)
    BY <1>11, ForwardMoves DEF ClientGets, ClientsKeep
  <2>2. fwd' \in [Subs -> ForwardType] /\ listeners' \in Seq({0} \cup Subs)
    BY <1>0, <2>1, UnsubscribedType
  <2> QED BY <1>11, <2>1, <2>2 DEF Forward, procVars, eventVars
<1>12. ASSUME NEW f \in Subs, ForwardDone(f) PROVE TypeInv'
  <2>1. /\ ForwardBecomes(f, fwd'[f]) /\ listeners' = Unsubscribed(fwd[f].slot)
    BY <1>12, ForwardDoneMoves
  <2>2. fwd' \in [Subs -> ForwardType] /\ listeners' \in Seq({0} \cup Subs)
    BY <1>0, <2>1, UnsubscribedType
  <2> QED BY <1>12, <2>2 DEF ForwardDone, procVars, eventVars
<1>13. ASSUME NEW c \in Clients, HandleWS(c) PROVE TypeInv'
  <2>1. client' \in [Clients -> ClientType] /\ hub' \in SUBSET Clients
    BY <1>13, HandleWSKeeps DEF HandleWS, ClientsKeep
  <2> QED BY <1>13, <2>1 DEF HandleWS, bufferVars, procVars, eventVars
<1>14. ASSUME NEW c \in Clients, Subscribe(c) PROVE TypeInv'
  <2>1. /\ drawn + 1 \in Subs /\ ForwardBecomes(drawn + 1, fwd'[drawn + 1])
        /\ client' \in [Clients -> ClientType] /\ drawn' = drawn + 1
    BY <1>14, SubscribeMoves DEF ClientsKeep
  <2>2. fwd' \in [Subs -> ForwardType]
    BY <1>0, <2>1
  <2>3. drawn' \in 0 .. limit.subs
    BY <1>14, LimitFacts DEF Subscribe
  <2> QED BY <1>14, <2>1, <2>2, <2>3 DEF Subscribe, bufferVars, procVars, eventVars
<1>15. ASSUME NEW c \in Clients, Unsubscribe(c) PROVE TypeInv'
  <2>1. client' \in [Clients -> ClientType]
    BY <1>15, UnsubscribeKeeps DEF ClientsKeep
  <2> QED BY <1>15, <2>1 DEF Unsubscribe, bufferVars, procVars, eventVars
<1>16. ASSUME NEW c \in Clients, WsWriter(c) PROVE TypeInv'
  <2>1. client' \in [Clients -> ClientType]
    BY <1>16, WsWriterKeeps DEF ClientsKeep
  <2> QED BY <1>16, <2>1 DEF WsWriter, bufferVars, procVars, eventVars
<1>17. ASSUME NEW c \in Clients, Disconnect(c) PROVE TypeInv'
  <2>1. client' \in [Clients -> ClientType]
    BY <1>17, DisconnectKeeps DEF ClientsKeep
  <2> QED BY <1>17, <2>1 DEF Disconnect, bufferVars, procVars, eventVars
<1>18. ASSUME NEW c \in Clients, RemoveClient(c) PROVE TypeInv'
  <2>1. client' \in [Clients -> ClientType] /\ hub' \in SUBSET Clients
    BY <1>18, RemoveClientKeeps DEF RemoveClient, ClientsKeep
  <2> QED BY <1>18, <2>1 DEF RemoveClient, bufferVars, procVars, eventVars
<1>19. ASSUME NEW c \in Clients, NEW e \in Events, Broadcast(e, c) PROVE TypeInv'
  <2>1. client' \in [Clients -> ClientType] /\ cast' \in [Events -> CastType]
    BY <1>19, BroadcastMoves DEF ClientGets
  <2> QED BY <1>19, <2>1 DEF Broadcast, bufferVars, procVars
<1>20. CASE HandleChatEvent
  <2>1. emitted' \in 0 .. limit.events /\ cast' \in [Events -> CastType]
    BY <1>20, CastMoves DEF HandleChatEvent
  <2> QED BY <1>20, <2>1 DEF HandleChatEvent, bufferVars, procVars
<1>21. CASE UNCHANGED vars
  BY <1>21 DEF vars
<1> HIDE DEF TypeInv
<1> QED
  BY <1>1, <1>2, <1>3, <1>4, <1>5, <1>6, <1>7, <1>8, <1>9, <1>10, <1>11, <1>12, <1>13,
     <1>14, <1>15, <1>16, <1>17, <1>18, <1>19, <1>20, <1>21
  DEF Next, CopierStep, IdleStep, ReaderStep

-----------------------------------------------------------------------------
(* Sequences of lines.                                                     *)

\* The elements of the sequences that the model builds.
LEMMA ToSetFacts ==
  ASSUME NEW T, NEW s \in Seq(T), NEW t \in Seq(T)
  PROVE  /\ ToSet(s) \in SUBSET T /\ ToSet(s \o t) = ToSet(s) \cup ToSet(t)
         /\ \A i \in DOMAIN s : s[i] \in ToSet(s)
         /\ \A x \in ToSet(s) : \E i \in DOMAIN s : x = s[i]
         /\ s # <<>> => /\ Head(s) \in ToSet(s) /\ ToSet(s) = {Head(s)} \cup ToSet(Tail(s))
                        /\ Head(s) = s[1]
<1>1. ToSet(s) \in SUBSET T /\ \A i \in DOMAIN s : s[i] \in ToSet(s)
  BY DEF ToSet
<1>2. \A x \in ToSet(s) : \E i \in DOMAIN s : x = s[i]
  BY DEF ToSet
<1>3. ToSet(s \o t) = ToSet(s) \cup ToSet(t)
  <2>1. /\ DOMAIN (s \o t) = 1 .. Len(s) + Len(t) /\ DOMAIN s = 1 .. Len(s) /\ DOMAIN t = 1 .. Len(t)
        /\ Len(s) \in Nat /\ Len(t) \in Nat
        /\ \A i \in 1 .. Len(s) : (s \o t)[i] = s[i]
        /\ \A i \in 1 .. Len(t) : (s \o t)[Len(s) + i] = t[i]
    OBVIOUS
  <2> DEFINE u == s \o t
             n == Len(s)
             m == Len(t)
  <2> HIDE DEF u, n, m
  <2>2. ASSUME NEW x \in ToSet(u) PROVE x \in ToSet(s) \cup ToSet(t)
    <3>1. PICK i \in 1 .. n + m : x = u[i]
      BY <2>1 DEF ToSet, u, n, m
    <3>2. CASE i <= n
      BY <2>1, <3>1, <3>2 DEF ToSet, u, n, m
    <3>3. CASE i > n
      <4>1. i - n \in 1 .. m /\ n + (i - n) = i
        BY <2>1, <3>3 DEF n, m
      <4>2. u[n + (i - n)] = t[i - n]
        BY <2>1, <4>1 DEF u, n, m
      <4>3. x = t[i - n]
        BY <3>1, <4>1, <4>2
      <4> QED BY <2>1, <4>1, <4>3 DEF ToSet, n, m
    <3> QED BY <2>1, <3>2, <3>3 DEF n, m
  <2>3. ASSUME NEW x \in ToSet(s) \cup ToSet(t) PROVE x \in ToSet(u)
    <3>1. CASE x \in ToSet(s)
      <4>1. PICK i \in 1 .. n : x = s[i]
        BY <2>1, <3>1 DEF ToSet, n
      <4>2. i \in 1 .. n + m /\ u[i] = x
        BY <2>1, <4>1 DEF u, n, m
      <4> QED BY <2>1, <4>2 DEF ToSet, u, n, m
    <3>2. CASE x \in ToSet(t)
      <4>1. PICK i \in 1 .. m : x = t[i]
        BY <2>1, <3>2 DEF ToSet, m
      <4>2. n + i \in 1 .. n + m /\ u[n + i] = x
        BY <2>1, <4>1 DEF u, n, m
      <4> QED BY <2>1, <4>2 DEF ToSet, u, n, m
    <3> QED BY <3>1, <3>2
  <2> QED BY <2>2, <2>3 DEF u
<1>4. ASSUME s # <<>>
      PROVE  Head(s) \in ToSet(s) /\ ToSet(s) = {Head(s)} \cup ToSet(Tail(s)) /\ Head(s) = s[1]
  <2>1. /\ 1 \in DOMAIN s /\ DOMAIN s = 1 .. Len(s) /\ Len(s) \in Nat /\ Len(s) > 0
        /\ Head(s) = s[1] /\ DOMAIN Tail(s) = 1 .. Len(s) - 1
        /\ \A i \in 1 .. Len(s) - 1 : Tail(s)[i] = s[i + 1]
    BY <1>4
  <2> DEFINE u == Tail(s)
             n == Len(s)
  <2> HIDE DEF u, n
  <2>2. ASSUME NEW x \in ToSet(s) PROVE x = s[1] \/ x \in ToSet(u)
    <3>1. PICK i \in 1 .. n : x = s[i]
      BY <2>1 DEF ToSet, n
    <3>2. CASE i # 1
      <4>1. i - 1 \in 1 .. n - 1 /\ (i - 1) + 1 = i
        BY <2>1, <3>2 DEF n
      <4>2. u[i - 1] = x
        BY <2>1, <3>1, <4>1 DEF u, n
      <4> QED BY <2>1, <4>1, <4>2 DEF ToSet, u, n
    <3> QED BY <3>1, <3>2
  <2>3. ASSUME NEW x \in ToSet(u) PROVE x \in ToSet(s)
    <3>1. PICK i \in 1 .. n - 1 : x = u[i]
      BY <2>1 DEF ToSet, u, n
    <3>2. i + 1 \in 1 .. n /\ s[i + 1] = x
      BY <2>1, <3>1 DEF u, n
    <3> QED BY <2>1, <3>2 DEF ToSet, n
  <2> QED BY <1>1, <2>1, <2>2, <2>3 DEF u
<1> QED BY <1>1, <1>2, <1>3, <1>4

\* Two ordered sequences after each other.
LEMMA InOrderConcat ==
  ASSUME NEW s \in Seq(Line), NEW t \in Seq(Line), NEW D,
         InOrder(s, D), InOrder(t, D),
         \A x \in ToSet(s), y \in ToSet(t) : Older(x, y, D)
  PROVE  InOrder(s \o t, D)
<1> DEFINE u == s \o t
           n == Len(s)
           m == Len(t)
<1>1. /\ DOMAIN u = 1 .. n + m /\ DOMAIN s = 1 .. n /\ DOMAIN t = 1 .. m
      /\ n \in Nat /\ m \in Nat
      /\ \A i \in 1 .. n : u[i] = s[i] /\ s[i] \in ToSet(s)
      /\ \A i \in 1 .. m : u[n + i] = t[i] /\ t[i] \in ToSet(t)
  BY ToSetFacts
<1> HIDE DEF u, n, m
<1>2. ASSUME NEW i \in 1 .. n + m, NEW j \in 1 .. n + m, i < j PROVE Older(u[i], u[j], D)
  <2>0. \A k \in 1 .. n + m : k > n => k - n \in 1 .. m /\ u[k] = t[k - n]
    <3> SUFFICES ASSUME NEW k \in 1 .. n + m, k > n PROVE k - n \in 1 .. m /\ u[k] = t[k - n]
      OBVIOUS
    <3>1. k - n \in 1 .. m /\ n + (k - n) = k
      BY <1>1
    <3>2. u[n + (k - n)] = t[k - n]
      BY <1>1, <3>1
    <3> QED BY <3>1, <3>2
  <2>1. CASE j <= n
    BY <1>1, <1>2, <2>1 DEF InOrder
  <2>2. CASE i > n
    <3>1. i - n \in 1 .. m /\ j - n \in 1 .. m /\ i - n < j - n /\ u[i] = t[i - n] /\ u[j] = t[j - n]
      BY <1>1, <1>2, <2>0, <2>2
    <3> QED BY <1>1, <3>1 DEF InOrder
  <2>3. CASE i <= n /\ j > n
    <3>1. u[i] \in ToSet(s) /\ u[j] \in ToSet(t)
      BY <1>1, <2>0, <2>3
    <3> QED BY <3>1
  <2> QED BY <1>1, <1>2, <2>1, <2>2, <2>3
<1> QED BY <1>1, <1>2 DEF InOrder, u

\* Sequence t consists of elements of s, in their order.
Within(t, s) ==
  \E h \in [DOMAIN t -> DOMAIN s] :
    /\ \A i \in DOMAIN t : t[i] = s[h[i]]
    /\ \A i, j \in DOMAIN t : i < j => h[i] < h[j]

\* A sequence within an ordered one is ordered.
LEMMA InOrderWithin ==
  ASSUME NEW s, NEW t, NEW D, Within(t, s), InOrder(s, D)
  PROVE  InOrder(t, D) /\ ToSet(t) \subseteq ToSet(s)
<1>1. PICK h \in [DOMAIN t -> DOMAIN s] :
        /\ \A i \in DOMAIN t : t[i] = s[h[i]]
        /\ \A i, j \in DOMAIN t : i < j => h[i] < h[j]
  BY DEF Within
<1> QED BY <1>1 DEF InOrder, ToSet

\* The tail of a sequence is within it ...
LEMMA TailWithin ==
  ASSUME NEW T, NEW s \in Seq(T), s # <<>>
  PROVE  Within(Tail(s), s)
<1> DEFINE h == [i \in DOMAIN Tail(s) |-> i + 1]
<1>1. /\ DOMAIN s = 1 .. Len(s) /\ Len(s) \in Nat /\ Len(s) > 0
      /\ DOMAIN Tail(s) = 1 .. Len(s) - 1
      /\ \A i \in 1 .. Len(s) - 1 : Tail(s)[i] = s[i + 1]
  OBVIOUS
<1> DEFINE n == Len(s)
           t == Tail(s)
<1> HIDE DEF n, t
<1>2. h \in [DOMAIN t -> DOMAIN s] /\ \A i \in DOMAIN t : t[i] = s[h[i]]
  BY <1>1 DEF n, t
<1>3. \A i, j \in DOMAIN t : i < j => h[i] < h[j]
  BY <1>1 DEF n, t
<1> HIDE DEF h
<1>4. Within(t, s)
  BY <1>2, <1>3 DEF Within
<1> QED BY <1>4 DEF t

\* ... and so is a subsequence.
LEMMA SubSeqWithin ==
  ASSUME NEW T, NEW s \in Seq(T), NEW a \in Nat \ {0}
  PROVE  Within(SubSeq(s, a, Len(s)), s)
<1> DEFINE t == SubSeq(s, a, Len(s))
           h == [i \in DOMAIN t |-> a + i - 1]
           n == Len(s)
<1>1. /\ DOMAIN s = 1 .. n /\ n \in Nat
      /\ DOMAIN t = 1 .. n - a + 1
      /\ \A i \in 1 .. n - a + 1 : t[i] = s[a + i - 1]
  OBVIOUS
<1> HIDE DEF n, t
<1>2. h \in [DOMAIN t -> DOMAIN s] /\ \A i \in DOMAIN t : t[i] = s[h[i]]
  BY <1>1
<1>3. \A i, j \in DOMAIN t : i < j => h[i] < h[j]
  BY <1>1
<1> HIDE DEF h
<1>4. Within(t, s)
  BY <1>2, <1>3 DEF Within
<1> QED BY <1>4 DEF t

\* Three sequences after each other.
Parts(u, p, q, r) ==
  /\ Len(u) = Len(p) + Len(q) + Len(r)
  /\ \A i \in 1 .. Len(p) : u[i] = p[i]
  /\ \A i \in Len(p) + 1 .. Len(p) + Len(q) : u[i] = q[i - Len(p)]
  /\ \A i \in Len(p) + Len(q) + 1 .. Len(p) + Len(q) + Len(r) : u[i] = r[i - Len(p) - Len(q)]

\* The positions of three sequences after each other.
LEMMA ThreeParts ==
  ASSUME NEW T, NEW p \in Seq(T), NEW q \in Seq(T), NEW r \in Seq(T)
  PROVE  p \o q \o r \in Seq(T) /\ Parts(p \o q \o r, p, q, r)
<1> DEFINE u == p \o q
<1>1. /\ u \in Seq(T) /\ Len(u) = Len(p) + Len(q) /\ Len(p) \in Nat /\ Len(q) \in Nat
      /\ Len(r) \in Nat
      /\ \A i \in 1 .. Len(p) : u[i] = p[i]
      /\ \A i \in Len(p) + 1 .. Len(p) + Len(q) : u[i] = q[i - Len(p)]
  OBVIOUS
<1> HIDE DEF u
<1>2. /\ u \o r \in Seq(T) /\ Len(u \o r) = Len(u) + Len(r)
      /\ \A i \in 1 .. Len(u) : (u \o r)[i] = u[i]
      /\ \A i \in Len(u) + 1 .. Len(u) + Len(r) : (u \o r)[i] = r[i - Len(u)]
  <2>1. u \in Seq(T)
    BY <1>1
  <2> QED BY <2>1
<1> DEFINE v == u \o r
<1> HIDE DEF v
<1>3. /\ v \in Seq(T) /\ Len(v) = Len(p) + Len(q) + Len(r)
      /\ \A i \in 1 .. Len(p) : v[i] = p[i]
      /\ \A i \in Len(p) + 1 .. Len(p) + Len(q) : v[i] = q[i - Len(p)]
      /\ \A i \in Len(p) + Len(q) + 1 .. Len(p) + Len(q) + Len(r) : v[i] = r[i - Len(p) - Len(q)]
  BY <1>1, <1>2 DEF v
<1>4. v \in Seq(T) /\ Parts(v, p, q, r)
  BY <1>3 DEF Parts
<1> QED BY <1>4 DEF u, v

\* The first element of the middle part is dropped.
LEMMA DropWithin ==
  ASSUME NEW T, NEW a \in Seq(T), NEW b \in Seq(T), NEW c \in Seq(T), b # <<>>
  PROVE  Within(a \o Tail(b) \o c, a \o b \o c)
<1> DEFINE s == a \o b \o c
           t == a \o Tail(b) \o c
           n == Len(a)
           k == Len(b)
           m == Len(c)
           h == [i \in DOMAIN t |-> IF i <= n THEN i ELSE i + 1]
<1>1. /\ n \in Nat /\ k \in Nat /\ m \in Nat /\ k > 0
      /\ Tail(b) \in Seq(T) /\ Len(Tail(b)) = k - 1
      /\ \A i \in 1 .. k - 1 : Tail(b)[i] = b[i + 1]
  OBVIOUS
<1>3. /\ s \in Seq(T) /\ Len(s) = n + k + m
      /\ \A i \in 1 .. n : s[i] = a[i]
      /\ \A i \in n + 1 .. n + k : s[i] = b[i - n]
      /\ \A i \in n + k + 1 .. n + k + m : s[i] = c[i - n - k]
  BY ThreeParts DEF Parts
<1>4. /\ t \in Seq(T) /\ Len(t) = n + k - 1 + m
      /\ \A i \in 1 .. n : t[i] = a[i]
      /\ \A i \in n + 1 .. n + k - 1 : t[i] = Tail(b)[i - n]
      /\ \A i \in n + k .. n + k - 1 + m : t[i] = c[i - n - (k - 1)]
  <2> DEFINE x == Tail(b)
  <2> HIDE DEF x
  <2>1. x \in Seq(T) /\ Len(x) = k - 1
    BY <1>1 DEF x
  <2>2. /\ a \o x \o c \in Seq(T)
        /\ Len(a \o x \o c) = n + (k - 1) + m
        /\ \A i \in 1 .. n : (a \o x \o c)[i] = a[i]
        /\ \A i \in n + 1 .. n + (k - 1) : (a \o x \o c)[i] = x[i - n]
        /\ \A i \in n + (k - 1) + 1 .. n + (k - 1) + m : (a \o x \o c)[i] = c[i - n - (k - 1)]
    <3> HIDE DEF n, m, k
    <3>1. a \o x \o c \in Seq(T) /\ Parts(a \o x \o c, a, x, c)
      BY <2>1, ThreeParts, Zenon
    <3> QED BY <2>1, <3>1 DEF n, m, Parts
  <2> DEFINE y == a \o x \o c
  <2> HIDE DEF n, k, m, y
  <2>3. /\ y \in Seq(T) /\ Len(y) = n + k - 1 + m
        /\ \A i \in 1 .. n : y[i] = a[i]
        /\ \A i \in n + 1 .. n + k - 1 : y[i] = x[i - n]
        /\ \A i \in n + k .. n + k - 1 + m : y[i] = c[i - n - (k - 1)]
    BY <1>1, <2>2 DEF y
  <2> QED BY <2>3 DEF x, y
<1> HIDE DEF s, t, n, k, m
<1>5. DOMAIN t = 1 .. n + k - 1 + m /\ DOMAIN s = 1 .. n + k + m
  BY <1>3, <1>4
<1>6. h \in [DOMAIN t -> DOMAIN s] /\ \A i, j \in DOMAIN t : i < j => h[i] < h[j]
  BY <1>1, <1>5
<1>7. ASSUME NEW i \in DOMAIN t PROVE t[i] = s[h[i]]
  <2>1. i \in 1 .. n + k - 1 + m
    BY <1>5
  <2>2. CASE i <= n
    BY <1>1, <1>3, <1>4, <2>1, <2>2
  <2>3. CASE i > n /\ i <= n + k - 1
    <3>1. t[i] = b[(i - n) + 1]
      <4> DEFINE d == i - n
      <4>1. d \in 1 .. k - 1 /\ i \in n + 1 .. n + k - 1
        BY <1>1, <2>1, <2>3
      <4> HIDE DEF d
      <4>2. Tail(b)[d] = b[d + 1]
        BY <1>1, <4>1
      <4>3. t[i] = Tail(b)[d]
        BY <1>4, <4>1 DEF d
      <4> QED BY <4>2, <4>3 DEF d
    <3>2. s[i + 1] = b[(i + 1) - n]
      BY <1>1, <1>3, <2>1, <2>3
    <3>3. (i + 1) - n = (i - n) + 1
      BY <1>1, <2>1
    <3> QED BY <1>1, <2>1, <2>3, <3>1, <3>2, <3>3
  <2>4. CASE i >= n + k
    <3>1. t[i] = c[i - n - (k - 1)]
      BY <1>1, <1>4, <2>1, <2>4
    <3>2. s[i + 1] = c[(i + 1) - n - k]
      BY <1>1, <1>3, <2>1, <2>4
    <3>3. (i + 1) - n - k = i - n - (k - 1)
      BY <1>1, <2>1
    <3>4. h[i] = i + 1
      BY <1>1, <2>1, <2>4
    <3> QED BY <3>1, <3>2, <3>3, <3>4
  <2> QED BY <1>1, <2>1, <2>2, <2>3, <2>4
<1> HIDE DEF h
<1>8. Within(t, s)
  BY <1>6, <1>7 DEF Within
<1> QED BY <1>8 DEF s, t

-----------------------------------------------------------------------------
(* The kinds of steps.                                                     *)

\* A step that changes no sequence of lines.
SameChunk(p) ==
  LET k == copier[p]
      w == copier'[p]
  IN /\ w.written = k.written /\ w.chunk = k.chunk
     /\ k.chunk # <<>> => w.pc = k.pc /\ w.subs = k.subs /\ w.left = k.left
Calm ==
  /\ UNCHANGED <<log, ring, listeners, fwd, drawn>> /\ ClientsKeep
  /\ \A p \in Procs : SameChunk(p)

\* No copier reads or finishes a line.
LEMMA UnchangedChunks ==
  ASSUME UNCHANGED copier
  PROVE  \A p \in Procs : SameChunk(p)
BY DEF SameChunk

\* One copier moves, and keeps its lines.
LEMMA MovedChunks ==
  ASSUME TypeInv, NEW p \in Procs, NEW w \in CopierType, copier' = [copier EXCEPT ![p] = w],
         w.written = copier[p].written, w.chunk = copier[p].chunk, copier[p].chunk = <<>>
  PROVE  \A q \in Procs : SameChunk(q)
<1>1. copier \in [Procs -> CopierType]
  BY DEF TypeInv
<1>2. copier'[p] = w /\ \A q \in Procs : q # p => copier'[q] = copier[q]
  BY <1>1
<1> QED BY <1>2 DEF SameChunk

\* The steps, by what they do to the log and the copiers.
LEMMA Kinds ==
  ASSUME TypeInv, CopiersInv, [Next]_vars
  PROVE  \/ Calm
         \/ \E p \in Procs : \/ \E n \in 0 .. limit.lines : WriteLines(p, n)
                             \/ CopySubscribers(p) \/ CallSubscriber(p)
         \/ \E f \in Subs : SubscribeLogs(f) \/ Backfill(f) \/ Forward(f) \/ ForwardDone(f)
         \/ \E c \in Clients : Subscribe(c) \/ \E e \in Events : Broadcast(e, c)
<1>1. CASE StartProcess
  <2> DEFINE p == procs + 1
  <2>1. p \in Procs /\ p > procs
    <3>1. procs < limit.procs
      BY <1>1 DEF StartProcess
    <3>2. procs + 1 \in 1 .. MaxProcs
      BY <3>1, LimitFacts, StreamAssumption
    <3> QED BY <3>2, LimitFacts DEF Procs
  <2>2. /\ copier'[p] \in CopierType /\ copier' = [copier EXCEPT ![p] = copier'[p]]
        /\ copier'[p].written = copier[p].written /\ copier'[p].chunk = copier[p].chunk
    BY <1>1, <2>1, ProcessMoves
  <2>3. copier[p].chunk = <<>>
    BY <2>1 DEF CopiersInv, NoCopier
  <2> HIDE DEF p
  <2>4. \A q \in Procs : SameChunk(q)
    BY <2>1, <2>2, <2>3, MovedChunks
  <2>5. UNCHANGED <<log, ring, listeners, fwd, drawn, client>>
    BY <1>1 DEF StartProcess, bufferVars
  <2> QED BY <2>4, <2>5, UnchangedKeep DEF Calm
<1>2. ASSUME NEW p \in Procs, ScanOutput(p) PROVE Calm
  <2>1. /\ copier'[p] \in CopierType /\ copier' = [copier EXCEPT ![p] = copier'[p]]
        /\ copier'[p].written = copier[p].written /\ copier'[p].chunk = copier[p].chunk
        /\ copier[p].chunk = <<>>
    BY <1>2, ScanOutputMoves
  <2>2. \A q \in Procs : SameChunk(q)
    BY <2>1, MovedChunks
  <2>3. UNCHANGED <<log, ring, listeners, fwd, drawn, client>>
    BY <1>2 DEF ScanOutput, bufferVars
  <2> QED BY <2>2, <2>3, UnchangedKeep DEF Calm
<1>3. ASSUME NEW p \in Procs, ProcessEnds(p) PROVE Calm
  <2>1. /\ copier'[p] \in CopierType /\ copier' = [copier EXCEPT ![p] = copier'[p]]
        /\ copier'[p].written = copier[p].written /\ copier'[p].chunk = copier[p].chunk
    BY <1>3, ProcessMoves
  <2>2. copier[p].chunk = <<>>
    <3>1. copier[p].pc = "idle"
      BY <1>3 DEF ProcessEnds
    <3> QED BY <3>1 DEF CopiersInv, CopierOk
  <2>3. \A q \in Procs : SameChunk(q)
    BY <2>1, <2>2, MovedChunks
  <2>4. UNCHANGED <<log, ring, listeners, fwd, drawn, client>>
    BY <1>3 DEF ProcessEnds, bufferVars
  <2> QED BY <2>3, <2>4, UnchangedKeep DEF Calm
<1>4. ASSUME NEW p \in Procs, IdleTimer(p) \/ OnIdle(p) PROVE Calm
  <2>1. UNCHANGED <<log, ring, listeners, fwd, drawn, client, copier>>
    BY <1>4 DEF IdleTimer, OnIdle, bufferVars
  <2> QED BY <2>1, UnchangedKeep, UnchangedChunks DEF Calm
<1>5. ASSUME NEW c \in Clients,
             HandleWS(c) \/ Unsubscribe(c) \/ WsWriter(c) \/ Disconnect(c) \/ RemoveClient(c)
      PROVE  Calm
  <2>1. UNCHANGED <<log, ring, listeners, fwd, drawn, copier>>
    BY <1>5 DEF HandleWS, Unsubscribe, WsWriter, Disconnect, RemoveClient, bufferVars, procVars
  <2>2. ClientsKeep
    BY <1>5, HandleWSKeeps, UnsubscribeKeeps, WsWriterKeeps, DisconnectKeeps, RemoveClientKeeps
  <2> QED BY <2>1, <2>2, UnchangedChunks DEF Calm
<1>6. CASE HandleChatEvent \/ UNCHANGED vars
  <2>1. UNCHANGED <<log, ring, listeners, fwd, drawn, client, copier>>
    BY <1>6 DEF HandleChatEvent, vars, bufferVars, procVars
  <2> QED BY <2>1, UnchangedKeep, UnchangedChunks DEF Calm
<1> QED BY <1>1, <1>2, <1>3, <1>4, <1>5, <1>6 DEF Next, CopierStep, IdleStep, ReaderStep

-----------------------------------------------------------------------------
\* What a copier has written only grows, and only WriteLines makes it do so.
LEMMA WrittenGrows ==
  ASSUME TypeInv, CopiersInv, [Next]_vars, NEW q \in Procs
  PROVE  /\ copier[q].written \in Nat /\ copier'[q].written \in Nat
         /\ copier[q].written <= copier'[q].written
<1>1. copier \in [Procs -> CopierType]
  BY DEF TypeInv
<1>2. copier[q].written \in Nat
  BY <1>1 DEF CopierType
<1>3. CASE UNCHANGED copier
  BY <1>2, <1>3
<1>4. CASE Calm
  BY <1>2, <1>4 DEF Calm, SameChunk
<1>5. ASSUME NEW p \in Procs, NEW n \in 0 .. limit.lines, WriteLines(p, n)
      PROVE  copier'[q].written \in Nat /\ copier[q].written <= copier'[q].written
  <2>1. /\ copier' = [copier EXCEPT ![p] = copier'[p]]
        /\ copier'[p].written = copier[p].written + n /\ n \in Nat /\ copier[p].written \in Nat
    BY <1>5, WriteLinesMoves
  <2>2. q # p => copier'[q] = copier[q]
    BY <1>1, <2>1
  <2> QED BY <1>2, <2>1, <2>2
<1>6. ASSUME NEW p \in Procs, CopySubscribers(p) \/ CallSubscriber(p)
      PROVE  copier'[q].written \in Nat /\ copier[q].written <= copier'[q].written
  <2>1. /\ copier' = [copier EXCEPT ![p] = copier'[p]]
        /\ copier'[p].written = copier[p].written
    BY <1>6, CopySubscribersMoves, CallSubscriberMoves
  <2>2. q # p => copier'[q] = copier[q]
    BY <1>1, <2>1
  <2> QED BY <1>2, <2>1, <2>2
<1>7. (\E f \in Subs : SubscribeLogs(f) \/ Backfill(f) \/ Forward(f) \/ ForwardDone(f))
      \/ (\E c \in Clients : Subscribe(c) \/ \E e \in Events : Broadcast(e, c))
      => UNCHANGED copier
  BY DEF SubscribeLogs, Backfill, Forward, ForwardDone, Subscribe, Broadcast, procVars
<1> QED BY <1>2, <1>3, <1>4, <1>5, <1>6, <1>7, Kinds

\* Hence what is known stays known.
LEMMA KnownStays ==
  ASSUME TypeInv, CopiersInv, [Next]_vars, NEW X \in SUBSET Line, KnownBy(X, copier)
  PROVE  KnownBy(X, copier')
<1> SUFFICES ASSUME NEW x \in X PROVE x.no <= copier'[x.by].written
  BY DEF KnownBy
<1>1. x.by \in Procs /\ x.no \in Nat
  BY DEF Line
<1>2. x.no <= copier[x.by].written
  BY DEF KnownBy
<1>3. /\ copier[x.by].written \in Nat /\ copier'[x.by].written \in Nat
      /\ copier[x.by].written <= copier'[x.by].written
  BY <1>1, WrittenGrows
<1> HIDE DEF Line
<1> QED BY <1>1, <1>2, <1>3

-----------------------------------------------------------------------------
(* The buffer and the log.                                                 *)

\* The log changes with WriteLines alone.
LEMMA LogMoves ==
  ASSUME TypeInv, CopiersInv, [Next]_vars
  PROVE  \/ UNCHANGED <<log, ring>>
         \/ \E p \in Procs : \E n \in 0 .. limit.lines : WriteLines(p, n)
<1>1. Calm => UNCHANGED <<log, ring>>
  BY DEF Calm
<1>2. (\E p \in Procs : CopySubscribers(p) \/ CallSubscriber(p)) => UNCHANGED <<log, ring>>
  BY DEF CopySubscribers, CallSubscriber, bufferVars
<1>3. (\E f \in Subs : SubscribeLogs(f) \/ Backfill(f) \/ Forward(f) \/ ForwardDone(f))
      \/ (\E c \in Clients : Subscribe(c) \/ \E e \in Events : Broadcast(e, c))
      => UNCHANGED <<log, ring>>
  BY DEF SubscribeLogs, Backfill, Forward, ForwardDone, Subscribe, Broadcast, bufferVars
<1> QED BY <1>1, <1>2, <1>3, Kinds

\* The empty buffer.
LEMMA RingInit == Init => RingInv
BY StreamAssumption DEF Init, RingInv, RingOk

\* The buffer stays the end of the log.
LEMMA RingStep ==
  ASSUME TypeInv, CopiersInv, RingInv, [Next]_vars
  PROVE  RingInv'
<1>1. CASE UNCHANGED <<log, ring>>
  BY <1>1 DEF RingInv
<1>2. ASSUME NEW p \in Procs, NEW n \in 0 .. limit.lines, WriteLines(p, n) PROVE RingInv'
  <2> DEFINE chunk == [i \in 1 .. n |-> [by |-> p, no |-> copier[p].written + i]]
  <2>1. chunk \in Seq(Line)
    BY <1>2, WriteLinesMoves
  <2>2. ring' = PutAll(ring, chunk) /\ log' = log \o chunk
    BY <1>2 DEF WriteLines
  <2> HIDE DEF chunk
  <2> QED BY <2>1, <2>2, PutAllRing DEF RingInv, TypeInv
<1> QED BY <1>1, <1>2, LogMoves

\* The log stays in order, and what it holds is known.
LEMMA LogStep ==
  ASSUME TypeInv, CopiersInv, LogInv, [Next]_vars
  PROVE  LogInv'
<1>0. log \in Seq(Line)
  BY DEF TypeInv
<1>1. CASE UNCHANGED <<log, ring>>
  <2>1. ToSet(log) \in SUBSET Line
    BY <1>0 DEF ToSet
  <2> QED BY <1>1, <2>1, KnownStays DEF LogInv
<1>2. ASSUME NEW p \in Procs, NEW n \in 0 .. limit.lines, WriteLines(p, n) PROVE LogInv'
  <2> DEFINE w == copier[p].written
             chunk == [i \in 1 .. n |-> [by |-> p, no |-> w + i]]
  <2>1. /\ chunk \in Seq(Line) /\ Len(chunk) = n /\ n \in Nat /\ w \in Nat
        /\ copier'[p].written = w + n
    BY <1>2, WriteLinesMoves
  <2>2. log' = log \o chunk
    BY <1>2 DEF WriteLines
  <2>3. \A i \in 1 .. n : chunk[i].by = p /\ chunk[i].no = w + i
    OBVIOUS
  <2> HIDE DEF chunk, w
  <2>4. DOMAIN chunk = 1 .. n
    BY <2>1
  <2>5. InOrder(chunk, {})
    BY <2>1, <2>3, <2>4 DEF InOrder, Older
  <2>6. \A y \in ToSet(chunk) : y.by = p /\ y.no > w /\ y.no <= w + n /\ y.no \in Nat
    BY <2>1, <2>3, <2>4 DEF ToSet
  <2>7. \A x \in ToSet(log) : x.by \in Procs /\ x.no \in Nat /\ x.no <= copier[x.by].written
    <3>1. ToSet(log) \in SUBSET Line
      BY <1>0 DEF ToSet
    <3>2. \A x \in Line : x.by \in Procs /\ x.no \in Nat
      BY DEF Line
    <3> QED BY <3>1, <3>2 DEF LogInv, KnownBy
  <2>8. \A x \in ToSet(log), y \in ToSet(chunk) : Older(x, y, {})
    BY <2>1, <2>6, <2>7 DEF Older, w
  <2>9. InOrder(log \o chunk, {})
    BY <1>0, <2>1, <2>5, <2>8, InOrderConcat DEF LogInv
  <2>10. KnownBy(ToSet(log \o chunk), copier')
    <3>1. ToSet(log \o chunk) = ToSet(log) \cup ToSet(chunk)
      BY <1>0, <2>1, ToSetFacts
    <3>2. ToSet(log) \in SUBSET Line
      BY <1>0 DEF ToSet
    <3>3. KnownBy(ToSet(log), copier')
      BY <3>2, KnownStays DEF LogInv
    <3>4. KnownBy(ToSet(chunk), copier')
      BY <2>1, <2>6 DEF KnownBy
    <3> QED BY <3>1, <3>3, <3>4 DEF KnownBy
  <2> QED BY <2>2, <2>9, <2>10 DEF LogInv
<1> QED BY <1>1, <1>2, LogMoves

-----------------------------------------------------------------------------
(* Copiers and subscriptions.                                              *)

\* A sequence without its head.
LEMMA TailFacts ==
  ASSUME NEW T, NEW s \in Seq(T), s # <<>>
  PROVE  /\ Tail(s) \in Seq(T) /\ Len(Tail(s)) = Len(s) - 1 /\ Len(s) \in Nat /\ Len(s) > 0
         /\ \A i \in 1 .. Len(s) - 1 : Tail(s)[i] = s[i + 1]
OBVIOUS

\* Selecting from a sequence without repetitions (of selected elements).
LEMMA OnlyInjective ==
  ASSUME NEW T, NEW s \in Seq(T), NEW S,
         \A i, j \in DOMAIN s : s[i] = s[j] /\ s[i] \in S => i = j
  PROVE  IsInjective(Only(s, S))
<1> DEFINE Once(q) == \A i, j \in DOMAIN q : q[i] = q[j] /\ q[i] \in S => i = j
           P == {q \in Seq(T) : Once(q) => IsInjective(Only(q, S))}
<1>1. <<>> \in P
  <2>1. Only(<<>>, S) = <<>> /\ <<>> \in Seq(T)
    BY OnlyEmpty
  <2> QED BY <2>1 DEF IsInjective
<1>2. ASSUME NEW q \in Seq(T), NEW x \in T, q \in P PROVE Append(q, x) \in P
  <2> DEFINE a == Append(q, x)
             n == Len(q)
             o == Only(q, S)
  <2>1. /\ a \in Seq(T) /\ n \in Nat /\ DOMAIN q = 1 .. n /\ DOMAIN a = 1 .. n + 1
        /\ a[n + 1] = x /\ \A i \in 1 .. n : a[i] = q[i]
    OBVIOUS
  <2> SUFFICES ASSUME Once(a) PROVE IsInjective(Only(a, S))
    BY <2>1
  <2>2. Once(q)
    <3> HIDE DEF a, n
    <3> QED BY <2>1
  <2>3. IsInjective(o) /\ o \in Seq(T) /\ ToSet(o) = ToSet(q) \cap S
    <3>1. o \in Seq(T \cap S) /\ ToSet(o) = ToSet(q) \cap S
      BY OnlyType
    <3>2. Seq(T \cap S) \subseteq Seq(T)
      OBVIOUS
    <3>3. IsInjective(o)
      BY <1>2, <2>2
    <3> HIDE DEF o
    <3> QED BY <3>1, <3>2, <3>3
  <2>4. Only(a, S) = IF x \in S THEN Append(o, x) ELSE o
    BY OnlyAppend
  <2>5. CASE x \notin S
    BY <2>3, <2>4, <2>5
  <2>6. CASE x \in S
    <3>1. x \notin ToSet(q)
      <4>1. ASSUME NEW i \in 1 .. n, q[i] = x PROVE FALSE
        <5>1. a[i] = a[n + 1] /\ a[i] \in S /\ i \in DOMAIN a /\ n + 1 \in DOMAIN a
          BY <2>1, <2>6, <4>1
        <5>2. i = n + 1
          BY <5>1
        <5> QED BY <2>1, <5>2
      <4> HIDE DEF a, n
      <4> QED BY <2>1, <4>1 DEF ToSet
    <3>2. x \notin ToSet(o)
      BY <2>3, <3>1
    <3> DEFINE m == Len(o)
               b == Append(o, x)
    <3> HIDE DEF o
    <3>3. /\ m \in Nat /\ DOMAIN o = 1 .. m /\ DOMAIN b = 1 .. m + 1 /\ b[m + 1] = x
          /\ \A i \in 1 .. m : b[i] = o[i] /\ o[i] \in ToSet(o)
      BY <2>3 DEF ToSet
    <3> HIDE DEF b, m
    <3>4. IsInjective(b)
      BY <2>3, <3>2, <3>3 DEF IsInjective
    <3> QED BY <2>4, <2>6, <3>4 DEF b
  <2> QED BY <2>5, <2>6
<1> HIDE DEF P
<1>3. s \in P
  BY <1>1, <1>2, SequenceInduction
<1> QED BY <1>3 DEF P

\* The step of one copier, while the subscriptions that it calls stay registered.
LEMMA CopierKeeps ==
  ASSUME NEW k, NEW p, NEW F, NEW G, CopierOk(k, p, F),
         \A f \in ToSet(k.subs) : F[f].pc \in Registered \cup {"ended"}
                                    => G[f].pc \in Registered \cup {"ended"}
  PROVE  CopierOk(k, p, G)
BY DEF CopierOk

\* What a step does to the positions of the copiers.
LEMMA PcsMove ==
  ASSUME TypeInv, RingInv, CopiersInv, ForwardsInv, [Next]_vars, NEW f \in Subs,
         fwd[f].pc \in Registered \cup {"ended"}
  PROVE  fwd'[f].pc \in Registered \cup {"ended"}
<1>0. fwd \in [Subs -> ForwardType]
  BY DEF TypeInv
<1>1. CASE UNCHANGED fwd
  BY <1>1
<1>2. ASSUME NEW p \in Procs, CallSubscriber(p) PROVE fwd'[f].pc = fwd[f].pc
  <2> DEFINE g == Head(copier[p].left)
  <2>1. fwd' = [fwd EXCEPT ![g] = fwd'[g]] /\ fwd'[g].pc = fwd[g].pc /\ g \in Subs
    BY <1>2, CallSubscriberMoves
  <2> HIDE DEF g
  <2>2. f # g => fwd'[f] = fwd[f]
    BY <1>0, <2>1
  <2> QED BY <2>1, <2>2
<1>3. ASSUME NEW g \in Subs, SubscribeLogs(g) \/ Backfill(g) \/ Forward(g) \/ ForwardDone(g)
      PROVE  fwd'[f].pc \in Registered \cup {"ended"}
  <2>1. /\ fwd' = [fwd EXCEPT ![g] = fwd'[g]] /\ fwd'[g].pc \in Registered \cup {"ended"}
    BY <1>3, SubscribeLogsMoves, BackfillMoves, ForwardMoves, ForwardDoneMoves
    DEF ForwardBecomes, Registered
  <2>2. f # g => fwd'[f] = fwd[f]
    BY <1>0, <2>1
  <2> QED BY <2>1, <2>2
<1>4. ASSUME NEW c \in Clients, Subscribe(c) PROVE fwd'[f] = fwd[f]
  <2> DEFINE g == drawn + 1
  <2>1. fwd' = [fwd EXCEPT ![g] = fwd'[g]] /\ fwd[g] = NoForward
    BY <1>4, SubscribeMoves DEF ForwardBecomes
  <2>2. NoForward.pc = "none"
    BY DEF NoForward
  <2> HIDE DEF g
  <2>3. f # g
    BY <2>1, <2>2 DEF Registered
  <2> QED BY <1>0, <2>1, <2>3
<1>5. (\E p \in Procs : CopySubscribers(p) \/ \E n \in 0 .. limit.lines : WriteLines(p, n))
      \/ (\E c \in Clients : \E e \in Events : Broadcast(e, c)) \/ Calm
      => UNCHANGED fwd
  BY DEF CopySubscribers, WriteLines, Broadcast, Calm
<1> QED BY <1>1, <1>2, <1>3, <1>4, <1>5, Kinds

\* The copier of one process.
LEMMA CopierMoves ==
  ASSUME TypeInv, RingInv, CopiersInv, ForwardsInv, NEW p \in Procs,
         \/ \E n \in 0 .. limit.lines : WriteLines(p, n)
         \/ CopySubscribers(p)
         \/ CallSubscriber(p)
         \/ ScanOutput(p)
         \/ ProcessEnds(p)
         \/ StartProcess /\ p = procs + 1
  PROVE  /\ copier' = [copier EXCEPT ![p] = copier'[p]] /\ CopierOk(copier'[p], p, fwd)
         /\ p <= procs'
<1> DEFINE k == copier[p]
           w == copier'[p]
<1>0. /\ k \in CopierType /\ CopierOk(k, p, fwd) /\ (p > procs => k = NoCopier)
      /\ k.chunk \in Seq(Line) /\ k.left \in Seq(Subs) /\ k.subs \in Seq(Subs) /\ k.written \in Nat
      /\ p \in Nat /\ procs \in Nat
  <2>1. k \in CopierType
    BY DEF TypeInv
  <2>2. p \in Nat /\ procs \in Nat
    BY LimitFacts DEF Procs
  <2> QED BY <2>1, <2>2 DEF CopiersInv, CopierType
<1>1. \/ \E n \in 0 .. limit.lines : WriteLines(p, n)
      \/ CopySubscribers(p) \/ CallSubscriber(p) \/ ScanOutput(p) \/ ProcessEnds(p)
      => p <= procs'
  <2>1. k.pc # "none" => p <= procs
    BY <1>0 DEF NoCopier
  <2> QED BY <2>1 DEF WriteLines, CopySubscribers, CallSubscriber, ScanOutput, ProcessEnds
<1>2. ASSUME NEW n \in 0 .. limit.lines, WriteLines(p, n)
      PROVE  copier' = [copier EXCEPT ![p] = w] /\ CopierOk(w, p, fwd)
  <2> DEFINE chunk == [i \in 1 .. n |-> [by |-> p, no |-> k.written + i]]
  <2>1. /\ copier' = [copier EXCEPT ![p] = w] /\ n \in Nat
        /\ w.pc = "written" /\ w.written = k.written + n /\ w.subs = k.subs /\ w.left = k.left
        /\ w.chunk = chunk
    BY <1>2, WriteLinesMoves
  <2>2. \A i \in 1 .. n : chunk[i].by = p /\ chunk[i].no = k.written + i
    OBVIOUS
  <2>3. DOMAIN chunk = 1 .. n
    OBVIOUS
  <2> HIDE DEF chunk, k, w
  <2>4. \A i \in DOMAIN chunk : chunk[i].by = p /\ chunk[i].no <= w.written
    BY <1>0, <2>1, <2>2, <2>3
  <2>5. InOrder(chunk, {})
    BY <1>0, <2>1, <2>2, <2>3 DEF InOrder, Older
  <2> QED BY <1>0, <2>1, <2>4, <2>5 DEF CopierOk
<1>3. ASSUME CopySubscribers(p)
      PROVE  copier' = [copier EXCEPT ![p] = w] /\ CopierOk(w, p, fwd)
  <2> DEFINE s == Only(listeners, Subs)
  <2>1. /\ copier' = [copier EXCEPT ![p] = w]
        /\ w.pc = "calling" /\ w.written = k.written /\ w.subs = s /\ w.left = s
        /\ w.chunk = (IF s = <<>> THEN <<>> ELSE k.chunk)
    BY <1>3, CopySubscribersMoves
  <2>2. listeners \in Seq({0} \cup Subs)
    BY DEF TypeInv
  <2>3. ToSet(s) = ToSet(listeners) \cap Subs
    BY <2>2, OnlyType
  <2>4. IsInjective(s)
    <3>1. \A i \in DOMAIN listeners : listeners[i] \in Subs => fwd[listeners[i]].slot = i
      BY DEF ForwardsInv, Subs
    <3> QED BY <2>2, <3>1, OnlyInjective
  <2>5. \A f \in ToSet(s) : fwd[f].pc \in Registered \cup {"ended"}
    <3>1. \A i \in DOMAIN listeners : listeners[i] \in Subs => fwd[listeners[i]].pc \in Registered
      BY DEF ForwardsInv, Subs
    <3> QED BY <2>3, <3>1 DEF ToSet
  <2> HIDE DEF s, k, w
  <2>6. CASE s = <<>>
    BY <1>0, <2>1, <2>4, <2>5, <2>6 DEF CopierOk, InOrder
  <2>7. CASE s # <<>>
    BY <1>0, <2>1, <2>4, <2>5, <2>7 DEF CopierOk
  <2> QED BY <2>1, <2>6, <2>7
<1>4. ASSUME CallSubscriber(p)
      PROVE  copier' = [copier EXCEPT ![p] = w] /\ CopierOk(w, p, fwd)
  <2>1. /\ k.pc = "calling" /\ k.chunk # <<>> /\ k.left # <<>>
        /\ copier' = [copier EXCEPT ![p] = w]
        /\ w.pc = k.pc /\ w.written = k.written /\ w.subs = k.subs
        /\ \/ Len(k.left) = 1 /\ w.chunk = Tail(k.chunk) /\ w.left = k.subs
           \/ Len(k.left) # 1 /\ w.chunk = k.chunk /\ w.left = Tail(k.left)
    BY <1>4, CallSubscriberMoves
  <2> HIDE DEF k, w
  <2>2. CASE Len(k.left) = 1 /\ w.chunk = Tail(k.chunk) /\ w.left = k.subs
    <3>1. k.subs # <<>>
      <4>1. Head(k.left) \in ToSet(k.left)
        BY <1>0, <2>1, ToSetFacts
      <4>2. ToSet(k.left) \subseteq ToSet(k.subs)
        BY <1>0 DEF CopierOk
      <4>3. ToSet(<<>>) = {}
        BY DEF ToSet
      <4> QED BY <4>1, <4>2, <4>3
    <3>2. InOrder(w.chunk, {})
      BY <1>0, <2>1, <2>2, TailWithin, InOrderWithin DEF CopierOk
    <3>3. \A i \in DOMAIN w.chunk : w.chunk[i].by = p /\ w.chunk[i].no <= k.written
      <4>1. \A i \in DOMAIN Tail(k.chunk) : i + 1 \in DOMAIN k.chunk /\ Tail(k.chunk)[i] = k.chunk[i + 1]
        BY <1>0, <2>1
      <4> QED BY <1>0, <2>2, <4>1 DEF CopierOk
    <3> QED BY <1>0, <2>1, <2>2, <3>1, <3>2, <3>3 DEF CopierOk
  <2>3. CASE Len(k.left) # 1 /\ w.chunk = k.chunk /\ w.left = Tail(k.left)
    <3> DEFINE q == k.left
               n == Len(q)
               t == Tail(q)
    <3>0. q \in Seq(Subs) /\ q # <<>> /\ Len(q) # 1
      BY <1>0, <2>1, <2>3
    <3>a. IsInjective(q)
      BY <1>0 DEF CopierOk
    <3> HIDE DEF q
    <3>b. t \in Seq(Subs) /\ Len(t) = n - 1 /\ n \in Nat /\ n > 0 /\ n # 1
          /\ \A i \in 1 .. n - 1 : t[i] = q[i + 1]
      BY <3>0, TailFacts
    <3>1. /\ n \in Nat /\ n > 1 /\ DOMAIN t = 1 .. n - 1 /\ DOMAIN q = 1 .. n
          /\ \A i \in 1 .. n - 1 : t[i] = q[i + 1]
      <4>1. DOMAIN t = 1 .. Len(t) /\ DOMAIN q = 1 .. n
        BY <3>0, <3>b
      <4> HIDE DEF t, n
      <4> QED BY <3>b, <4>1
    <3>2. t # <<>>
      <4> HIDE DEF t, n
      <4>2. Len(t) > 0
        BY <3>b, <3>1
      <4> QED BY <4>2
    <3>3. ToSet(t) \subseteq ToSet(q)
      <4>1. ToSet(q) = {Head(q)} \cup ToSet(Tail(q))
        BY <3>0, ToSetFacts
      <4> QED BY <4>1
    <3> HIDE DEF n, t
    <3>4. IsInjective(t)
      <4>1. ASSUME NEW i \in 1 .. n - 1, NEW j \in 1 .. n - 1, t[i] = t[j] PROVE i = j
        <5>1. i + 1 \in 1 .. n /\ j + 1 \in 1 .. n /\ q[i + 1] = q[j + 1]
          BY <3>1, <4>1
        <5>2. i + 1 = j + 1
          BY <3>1, <3>a, <5>1 DEF IsInjective
        <5> QED BY <3>1, <5>2
      <4> QED BY <3>1, <4>1 DEF IsInjective
    <3>5. w.left = t
      BY <2>3 DEF t, q
    <3> QED BY <1>0, <2>1, <2>3, <3>2, <3>3, <3>4, <3>5 DEF CopierOk, q
  <2> QED BY <2>1, <2>2, <2>3
<1>5. ASSUME ScanOutput(p)
      PROVE  copier' = [copier EXCEPT ![p] = w] /\ CopierOk(w, p, fwd)
  <2>1. /\ copier' = [copier EXCEPT ![p] = w] /\ k.chunk = <<>>
        /\ w.pc = "idle" /\ w.written = k.written /\ w.subs = <<>> /\ w.left = <<>>
        /\ w.chunk = k.chunk
    BY <1>5, ScanOutputMoves
  <2>2. IsInjective(<<>>) /\ ToSet(<<>>) = {}
    BY DEF IsInjective, ToSet
  <2> HIDE DEF k, w
  <2> QED BY <1>0, <2>1, <2>2 DEF CopierOk
<1>6. ASSUME \/ ProcessEnds(p)
             \/ StartProcess /\ p = procs + 1
      PROVE  copier' = [copier EXCEPT ![p] = w] /\ CopierOk(w, p, fwd)
  <2>1. /\ copier' = [copier EXCEPT ![p] = w] /\ w.pc \in {"idle", "ended"}
        /\ w.written = k.written /\ w.subs = k.subs /\ w.left = k.left
        /\ w.chunk = k.chunk
    BY <1>6, ProcessMoves
  <2>2. k.chunk = <<>>
    <3>1. ProcessEnds(p) => k.pc = "idle"
      BY DEF ProcessEnds
    <3>2. p = procs + 1 => k.chunk = <<>>
      BY <1>0 DEF NoCopier
    <3> QED BY <1>0, <1>6, <3>1, <3>2 DEF CopierOk
  <2> HIDE DEF k, w
  <2> QED BY <1>0, <2>1, <2>2 DEF CopierOk
<1>7. StartProcess /\ p = procs + 1 => p <= procs'
  BY <1>0 DEF StartProcess
<1> HIDE DEF w
<1> QED BY <1>1, <1>2, <1>3, <1>4, <1>5, <1>6, <1>7 DEF w

\* Every copier.
LEMMA CopiersStep ==
  ASSUME TypeInv, RingInv, CopiersInv, ForwardsInv, [Next]_vars
  PROVE  CopiersInv'
<1>0. copier \in [Procs -> CopierType] /\ procs \in Nat /\ \A p \in Procs : p \in Nat
  BY LimitFacts DEF TypeInv, Procs
<1>t. TypeInv'
  BY TypeStep
<1> DEFINE Moves(p) == \/ \E n \in 0 .. limit.lines : WriteLines(p, n)
                       \/ CopySubscribers(p)
                       \/ CallSubscriber(p)
                       \/ ScanOutput(p)
                       \/ ProcessEnds(p)
                       \/ StartProcess /\ p = procs + 1
<1>1. \A p \in Procs : CopierOk(copier[p], p, fwd) /\ (p > procs => copier[p] = NoCopier)
  BY DEF CopiersInv
<1>2. (\E p \in Procs : Moves(p)) \/ UNCHANGED <<copier, procs>>
  <2>1. StartProcess => procs + 1 \in Procs
    BY LimitFacts, StreamAssumption DEF StartProcess, Procs
  <2>2. \A p \in Procs : IdleTimer(p) \/ OnIdle(p) => UNCHANGED <<copier, procs>>
    BY DEF IdleTimer, OnIdle
  <2>3. \A f \in Subs : SubscribeLogs(f) \/ Backfill(f) \/ Forward(f) \/ ForwardDone(f)
                          => UNCHANGED <<copier, procs>>
    BY DEF SubscribeLogs, Backfill, Forward, ForwardDone, procVars
  <2>4. ASSUME NEW c \in Clients,
               \/ HandleWS(c) \/ Subscribe(c) \/ Unsubscribe(c) \/ WsWriter(c)
               \/ Disconnect(c) \/ RemoveClient(c) \/ \E e \in Events : Broadcast(e, c)
        PROVE  UNCHANGED <<copier, procs>>
    BY <2>4 DEF HandleWS, Subscribe, Unsubscribe, WsWriter, Disconnect, RemoveClient, Broadcast, procVars
  <2>5. HandleChatEvent \/ UNCHANGED vars => UNCHANGED <<copier, procs>>
    BY DEF HandleChatEvent, vars, procVars
  <2> QED BY <2>1, <2>2, <2>3, <2>4, <2>5 DEF Next, CopierStep, IdleStep, ReaderStep
<1>3. procs' \in Nat /\ procs <= procs'
  <2>1. UNCHANGED procs \/ procs' = procs + 1
    BY <1>2 DEF WriteLines, CopySubscribers, CallSubscriber, ScanOutput, ProcessEnds, StartProcess
  <2> QED BY <1>0, <2>1
<1>4. ASSUME NEW p \in Procs
      PROVE  CopierOk(copier'[p], p, fwd) /\ (p > procs' => copier'[p] = NoCopier)
  <2>1. CASE UNCHANGED <<copier, procs>>
    BY <1>1, <2>1
  <2>2. ASSUME NEW q \in Procs, Moves(q)
        PROVE  CopierOk(copier'[p], p, fwd) /\ (p > procs' => copier'[p] = NoCopier)
    <3>1. /\ copier' = [copier EXCEPT ![q] = copier'[q]] /\ CopierOk(copier'[q], q, fwd)
          /\ q <= procs'
      BY <2>2, CopierMoves
    <3>2. CASE p = q
      BY <1>0, <1>3, <3>1, <3>2
    <3>3. CASE p # q
      <4>1. copier'[p] = copier[p]
        BY <1>0, <3>1, <3>3
      <4> QED BY <1>0, <1>1, <1>3, <4>1
    <3> QED BY <3>2, <3>3
  <2> QED BY <1>2, <2>1, <2>2
<1>5. ASSUME NEW p \in Procs PROVE CopierOk(copier'[p], p, fwd')
  <2>1. copier'[p].subs \in Seq(Subs)
    BY <1>t DEF TypeInv, CopierType
  <2>2. ToSet(copier'[p].subs) \in SUBSET Subs
    BY <2>1 DEF ToSet
  <2>3. \A f \in ToSet(copier'[p].subs) : fwd[f].pc \in Registered \cup {"ended"}
                                           => fwd'[f].pc \in Registered \cup {"ended"}
    BY <2>2, PcsMove
  <2> QED BY <1>4, <2>3, CopierKeeps
<1> QED BY <1>4, <1>5 DEF CopiersInv

\* A subscription moves and keeps its slot.
LEMMA ForwardsMove ==
  ASSUME TypeInv, ForwardsInv, NEW f \in Subs, NEW w \in ForwardType,
         fwd' = [fwd EXCEPT ![f] = w], UNCHANGED <<listeners, drawn>>,
         w.client = fwd[f].client, w.slot = fwd[f].slot, fwd[f].pc \in Registered \cup {"ended"},
         fwd[f].pc \in Registered <=> w.pc \in Registered, w.pc \in Registered \cup {"ended"},
         w.pc = "live" => w.rest = <<>>, Len(w.chan) <= ChanSize
  PROVE  ForwardsInv'
<1>0. fwd \in [Subs -> ForwardType] /\ listeners \in Seq({0} \cup Subs)
  BY DEF TypeInv
<1>1. fwd'[f] = w /\ \A g \in Subs : g # f => fwd'[g] = fwd[g]
  BY <1>0
<1>2. /\ \A g \in Subs : ForwardOk(fwd[g], g, listeners)
      /\ \A g \in Subs : /\ fwd[g].pc = "none" <=> g > drawn
                         /\ fwd[g].pc = "none" => fwd[g] = NoForward
      /\ \A i \in DOMAIN listeners :
           listeners[i] # 0 => fwd[listeners[i]].pc \in Registered /\ fwd[listeners[i]].slot = i
  BY DEF ForwardsInv
<1>3. ForwardOk(w, f, listeners)
  BY <1>2 DEF ForwardOk, Registered
<1>4. \A g \in Subs : ForwardOk(fwd'[g], g, listeners)
  BY <1>1, <1>2, <1>3
<1>5. w.pc # "none" /\ fwd[f].pc # "none"
  BY DEF Registered
<1>6. \A g \in Subs : /\ fwd'[g].pc = "none" <=> g > drawn
                      /\ fwd'[g].pc = "none" => fwd'[g] = NoForward
  BY <1>1, <1>2, <1>5
<1>7. ASSUME NEW i \in DOMAIN listeners, listeners[i] # 0
      PROVE  fwd'[listeners[i]].pc \in Registered /\ fwd'[listeners[i]].slot = i
  <2>1. listeners[i] \in Subs
    BY <1>0, <1>7
  <2> QED BY <1>1, <1>2, <1>7, <2>1
<1> QED BY <1>4, <1>6, <1>7 DEF ForwardsInv

\* It ends, and its slot is emptied.
LEMMA ForwardsEnd ==
  ASSUME TypeInv, ForwardsInv, NEW f \in Subs, NEW w \in ForwardType,
         fwd' = [fwd EXCEPT ![f] = w], UNCHANGED drawn, fwd[f].pc = "live",
         w.client = fwd[f].client, w.pc = "ended", w.chan = <<>>,
         listeners' = Unsubscribed(fwd[f].slot)
  PROVE  ForwardsInv'
<1>0. fwd \in [Subs -> ForwardType] /\ listeners \in Seq({0} \cup Subs)
  BY DEF TypeInv
<1>1. fwd'[f] = w /\ \A g \in Subs : g # f => fwd'[g] = fwd[g]
  BY <1>0
<1>2. /\ \A g \in Subs : ForwardOk(fwd[g], g, listeners)
      /\ \A g \in Subs : /\ fwd[g].pc = "none" <=> g > drawn
                         /\ fwd[g].pc = "none" => fwd[g] = NoForward
      /\ \A i \in DOMAIN listeners :
           listeners[i] # 0 => fwd[listeners[i]].pc \in Registered /\ fwd[listeners[i]].slot = i
  BY DEF ForwardsInv
<1> DEFINE s == fwd[f].slot
<1>3. /\ s \in DOMAIN listeners /\ listeners[s] = f /\ DOMAIN listeners' = DOMAIN listeners
      /\ \A j \in DOMAIN listeners : listeners'[j] = IF j = s THEN 0 ELSE listeners[j]
  <2>1. s \in DOMAIN listeners /\ listeners[s] = f
    BY <1>2 DEF ForwardOk, Registered
  <2> QED BY <2>1, UnsubscribedType
<1> HIDE DEF s
<1>4. ASSUME NEW g \in Subs PROVE ForwardOk(fwd'[g], g, listeners')
  <2>1. CASE g = f
    <3>1. Len(w.chan) <= ChanSize
      BY StreamAssumption
    <3>2. w.client \in Clients
      BY <1>2 DEF ForwardOk
    <3> QED BY <1>1, <2>1, <3>1, <3>2 DEF ForwardOk, Registered
  <2>2. CASE g # f
    <3>1. fwd'[g] = fwd[g] /\ ForwardOk(fwd[g], g, listeners)
      BY <1>1, <1>2, <2>2
    <3> QED BY <1>3, <2>2, <3>1 DEF ForwardOk
  <2> QED BY <2>1, <2>2
<1>6. \A g \in Subs : /\ fwd'[g].pc = "none" <=> g > drawn'
                      /\ fwd'[g].pc = "none" => fwd'[g] = NoForward
  BY <1>1, <1>2
<1>7. ASSUME NEW i \in DOMAIN listeners', listeners'[i] # 0
      PROVE  fwd'[listeners'[i]].pc \in Registered /\ fwd'[listeners'[i]].slot = i
  <2>1. i \in DOMAIN listeners /\ i # s /\ listeners'[i] = listeners[i] /\ listeners[i] # 0
    BY <1>3, <1>7
  <2>2. listeners[i] \in Subs
    BY <1>0, <2>1
  <2>3. listeners[i] # f
    BY <1>2, <2>1 DEF s
  <2> QED BY <1>1, <1>2, <2>1, <2>2, <2>3
<1> QED BY <1>4, <1>6, <1>7 DEF ForwardsInv

\* There is no subscription at first.
LEMMA ForwardsInit == Init => ForwardsInv
BY StreamAssumption DEF Init, ForwardsInv, ForwardOk, NoForward, Registered, Subs

\* Every subscription.
LEMMA ForwardsStep ==
  ASSUME TypeInv, RingInv, CopiersInv, ForwardsInv, [Next]_vars
  PROVE  ForwardsInv'
<1>0. fwd \in [Subs -> ForwardType] /\ listeners \in Seq({0} \cup Subs)
  BY DEF TypeInv
<1>n. /\ \A w \in ForwardType : w.chan \in Seq(Line) /\ Len(w.chan) \in Nat
      /\ ChanSize \in Nat /\ ChanSize > 0
  BY StreamAssumption DEF ForwardType
<1>2. /\ \A g \in Subs : ForwardOk(fwd[g], g, listeners)
      /\ \A g \in Subs : /\ fwd[g].pc = "none" <=> g > drawn
                         /\ fwd[g].pc = "none" => fwd[g] = NoForward
      /\ \A i \in DOMAIN listeners :
           listeners[i] # 0 => fwd[listeners[i]].pc \in Registered /\ fwd[listeners[i]].slot = i
  BY DEF ForwardsInv
<1>3. CASE UNCHANGED <<fwd, listeners, drawn>>
  BY <1>3 DEF ForwardsInv
<1>4. ASSUME NEW p \in Procs, CallSubscriber(p) PROVE ForwardsInv'
  <2> DEFINE f == Head(copier[p].left)
             a == fwd[f]
             b == fwd'[f]
             x == Head(copier[p].chunk)
  <2>1. /\ f \in Subs /\ b \in ForwardType /\ fwd' = [fwd EXCEPT ![f] = b] /\ x \in Line
        /\ b.pc = a.pc /\ b.client = a.client /\ b.slot = a.slot /\ b.rest = a.rest
        /\ \/ Len(a.chan) < ChanSize /\ b.chan = Append(a.chan, x)
           \/ b.chan = a.chan
    BY <1>4, CallSubscriberMoves
  <2>2. a.pc \in Registered \cup {"ended"}
    <3>1. copier[p].left \in Seq(Subs) /\ copier[p].left # <<>>
      BY <1>4, CallSubscriberMoves DEF TypeInv, CopierType
    <3>2. f \in ToSet(copier[p].left)
      BY <3>1, ToSetFacts
    <3> QED BY <3>2 DEF CopiersInv, CopierOk
  <2> HIDE DEF f, x
  <2>3. a \in ForwardType
    BY <1>0, <2>1
  <2>4. UNCHANGED <<listeners, drawn>>
    BY <1>4 DEF CallSubscriber, bufferVars
  <2>5. ForwardOk(a, f, listeners)
    BY <1>2, <2>1
  <2> HIDE DEF a, b
  <2>6. Len(b.chan) <= ChanSize
    <3>1. a.chan \in Seq(Line) /\ Len(a.chan) \in Nat /\ Len(a.chan) <= ChanSize
      BY <1>n, <2>3, <2>5 DEF ForwardOk
    <3>2. Len(Append(a.chan, x)) = Len(a.chan) + 1
      BY <3>1
    <3> QED BY <1>n, <2>1, <3>1, <3>2
  <2>7. b.pc = "live" => b.rest = <<>>
    BY <2>1, <2>5 DEF ForwardOk
  <2> QED BY <2>1, <2>2, <2>4, <2>6, <2>7, ForwardsMove DEF a
<1>5. ASSUME NEW f \in Subs, SubscribeLogs(f) PROVE ForwardsInv'
  <2> DEFINE a == fwd[f]
             w == fwd'[f]
             n == Len(listeners)
  <2>1. /\ a.pc = "snapshot" /\ ForwardBecomes(f, w)
        /\ w.pc = "backfill" /\ w.slot = n + 1
        /\ w.client = a.client /\ w.chan = a.chan
        /\ listeners' = Append(listeners, f)
    BY <1>5, SubscribeLogsMoves
  <2>2. UNCHANGED drawn
    BY <1>5 DEF SubscribeLogs
  <2>3. /\ n \in Nat /\ DOMAIN listeners = 1 .. n /\ DOMAIN listeners' = 1 .. n + 1
        /\ listeners'[n + 1] = f /\ \A i \in 1 .. n : listeners'[i] = listeners[i]
    BY <1>0, <2>1
  <2>4. \A g \in Subs : g # f => fwd'[g] = fwd[g]
    BY <1>0, <2>1 DEF ForwardBecomes
  <2> HIDE DEF n
  <2>5. ASSUME NEW g \in Subs PROVE ForwardOk(fwd'[g], g, listeners')
    <3>0. ForwardOk(fwd[g], g, listeners)
      BY <1>2
    <3>1. CASE g # f
      <4>1. fwd'[g] = fwd[g]
        BY <2>4, <3>1
      <4> QED BY <2>3, <3>0, <4>1 DEF ForwardOk
    <3>2. CASE g = f
      <4>1. w.client \in Clients /\ Len(w.chan) <= ChanSize
        BY <2>1, <3>0, <3>2 DEF ForwardOk
      <4>2. n + 1 \in DOMAIN listeners'
        BY <2>3
      <4> QED BY <2>1, <2>3, <3>2, <4>1, <4>2 DEF ForwardOk
    <3> QED BY <3>1, <3>2
  <2>6. \A g \in Subs : /\ fwd'[g].pc = "none" <=> g > drawn'
                        /\ fwd'[g].pc = "none" => fwd'[g] = NoForward
    BY <1>2, <2>1, <2>2, <2>4
  <2>7. ASSUME NEW i \in DOMAIN listeners', listeners'[i] # 0
        PROVE  fwd'[listeners'[i]].pc \in Registered /\ fwd'[listeners'[i]].slot = i
    <3>1. CASE i = n + 1
      BY <2>1, <2>3, <3>1 DEF Registered
    <3>2. CASE i # n + 1
      <4>1. i \in DOMAIN listeners /\ listeners'[i] = listeners[i] /\ listeners[i] # 0
        BY <2>3, <2>7, <3>2
      <4>2. listeners[i] \in Subs /\ listeners[i] # f
        BY <1>0, <1>2, <2>1, <4>1 DEF Registered
      <4> QED BY <1>2, <2>4, <4>1, <4>2
    <3> QED BY <3>1, <3>2
  <2> QED BY <2>5, <2>6, <2>7 DEF ForwardsInv
<1>6. ASSUME NEW f \in Subs, Backfill(f) PROVE ForwardsInv'
  <2> DEFINE a == fwd[f]
             w == fwd'[f]
  <2>1. /\ a.pc = "backfill" /\ ForwardBecomes(f, w) /\ w.pc \in Registered
        /\ w.slot = a.slot /\ w.client = a.client /\ w.chan = a.chan
        /\ w.pc = "live" => w.rest = <<>>
    BY <1>6, BackfillMoves DEF Registered
  <2>2. Len(w.chan) <= ChanSize
    BY <1>2, <2>1 DEF ForwardOk
  <2>3. UNCHANGED <<listeners, drawn>>
    BY <1>6 DEF Backfill, bufferVars
  <2>4. a.pc \in Registered
    BY <2>1 DEF Registered
  <2> HIDE DEF w
  <2> QED BY <2>1, <2>2, <2>3, <2>4, ForwardsMove DEF ForwardBecomes
<1>7. ASSUME NEW f \in Subs, Forward(f) PROVE ForwardsInv'
  <2> DEFINE a == fwd[f]
             w == fwd'[f]
  <2>1. /\ a.pc = "live" /\ a.chan # <<>> /\ ForwardBecomes(f, w)
        /\ w.slot = a.slot /\ w.client = a.client /\ w.rest = a.rest
        /\ \/ w.pc = a.pc /\ w.chan = Tail(a.chan) /\ UNCHANGED listeners
           \/ w.pc = "ended" /\ w.chan = <<>> /\ listeners' = Unsubscribed(a.slot)
    BY <1>7, ForwardMoves
  <2>2. UNCHANGED drawn
    BY <1>7 DEF Forward
  <2> HIDE DEF w
  <2>3. CASE w.pc = a.pc /\ w.chan = Tail(a.chan) /\ UNCHANGED listeners
    <3>1. ForwardOk(a, f, listeners) /\ a \in ForwardType
      BY <1>0, <1>2
    <3>2. Len(w.chan) <= ChanSize
      <4> DEFINE c == a.chan
      <4>1. c \in Seq(Line) /\ Len(c) <= ChanSize /\ c # <<>>
        BY <1>n, <2>1, <3>1 DEF ForwardOk
      <4> HIDE DEF c
      <4>2. Len(Tail(c)) = Len(c) - 1 /\ Len(c) \in Nat
        BY <4>1, TailFacts
      <4>3. Len(Tail(c)) <= ChanSize
        BY <1>n, <4>1, <4>2
      <4> QED BY <2>3, <4>3 DEF c
    <3>3. a.rest = <<>>
      BY <2>1, <3>1 DEF ForwardOk
    <3>4. a.pc \in Registered
      BY <2>1 DEF Registered
    <3> QED BY <2>1, <2>2, <2>3, <3>2, <3>3, <3>4, ForwardsMove DEF ForwardBecomes
  <2>4. CASE w.pc = "ended" /\ w.chan = <<>> /\ listeners' = Unsubscribed(a.slot)
    BY <2>1, <2>2, <2>4, ForwardsEnd DEF ForwardBecomes
  <2> QED BY <2>1, <2>3, <2>4
<1>8. ASSUME NEW f \in Subs, ForwardDone(f) PROVE ForwardsInv'
  <2> DEFINE a == fwd[f]
             w == fwd'[f]
  <2>1. /\ a.pc = "live" /\ ForwardBecomes(f, w)
        /\ w.client = a.client /\ w.chan = <<>> /\ w.pc = "ended"
        /\ listeners' = Unsubscribed(a.slot)
    BY <1>8, ForwardDoneMoves
  <2>2. UNCHANGED drawn
    BY <1>8 DEF ForwardDone
  <2> HIDE DEF w
  <2> QED BY <2>1, <2>2, ForwardsEnd DEF ForwardBecomes
<1>9. ASSUME NEW c \in Clients, Subscribe(c) PROVE ForwardsInv'
  <2> DEFINE f == drawn + 1
             w == fwd'[f]
  <2>1. /\ f \in Subs /\ fwd[f] = NoForward /\ drawn' = f
        /\ ForwardBecomes(f, w) /\ w.pc = "snapshot" /\ w.client = c /\ w.chan = <<>>
    BY <1>9, SubscribeMoves
  <2>2. UNCHANGED listeners
    BY <1>9 DEF Subscribe, bufferVars
  <2>3. \A g \in Subs : g # f => fwd'[g] = fwd[g]
    BY <1>0, <2>1 DEF ForwardBecomes
  <2>4. drawn \in Nat /\ \A g \in Subs : g \in Nat
    BY LimitFacts DEF Subs
  <2>5. fwd[f].pc = "none"
    BY <2>1 DEF NoForward
  <2>6. \A g \in Subs : g # f => (g > drawn <=> g > drawn')
    BY <2>1, <2>4
  <2>9. ~ (f > drawn')
    BY <2>1, <2>4
  <2> HIDE DEF f, w
  <2>7. \A g \in Subs : /\ fwd'[g].pc = "none" <=> g > drawn'
                        /\ fwd'[g].pc = "none" => fwd'[g] = NoForward
    <3> SUFFICES ASSUME NEW g \in Subs
                 PROVE  /\ fwd'[g].pc = "none" <=> g > drawn'
                        /\ fwd'[g].pc = "none" => fwd'[g] = NoForward
      OBVIOUS
    <3>1. CASE g = f
      BY <2>1, <2>9, <3>1 DEF w
    <3>2. CASE g # f
      BY <1>2, <2>3, <2>6, <3>2
    <3> QED BY <3>1, <3>2
  <2>8. ForwardOk(w, f, listeners)
    <3>1. Len(w.chan) <= ChanSize
      BY <1>n, <2>1
    <3> QED BY <2>1, <3>1 DEF ForwardOk, Registered
  <2>10. \A g \in Subs : ForwardOk(fwd'[g], g, listeners')
    BY <1>2, <2>2, <2>3, <2>8 DEF w
  <2>11. ASSUME NEW i \in DOMAIN listeners, listeners[i] # 0
         PROVE  fwd'[listeners[i]].pc \in Registered /\ fwd'[listeners[i]].slot = i
    <3>1. listeners[i] \in Subs /\ listeners[i] # f
      BY <1>0, <1>2, <2>5, <2>11 DEF Registered
    <3> QED BY <1>2, <2>3, <2>11, <3>1
  <2> QED BY <2>2, <2>7, <2>10, <2>11 DEF ForwardsInv
<1>10. (\E p \in Procs : CopySubscribers(p) \/ \E n \in 0 .. limit.lines : WriteLines(p, n))
       \/ (\E c \in Clients : \E e \in Events : Broadcast(e, c)) \/ Calm
       => UNCHANGED <<fwd, listeners, drawn>>
  BY DEF CopySubscribers, WriteLines, Broadcast, Calm, bufferVars
<1> QED BY <1>3, <1>4, <1>5, <1>6, <1>7, <1>8, <1>9, <1>10, Kinds

\* There are no more slots than subscriptions.
LEMMA SlotsBounded ==
  ASSUME TypeInv, SlotsInv
  PROVE  Len(listeners) <= MaxSubs /\ IsFiniteSet(Slotted(fwd))
<1>1. MaxSubs \in Nat /\ Len(listeners) \in Nat
  BY StreamAssumption DEF TypeInv
<1>2. IsFiniteSet(Subs) /\ Cardinality(Subs) = MaxSubs
  <2>1. IsFiniteSet(1 .. MaxSubs) /\ Cardinality(1 .. MaxSubs) = MaxSubs
    BY <1>1, FS_Interval
  <2> QED BY <2>1 DEF Subs
<1>3. Slotted(fwd) \subseteq Subs
  BY DEF Slotted
<1>4. IsFiniteSet(Slotted(fwd)) /\ Cardinality(Slotted(fwd)) <= Cardinality(Subs)
  BY <1>2, <1>3, FS_Subset
<1> QED BY <1>2, <1>4 DEF SlotsInv

\* There is no slot at first.
LEMMA SlotsInit == Init => SlotsInv
<1> SUFFICES ASSUME Init PROVE SlotsInv
  OBVIOUS
<1>1. fwd = [f \in Subs |-> NoForward] /\ listeners = <<>>
  BY DEF Init
<1>2. Slotted(fwd) = {}
  BY <1>1 DEF Slotted, Registered, NoForward
<1>3. \A f \in Subs : fwd[f].slot = 0
  BY <1>1 DEF NoForward
<1>4. Cardinality(Slotted(fwd)) = 0 /\ Len(listeners) = 0
  BY <1>1, <1>2, FS_EmptySet
<1>5. \A f \in Subs : fwd[f].slot <= Len(listeners)
  BY <1>3, <1>4
<1> QED BY <1>4, <1>5 DEF SlotsInv

\* No slot is taken or given back.
LEMMA SlotsStay ==
  ASSUME TypeInv, SlotsInv, Len(listeners') = Len(listeners),
         \A f \in Subs : /\ fwd'[f].slot \in {0, fwd[f].slot}
                         /\ fwd'[f].pc \in Registered \cup {"ended"}
                              <=> fwd[f].pc \in Registered \cup {"ended"}
  PROVE  SlotsInv'
<1>1. Slotted(fwd') = Slotted(fwd)
  BY DEF Slotted
<1>2. Len(listeners) \in Nat /\ Len(listeners) >= 0
  BY DEF TypeInv
<1>3. \A f \in Subs : fwd'[f].slot <= Len(listeners')
  BY <1>2 DEF SlotsInv
<1> QED BY <1>1, <1>3 DEF SlotsInv

\* Every slot belongs to a subscription, and to no other.
LEMMA SlotsStep ==
  ASSUME TypeInv, RingInv, CopiersInv, ForwardsInv, SlotsInv, [Next]_vars
  PROVE  SlotsInv'
<1>0. fwd \in [Subs -> ForwardType] /\ listeners \in Seq({0} \cup Subs) /\ Len(listeners) \in Nat
  BY DEF TypeInv
<1>1. CASE UNCHANGED <<fwd, listeners>>
  BY <1>1, SlotsStay
<1>2. ASSUME NEW p \in Procs, CallSubscriber(p) PROVE SlotsInv'
  <2> DEFINE f == Head(copier[p].left)
             b == fwd'[f]
  <2>1. f \in Subs /\ fwd' = [fwd EXCEPT ![f] = b] /\ b.pc = fwd[f].pc /\ b.slot = fwd[f].slot
    BY <1>2, CallSubscriberMoves
  <2>2. UNCHANGED listeners
    BY <1>2 DEF CallSubscriber, bufferVars
  <2> HIDE DEF f
  <2>3. \A g \in Subs : fwd'[g].pc = fwd[g].pc /\ fwd'[g].slot = fwd[g].slot
    <3>1. \A g \in Subs : g # f => fwd'[g] = fwd[g]
      BY <1>0, <2>1
    <3> QED BY <2>1, <3>1
  <2> QED BY <2>2, <2>3, SlotsStay
<1>3. ASSUME NEW f \in Subs, SubscribeLogs(f) PROVE SlotsInv'
  <2> DEFINE w == fwd'[f]
  <2>1. /\ fwd[f].pc = "snapshot" /\ fwd' = [fwd EXCEPT ![f] = w]
        /\ w.pc = "backfill" /\ w.slot = Len(listeners) + 1
        /\ listeners' = Append(listeners, f)
    BY <1>3, SubscribeLogsMoves DEF ForwardBecomes
  <2>2. \A g \in Subs : g # f => fwd'[g] = fwd[g]
    BY <1>0, <2>1
  <2>3. Slotted(fwd') = Slotted(fwd) \cup {f} /\ f \notin Slotted(fwd)
    BY <2>1, <2>2 DEF Slotted, Registered
  <2>4. Cardinality(Slotted(fwd')) = Cardinality(Slotted(fwd)) + 1
    BY <2>3, SlotsBounded, FS_AddElement
  <2>5. Len(listeners') = Len(listeners) + 1
    BY <1>0, <2>1
  <2>6. \A g \in Subs : fwd[g].slot <= Len(listeners) /\ fwd[g].slot \in Nat
    BY <1>0 DEF SlotsInv, ForwardType
  <2> HIDE DEF w
  <2>7. \A g \in Subs : fwd'[g].slot <= Len(listeners')
    <3> SUFFICES ASSUME NEW g \in Subs PROVE fwd'[g].slot <= Len(listeners')
      OBVIOUS
    <3>1. CASE g = f
      BY <1>0, <2>1, <2>5, <3>1 DEF w
    <3>2. CASE g # f
      BY <1>0, <2>2, <2>5, <2>6, <3>2
    <3> QED BY <3>1, <3>2
  <2> QED BY <2>4, <2>5, <2>7 DEF SlotsInv
<1>4. ASSUME NEW f \in Subs, Backfill(f) \/ Forward(f) \/ ForwardDone(f) PROVE SlotsInv'
  <2> DEFINE w == fwd'[f]
  <2>1. /\ fwd' = [fwd EXCEPT ![f] = w] /\ w.slot = fwd[f].slot
        /\ fwd[f].pc \in {"backfill", "live"} /\ w.pc \in {"backfill", "live", "ended"}
    BY <1>4, BackfillMoves, ForwardMoves, ForwardDoneMoves DEF ForwardBecomes
  <2>2. Len(listeners') = Len(listeners)
    <3>1. UNCHANGED listeners \/ listeners' = Unsubscribed(fwd[f].slot)
      BY <1>4, ForwardMoves, ForwardDoneMoves DEF Backfill, bufferVars
    <3> QED BY <3>1, UnsubscribedType
  <2> HIDE DEF w
  <2>3. ASSUME NEW g \in Subs
        PROVE  /\ fwd'[g].slot = fwd[g].slot
               /\ fwd'[g].pc \in Registered \cup {"ended"} <=> fwd[g].pc \in Registered \cup {"ended"}
    <3>1. CASE g = f
      BY <2>1, <3>1 DEF w, Registered
    <3>2. CASE g # f
      BY <1>0, <2>1, <3>2
    <3> QED BY <3>1, <3>2
  <2> QED BY <2>2, <2>3, SlotsStay
<1>5. ASSUME NEW c \in Clients, Subscribe(c) PROVE SlotsInv'
  <2> DEFINE f == drawn + 1
             w == fwd'[f]
  <2>1. /\ f \in Subs /\ fwd[f] = NoForward /\ fwd' = [fwd EXCEPT ![f] = w]
        /\ w.pc = "snapshot" /\ w.slot = 0
    BY <1>5, SubscribeMoves DEF ForwardBecomes
  <2>2. UNCHANGED listeners
    BY <1>5 DEF Subscribe, bufferVars
  <2> HIDE DEF f, w
  <2>3. ASSUME NEW g \in Subs
        PROVE  /\ fwd'[g].slot \in {0, fwd[g].slot}
               /\ fwd'[g].pc \in Registered \cup {"ended"} <=> fwd[g].pc \in Registered \cup {"ended"}
    <3>1. CASE g = f
      BY <2>1, <3>1 DEF w, Registered, NoForward
    <3>2. CASE g # f
      BY <1>0, <2>1, <3>2
    <3> QED BY <3>1, <3>2
  <2> QED BY <2>2, <2>3, SlotsStay
<1>6. (\E p \in Procs : CopySubscribers(p) \/ \E n \in 0 .. limit.lines : WriteLines(p, n))
       \/ (\E c \in Clients : \E e \in Events : Broadcast(e, c)) \/ Calm
       => UNCHANGED <<fwd, listeners>>
  BY DEF CopySubscribers, WriteLines, Broadcast, Calm, bufferVars
<1> QED BY <1>1, <1>2, <1>3, <1>4, <1>5, <1>6, Kinds

-----------------------------------------------------------------------------
(* Clients, scanners and events.                                           *)

\* What a step does to the clients.
LEMMA ClientsMove ==
  ASSUME TypeInv, RingInv, CopiersInv, ForwardsInv, [Next]_vars
  PROVE  \/ ClientsKeep
         \/ \E c \in Clients, m \in Message : ClientGets(c, m) /\ m.sub <= drawn
<1>1. CASE UNCHANGED client
  BY <1>1, UnchangedKeep
<1>2. CASE Calm
  BY <1>2 DEF Calm
<1>3. ASSUME NEW f \in Subs, NEW x \in Line, fwd[f].pc # "none"
      PROVE  LineOf(f, x) \in Message /\ LineOf(f, x).sub <= drawn
  <2>1. LineOf(f, x) \in Message /\ LineOf(f, x).sub = f
    BY MessagesType
  <2>2. ~ (f > drawn)
    BY <1>3 DEF ForwardsInv
  <2>3. f \in Nat /\ drawn \in Nat
    BY LimitFacts DEF Subs
  <2> QED BY <2>1, <2>2, <2>3
<1>4. ASSUME NEW f \in Subs, Backfill(f) \/ Forward(f)
      PROVE  \/ ClientsKeep
             \/ \E c \in Clients, m \in Message : ClientGets(c, m) /\ m.sub <= drawn
  <2>1. \/ ClientsKeep
        \/ \E c \in Clients, x \in Line : fwd[f].pc # "none" /\ ClientGets(c, LineOf(f, x))
    BY <1>4, BackfillMoves, ForwardMoves
  <2> QED BY <1>3, <2>1
<1>5. ASSUME NEW c \in Clients, Subscribe(c) PROVE ClientsKeep
  BY <1>5, SubscribeMoves
<1>6. ASSUME NEW c \in Clients, NEW e \in Events, Broadcast(e, c)
      PROVE  \E d \in Clients, m \in Message : ClientGets(d, m) /\ m.sub <= drawn
  <2>1. EventMsg(e) \in Message /\ EventMsg(e).sub = 0
    BY MessagesType
  <2>2. drawn \in Nat
    BY LimitFacts
  <2>3. 0 <= drawn
    BY <2>2
  <2> QED BY <1>6, <2>1, <2>3, BroadcastMoves
<1>7. (\E p \in Procs : CopySubscribers(p) \/ CallSubscriber(p)
                        \/ \E n \in 0 .. limit.lines : WriteLines(p, n))
      \/ (\E f \in Subs : SubscribeLogs(f) \/ ForwardDone(f))
      => UNCHANGED client
  BY DEF CopySubscribers, WriteLines, CallSubscriber, SubscribeLogs, ForwardDone
<1> QED BY <1>1, <1>2, <1>4, <1>5, <1>6, <1>7, Kinds

\* There is no client at first.
LEMMA ClientsInit == Init => ClientsInv
<1> SUFFICES ASSUME Init PROVE ClientsInv
  OBVIOUS
<1>1. \A c \in Clients : client[c].send = <<>> /\ Queue(c) = <<>>
  BY DEF Init, NoClient, Queue
<1> QED BY <1>1, StreamAssumption DEF ClientsInv, ToSet

\* Every client.
LEMMA ClientsStep ==
  ASSUME TypeInv, RingInv, CopiersInv, ForwardsInv, ClientsInv, [Next]_vars
  PROVE  ClientsInv'
<1>1. drawn \in Nat /\ drawn' \in Nat /\ drawn <= drawn'
  <2>1. UNCHANGED drawn \/ drawn' = drawn + 1
    <3>1. (\E c \in Clients : Subscribe(c)) => drawn' = drawn + 1
      BY SubscribeMoves
    <3>2. Calm \/ (\E p \in Procs : CopySubscribers(p) \/ CallSubscriber(p)
                        \/ \E n \in 0 .. limit.lines : WriteLines(p, n))
          \/ (\E f \in Subs : SubscribeLogs(f) \/ Backfill(f) \/ Forward(f) \/ ForwardDone(f))
          \/ (\E c \in Clients : \E e \in Events : Broadcast(e, c))
          => UNCHANGED drawn
      BY DEF CopySubscribers, WriteLines, CallSubscriber, SubscribeLogs, ForwardDone, Backfill,
             Forward, Broadcast, Calm
    <3> QED BY <3>1, <3>2, Kinds
  <2> QED BY <2>1, LimitFacts
<1>2. \A c \in Clients : \A m \in ToSet(Queue(c)) : m.sub \in Nat /\ m.sub <= drawn
  <2> SUFFICES ASSUME NEW c \in Clients, NEW m \in ToSet(Queue(c))
               PROVE  m.sub \in Nat /\ m.sub <= drawn
    OBVIOUS
  <2>1. Queue(c) \in Seq(Message)
    BY QueueType
  <2>2. m \in Message
    BY <2>1, ToSetFacts
  <2> QED BY <2>2 DEF ClientsInv, Message, Subs
<1>3. \A c \in Clients : Len(client[c].send) \in Nat /\ Len(client[c].send) <= SendSize
                         /\ Queue(c) \in Seq(Message)
  BY QueueType DEF ClientsInv
<1>s. SendSize \in Nat
  BY StreamAssumption
<1>4. CASE ClientsKeep
  <2>1. client' \in [Clients -> ClientType]
    BY <1>4 DEF ClientsKeep
  <2>2. ASSUME NEW c \in Clients PROVE Len(client'[c].send) <= SendSize
    <3>1. Len(client'[c].send) \in Nat
      BY <2>1 DEF ClientType
    <3>2. Len(client'[c].send) <= Len(client[c].send)
      BY <1>4 DEF ClientsKeep
    <3> QED BY <1>3, <1>s, <3>1, <3>2
  <2>3. ASSUME NEW c \in Clients, NEW m \in ToSet(Queue(c)') PROVE m.sub <= drawn'
    <3>1. m \in ToSet(Queue(c))
      BY <1>4 DEF ClientsKeep
    <3>2. m.sub \in Nat /\ m.sub <= drawn
      BY <1>2, <3>1
    <3> QED BY <1>1, <3>2
  <2> QED BY <2>2, <2>3 DEF ClientsInv
<1>5. ASSUME NEW c \in Clients, NEW m \in Message, ClientGets(c, m), m.sub <= drawn
      PROVE  ClientsInv'
  <2>1. \A d \in Clients : d # c => client'[d] = client[d] /\ Queue(d)' = Queue(d)
    BY <1>5 DEF ClientGets, Queue
  <2>2. ToSet(Queue(c)') \subseteq ToSet(Queue(c)) \cup {m}
    <3>1. Queue(c)' = Queue(c) \/ Queue(c)' = Append(Queue(c), m)
      BY <1>5 DEF ClientGets
    <3> QED BY <1>3, <3>1, ToSetOfAppend
  <2>3. Len(client'[c].send) <= SendSize
    <3>1. \/ Len(client'[c].send) = Len(client[c].send) + 1 /\ Len(client[c].send) < SendSize
          \/ client'[c].send = client[c].send
      BY <1>5 DEF ClientGets
    <3> QED BY <1>3, <1>s, <3>1
  <2>4. m.sub \in Nat
    BY DEF Message, Subs
  <2>5. ASSUME NEW d \in Clients, NEW x \in ToSet(Queue(d)') PROVE x.sub <= drawn'
    <3>1. x = m \/ x \in ToSet(Queue(d))
      BY <2>1, <2>2
    <3>2. x.sub \in Nat /\ x.sub <= drawn
      BY <1>2, <1>5, <2>4, <3>1
    <3> QED BY <1>1, <3>2
  <2>6. \A d \in Clients : Len(client'[d].send) <= SendSize
    BY <1>3, <2>1, <2>3
  <2> QED BY <2>5, <2>6 DEF ClientsInv
<1> QED BY <1>4, <1>5, ClientsMove

-----------------------------------------------------------------------------
\* What a client has been sent stays sent, and what it has lost stays lost.
LEMMA QueueGrows ==
  ASSUME TypeInv, RingInv, CopiersInv, ForwardsInv, [Next]_vars, NEW c \in Clients
  PROVE  ToSet(Queue(c)) \subseteq ToSet(Queue(c)') /\ (client[c].lossy => client'[c].lossy)
<1>1. Queue(c) \in Seq(Message)
  BY QueueType
<1>2. CASE ClientsKeep
  BY <1>2 DEF ClientsKeep
<1>3. ASSUME NEW d \in Clients, NEW m \in Message, ClientGets(d, m)
      PROVE  ToSet(Queue(c)) \subseteq ToSet(Queue(c)') /\ (client[c].lossy => client'[c].lossy)
  <2>1. CASE c # d
    BY <1>3, <2>1 DEF ClientGets, Queue
  <2>2. CASE c = d
    BY <1>1, <1>3, <2>2, ToSetOfAppend DEF ClientGets
  <2> QED BY <2>1, <2>2
<1> QED BY <1>2, <1>3, ClientsMove

\* An event that was broadcast has reached its clients, or is lost to them.
LEMMA EventsStep ==
  ASSUME TypeInv, RingInv, CopiersInv, ForwardsInv, EventsInv, [Next]_vars
  PROVE  EventsInv'
<1> DEFINE Reached(e, c) == client[c].lossy \/ c \in cast[e].left \/ EventMsg(e) \in ToSet(Queue(c))
           Passed(e, c) == client'[c].lossy \/ EventMsg(e) \in ToSet(Queue(c)')
<1>0. /\ cast \in [Events -> CastType] /\ emitted \in Nat /\ \A e \in 1 .. emitted : e \in Events
      /\ \A e \in Events : cast[e].to \subseteq Clients
  <2>1. cast \in [Events -> CastType] /\ emitted \in Nat
    BY LimitFacts DEF TypeInv
  <2>2. \A e \in 1 .. emitted : e \in Events
    BY LimitFacts, StreamAssumption DEF Events, TypeInv
  <2> QED BY <2>1, <2>2 DEF CastType
<1>1. \A e \in 1 .. emitted : \A c \in cast[e].to : Reached(e, c)
  BY DEF EventsInv
<1>2. ASSUME NEW e \in 1 .. emitted, NEW c \in cast[e].to, c \notin cast[e].left
      PROVE  Passed(e, c)
  BY <1>0, <1>1, <1>2, QueueGrows
<1>3. CASE UNCHANGED eventVars
  <2> SUFFICES ASSUME NEW e \in 1 .. emitted, NEW c \in cast[e].to
               PROVE  c \in cast[e].left \/ Passed(e, c)
    BY <1>3 DEF EventsInv, eventVars
  <2> QED BY <1>2
<1>4. CASE Cast
  <2>1. CASE emitted' = emitted + 1 /\ emitted + 1 \in Events
             /\ cast'[emitted + 1].to = hub /\ cast'[emitted + 1].left = hub
             /\ \A e \in Events : e # emitted + 1 => cast'[e] = cast[e]
    <3> SUFFICES ASSUME NEW e \in 1 .. emitted', NEW c \in cast'[e].to
                 PROVE  c \in cast'[e].left \/ Passed(e, c)
      BY DEF EventsInv
    <3>1. CASE e = emitted + 1
      BY <2>1, <3>1
    <3>2. CASE e # emitted + 1
      <4>1. e \in 1 .. emitted
        BY <1>0, <2>1, <3>2
      <4>2. cast'[e] = cast[e]
        BY <1>0, <2>1, <3>2, <4>1
      <4> QED BY <1>2, <4>1, <4>2
    <3> QED BY <3>1, <3>2
  <2> QED BY <1>3, <1>4, <2>1, CastMoves
<1>5. ASSUME NEW c \in Clients, NEW e \in Events, Broadcast(e, c) PROVE EventsInv'
  <2>1. /\ cast'[e].to = cast[e].to /\ cast'[e].left = cast[e].left \ {c}
        /\ \A d \in Events : d # e => cast'[d] = cast[d]
        /\ ClientGets(c, EventMsg(e)) /\ emitted' = emitted
    BY <1>5, BroadcastMoves DEF Broadcast
  <2>2. Passed(e, c)
    <3>1. Queue(c)' = Append(Queue(c), EventMsg(e)) \/ client'[c].lossy = TRUE
      BY <2>1 DEF ClientGets
    <3>2. Queue(c) \in Seq(Message)
      BY QueueType
    <3>3. EventMsg(e) \in ToSet(Append(Queue(c), EventMsg(e)))
      BY <3>2, ToSetOfAppend
    <3> QED BY <3>1, <3>3
  <2> SUFFICES ASSUME NEW d \in 1 .. emitted, NEW b \in cast'[d].to
               PROVE  b \in cast'[d].left \/ Passed(d, b)
    BY <2>1 DEF EventsInv
  <2>3. CASE d = e
    <3>1. b \in cast[d].to
      BY <2>1, <2>3
    <3>2. CASE b = c
      BY <2>2, <2>3, <3>2
    <3>3. CASE b # c
      BY <1>2, <2>1, <2>3, <3>1, <3>3
    <3> QED BY <3>2, <3>3
  <2>4. CASE d # e
    <3>1. cast'[d] = cast[d]
      BY <1>0, <2>1, <2>4
    <3> QED BY <1>2, <3>1
  <2> QED BY <2>3, <2>4
<1>6. ASSUME NEW p \in Procs, OnIdle(p) PROVE EventsInv'
  BY <1>3, <1>4, <1>6, OnIdleMoves
<1>7. CASE HandleChatEvent
  BY <1>4, <1>7 DEF HandleChatEvent
<1>8. ASSUME NEW p \in Procs, \/ \E n \in 0 .. limit.lines : WriteLines(p, n)
                              \/ CopierStep(p) \/ IdleTimer(p) \/ ProcessEnds(p)
      PROVE  UNCHANGED eventVars
  BY <1>8 DEF WriteLines, CopierStep, CopySubscribers, CallSubscriber, ScanOutput, IdleTimer,
              ProcessEnds, eventVars
<1>9. ASSUME NEW f \in Subs, ReaderStep(f) \/ Forward(f) \/ ForwardDone(f)
      PROVE  UNCHANGED eventVars
  BY <1>9 DEF ReaderStep, SubscribeLogs, Backfill, Forward, ForwardDone, eventVars
<1>10. ASSUME NEW c \in Clients, \/ HandleWS(c) \/ Subscribe(c) \/ Unsubscribe(c)
                                 \/ WsWriter(c) \/ Disconnect(c) \/ RemoveClient(c)
       PROVE  UNCHANGED eventVars
  BY <1>10 DEF HandleWS, Subscribe, Unsubscribe, WsWriter, Disconnect, RemoveClient, eventVars
<1>11. StartProcess \/ UNCHANGED vars => UNCHANGED eventVars
  BY DEF StartProcess, vars, eventVars
<1> HIDE DEF EventsInv, eventVars
<1> QED BY <1>3, <1>5, <1>6, <1>7, <1>8, <1>9, <1>10, <1>11 DEF Next, IdleStep

\* There is no event at first.
LEMMA EventsInit == Init => EventsInv
BY DEF Init, EventsInv

\* No scanner runs at first.
LEMMA ScansInit == Init => ScansInv
BY DEF Init, ScansInv, ScanOk, NoScanner

\* One scanner moves.
LEMMA ScanBecomes ==
  ASSUME TypeInv, ScansInv, NEW q, NEW w, q \in Procs => ScanOk(w),
         scan' = [scan EXCEPT ![q] = w]
  PROVE  ScansInv'
<1>1. scan \in [Procs -> ScanType]
  BY DEF TypeInv
<1>2. \A p \in Procs : scan'[p] = IF p = q THEN w ELSE scan[p]
  BY <1>1
<1> QED BY <1>2 DEF ScansInv

\* Every scanner.
LEMMA ScansStep ==
  ASSUME TypeInv, ScansInv, [Next]_vars
  PROVE  ScansInv'
<1>1. scan \in [Procs -> ScanType] /\ \A p \in Procs : ScanOk(scan[p])
  BY DEF TypeInv, ScansInv
<1>2. CASE StartProcess
  <2> DEFINE q == procs + 1
             w == [scan[q] EXCEPT !.armed = limit.idle]
  <2>1. scan' = [scan EXCEPT ![q] = w]
    BY <1>2 DEF StartProcess
  <2>2. q \in Procs => ScanOk(w)
    BY <1>1 DEF ScanType, ScanOk
  <2> HIDE DEF w, q
  <2> QED BY <2>1, <2>2, ScanBecomes
<1>3. ASSUME NEW p \in Procs, ScanOutput(p) PROVE ScansInv'
  <2> DEFINE w == [scan[p] EXCEPT !.fired = FALSE, !.told = 0, !.armed = limit.idle]
  <2>1. scan' = [scan EXCEPT ![p] = w]
    BY <1>3 DEF ScanOutput
  <2>2. ScanOk(w)
    BY <1>1 DEF ScanType, ScanOk
  <2> HIDE DEF w
  <2> QED BY <2>1, <2>2, ScanBecomes
<1>4. ASSUME NEW p \in Procs, IdleTimer(p) PROVE ScansInv'
  <2> DEFINE w == [scan[p] EXCEPT !.armed = FALSE, !.ringing = TRUE]
  <2>1. scan' = [scan EXCEPT ![p] = w]
    BY <1>4 DEF IdleTimer
  <2>2. ScanOk(w)
    BY <1>1 DEF ScanType, ScanOk
  <2> HIDE DEF w
  <2> QED BY <2>1, <2>2, ScanBecomes
<1>5. ASSUME NEW p \in Procs, OnIdle(p) PROVE ScansInv'
  <2> DEFINE s == scan[p]
             told == IF MayTell(s) THEN s.told + 1 ELSE s.told
             w == [s EXCEPT !.ringing = FALSE, !.fired = TRUE, !.told = told]
  <2>1. scan' = [scan EXCEPT ![p] = w]
    BY <1>5 DEF OnIdle
  <2>2. told <= 1
    BY <1>1 DEF ScanOk, MayTell
  <2>3. s \in ScanType
    BY <1>1
  <2> HIDE DEF told, s
  <2>4. w.fired = TRUE /\ w.told = told
    BY <2>3 DEF ScanType
  <2> HIDE DEF w
  <2>5. ScanOk(w)
    BY <2>2, <2>4 DEF ScanOk
  <2> QED BY <2>1, <2>5, ScanBecomes
<1>6. ASSUME NEW p \in Procs, ProcessEnds(p) PROVE ScansInv'
  <2> DEFINE w == [scan[procs] EXCEPT !.stopped = TRUE, !.armed = FALSE]
  <2>1. scan' = [scan EXCEPT ![procs] = w]
    BY <1>6 DEF ProcessEnds
  <2>2. procs \in Procs => ScanOk(w)
    BY <1>1 DEF ScanType, ScanOk
  <2> HIDE DEF w
  <2> QED BY <2>1, <2>2, ScanBecomes
<1>7. ASSUME NEW p \in Procs, \/ \E n \in 0 .. limit.lines : WriteLines(p, n)
                              \/ CopySubscribers(p) \/ CallSubscriber(p)
      PROVE  UNCHANGED scan
  BY <1>7 DEF WriteLines, CopySubscribers, CallSubscriber
<1>8. ASSUME NEW f \in Subs, ReaderStep(f) \/ Forward(f) \/ ForwardDone(f)
      PROVE  UNCHANGED scan
  BY <1>8 DEF ReaderStep, SubscribeLogs, Backfill, Forward, ForwardDone, procVars
<1>9. ASSUME NEW c \in Clients, \/ HandleWS(c) \/ Subscribe(c) \/ Unsubscribe(c)
                                \/ WsWriter(c) \/ Disconnect(c) \/ RemoveClient(c)
                                \/ \E e \in Events : Broadcast(e, c)
      PROVE  UNCHANGED scan
  BY <1>9 DEF HandleWS, Subscribe, Unsubscribe, WsWriter, Disconnect, RemoveClient, Broadcast, procVars
<1>10. HandleChatEvent \/ UNCHANGED vars => UNCHANGED scan
  BY DEF HandleChatEvent, vars, procVars
<1>11. UNCHANGED scan => ScansInv'
  BY DEF ScansInv
<1> QED BY <1>2, <1>3, <1>4, <1>5, <1>6, <1>7, <1>8, <1>9, <1>10, <1>11
        DEF Next, CopierStep, IdleStep

\* No copier runs at first.
LEMMA CopiersInit == Init => CopiersInv
<1> SUFFICES ASSUME Init PROVE CopiersInv
  OBVIOUS
<1>1. copier = [p \in Procs |-> NoCopier]
  BY DEF Init
<1>2. IsInjective(<<>>) /\ ToSet(<<>>) = {} /\ InOrder(<<>>, {})
  BY DEF IsInjective, ToSet, InOrder
<1>3. \A p \in Procs : CopierOk(NoCopier, p, fwd)
  BY <1>2 DEF CopierOk, NoCopier
<1> QED BY <1>1, <1>3 DEF CopiersInv

\* The empty log.
LEMMA LogInit == Init => LogInv
BY DEF Init, LogInv, InOrder, KnownBy, ToSet

-----------------------------------------------------------------------------
(* The lines of a subscription, and where they are.                        *)

\* What a client was told of a subscription are lines.
LEMMA ToldType ==
  ASSUME NEW q \in Seq(Message), NEW f \in Subs
  PROVE  Told(q, f) \in Seq(Line) /\ Len(Told(q, f)) = Len(Only(q, OfSub(f)))
         /\ Only(q, OfSub(f)) \in Seq(Message)
<1> DEFINE o == Only(q, OfSub(f))
<1>1. o \in Seq(Message \cap OfSub(f))
  BY OnlyType
<1>2. \A m \in OfSub(f) : m.line \in Line
  BY DEF OfSub
<1>3. Told(q, f) = [i \in 1 .. Len(o) |-> o[i].line]
  BY DEF Told
<1> HIDE DEF o
<1>4. Len(o) \in Nat /\ \A i \in 1 .. Len(o) : o[i].line \in Line
  BY <1>1, <1>2
<1>5. Told(q, f) \in Seq(Line) /\ Len(Told(q, f)) = Len(o)
  BY <1>3, <1>4
<1>6. o \in Seq(Message)
  BY <1>1
<1> QED BY <1>5, <1>6 DEF o

\* One message more, of this subscription or of another.
LEMMA ToldAppend ==
  ASSUME NEW q \in Seq(Message), NEW f \in Subs, NEW m \in Message
  PROVE  /\ m \in OfSub(f) => Told(Append(q, m), f) = Append(Told(q, f), m.line)
         /\ m \notin OfSub(f) => Told(Append(q, m), f) = Told(q, f)
<1> DEFINE o == Only(q, OfSub(f))
           a == Only(Append(q, m), OfSub(f))
           t == Told(q, f)
           n == Len(o)
<1>1. a = IF m \in OfSub(f) THEN Append(o, m) ELSE o
  BY OnlyAppend
<1>2. t \in Seq(Line) /\ Len(t) = n /\ o \in Seq(Message)
  BY ToldType
<1>3. t = [i \in 1 .. n |-> o[i].line] /\ Told(Append(q, m), f) = [i \in 1 .. Len(a) |-> a[i].line]
  BY DEF Told
<1>4. CASE m \notin OfSub(f)
  BY <1>1, <1>3, <1>4
<1>5. CASE m \in OfSub(f)
  <2>0. a = Append(o, m) /\ m.line \in Line
    BY <1>1, <1>5 DEF OfSub
  <2> HIDE DEF o, a, t
  <2>1. /\ n \in Nat /\ Len(a) = n + 1 /\ a[n + 1] = m
        /\ \A i \in 1 .. n : a[i] = o[i]
    BY <1>2, <2>0
  <2> HIDE DEF n
  <2>2. Append(t, m.line) = [i \in 1 .. n + 1 |-> IF i = n + 1 THEN m.line ELSE t[i]]
    BY <1>2, <2>0, <2>1
  <2>3. \A i \in 1 .. n : t[i] = o[i].line
    BY <1>3
  <2>4. \A i \in 1 .. n + 1 : a[i].line = IF i = n + 1 THEN m.line ELSE t[i]
    BY <2>1, <2>3
  <2>5. Told(Append(q, m), f) = [i \in 1 .. n + 1 |-> a[i].line]
    BY <1>3, <2>1
  <2>6. [i \in 1 .. n + 1 |-> a[i].line] = [i \in 1 .. n + 1 |-> IF i = n + 1 THEN m.line ELSE t[i]]
    BY <2>4
  <2> QED BY <1>5, <2>2, <2>5, <2>6 DEF t
<1> QED BY <1>4, <1>5

\* Without messages nothing was told.
LEMMA ToldNothing ==
  ASSUME NEW q \in Seq(Message), NEW f \in Subs, \A m \in ToSet(q) : m.sub # f
  PROVE  Told(q, f) = <<>>
<1> DEFINE o == Only(q, OfSub(f))
<1>1. ToSet(o) = ToSet(q) \cap OfSub(f) /\ o \in Seq(Message \cap OfSub(f))
  BY OnlyType
<1>2. \A m \in OfSub(f) : m.sub = f
  BY DEF OfSub
<1>3. ToSet(o) = {}
  BY <1>1, <1>2
<1> HIDE DEF o
<1>4. o = <<>>
  BY <1>1, <1>3 DEF ToSet
<1>5. Told(q, f) = [i \in 1 .. Len(o) |-> o[i].line]
  BY DEF Told, o
<1> QED BY <1>4, <1>5

-----------------------------------------------------------------------------
\* The first element of a sequence is moved to the end of the one before it.
LEMMA HeadMoves ==
  ASSUME NEW T, NEW a \in Seq(T), NEW b \in Seq(T), b # <<>>
  PROVE  Append(a, Head(b)) \o Tail(b) = a \o b
<1> DEFINE l == Append(a, Head(b)) \o Tail(b)
           r == a \o b
           n == Len(a)
           m == Len(b)
<1>1. n \in Nat /\ m \in Nat /\ m > 0 /\ Len(Tail(b)) = m - 1 /\ Tail(b) \in Seq(T) /\ Head(b) \in T
      /\ \A i \in 1 .. m - 1 : Tail(b)[i] = b[i + 1]
  BY TailFacts
<1>2. /\ l \in Seq(T) /\ r \in Seq(T) /\ Len(l) = n + m /\ Len(r) = n + m
  BY <1>1
<1>3. ASSUME NEW i \in 1 .. n + m PROVE l[i] = r[i]
  <2>1. CASE i <= n
    BY <1>1, <2>1
  <2>2. CASE i = n + 1
    BY <1>1, <2>2
  <2>3. CASE i > n + 1
    <3>1. l[i] = Tail(b)[i - (n + 1)]
      BY <1>1, <2>3
    <3>2. Tail(b)[i - (n + 1)] = b[(i - (n + 1)) + 1]
      BY <1>1, <2>3
    <3>3. r[i] = b[i - n] /\ (i - (n + 1)) + 1 = i - n
      BY <1>1, <2>3
    <3> QED BY <3>1, <3>2, <3>3
  <2> QED BY <1>1, <2>1, <2>2, <2>3
<1> HIDE DEF l, r, n, m
<1>4. l = r
  BY <1>2, <1>3
<1> QED BY <1>4 DEF l, r

\* And the last of three sequences takes one more.
LEMMA LastTakes ==
  ASSUME NEW T, NEW a \in Seq(T), NEW b \in Seq(T), NEW x \in T
  PROVE  a \o Append(b, x) = Append(a \o b, x)
OBVIOUS

\* A stream is a sequence of lines.
LEMMA StreamType ==
  ASSUME TypeInv, NEW f \in Subs, fwd[f].client \in Clients
  PROVE  /\ Stream(f) \in Seq(Line) /\ Told(Queue(fwd[f].client), f) \in Seq(Line)
         /\ fwd[f].rest \in Seq(Line) /\ fwd[f].chan \in Seq(Line)
<1>1. Told(Queue(fwd[f].client), f) \in Seq(Line)
  BY QueueType, ToldType
<1>2. fwd[f].rest \in Seq(Line) /\ fwd[f].chan \in Seq(Line)
  BY DEF TypeInv, ForwardType
<1> QED BY <1>1, <1>2 DEF Stream

\* What the client of a subscription has been told.
LEMMA ToldKeeps ==
  ASSUME TypeInv, NEW c \in Clients, NEW f \in Subs,
         ClientsKeep \/ \E d \in Clients, m \in Message :
                          ClientGets(d, m) /\ (d # c \/ m \notin OfSub(f))
  PROVE  Told(Queue(c)', f) = Told(Queue(c), f)
<1>1. CASE ClientsKeep
  BY <1>1 DEF ClientsKeep
<1>2. ASSUME NEW d \in Clients, NEW m \in Message, ClientGets(d, m), d # c \/ m \notin OfSub(f)
      PROVE  Told(Queue(c)', f) = Told(Queue(c), f)
  <2>1. CASE c # d
    BY <1>2, <2>1 DEF ClientGets, Queue
  <2>2. CASE c = d
    <3>1. Queue(c) \in Seq(Message)
      BY QueueType
    <3>2. Queue(c)' = Append(Queue(c), m) \/ Queue(c)' = Queue(c)
      BY <1>2, <2>2 DEF ClientGets
    <3> QED BY <1>2, <2>2, <3>1, <3>2, ToldAppend
  <2> QED BY <2>1, <2>2
<1> QED BY <1>1, <1>2

\* A message more for the client.
LEMMA ToldGets ==
  ASSUME TypeInv, NEW c \in Clients, NEW f \in Subs, NEW x \in Line, ClientGets(c, LineOf(f, x))
  PROVE  \/ Told(Queue(c)', f) = Append(Told(Queue(c), f), x)
         \/ Told(Queue(c)', f) = Told(Queue(c), f) /\ client'[c].lossy
<1> DEFINE m == LineOf(f, x)
<1>1. m \in Message /\ m \in OfSub(f) /\ m.line = x
  BY MessagesType
<1>2. Queue(c) \in Seq(Message)
  BY QueueType
<1>3. Queue(c)' = Append(Queue(c), m) \/ (Queue(c)' = Queue(c) /\ client'[c].lossy = TRUE)
  BY DEF ClientGets
<1> HIDE DEF m
<1> QED BY <1>1, <1>2, <1>3, ToldAppend

\* Nothing happens to a subscription.
LEMMA StreamSame ==
  ASSUME TypeInv, NEW f \in Subs, fwd[f].client \in Clients,
         fwd'[f].client = fwd[f].client, fwd'[f].rest = fwd[f].rest, fwd'[f].chan = fwd[f].chan,
         ClientsKeep \/ \E d \in Clients, m \in Message :
                          ClientGets(d, m) /\ (d # fwd[f].client \/ m \notin OfSub(f))
  PROVE  Stream(f)' = Stream(f)
<1>1. PICK c \in Clients : c = fwd[f].client
  OBVIOUS
<1>2. Told(Queue(c)', f) = Told(Queue(c), f)
  BY <1>1, ToldKeeps
<1>3. Stream(f) = Told(Queue(c), f) \o fwd[f].rest \o fwd[f].chan
  BY <1>1 DEF Stream
<1>4. Stream(f)' = Told(Queue(c)', f) \o fwd'[f].rest \o fwd'[f].chan
  BY <1>1 DEF Stream, Queue
<1> QED BY <1>2, <1>3, <1>4

\* A line moves into the channel of the client, or is dropped.
LEMMA StreamMoved ==
  ASSUME TypeInv, NEW f \in Subs, NEW c \in Clients, c = fwd[f].client, c = fwd'[f].client,
         NEW x \in Line, ClientGets(c, LineOf(f, x)),
         \/ /\ fwd[f].rest # <<>> /\ x = Head(fwd[f].rest)
            /\ fwd'[f].rest = Tail(fwd[f].rest) /\ fwd'[f].chan = fwd[f].chan
         \/ /\ fwd[f].rest = <<>> /\ fwd'[f].rest = <<>> /\ fwd[f].chan # <<>>
            /\ x = Head(fwd[f].chan) /\ fwd'[f].chan = Tail(fwd[f].chan)
  PROVE  \/ Stream(f)' = Stream(f)
         \/ Within(Stream(f)', Stream(f)) /\ client'[c].lossy
<1> DEFINE t == Told(Queue(c), f)
           u == Told(Queue(c)', f)
           b == fwd[f].rest
           d == fwd[f].chan
<1>1. Stream(f) = t \o b \o d /\ t \in Seq(Line) /\ b \in Seq(Line) /\ d \in Seq(Line)
  <2>1. Stream(f) = t \o b \o d
    BY DEF Stream
  <2> QED BY <2>1, StreamType
<1>2. Stream(f)' = u \o fwd'[f].rest \o fwd'[f].chan
  BY DEF Stream, Queue
<1>3. u = Append(t, x) \/ (u = t /\ client'[c].lossy)
  BY ToldGets
<1> DEFINE S == Stream(f)
           N == Stream(f)'
           lost == client'[c].lossy
<1> SUFFICES N = S \/ (Within(N, S) /\ lost)
  OBVIOUS
<1> HIDE DEF t, u, b, d
<1>4. CASE b # <<>> /\ x = Head(b) /\ fwd'[f].rest = Tail(b) /\ fwd'[f].chan = d
  <2>1. N = u \o Tail(b) \o d
    BY <1>2, <1>4
  <2> HIDE DEF S, N, lost
  <2>2. Append(t, x) \o Tail(b) = t \o b
    BY <1>1, <1>4, HeadMoves
  <2>3. Within(t \o Tail(b) \o d, t \o b \o d)
    BY <1>1, <1>4, DropWithin
  <2> QED BY <1>1, <1>3, <2>1, <2>2, <2>3 DEF S, lost
<1>5. CASE b = <<>> /\ fwd'[f].rest = <<>> /\ d # <<>> /\ x = Head(d) /\ fwd'[f].chan = Tail(d)
  <2>1. N = u \o <<>> \o Tail(d)
    BY <1>2, <1>5
  <2>s. S = t \o <<>> \o d
    BY <1>1, <1>5
  <2> HIDE DEF S, N, lost
  <2>2. Append(t, x) \o Tail(d) = t \o d
    BY <1>1, <1>5, HeadMoves
  <2>3. Within(t \o Tail(d) \o <<>>, t \o d \o <<>>)
    <3>1. <<>> \in Seq(Line)
      OBVIOUS
    <3> QED BY <1>1, <1>5, <3>1, DropWithin
  <2>4. /\ t \o <<>> = t /\ Append(t, x) \o <<>> = Append(t, x) /\ Tail(d) \in Seq(Line)
    BY <1>1, <1>5, TailFacts
  <2>5. (t \o Tail(d)) \o <<>> = t \o Tail(d) /\ (t \o d) \o <<>> = t \o d
    BY <1>1, <2>4
  <2>6. Within(t \o Tail(d), t \o d)
    BY <2>3, <2>5
  <2>7. S = t \o d
    BY <2>4, <2>s
  <2>8. CASE u = Append(t, x)
    BY <2>1, <2>2, <2>4, <2>7, <2>8
  <2>9. CASE u = t /\ lost
    BY <2>1, <2>4, <2>6, <2>7, <2>9
  <2> QED BY <1>3, <2>8, <2>9 DEF lost
<1> QED BY <1>4, <1>5 DEF b, d

\* A copier calls a subscription.
LEMMA StreamTakes ==
  ASSUME TypeInv, CopiersInv, NEW p \in Procs, CallSubscriber(p), NEW f \in Subs,
         f = Head(copier[p].left), fwd[f].client \in Clients
  PROVE  LET x == Head(copier[p].chunk) IN
         /\ x \in Line
         /\ \/ Stream(f)' = Append(Stream(f), x)
            \/ Stream(f)' = Stream(f) /\ fwd'[f].lossy
<1> DEFINE x == Head(copier[p].chunk)
           a == fwd[f]
           b == fwd'[f]
<1>1. PICK c \in Clients : c = fwd[f].client
  OBVIOUS
<1>2. /\ b.client = a.client /\ b.rest = a.rest /\ x \in Line
      /\ \/ b.chan = Append(a.chan, x)
         \/ b.chan = a.chan /\ b.lossy = TRUE
  BY CallSubscriberMoves
<1>3. UNCHANGED client
  BY DEF CallSubscriber
<1> DEFINE t == Told(Queue(c), f)
<1>4. Stream(f) = t \o a.rest \o a.chan
  BY <1>1 DEF Stream
<1>5. Stream(f)' = t \o b.rest \o b.chan
  BY <1>1, <1>2, <1>3 DEF Stream, Queue
<1>6. t \in Seq(Line) /\ a.rest \in Seq(Line) /\ a.chan \in Seq(Line)
  BY <1>1, StreamType
<1> DEFINE r == a.rest
           d == a.chan
<1> HIDE DEF t, r, d, x
<1>7. t \o r \in Seq(Line)
  BY <1>6 DEF r
<1>8. t \o r \o Append(d, x) = Append(t \o r \o d, x)
  <2>1. d \in Seq(Line) /\ x \in Line
    BY <1>2, <1>6 DEF d
  <2> DEFINE e == t \o r
  <2>2. e \in Seq(Line)
    BY <1>7
  <2> HIDE DEF e
  <2>3. e \o Append(d, x) = Append(e \o d, x)
    BY <2>1, <2>2, LastTakes
  <2> QED BY <2>3 DEF e
<1>9. CASE b.chan = Append(a.chan, x)
  BY <1>2, <1>4, <1>5, <1>8, <1>9 DEF r, d, x
<1>10. CASE b.chan = a.chan /\ b.lossy = TRUE
  BY <1>2, <1>4, <1>5, <1>10 DEF x
<1> QED BY <1>2, <1>9, <1>10

\* A new subscription starts with the last lines of the log.
LEMMA StreamStarts ==
  ASSUME TypeInv, RingInv, ForwardsInv, ClientsInv, NEW c \in Clients, Subscribe(c),
         NEW f \in Subs, f = drawn + 1
  PROVE  Within(Stream(f)', log)
<1> DEFINE w == fwd'[f]
           n == IF Backlog < Size THEN Backlog ELSE Size
           l == LastOf(log, n)
<1>1. w.client = c /\ w.rest = l /\ w.chan = <<>> /\ ClientsKeep
  BY SubscribeMoves
<1>2. Queue(c)' = Queue(c) /\ Queue(c) \in Seq(Message)
  BY <1>1, QueueType DEF ClientsKeep
<1>3. Told(Queue(c), f) = <<>>
  <2>1. ASSUME NEW m \in ToSet(Queue(c)) PROVE m.sub # f
    <3>1. m.sub <= drawn
      BY DEF ClientsInv
    <3>2. m \in Message /\ drawn \in Nat
      BY <1>2, ToSetFacts, LimitFacts
    <3>3. m.sub \in Nat
      BY <3>2 DEF Message, Subs
    <3> QED BY <3>1, <3>2, <3>3
  <2> QED BY <1>2, <2>1, ToldNothing
<1>4. Stream(f)' = <<>> \o l \o <<>>
  <2>1. Stream(f)' = Told(Queue(c)', f) \o w.rest \o w.chan
    BY <1>1 DEF Stream, Queue
  <2> QED BY <1>1, <1>2, <1>3, <2>1
<1> DEFINE a == IF Len(log) > n THEN Len(log) - n + 1 ELSE 1
<1>5. l = SubSeq(log, a, Len(log))
  BY DEF LastOf
<1>6. log \in Seq(Line) /\ Len(log) \in Nat /\ n \in Nat
  BY StreamAssumption DEF TypeInv
<1>7. a \in Nat \ {0}
  BY <1>6
<1> HIDE DEF a, n, l
<1>8. l \in Seq(Line) /\ Within(l, log)
  BY <1>5, <1>6, <1>7, SubSeqWithin
<1>9. <<>> \o l \o <<>> = l
  BY <1>8
<1> QED BY <1>4, <1>8, <1>9

-----------------------------------------------------------------------------
(* The lines on their way to a subscription.                               *)

\* Coming, of the record of a copier.
ComingOf(k, f) ==
  {k.chunk[i] : i \in {j \in DOMAIN k.chunk :
     k.pc = "written" \/ f \in ToSet(IF j = 1 THEN k.left ELSE k.subs)}}

\* What comes depends on the copier alone.
LEMMA ComingOfCopier ==
  ASSUME NEW p, NEW f
  PROVE  Coming(p, f) = ComingOf(copier[p], f) /\ Coming(p, f)' = ComingOf(copier'[p], f)
BY DEF Coming, ComingOf

\* What comes are lines of its chunk.
LEMMA ComingSome ==
  ASSUME NEW k, k.chunk \in Seq(Line), NEW f
  PROVE  /\ ComingOf(k, f) \subseteq ToSet(k.chunk)
         /\ k.chunk = <<>> => ComingOf(k, f) = {}
         /\ k.pc = "written" => ComingOf(k, f) = ToSet(k.chunk)
BY DEF ComingOf, ToSet

\* The first line of a chunk, and the others.
LEMMA ComingSplit ==
  ASSUME NEW k, k.chunk \in Seq(Line), k.chunk # <<>>, k.pc # "written", NEW f
  PROVE  ComingOf(k, f) = (IF f \in ToSet(k.left) THEN {Head(k.chunk)} ELSE {})
                            \cup (IF f \in ToSet(k.subs) THEN ToSet(Tail(k.chunk)) ELSE {})
<1> DEFINE c == k.chunk
           t == Tail(c)
           n == Len(c)
           A == IF f \in ToSet(k.left) THEN {Head(k.chunk)} ELSE {}
           B == IF f \in ToSet(k.subs) THEN ToSet(t) ELSE {}
<1>1. /\ t \in Seq(Line) /\ Len(t) = n - 1 /\ n \in Nat /\ n > 0
      /\ \A i \in 1 .. n - 1 : t[i] = c[i + 1]
  BY TailFacts
<1>2. DOMAIN c = 1 .. n /\ Head(c) = c[1]
  OBVIOUS
<1>t. DOMAIN t = 1 .. Len(t)
  BY <1>1
<1>3. ToSet(t) = {c[j] : j \in 2 .. n}
  <2> HIDE DEF t, c, n
  <2>0. DOMAIN t = 1 .. n - 1
    BY <1>1, <1>t
  <2>1. ASSUME NEW y \in ToSet(t) PROVE y \in {c[j] : j \in 2 .. n}
    <3>1. PICK i \in 1 .. n - 1 : y = t[i]
      BY <2>0 DEF ToSet
    <3>2. i + 1 \in 2 .. n /\ y = c[i + 1]
      BY <1>1, <3>1
    <3> QED BY <3>2
  <2>2. ASSUME NEW j \in 2 .. n PROVE c[j] \in ToSet(t)
    <3>1. j - 1 \in 1 .. n - 1 /\ (j - 1) + 1 = j
      BY <1>1
    <3>2. t[j - 1] = c[j]
      BY <1>1, <3>1
    <3> QED BY <2>0, <3>1, <3>2 DEF ToSet
  <2> QED BY <2>1, <2>2
<1>4. ComingOf(k, f) = {c[i] : i \in {j \in 1 .. n : f \in ToSet(IF j = 1 THEN k.left ELSE k.subs)}}
  BY <1>2 DEF ComingOf
<1> HIDE DEF t, c, n
<1>5. ASSUME NEW y \in ComingOf(k, f) PROVE y \in A \cup B
  <2>1. PICK i \in 1 .. n : y = c[i] /\ f \in ToSet(IF i = 1 THEN k.left ELSE k.subs)
    BY <1>4
  <2>2. CASE i = 1
    BY <1>2, <2>1, <2>2 DEF c
  <2>3. CASE i # 1
    <3>1. i \in 2 .. n
      BY <1>1, <2>3
    <3> QED BY <1>3, <2>1, <2>3, <3>1
  <2> QED BY <2>2, <2>3
<1>6. ASSUME NEW y \in A \cup B PROVE y \in ComingOf(k, f)
  <2>1. CASE y \in A
    <3>1. y = c[1] /\ 1 \in 1 .. n /\ f \in ToSet(k.left)
      BY <1>1, <1>2, <2>1 DEF c
    <3> QED BY <1>4, <3>1
  <2>2. CASE y \in B
    <3>1. PICK j \in 2 .. n : y = c[j]
      BY <1>3, <2>2
    <3>2. f \in ToSet(k.subs) /\ j \in 1 .. n /\ j # 1
      BY <1>1, <2>2
    <3> QED BY <1>4, <3>1, <3>2
  <2> QED BY <2>1, <2>2
<1> QED BY <1>5, <1>6 DEF t, c

\* A copier that begins with a line.
LEMMA ComingAll ==
  ASSUME NEW k, k.chunk \in Seq(Line), k.pc # "written", k.left = k.subs, NEW f
  PROVE  ComingOf(k, f) = IF f \in ToSet(k.subs) THEN ToSet(k.chunk) ELSE {}
BY DEF ComingOf, ToSet

\* One call of a copier.
LEMMA ComingCall ==
  ASSUME TypeInv, CopiersInv, NEW p \in Procs, CallSubscriber(p), NEW f \in Subs
  PROVE  LET x == Head(copier[p].chunk) IN
         /\ f # Head(copier[p].left) => Coming(p, f)' = Coming(p, f)
         /\ f = Head(copier[p].left) =>
              /\ Coming(p, f) = Coming(p, f)' \cup {x} /\ x.by = p
              /\ \A y \in Coming(p, f)' : Older(x, y, {})
<1> DEFINE k == copier[p]
           w == copier'[p]
           x == Head(k.chunk)
           t == Tail(k.chunk)
           g == Head(k.left)
<1>1. /\ k.pc = "calling" /\ k.chunk # <<>> /\ k.left # <<>> /\ w.pc = k.pc /\ w.subs = k.subs
      /\ \/ Len(k.left) = 1 /\ w.chunk = Tail(k.chunk) /\ w.left = k.subs
         \/ Len(k.left) # 1 /\ w.chunk = k.chunk /\ w.left = Tail(k.left)
  BY CallSubscriberMoves
<1>2. /\ k.chunk \in Seq(Line) /\ k.left \in Seq(Subs) /\ k.subs \in Seq(Subs)
      /\ CopierOk(k, p, fwd)
  BY DEF TypeInv, CopierType, CopiersInv
<1>3. Coming(p, f) = ComingOf(k, f) /\ Coming(p, f)' = ComingOf(w, f)
  BY ComingOfCopier
<1> DEFINE C == Coming(p, f)
           N == Coming(p, f)'
<1> HIDE DEF k, w, C, N
<1>4. t \in Seq(Line) /\ ToSet(k.chunk) = {x} \cup ToSet(t)
  BY <1>1, <1>2, TailFacts, ToSetFacts
<1>5. C = (IF f \in ToSet(k.left) THEN {x} ELSE {}) \cup (IF f \in ToSet(k.subs) THEN ToSet(t) ELSE {})
  BY <1>1, <1>2, <1>3, ComingSplit DEF C
<1>6. IsInjective(k.left) /\ ToSet(k.left) \subseteq ToSet(k.subs)
  BY <1>2 DEF CopierOk
<1>7. g \in ToSet(k.left) /\ ToSet(k.left) = {g} \cup ToSet(Tail(k.left)) /\ g = k.left[1]
  BY <1>1, <1>2, ToSetFacts
<1>8. g \notin ToSet(Tail(k.left))
  <2> DEFINE q == k.left
             u == Tail(q)
             n == Len(q)
  <2>1. u \in Seq(Subs) /\ Len(u) = n - 1 /\ n \in Nat /\ n > 0
        /\ \A i \in 1 .. n - 1 : u[i] = q[i + 1]
    BY <1>1, <1>2, TailFacts
  <2>2. DOMAIN q = 1 .. n /\ DOMAIN u = 1 .. Len(u) /\ IsInjective(q) /\ g = q[1]
    BY <1>2, <1>6, <1>7, <2>1
  <2> HIDE DEF q, u, n, g
  <2>3. ASSUME NEW i \in 1 .. n - 1, u[i] = g PROVE FALSE
    <3>1. i + 1 \in 1 .. n /\ 1 \in 1 .. n /\ q[i + 1] = q[1]
      BY <2>1, <2>2, <2>3
    <3>2. i + 1 = 1
      BY <2>2, <3>1 DEF IsInjective
    <3> QED BY <2>1, <3>2
  <2>4. g \notin ToSet(u)
    BY <2>1, <2>2, <2>3 DEF ToSet
  <2> QED BY <2>4 DEF u, q
<1>9. /\ f # g => (f \in ToSet(Tail(k.left)) <=> f \in ToSet(k.left))
      /\ f = g => f \in ToSet(k.left) /\ f \in ToSet(k.subs)
  BY <1>6, <1>7
<1> HIDE DEF x, t, g
<1>10. N = (IF f # g /\ f \in ToSet(k.left) THEN {x} ELSE {})
             \cup (IF f \in ToSet(k.subs) THEN ToSet(t) ELSE {})
  <2>1. CASE Len(k.left) = 1 /\ w.chunk = Tail(k.chunk) /\ w.left = k.subs
    <3>1. w.chunk = t /\ w.pc # "written" /\ w.left = w.subs
      BY <1>1, <2>1 DEF t
    <3>2. ComingOf(w, f) = IF f \in ToSet(w.subs) THEN ToSet(w.chunk) ELSE {}
      BY <1>4, <3>1, ComingAll
    <3>3. f # g => f \notin ToSet(k.left)
      <4>1. Tail(k.left) = <<>>
        <5>1. Tail(k.left) \in Seq(Subs) /\ Len(Tail(k.left)) = 0
          BY <1>1, <1>2, <2>1, TailFacts
        <5> DEFINE u == Tail(k.left)
        <5> HIDE DEF u
        <5>2. u \in Seq(Subs) /\ Len(u) = 0
          BY <5>1 DEF u
        <5>3. u = <<>>
          BY <5>2
        <5> QED BY <5>3 DEF u
      <4>2. ToSet(<<>>) = {}
        BY DEF ToSet
      <4> QED BY <1>7, <4>1, <4>2
    <3> QED BY <1>1, <1>3, <3>1, <3>2, <3>3 DEF N
  <2>2. CASE Len(k.left) # 1 /\ w.chunk = k.chunk /\ w.left = Tail(k.left)
    <3>1. w.pc # "written" /\ w.chunk \in Seq(Line) /\ w.chunk # <<>>
      BY <1>1, <1>2, <2>2
    <3>2. ComingOf(w, f) = (IF f \in ToSet(w.left) THEN {Head(w.chunk)} ELSE {})
                            \cup (IF f \in ToSet(w.subs) THEN ToSet(Tail(w.chunk)) ELSE {})
      BY <3>1, ComingSplit
    <3>3. f \in ToSet(w.left) <=> f # g /\ f \in ToSet(k.left)
      BY <1>8, <1>9, <2>2
    <3> QED BY <1>1, <1>3, <2>2, <3>2, <3>3 DEF N, x, t
  <2> QED BY <1>1, <2>1, <2>2
<1>11. x.by = p /\ \A y \in ToSet(t) : Older(x, y, {})
  <2> DEFINE c == k.chunk
             n == Len(c)
  <2>1. t \in Seq(Line) /\ Len(t) = n - 1 /\ n \in Nat /\ n > 0
        /\ \A i \in 1 .. n - 1 : t[i] = c[i + 1]
    BY <1>1, <1>2, TailFacts DEF t
  <2>2. DOMAIN c = 1 .. n /\ DOMAIN t = 1 .. Len(t) /\ x = c[1]
    BY <1>1, <1>2, <2>1 DEF x
  <2>3. InOrder(c, {}) /\ \A i \in DOMAIN c : c[i].by = p
    BY <1>2 DEF CopierOk
  <2> HIDE DEF c, n
  <2>4. ASSUME NEW i \in 1 .. n - 1 PROVE Older(x, t[i], {})
    <3>1. i + 1 \in 1 .. n /\ 1 \in 1 .. n /\ 1 < i + 1
      BY <2>1
    <3> QED BY <2>1, <2>2, <2>3, <3>1 DEF InOrder
  <2>5. 1 \in DOMAIN c
    BY <2>1, <2>2
  <2> QED BY <2>1, <2>2, <2>3, <2>4, <2>5 DEF ToSet
<1>12. f # g => N = C
  BY <1>5, <1>10
<1>13. f = g => C = N \cup {x} /\ N = ToSet(t)
  BY <1>5, <1>9, <1>10
<1> QED BY <1>11, <1>12, <1>13 DEF C, N, x, g, k

\* What the steps of the copiers do to the lines that are coming.
LEMMA AllComingSame ==
  ASSUME TypeInv, NEW f \in Subs, \A p \in Procs : SameChunk(p)
  PROVE  AllComing(f)' = AllComing(f)
<1>1. ASSUME NEW p \in Procs PROVE Coming(p, f)' = Coming(p, f)
  <2> DEFINE k == copier[p]
             w == copier'[p]
  <2>1. /\ w.chunk = k.chunk /\ k.chunk \in Seq(Line)
        /\ k.chunk # <<>> => w.pc = k.pc /\ w.subs = k.subs /\ w.left = k.left
    BY DEF SameChunk, TypeInv, CopierType
  <2> HIDE DEF k, w
  <2>2. CASE k.chunk = <<>>
    <3>1. ComingOf(k, f) = {} /\ ComingOf(w, f) = {}
      BY <2>1, <2>2, ComingSome
    <3> QED BY <3>1, ComingOfCopier DEF k, w
  <2>3. CASE k.chunk # <<>>
    <3>1. ComingOf(w, f) = ComingOf(k, f)
      BY <2>1, <2>3 DEF ComingOf
    <3> QED BY <3>1, ComingOfCopier DEF k, w
  <2> QED BY <2>2, <2>3
<1> QED BY <1>1 DEF AllComing

\* The lines on their way move with one copier.
LEMMA AllComingMoves ==
  ASSUME TypeInv, NEW p \in Procs, copier' = [copier EXCEPT ![p] = copier'[p]]
  PROVE  \A q \in Procs : q # p => \A f \in Subs : Coming(q, f)' = Coming(q, f)
<1>1. copier \in [Procs -> CopierType]
  BY DEF TypeInv
<1>2. \A q \in Procs : q # p => copier'[q] = copier[q]
  BY <1>1
<1> QED BY <1>2, ComingOfCopier

\* A copier reads lines: the subscriptions may be told them.
LEMMA AllComingWrite ==
  ASSUME TypeInv, CopiersInv, NEW p \in Procs, NEW n \in 0 .. limit.lines, WriteLines(p, n),
         NEW f \in Subs
  PROVE  \E chunk \in Seq(Line) :
           /\ log' = log \o chunk /\ AllComing(f)' = AllComing(f) \cup ToSet(chunk)
           /\ \A y \in ToSet(chunk) : y.no > copier[y.by].written
<1> DEFINE w == copier[p].written
           chunk == [i \in 1 .. n |-> [by |-> p, no |-> w + i]]
<1>1. /\ chunk \in Seq(Line) /\ n \in Nat /\ w \in Nat /\ copier[p].pc = "idle"
      /\ copier' = [copier EXCEPT ![p] = copier'[p]]
      /\ copier'[p].pc = "written" /\ copier'[p].chunk = chunk
  BY WriteLinesMoves
<1>2. log' = log \o chunk
  BY DEF WriteLines
<1>3. \A i \in 1 .. n : chunk[i].by = p /\ chunk[i].no = w + i
  OBVIOUS
<1>4. DOMAIN chunk = 1 .. n
  OBVIOUS
<1> HIDE DEF chunk, w
<1>5. ASSUME NEW y \in ToSet(chunk) PROVE y.no > copier[y.by].written
  <2>1. PICK i \in 1 .. n : y = chunk[i]
    BY <1>4 DEF ToSet
  <2>2. y.by = p /\ y.no > w
    BY <1>1, <1>3, <2>1
  <2> QED BY <2>2 DEF w
<1>6. Coming(p, f) = {} /\ Coming(p, f)' = ToSet(chunk)
  <2> DEFINE k == copier[p]
             l == copier'[p]
  <2>1. CopierOk(k, p, fwd)
    BY DEF CopiersInv
  <2> HIDE DEF k, l
  <2>2. k.chunk = <<>>
    BY <1>1, <2>1 DEF CopierOk, k
  <2>3. l.chunk = chunk /\ l.pc = "written" /\ <<>> \in Seq(Line)
    BY <1>1 DEF l
  <2>4. ComingOf(k, f) = {} /\ ComingOf(l, f) = ToSet(chunk)
    BY <1>1, <2>2, <2>3, ComingSome
  <2> QED BY <2>4, ComingOfCopier DEF k, l
<1>7. \A q \in Procs : q # p => Coming(q, f)' = Coming(q, f)
  BY <1>1, AllComingMoves
<1>8. AllComing(f)' = AllComing(f) \cup ToSet(chunk)
  BY <1>6, <1>7 DEF AllComing
<1> QED BY <1>1, <1>2, <1>5, <1>8

\* A copier has the subscribers: those that were registered are told.
LEMMA AllComingCopy ==
  ASSUME TypeInv, ForwardsInv, NEW p \in Procs, CopySubscribers(p), NEW f \in Subs
  PROVE  /\ AllComing(f)' \subseteq AllComing(f)
         /\ fwd[f].pc \in Registered => AllComing(f)' = AllComing(f)
<1> DEFINE k == copier[p]
           w == copier'[p]
           s == Only(listeners, Subs)
<1>1. /\ copier' = [copier EXCEPT ![p] = w] /\ k.pc = "written"
      /\ w.pc = "calling" /\ w.subs = s /\ w.left = s
      /\ w.chunk = (IF s = <<>> THEN <<>> ELSE k.chunk)
  BY CopySubscribersMoves
<1>2. k.chunk \in Seq(Line)
  BY DEF TypeInv, CopierType
<1>3. \A q \in Procs : q # p => Coming(q, f)' = Coming(q, f)
  BY <1>1, AllComingMoves
<1>4. Coming(p, f) = ToSet(k.chunk)
  BY <1>1, <1>2, ComingSome, ComingOfCopier
<1>5. ToSet(s) = ToSet(listeners) \cap Subs
  <2>1. listeners \in Seq({0} \cup Subs)
    BY DEF TypeInv
  <2> QED BY <2>1, OnlyType
<1>6. Coming(p, f)' = ComingOf(w, f)
  BY ComingOfCopier
<1>7. w.chunk \in Seq(Line) /\ w.pc # "written" /\ w.left = w.subs
  BY <1>1, <1>2
<1> HIDE DEF k, w, s
<1>8. ComingOf(w, f) = IF f \in ToSet(s) THEN ToSet(w.chunk) ELSE {}
  BY <1>1, <1>7, ComingAll
<1>9. f \in ToSet(s) => w.chunk = k.chunk
  <2>1. ToSet(<<>>) = {}
    BY DEF ToSet
  <2> QED BY <1>1, <2>1
<1>10. fwd[f].pc \in Registered => f \in ToSet(s)
  <2> SUFFICES ASSUME fwd[f].pc \in Registered PROVE f \in ToSet(listeners)
    BY <1>5
  <2>1. fwd[f].slot \in DOMAIN listeners /\ listeners[fwd[f].slot] = f
    BY DEF ForwardsInv, ForwardOk
  <2> QED BY <2>1 DEF ToSet
<1>11. Coming(p, f)' \subseteq Coming(p, f) /\ (fwd[f].pc \in Registered => Coming(p, f)' = Coming(p, f))
  BY <1>4, <1>6, <1>8, <1>9, <1>10
<1> QED BY <1>3, <1>11 DEF AllComing

\* A copier calls: a line has come for one subscription.
LEMMA AllComingCall ==
  ASSUME TypeInv, CopiersInv, NEW p \in Procs, CallSubscriber(p), NEW f \in Subs
  PROVE  LET x == Head(copier[p].chunk) IN
         /\ f # Head(copier[p].left) => AllComing(f)' = AllComing(f)
         /\ f = Head(copier[p].left) =>
              /\ AllComing(f) = AllComing(f)' \cup {x}
              /\ \A y \in AllComing(f)' : Older(x, y, {})
<1> DEFINE x == Head(copier[p].chunk)
           g == Head(copier[p].left)
<1>1. /\ f # g => Coming(p, f)' = Coming(p, f)
      /\ f = g => /\ Coming(p, f) = Coming(p, f)' \cup {x} /\ x.by = p
                  /\ \A y \in Coming(p, f)' : Older(x, y, {})
  BY ComingCall
<1>2. copier' = [copier EXCEPT ![p] = copier'[p]]
  BY CallSubscriberMoves
<1>3. \A q \in Procs : q # p => Coming(q, f)' = Coming(q, f)
  BY <1>2, AllComingMoves
<1> HIDE DEF x, g
<1>4. CASE f # g
  <2>1. AllComing(f)' = AllComing(f)
    BY <1>1, <1>3, <1>4 DEF AllComing
  <2> QED BY <1>4, <2>1 DEF g
<1>5. CASE f = g
  <2>1. AllComing(f) = AllComing(f)' \cup {x}
    BY <1>1, <1>3, <1>5 DEF AllComing
  <2>2. ASSUME NEW q \in Procs, q # p, NEW y \in Coming(q, f)' PROVE Older(x, y, {})
    <3>1. y \in Coming(q, f)
      BY <1>3, <2>2
    <3>2. y \in ToSet(copier[q].chunk) /\ copier[q].chunk \in Seq(Line)
      <4>1. copier[q].chunk \in Seq(Line)
        BY DEF TypeInv, CopierType
      <4> QED BY <3>1, <4>1, ComingSome, ComingOfCopier
    <3>3. y.by = q
      <4>1. PICK i \in DOMAIN copier[q].chunk : y = copier[q].chunk[i]
        BY <3>2 DEF ToSet
      <4> QED BY <4>1 DEF CopiersInv, CopierOk
    <3> QED BY <1>1, <1>5, <2>2, <3>3 DEF Older
  <2>3. \A y \in AllComing(f)' : Older(x, y, {})
    <3> SUFFICES ASSUME NEW q \in Procs, NEW y \in Coming(q, f)' PROVE Older(x, y, {})
      BY DEF AllComing
    <3> QED BY <1>1, <1>5, <2>2
  <2> QED BY <1>5, <2>1, <2>3 DEF x, g
<1> QED BY <1>4, <1>5

\* They have been read, and are the copiers' own.
LEMMA ComingKnown ==
  ASSUME TypeInv, CopiersInv, NEW f \in Subs
  PROVE  AllComing(f) \in SUBSET Line /\ KnownBy(AllComing(f), copier)
<1>1. ASSUME NEW q \in Procs, NEW y \in Coming(q, f)
      PROVE  y \in Line /\ y.no <= copier[y.by].written
  <2>1. copier[q].chunk \in Seq(Line)
    BY DEF TypeInv, CopierType
  <2>2. y \in ToSet(copier[q].chunk)
    BY <2>1, ComingSome, ComingOfCopier
  <2>3. PICK i \in DOMAIN copier[q].chunk : y = copier[q].chunk[i]
    BY <2>2 DEF ToSet
  <2>4. y \in Line
    BY <2>1, <2>3
  <2> QED BY <2>3, <2>4 DEF CopiersInv, CopierOk
<1> QED BY <1>1 DEF AllComing, KnownBy

-----------------------------------------------------------------------------
(* What a step does to a subscription.                                     *)

Taken == Registered \cup {"snapshot"}

\* What a step leaves to a subscription.
LEMMA ForwardFrame ==
  ASSUME TypeInv, RingInv, CopiersInv, ForwardsInv, [Next]_vars, NEW f \in Subs,
         fwd[f].pc # "none"
  PROVE  /\ fwd'[f].client = fwd[f].client /\ fwd'[f].doubled = fwd[f].doubled
         /\ fwd[f].lossy => fwd'[f].lossy
         /\ fwd'[f].pc \in Taken => fwd[f].pc \in Taken
         /\ fwd'[f].pc \in Registered =>
              \/ fwd[f].pc \in Registered /\ fwd'[f].since = fwd[f].since
              \/ fwd'[f].since = Len(log) /\ UNCHANGED log
<1>0. fwd \in [Subs -> ForwardType] /\ "none" \notin Taken
  BY DEF TypeInv, Taken, Registered
<1>1. CASE fwd'[f] = fwd[f]
  BY <1>1 DEF Taken, Registered
<1>2. ASSUME NEW p \in Procs, CallSubscriber(p), f = Head(copier[p].left)
      PROVE  /\ fwd'[f].client = fwd[f].client /\ fwd'[f].doubled = fwd[f].doubled
             /\ fwd[f].lossy => fwd'[f].lossy
             /\ fwd'[f].pc = fwd[f].pc /\ fwd'[f].since = fwd[f].since
  BY <1>2, CallSubscriberMoves
<1>3. CASE SubscribeLogs(f)
  <2>1. UNCHANGED log
    BY <1>3 DEF SubscribeLogs
  <2> QED BY <1>3, <2>1, SubscribeLogsMoves DEF Taken, Registered
<1>4. CASE Backfill(f)
  BY <1>4, BackfillMoves DEF Taken, Registered
<1>5. CASE Forward(f)
  BY <1>5, ForwardMoves DEF Taken, Registered
<1>6. CASE ForwardDone(f)
  BY <1>6, ForwardDoneMoves DEF Taken, Registered
<1>7. ASSUME NEW g \in Subs, g # f, fwd' = [fwd EXCEPT ![g] = fwd'[g]] PROVE fwd'[f] = fwd[f]
  BY <1>0, <1>7
<1>8. ASSUME NEW g \in Subs, g # f, SubscribeLogs(g) \/ Backfill(g) \/ Forward(g) \/ ForwardDone(g)
      PROVE  fwd'[f] = fwd[f]
  <2>1. fwd' = [fwd EXCEPT ![g] = fwd'[g]]
    BY <1>8, SubscribeLogsMoves, BackfillMoves, ForwardMoves, ForwardDoneMoves DEF ForwardBecomes
  <2> QED BY <1>7, <1>8, <2>1
<1>9. ASSUME NEW p \in Procs, CallSubscriber(p), f # Head(copier[p].left)
      PROVE  fwd'[f] = fwd[f]
  <2> DEFINE g == Head(copier[p].left)
  <2>1. g \in Subs /\ fwd' = [fwd EXCEPT ![g] = fwd'[g]]
    BY <1>9, CallSubscriberMoves
  <2> HIDE DEF g
  <2>2. f # g
    BY <1>9 DEF g
  <2> QED BY <1>0, <2>1, <2>2
<1>10. ASSUME NEW c \in Clients, Subscribe(c) PROVE fwd'[f] = fwd[f]
  <2> DEFINE g == drawn + 1
  <2>1. g \in Subs /\ fwd' = [fwd EXCEPT ![g] = fwd'[g]] /\ fwd[g] = NoForward
    BY <1>10, SubscribeMoves DEF ForwardBecomes
  <2>2. NoForward.pc = "none"
    BY DEF NoForward
  <2> HIDE DEF g
  <2> QED BY <1>0, <2>1, <2>2
<1>11. (\E p \in Procs : CopySubscribers(p) \/ \E n \in 0 .. limit.lines : WriteLines(p, n))
       \/ (\E c \in Clients : \E e \in Events : Broadcast(e, c)) \/ Calm
       => UNCHANGED fwd
  BY DEF CopySubscribers, WriteLines, Broadcast, Calm
<1> QED BY <1>1, <1>2, <1>3, <1>4, <1>5, <1>6, <1>8, <1>9, <1>10, <1>11, Kinds

-----------------------------------------------------------------------------
Loses(f) == fwd'[f].lossy \/ client'[fwd'[f].client].lossy

\* It gets nothing new, ...
FlowKeeps(f) ==
  /\ UNCHANGED log
  /\ Within(Stream(f)', Stream(f)) /\ AllComing(f)' \subseteq AllComing(f)
  /\ \/ Stream(f)' = Stream(f) /\ AllComing(f)' = AllComing(f)
     \/ Loses(f) \/ fwd[f].pc = "snapshot"

\* ... or a line that was on its way, ...
FlowTakes(f) ==
  /\ UNCHANGED log
  /\ \E x \in Line : /\ Stream(f)' = Append(Stream(f), x)
                     /\ AllComing(f) = AllComing(f)' \cup {x}
                     /\ \A y \in AllComing(f)' : Older(x, y, {})

\* ... or new lines are on their way.
FlowGrows(f) ==
  /\ Stream(f)' = Stream(f)
  /\ \E chunk \in Seq(Line) :
       /\ log' = log \o chunk /\ AllComing(f)' = AllComing(f) \cup ToSet(chunk)
       /\ \A y \in ToSet(chunk) : y.no > copier[y.by].written

\* A sequence is within itself.
LEMMA WithinSelf ==
  ASSUME NEW T, NEW s \in Seq(T)
  PROVE  Within(s, s)
<1> DEFINE h == [i \in DOMAIN s |-> i]
<1>1. /\ h \in [DOMAIN s -> DOMAIN s] /\ \A i \in DOMAIN s : s[i] = s[h[i]]
      /\ \A i, j \in DOMAIN s : i < j => h[i] < h[j]
  OBVIOUS
<1> HIDE DEF h
<1> QED BY <1>1 DEF Within

\* Every step leaves a stream as it is or within it, lets it have a line that was coming, or begins it.
LEMMA Flow ==
  ASSUME TypeInv, RingInv, CopiersInv, ForwardsInv, [Next]_vars, NEW f \in Subs,
         fwd[f].pc \in Taken, fwd'[f].pc \in Taken
  PROVE  FlowKeeps(f) \/ FlowTakes(f) \/ FlowGrows(f)
<1>0. /\ fwd \in [Subs -> ForwardType] /\ fwd[f].client \in Clients /\ Stream(f) \in Seq(Line)
      /\ Within(Stream(f), Stream(f)) /\ fwd[f].pc # "none"
  <2>1. fwd \in [Subs -> ForwardType]
    BY DEF TypeInv
  <2>2. fwd[f].pc # "none" /\ fwd[f].client \in Clients
    BY DEF ForwardsInv, ForwardOk, Taken, Registered
  <2>3. Stream(f) \in Seq(Line)
    BY <2>2, StreamType
  <2> QED BY <2>1, <2>2, <2>3, WithinSelf
\* Nothing happens at all: the steps of others.
<1>1. ASSUME fwd'[f].client = fwd[f].client, fwd'[f].rest = fwd[f].rest, fwd'[f].chan = fwd[f].chan,
             ClientsKeep \/ \E d \in Clients, m \in Message :
                              ClientGets(d, m) /\ (d # fwd[f].client \/ m \notin OfSub(f))
      PROVE  Stream(f)' = Stream(f) /\ Within(Stream(f)', Stream(f))
  <2>1. Stream(f)' = Stream(f)
    BY <1>0, <1>1, StreamSame
  <2> QED BY <1>0, <2>1
<1>2. UNCHANGED copier => AllComing(f)' = AllComing(f)
  BY UnchangedChunks, AllComingSame
<1>3. CASE Calm
  <2>1. UNCHANGED <<fwd, log>> /\ ClientsKeep /\ \A p \in Procs : SameChunk(p)
    BY <1>3 DEF Calm
  <2> QED BY <1>1, <2>1, AllComingSame DEF FlowKeeps
<1>4. ASSUME NEW p \in Procs, NEW n \in 0 .. limit.lines, WriteLines(p, n) PROVE FlowGrows(f)
  <2>1. UNCHANGED <<fwd, client>>
    BY <1>4 DEF WriteLines
  <2>2. Stream(f)' = Stream(f)
    BY <1>1, <2>1, UnchangedKeep
  <2> QED BY <1>4, <2>2, AllComingWrite DEF FlowGrows
<1>5. ASSUME NEW p \in Procs, CopySubscribers(p) PROVE FlowKeeps(f)
  <2>1. UNCHANGED <<fwd, client, log>>
    BY <1>5 DEF CopySubscribers, bufferVars
  <2>2. Stream(f)' = Stream(f) /\ Within(Stream(f)', Stream(f))
    BY <1>1, <2>1, UnchangedKeep
  <2>3. fwd[f].pc = "snapshot" \/ fwd[f].pc \in Registered
    BY DEF Taken
  <2> QED BY <1>5, <2>1, <2>2, <2>3, AllComingCopy DEF FlowKeeps
<1>6. ASSUME NEW p \in Procs, CallSubscriber(p) PROVE FlowKeeps(f) \/ FlowTakes(f)
  <2> DEFINE g == Head(copier[p].left)
             x == Head(copier[p].chunk)
  <2>1. UNCHANGED <<client, log>>
    BY <1>6 DEF CallSubscriber, bufferVars
  <2>2. g \in Subs /\ fwd' = [fwd EXCEPT ![g] = fwd'[g]]
    BY <1>6, CallSubscriberMoves
  <2>3. /\ f # g => AllComing(f)' = AllComing(f)
        /\ f = g => /\ AllComing(f) = AllComing(f)' \cup {x}
                    /\ \A y \in AllComing(f)' : Older(x, y, {})
    BY <1>6, AllComingCall
  <2>4. f = g => /\ x \in Line
                 /\ \/ Stream(f)' = Append(Stream(f), x)
                    \/ Stream(f)' = Stream(f) /\ fwd'[f].lossy
    BY <1>0, <1>6, StreamTakes
  <2> HIDE DEF g, x
  <2>5. CASE f # g
    <3>1. fwd'[f] = fwd[f]
      BY <1>0, <2>2, <2>5
    <3>2. Stream(f)' = Stream(f) /\ Within(Stream(f)', Stream(f))
      BY <1>1, <2>1, <3>1, UnchangedKeep
    <3> QED BY <2>1, <2>3, <2>5, <3>2 DEF FlowKeeps
  <2>6. CASE f = g /\ Stream(f)' = Append(Stream(f), x)
    BY <2>1, <2>3, <2>4, <2>6 DEF FlowTakes
  <2>7. CASE f = g /\ Stream(f)' = Stream(f) /\ fwd'[f].lossy
    BY <1>0, <2>1, <2>3, <2>7 DEF FlowKeeps, Loses
  <2> QED BY <2>4, <2>5, <2>6, <2>7
<1>7. ASSUME NEW g \in Subs, SubscribeLogs(g) PROVE FlowKeeps(f)
  <2>1. UNCHANGED <<client, log, copier>>
    BY <1>7 DEF SubscribeLogs, procVars
  <2>2. /\ fwd' = [fwd EXCEPT ![g] = fwd'[g]]
        /\ fwd'[g].client = fwd[g].client /\ fwd'[g].rest = fwd[g].rest /\ fwd'[g].chan = fwd[g].chan
    BY <1>7, SubscribeLogsMoves DEF ForwardBecomes
  <2>3. f # g => fwd'[f] = fwd[f]
    BY <1>0, <2>2
  <2>4. Stream(f)' = Stream(f) /\ Within(Stream(f)', Stream(f))
    BY <1>1, <2>1, <2>2, <2>3, UnchangedKeep
  <2> QED BY <1>2, <2>1, <2>4 DEF FlowKeeps
<1>8. ASSUME NEW g \in Subs, Backfill(g) \/ Forward(g) \/ ForwardDone(g) PROVE FlowKeeps(f)
  <2>1. UNCHANGED <<log, copier>>
    BY <1>8 DEF Backfill, Forward, ForwardDone, procVars, bufferVars
  <2>0. AllComing(f)' = AllComing(f)
    BY <1>2, <2>1
  <2>2. fwd' = [fwd EXCEPT ![g] = fwd'[g]] /\ fwd'[g].client = fwd[g].client
    BY <1>8, BackfillMoves, ForwardMoves, ForwardDoneMoves DEF ForwardBecomes
  <2>3. \/ ClientsKeep
        \/ \E x \in Line : ClientGets(fwd[g].client, LineOf(g, x)) /\ fwd[g].client \in Clients
    <3>1. ForwardDone(g) => ClientsKeep
      BY UnchangedKeep DEF ForwardDone
    <3> QED BY <1>8, <3>1, BackfillMoves, ForwardMoves
  <2>4. CASE f # g
    <3>1. fwd'[f] = fwd[f]
      BY <1>0, <2>2, <2>4
    <3>2. \A x \in Line : LineOf(g, x) \in Message /\ LineOf(g, x) \notin OfSub(f)
      BY <2>4, MessagesType
    <3>3. ClientsKeep \/ \E d \in Clients, m \in Message :
                              ClientGets(d, m) /\ (d # fwd[f].client \/ m \notin OfSub(f))
      BY <2>3, <3>2
    <3>4. Stream(f)' = Stream(f) /\ Within(Stream(f)', Stream(f))
      BY <1>1, <3>1, <3>3
    <3> QED BY <2>0, <2>1, <3>4 DEF FlowKeeps
  <2>5. CASE f = g
    <3>1. fwd'[f].pc # "ended"
      BY DEF Taken, Registered
    <3>2. PICK c \in Clients : c = fwd[f].client /\ c = fwd'[f].client
      BY <1>0, <2>2, <2>5
    <3>3. \/ ClientsKeep /\ fwd'[f].rest = fwd[f].rest /\ fwd'[f].chan = fwd[f].chan
          \/ \E x \in Line :
               /\ ClientGets(c, LineOf(f, x))
               /\ \/ /\ fwd[f].rest # <<>> /\ x = Head(fwd[f].rest)
                     /\ fwd'[f].rest = Tail(fwd[f].rest) /\ fwd'[f].chan = fwd[f].chan
                  \/ /\ fwd[f].rest = <<>> /\ fwd'[f].rest = <<>> /\ fwd[f].chan # <<>>
                     /\ x = Head(fwd[f].chan) /\ fwd'[f].chan = Tail(fwd[f].chan)
      <4>1. CASE Backfill(f)
        BY <3>2, <4>1, BackfillMoves
      <4>2. CASE Forward(f)
        <5>1. fwd[f].rest = <<>>
          BY <4>2, ForwardMoves DEF ForwardsInv, ForwardOk
        <5> QED BY <3>1, <3>2, <4>2, <5>1, ForwardMoves
      <4>3. CASE ForwardDone(f)
        BY <3>1, <4>3, ForwardDoneMoves
      <4> QED BY <1>8, <2>5, <4>1, <4>2, <4>3
    <3>4. CASE ClientsKeep /\ fwd'[f].rest = fwd[f].rest /\ fwd'[f].chan = fwd[f].chan
      <4>1. Stream(f)' = Stream(f) /\ Within(Stream(f)', Stream(f))
        BY <1>1, <3>2, <3>4
      <4> QED BY <2>0, <2>1, <4>1 DEF FlowKeeps
    <3>5. ASSUME NEW x \in Line, ClientGets(c, LineOf(f, x)),
                 \/ /\ fwd[f].rest # <<>> /\ x = Head(fwd[f].rest)
                    /\ fwd'[f].rest = Tail(fwd[f].rest) /\ fwd'[f].chan = fwd[f].chan
                 \/ /\ fwd[f].rest = <<>> /\ fwd'[f].rest = <<>> /\ fwd[f].chan # <<>>
                    /\ x = Head(fwd[f].chan) /\ fwd'[f].chan = Tail(fwd[f].chan)
          PROVE  FlowKeeps(f)
      <4>1. \/ Stream(f)' = Stream(f)
            \/ Within(Stream(f)', Stream(f)) /\ client'[c].lossy
        BY <3>2, <3>5, StreamMoved
      <4> QED BY <1>0, <2>0, <2>1, <3>2, <4>1 DEF FlowKeeps, Loses
    <3> QED BY <3>3, <3>4, <3>5
  <2> QED BY <2>4, <2>5
<1>9. ASSUME NEW c \in Clients, Subscribe(c) PROVE FlowKeeps(f)
  <2> DEFINE g == drawn + 1
  <2>1. UNCHANGED <<log, copier>>
    BY <1>9 DEF Subscribe, procVars, bufferVars
  <2>2. g \in Subs /\ fwd' = [fwd EXCEPT ![g] = fwd'[g]] /\ fwd[g] = NoForward /\ ClientsKeep
    BY <1>9, SubscribeMoves DEF ForwardBecomes
  <2>3. NoForward.pc = "none"
    BY DEF NoForward
  <2> HIDE DEF g
  <2>4. fwd'[f] = fwd[f]
    BY <1>0, <2>2, <2>3
  <2>5. Stream(f)' = Stream(f) /\ Within(Stream(f)', Stream(f))
    BY <1>1, <2>2, <2>4
  <2> QED BY <1>2, <2>1, <2>5 DEF FlowKeeps
<1>10. ASSUME NEW c \in Clients, NEW e \in Events, Broadcast(e, c) PROVE FlowKeeps(f)
  <2>1. UNCHANGED <<log, copier, fwd>>
    BY <1>10 DEF Broadcast, procVars, bufferVars
  <2>2. ClientGets(c, EventMsg(e)) /\ EventMsg(e) \in Message /\ EventMsg(e) \notin OfSub(f)
    BY <1>10, BroadcastMoves, MessagesType
  <2>3. Stream(f)' = Stream(f) /\ Within(Stream(f)', Stream(f))
    BY <1>1, <2>1, <2>2
  <2> QED BY <1>2, <2>1, <2>3 DEF FlowKeeps
<1> QED BY <1>3, <1>4, <1>5, <1>6, <1>7, <1>8, <1>9, <1>10, Kinds

\* A subscription is made by Subscribe alone.
LEMMA OnlySubscribeStarts ==
  ASSUME TypeInv, RingInv, CopiersInv, ForwardsInv, [Next]_vars, NEW f \in Subs,
         fwd[f].pc = "none", fwd'[f].pc # "none"
  PROVE  \E c \in Clients : Subscribe(c) /\ f = drawn + 1
<1>0. fwd \in [Subs -> ForwardType]
  BY DEF TypeInv
<1>1. ASSUME NEW p \in Procs, CallSubscriber(p) PROVE FALSE
  <2> DEFINE g == Head(copier[p].left)
  <2>1. g \in Subs /\ fwd' = [fwd EXCEPT ![g] = fwd'[g]] /\ fwd'[g].pc = fwd[g].pc
    BY <1>1, CallSubscriberMoves
  <2> HIDE DEF g
  <2> QED BY <1>0, <2>1
<1>2. ASSUME NEW g \in Subs, SubscribeLogs(g) \/ Backfill(g) \/ Forward(g) \/ ForwardDone(g)
      PROVE  FALSE
  <2>1. fwd' = [fwd EXCEPT ![g] = fwd'[g]] /\ fwd[g].pc # "none"
    BY <1>2, SubscribeLogsMoves, BackfillMoves, ForwardMoves, ForwardDoneMoves DEF ForwardBecomes
  <2> QED BY <1>0, <2>1
<1>3. ASSUME NEW c \in Clients, Subscribe(c) PROVE f = drawn + 1
  <2> DEFINE g == drawn + 1
  <2>1. g \in Subs /\ fwd' = [fwd EXCEPT ![g] = fwd'[g]]
    BY <1>3, SubscribeMoves DEF ForwardBecomes
  <2> HIDE DEF g
  <2>2. f = g
    BY <1>0, <2>1
  <2> QED BY <2>2 DEF g
<1>4. (\E p \in Procs : CopySubscribers(p) \/ \E n \in 0 .. limit.lines : WriteLines(p, n))
       \/ (\E c \in Clients : \E e \in Events : Broadcast(e, c)) \/ Calm
       => UNCHANGED fwd
  BY DEF CopySubscribers, WriteLines, Broadcast, Calm
<1> QED BY <1>1, <1>2, <1>3, <1>4, Kinds

\* A line more, newer than the others.
LEMMA InOrderAppend ==
  ASSUME NEW s \in Seq(Line), NEW x \in Line, NEW D, InOrder(s, D),
         \A y \in ToSet(s) : Older(y, x, D)
  PROVE  InOrder(Append(s, x), D)
<1> DEFINE a == Append(s, x)
           n == Len(s)
<1>1. /\ n \in Nat /\ DOMAIN s = 1 .. n /\ DOMAIN a = 1 .. n + 1 /\ a[n + 1] = x
      /\ \A i \in 1 .. n : a[i] = s[i] /\ s[i] \in ToSet(s)
  BY ToSetFacts
<1> HIDE DEF a, n
<1>2. ASSUME NEW i \in 1 .. n + 1, NEW j \in 1 .. n + 1, i < j PROVE Older(a[i], a[j], D)
  <2>1. i \in 1 .. n
    BY <1>1, <1>2
  <2>2. CASE j = n + 1
    BY <1>1, <2>1, <2>2
  <2>3. CASE j # n + 1
    <3>1. j \in 1 .. n
      BY <1>1, <2>3
    <3> QED BY <1>1, <1>2, <2>1, <3>1 DEF InOrder
  <2> QED BY <2>2, <2>3
<1> QED BY <1>1, <1>2 DEF InOrder, a

\* The order of a subscription through the three kinds of flow.
LEMMA OrderFlows ==
  ASSUME TypeInv, CopiersInv, NEW f \in Subs, Stream(f) \in Seq(Line), NEW D,
         OrderOk(Stream(f), AllComing(f), D), KnownBy(ToSet(Stream(f)), copier),
         FlowKeeps(f) \/ FlowTakes(f) \/ FlowGrows(f)
  PROVE  /\ OrderOk(Stream(f)', AllComing(f)', D)
         /\ KnownBy(ToSet(Stream(f)'), copier) /\ ToSet(Stream(f)') \in SUBSET Line
<1> DEFINE s == Stream(f)
           n == Stream(f)'
           C == AllComing(f)
           N == AllComing(f)'
<1>1. /\ s \in Seq(Line) /\ ToSet(s) \in SUBSET Line /\ C \in SUBSET Line
      /\ KnownBy(C, copier) /\ KnownBy(ToSet(s), copier)
      /\ InOrder(s, D) /\ \A x \in ToSet(s), y \in C : Older(x, y, D)
  <2>1. ToSet(s) \in SUBSET Line
    BY ToSetFacts
  <2> QED BY <2>1, ComingKnown DEF OrderOk
<1> SUFFICES /\ OrderOk(n, N, D) /\ KnownBy(ToSet(n), copier) /\ ToSet(n) \in SUBSET Line
  OBVIOUS
<1>2. CASE FlowKeeps(f)
  <2>1. Within(n, s) /\ N \subseteq C
    BY <1>2 DEF FlowKeeps
  <2> HIDE DEF s, n, C, N
  <2>2. InOrder(n, D) /\ ToSet(n) \subseteq ToSet(s)
    BY <1>1, <2>1, InOrderWithin
  <2> QED BY <1>1, <2>1, <2>2 DEF OrderOk, KnownBy
<1>3. CASE FlowTakes(f)
  <2>1. PICK x \in Line : n = Append(s, x) /\ C = N \cup {x} /\ \A y \in N : Older(x, y, {})
    BY <1>3 DEF FlowTakes
  <2> HIDE DEF s, n, C, N
  <2>2. InOrder(n, D)
    BY <1>1, <2>1, InOrderAppend
  <2>3. ToSet(n) = ToSet(s) \cup {x}
    BY <1>1, <2>1, ToSetOfAppend
  <2>4. \A a \in ToSet(n), y \in N : Older(a, y, D)
    <3>1. \A y \in N : Older(x, y, D)
      BY <2>1 DEF Older
    <3> QED BY <1>1, <2>1, <2>3, <3>1
  <2>5. KnownBy(ToSet(n), copier) /\ ToSet(n) \in SUBSET Line
    BY <1>1, <2>1, <2>3 DEF KnownBy
  <2> QED BY <2>2, <2>4, <2>5 DEF OrderOk
<1>4. CASE FlowGrows(f)
  <2>1. n = s
    BY <1>4 DEF FlowGrows
  <2>2. PICK chunk \in Seq(Line) :
          N = C \cup ToSet(chunk) /\ \A y \in ToSet(chunk) : y.no > copier[y.by].written
    BY <1>4 DEF FlowGrows
  <2> HIDE DEF s, n, C, N
  <2>3. ASSUME NEW x \in ToSet(s), NEW y \in ToSet(chunk) PROVE Older(x, y, D)
    <3>1. x \in Line /\ y \in Line
      BY <1>1, ToSetFacts
    <3>2. x.no \in Nat /\ y.no \in Nat /\ x.by \in Procs
      BY <3>1 DEF Line
    <3>3. copier[x.by].written \in Nat
      BY <3>2 DEF TypeInv, CopierType
    <3>4. x.no <= copier[x.by].written
      BY <1>1 DEF KnownBy
    <3>5. y.no > copier[y.by].written
      BY <2>2
    <3> QED BY <3>2, <3>3, <3>4, <3>5 DEF Older
  <2> QED BY <1>1, <2>1, <2>2, <2>3 DEF OrderOk
<1> QED BY <1>2, <1>3, <1>4

\* And of a new one.
LEMMA OrderStarts ==
  ASSUME TypeInv, RingInv, LogInv, CopiersInv, ForwardsInv, ClientsInv, NEW c \in Clients, Subscribe(c),
         NEW f \in Subs, f = drawn + 1
  PROVE  /\ OrderOk(Stream(f)', AllComing(f)', fwd'[f].doubled)
         /\ KnownBy(ToSet(Stream(f)'), copier) /\ ToSet(Stream(f)') \in SUBSET Line
<1> DEFINE D == fwd'[f].doubled
           n == Stream(f)'
<1>1. D = UNION {Untold(p) : p \in Procs} /\ fwd[f] = NoForward
  BY SubscribeMoves
<1>2. Within(n, log)
  BY StreamStarts
<1>3. log \in Seq(Line) /\ InOrder(log, {}) /\ KnownBy(ToSet(log), copier)
  BY DEF TypeInv, LogInv
<1>4. InOrder(n, {}) /\ ToSet(n) \subseteq ToSet(log) /\ ToSet(log) \in SUBSET Line
  BY <1>2, <1>3, InOrderWithin, ToSetFacts
<1>5. AllComing(f)' = AllComing(f)
  <2>1. UNCHANGED copier
    BY DEF Subscribe, procVars
  <2> QED BY <2>1, UnchangedChunks, AllComingSame
<1>6. ASSUME NEW p \in Procs, NEW y \in Coming(p, f) PROVE y \in Untold(p)
  <2> DEFINE k == copier[p]
  <2>1. k.chunk \in Seq(Line) /\ CopierOk(k, p, fwd)
    BY DEF TypeInv, CopierType, CopiersInv
  <2>2. y \in ToSet(k.chunk)
    BY <2>1, ComingSome, ComingOfCopier
  <2>3. k.pc = "written" \/ f \in ToSet(k.left) \/ f \in ToSet(k.subs)
    BY DEF Coming
  <2>4. k.pc = "written"
    <3>1. f \in ToSet(k.left) \/ f \in ToSet(k.subs) => fwd[f].pc \in Registered \cup {"ended"}
      BY <2>1 DEF CopierOk
    <3>2. fwd[f].pc = "none"
      BY <1>1 DEF NoForward
    <3> QED BY <2>3, <3>1, <3>2 DEF Registered
  <2> QED BY <2>2, <2>4 DEF Untold
<1>7. \A y \in AllComing(f) : y \in D
  BY <1>1, <1>6 DEF AllComing
<1> HIDE DEF n, D
<1>8. InOrder(n, D)
  BY <1>4 DEF InOrder, Older
<1>9. \A x \in ToSet(n), y \in AllComing(f) : Older(x, y, D)
  BY <1>7 DEF Older
<1>10. KnownBy(ToSet(n), copier)
  BY <1>3, <1>4 DEF KnownBy
<1> QED BY <1>4, <1>5, <1>8, <1>9, <1>10 DEF OrderOk, n, D

\* The order of every stream.
LEMMA OrderStep ==
  ASSUME TypeInv, RingInv, LogInv, CopiersInv, ForwardsInv, ClientsInv, OrderInv, [Next]_vars
  PROVE  OrderInv'
<1> SUFFICES ASSUME NEW f \in Subs, fwd'[f].pc \in Taken
             PROVE  /\ OrderOk(Stream(f)', AllComing(f)', fwd'[f].doubled)
                    /\ KnownBy(ToSet(Stream(f)'), copier')
  BY DEF OrderInv, Taken
<1>1. CASE fwd[f].pc # "none"
  <2>1. fwd[f].pc \in Taken /\ fwd'[f].doubled = fwd[f].doubled
    BY <1>1, ForwardFrame
  <2>2. OrderOk(Stream(f), AllComing(f), fwd[f].doubled) /\ KnownBy(ToSet(Stream(f)), copier)
    BY <2>1 DEF OrderInv, Taken
  <2>3. Stream(f) \in Seq(Line)
    <3>1. fwd[f].client \in Clients
      BY <1>1 DEF ForwardsInv, ForwardOk
    <3> QED BY <3>1, StreamType
  <2>4. FlowKeeps(f) \/ FlowTakes(f) \/ FlowGrows(f)
    BY <2>1, Flow
  <2>5. /\ OrderOk(Stream(f)', AllComing(f)', fwd[f].doubled)
        /\ KnownBy(ToSet(Stream(f)'), copier) /\ ToSet(Stream(f)') \in SUBSET Line
    BY <2>2, <2>3, <2>4, OrderFlows
  <2> QED BY <2>1, <2>5, KnownStays
<1>2. CASE fwd[f].pc = "none"
  <2>1. fwd'[f].pc # "none"
    BY DEF Taken, Registered
  <2>2. PICK c \in Clients : Subscribe(c) /\ f = drawn + 1
    BY <1>2, <2>1, OnlySubscribeStarts
  <2>3. /\ OrderOk(Stream(f)', AllComing(f)', fwd'[f].doubled)
        /\ KnownBy(ToSet(Stream(f)'), copier) /\ ToSet(Stream(f)') \in SUBSET Line
    BY <2>2, OrderStarts
  <2> QED BY <2>3, KnownStays
<1> QED BY <1>1, <1>2

\* Every line that was written since a subscription began is in its stream, or coming.
LEMMA SeenStep ==
  ASSUME TypeInv, RingInv, CopiersInv, ForwardsInv, SeenInv, [Next]_vars
  PROVE  SeenInv'
<1> SUFFICES ASSUME NEW f \in Subs, fwd'[f].pc \in Registered, ~Loses(f),
                    NEW i \in fwd'[f].since + 1 .. Len(log')
             PROVE  log'[i] \in ToSet(Stream(f)') \cup AllComing(f)'
  BY DEF SeenInv, SeenOk, Loses
<1>1. fwd[f].pc # "none"
  <2>1. ASSUME fwd[f].pc = "none" PROVE FALSE
    <3>1. PICK c \in Clients : Subscribe(c) /\ f = drawn + 1
      BY <2>1, OnlySubscribeStarts DEF Registered
    <3>2. fwd'[f].pc = "snapshot"
      BY <3>1, SubscribeMoves
    <3> QED BY <3>2 DEF Registered
  <2> QED BY <2>1
<1>2. /\ fwd'[f].client = fwd[f].client /\ (fwd[f].lossy => fwd'[f].lossy)
      /\ fwd[f].pc \in Taken /\ fwd'[f].pc \in Taken
      /\ \/ fwd[f].pc \in Registered /\ fwd'[f].since = fwd[f].since
         \/ fwd'[f].since = Len(log) /\ UNCHANGED log
  <2>1. fwd'[f].pc \in Taken
    BY DEF Taken
  <2> QED BY <1>1, <2>1, ForwardFrame
<1>3. log \in Seq(Line) /\ Len(log) \in Nat
  BY DEF TypeInv
<1>4. fwd[f].pc \in Registered /\ fwd'[f].since = fwd[f].since
  <2>1. ~(fwd'[f].since = Len(log) /\ UNCHANGED log)
    BY <1>3
  <2> QED BY <1>2, <2>1
<1>5. PICK c \in Clients : c = fwd[f].client
  BY <1>1 DEF ForwardsInv, ForwardOk
<1>6. ~fwd[f].lossy /\ ~client[c].lossy
  BY <1>2, <1>5, QueueGrows DEF Loses
<1>7. \A j \in fwd[f].since + 1 .. Len(log) : log[j] \in ToSet(Stream(f)) \cup AllComing(f)
  BY <1>4, <1>5, <1>6 DEF SeenInv, SeenOk
<1>8. Stream(f) \in Seq(Line) /\ fwd[f].since \in Nat
  BY <1>5, StreamType DEF TypeInv, ForwardType
<1>9. fwd[f].pc # "snapshot"
  BY <1>4 DEF Registered
<1>10. CASE FlowKeeps(f)
  BY <1>4, <1>7, <1>9, <1>10 DEF FlowKeeps
<1>11. CASE FlowTakes(f)
  <2>1. PICK x \in Line : Stream(f)' = Append(Stream(f), x) /\ AllComing(f) = AllComing(f)' \cup {x}
    BY <1>11 DEF FlowTakes
  <2>2. log' = log
    BY <1>11 DEF FlowTakes
  <2>3. ToSet(Stream(f)') = ToSet(Stream(f)) \cup {x}
    BY <1>8, <2>1, ToSetOfAppend
  <2> QED BY <1>4, <1>7, <2>1, <2>2, <2>3
<1>12. CASE FlowGrows(f)
  <2>1. PICK chunk \in Seq(Line) : log' = log \o chunk /\ AllComing(f)' = AllComing(f) \cup ToSet(chunk)
    BY <1>12 DEF FlowGrows
  <2>2. Stream(f)' = Stream(f)
    BY <1>12 DEF FlowGrows
  <2> DEFINE n == Len(log)
             m == Len(chunk)
  <2>3. /\ Len(log') = n + m /\ m \in Nat /\ n \in Nat
        /\ \A j \in 1 .. n : log'[j] = log[j]
        /\ \A j \in n + 1 .. n + m : log'[j] = chunk[j - n]
    BY <1>3, <2>1
  <2>4. DOMAIN chunk = 1 .. m /\ \A j \in 1 .. m : chunk[j] \in ToSet(chunk)
    BY ToSetFacts
  <2> HIDE DEF n, m
  <2>i. i \in Nat /\ i >= 1 /\ i >= fwd[f].since + 1 /\ i <= n + m
    BY <1>4, <1>8, <2>3
  <2>5. CASE i <= n
    <3>1. i \in fwd[f].since + 1 .. Len(log) /\ i \in 1 .. n
      BY <1>8, <2>3, <2>5, <2>i DEF n
    <3> QED BY <1>7, <2>1, <2>2, <2>3, <3>1
  <2>6. CASE i > n
    <3>1. i \in n + 1 .. n + m /\ i - n \in 1 .. m
      BY <2>3, <2>6, <2>i
    <3> QED BY <2>1, <2>3, <2>4, <3>1
  <2> QED BY <2>3, <2>5, <2>6, <2>i
<1> QED BY <1>2, <1>10, <1>11, <1>12, Flow

-----------------------------------------------------------------------------
\* The first state.
LEMMA InvInit == Init => Inv
<1> SUFFICES ASSUME Init PROVE Inv
  OBVIOUS
<1>1. \A f \in Subs : fwd[f].pc = "none"
  BY DEF Init, NoForward
<1>2. OrderInv /\ SeenInv
  BY <1>1 DEF OrderInv, SeenInv, Registered
<1> QED BY <1>2, InitTypes, RingInit, LogInit, CopiersInit, ForwardsInit, SlotsInit, ClientsInit,
           EventsInit, ScansInit DEF Inv

\* Every step.
LEMMA InvStep ==
  ASSUME Inv, [Next]_vars
  PROVE  Inv'
BY TypeStep, RingStep, LogStep, CopiersStep, ForwardsStep, SlotsStep, ClientsStep, OrderStep, SeenStep,
   EventsStep, ScansStep DEF Inv

\* The induction.
LEMMA InvAlways == Spec => []Inv
BY InvInit, InvStep, PTL DEF Spec

-----------------------------------------------------------------------------
\* The types of the model follow.
LEMMA InvTypes == Inv /\ limit \in Limits => TypeOK
<1> SUFFICES ASSUME Inv, limit \in Limits PROVE TypeOK
  OBVIOUS
<1>1. TypeInv /\ ForwardsInv /\ SlotsInv /\ ClientsInv
  BY DEF Inv
<1>2. /\ procs \in 0 .. MaxProcs /\ drawn \in 0 .. MaxSubs /\ emitted \in 0 .. MaxEvents
  BY <1>1, LimitFacts, StreamAssumption DEF TypeInv
<1>3. ASSUME NEW p \in Procs
      PROVE  /\ copier[p].pc \in {"none", "idle", "written", "calling", "ended"}
             /\ copier[p].written \in Nat /\ copier[p].chunk \in Seq(Line)
             /\ copier[p].subs \in Seq(Subs) /\ copier[p].left \in Seq(Subs)
             /\ scan[p] \in ScanType
  BY <1>1 DEF TypeInv, CopierType
<1>4. ASSUME NEW f \in Subs
      PROVE  /\ fwd[f].pc \in {"none", "snapshot", "backfill", "live", "ended"}
             /\ fwd[f].client \in Clients \cup {"none"}
             /\ fwd[f].slot \in 0 .. MaxSubs
             /\ fwd[f].rest \in Seq(Line)
             /\ fwd[f].chan \in Seq(Line) /\ Len(fwd[f].chan) <= ChanSize
  <2>1. fwd[f] \in ForwardType
    BY <1>1 DEF TypeInv
  <2>2. fwd[f].slot \in Nat /\ fwd[f].slot <= Len(listeners) /\ Len(listeners) \in Nat
    BY <1>1, <2>1 DEF ForwardType, SlotsInv, TypeInv
  <2>3. Len(listeners) <= MaxSubs /\ MaxSubs \in Nat
    BY <1>1, SlotsBounded, StreamAssumption
  <2>4. fwd[f].slot \in 0 .. MaxSubs
    BY <2>2, <2>3
  <2>5. Len(fwd[f].chan) <= ChanSize
    BY <1>1 DEF ForwardsInv, ForwardOk
  <2> QED BY <2>1, <2>4, <2>5 DEF ForwardType
<1>5. ASSUME NEW c \in Clients
      PROVE  /\ client[c].pc \in {"none", "open", "closing", "gone"}
             /\ client[c].busy \in {0} \cup Subs
             /\ client[c].send \in Seq(Message) /\ Len(client[c].send) <= SendSize
             /\ client[c].got \in Seq(Message)
  BY <1>1 DEF TypeInv, ClientType, ClientsInv
<1>6. /\ log \in Seq(Line) /\ ring \in RingType /\ listeners \in Seq({0} \cup Subs)
      /\ hub \subseteq Clients /\ cast \in [Events -> CastType]
  BY <1>1 DEF TypeInv
<1> QED BY <1>2, <1>3, <1>4, <1>5, <1>6 DEF TypeOK, RingType, ScanType, CastType

(* Every variable has its type: no channel of a client or of a forwarder     *)
(* ever holds more than its capacity, and the subscribers of the buffer have *)
(* no more slots than there were subscriptions (ws.go:30, 257).              *)
THEOREM StreamTypes == Spec => []TypeOK
<1>1. Init => limit \in Limits
  BY DEF Init
<1>2. limit \in Limits /\ [Next]_vars => limit' \in Limits
  <2> SUFFICES ASSUME [Next]_vars PROVE limit' = limit
    OBVIOUS
  <2>1. \A p \in Procs : \/ \E n \in 0 .. limit.lines : WriteLines(p, n)
                         \/ CopierStep(p) \/ IdleStep(p) \/ ProcessEnds(p)
        => UNCHANGED limit
    BY DEF WriteLines, CopierStep, CopySubscribers, CallSubscriber, ScanOutput, IdleStep, IdleTimer,
           OnIdle, ProcessEnds
  <2>2. \A f \in Subs : ReaderStep(f) \/ Forward(f) \/ ForwardDone(f) => UNCHANGED limit
    BY DEF ReaderStep, SubscribeLogs, Backfill, Forward, ForwardDone
  <2>3. ASSUME NEW c \in Clients,
               \/ HandleWS(c) \/ Subscribe(c) \/ Unsubscribe(c) \/ WsWriter(c)
               \/ Disconnect(c) \/ RemoveClient(c) \/ \E e \in Events : Broadcast(e, c)
        PROVE  UNCHANGED limit
    BY <2>3 DEF HandleWS, Subscribe, Unsubscribe, WsWriter, Disconnect, RemoveClient, Broadcast
  <2>4. StartProcess \/ HandleChatEvent \/ UNCHANGED vars => UNCHANGED limit
    BY DEF StartProcess, HandleChatEvent, vars
  <2> QED BY <2>1, <2>2, <2>3, <2>4 DEF Next
<1> DEFINE L == limit \in Limits
<1>3. L /\ [Next]_vars => L'
  BY <1>2
<1>4. Inv /\ L => TypeOK
  BY InvTypes
<1> HIDE DEF L
<1>5. Init => L
  BY <1>1 DEF L
<1> QED BY <1>3, <1>4, <1>5, InvAlways, PTL DEF Spec

\* And so does the property.
LEMMA InvMissesNothing == Inv => NothingIsMissed
<1> SUFFICES ASSUME Inv PROVE NothingIsMissed
  OBVIOUS
<1>0. TypeInv /\ RingInv /\ OrderInv /\ SeenInv /\ EventsInv /\ ScansInv
  BY DEF Inv
<1>1. LogsAreTheLast
  <2>1. ring \in RingType /\ log \in Seq(Line) /\ RingOk(ring, log)
    BY <1>0 DEF TypeInv, RingInv
  <2>2. \A n \in 0 .. Size + 1 : n \in Nat
    BY StreamAssumption
  <2> QED BY <2>1, <2>2, LinesAreLast DEF LogsAreTheLast
<1>2. SubscribersSeeAll
  <2> SUFFICES ASSUME NEW f \in Subs, fwd[f].pc \in {"backfill", "live"}
               PROVE  LET s == Stream(f) IN
                      /\ ~fwd[f].lossy /\ ~client[fwd[f].client].lossy =>
                           \A i \in fwd[f].since + 1 .. Len(log) :
                             log[i] \in ToSet(s) \cup UNION {Coming(p, f) : p \in Procs}
                      /\ \A i, j \in DOMAIN s :
                           i < j /\ s[i].by = s[j].by /\ s[i].no >= s[j].no
                             => s[j] \in fwd[f].doubled
    BY DEF SubscribersSeeAll
  <2> DEFINE s == Stream(f)
  <2>1. fwd[f].pc \in Registered
    BY DEF Registered
  <2>2. ~fwd[f].lossy /\ ~client[fwd[f].client].lossy => SeenOk(s, AllComing(f), fwd[f].since)
    BY <1>0, <2>1 DEF SeenInv
  <2>3. InOrder(s, fwd[f].doubled)
    BY <1>0, <2>1 DEF OrderInv, OrderOk
  <2>4. s \in Seq(Line)
    <3>1. fwd[f].client \in Clients
      BY <2>1 DEF Inv, ForwardsInv, ForwardOk, Registered
    <3> QED BY <1>0, <3>1, StreamType
  <2> HIDE DEF s
  <2>5. ASSUME NEW i \in DOMAIN s, NEW j \in DOMAIN s, i < j, s[i].by = s[j].by, s[i].no >= s[j].no
        PROVE  s[j] \in fwd[f].doubled
    <3>1. s[i] \in Line /\ s[j] \in Line
      BY <2>4
    <3>2. s[i].no \in Nat /\ s[j].no \in Nat
      BY <3>1 DEF Line
    <3>3. Older(s[i], s[j], fwd[f].doubled)
      BY <2>3, <2>5 DEF InOrder
    <3> QED BY <2>5, <3>2, <3>3 DEF Older
  <2> QED BY <2>2, <2>5 DEF SeenOk, AllComing, s
<1>3. EventsReachClients
  BY <1>0 DEF EventsInv, EventsReachClients
<1>4. SilenceIsToldOnce
  BY <1>0 DEF ScansInv, ScanOk, SilenceIsToldOnce
<1> QED BY <1>1, <1>2, <1>3, <1>4 DEF NothingIsMissed

(* The dashboard misses nothing but what full channels drop: the buffer      *)
(* always gives the last lines that were written, a registered subscription  *)
(* is given every line written since and each process's in their order, but  *)
(* for those that were between the two halves of a write when it was made,   *)
(* an event reaches every client that the hub had, and a silence is told     *)
(* once (ringbuf.go:37, 76, ws.go:152, 257, eventscanner.go:126).            *)
THEOREM NothingMissed == Spec => []NothingIsMissed
BY InvAlways, InvMissesNothing, PTL
===============================================================================
