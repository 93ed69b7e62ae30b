------------------------- MODULE HttpBackend_proofs -------------------------
(***************************************************************************)
(* Proofs about HttpBackend and the HttpLog it writes to, for any number   *)
(* of workers, connections and requests, any capacity of the deque, any    *)
(* length of the log files and any number of days.                         *)
(***************************************************************************)
EXTENDS HttpBackend, FiniteSetTheorems, TLAPS

-----------------------------------------------------------------------------
(* The inductive invariant *)

LogLabels == {"test", "rotate", "reopen", "open", "write", "push", "flush"}
PoolLabels == {"idle", "get", "semwait", "pop", "guard", "query", "free"}
Line == [n : Nat, direct : BOOLEAN]

LogTypes ==
  /\ deq \in Seq(Line) /\ hand \in Seq(Line) /\ file \in Seq(Line)
  /\ Len(deq) <= Capacity /\ Len(hand) = (IF writer = "put" THEN 1 ELSE 0)
  /\ writer \in {"pop", "waiting", "woken", "put", "ended"}
  /\ lineCount \in Nat /\ sinceOpen \in Nat /\ serial \in Nat
  /\ today \in 1 .. Days /\ toDay \in 1 .. today
  /\ pc \in [Workers -> LogLabels \cup PoolLabels]
  /\ ret \in [Workers -> {"idle", "get", "guard"}]
  /\ day \in [Workers -> 1 .. today]

(* Log::mtx_ is held by the worker that changes the file or pushes a line.  *)
LockIsRight ==
  /\ mtx \in Workers \cup {NoOne}
  /\ \A w \in Workers : pc[w] \in {"open", "push"} <=> mtx = w
  /\ isOpen \in BOOLEAN
  /\ isOpen <=> (main # "finished" /\ \A w \in Workers : pc[w] # "open")

(* main() leaves when the workers have, and closes an empty deque.          *)
MainIsLast ==
  /\ main # "running" => \A w \in Workers : pc[w] = "idle"
  /\ main \in {"close", "join", "finished"} => deq = <<>>

(* The lines written so far, but one that is about to be pushed, are in the *)
(* row with their numbers, in order.                                        *)
Numbers(s) == {s[i].n : i \in DOMAIN s}
Ordered(s) ==
  \A i, j \in DOMAIN s : i < j /\ s[i].n > s[j].n => s[i].direct

Written == IF Pushing = {} THEN serial ELSE serial - 1
Lines ==
  /\ Stored \in Seq(Line) /\ Len(Stored) = Written
  /\ Numbers(Stored) = 1 .. Written /\ Ordered(Stored)

(* Lines in the open file and lines counted come to the limit together; a   *)
(* worker is past the test only with room for its line.                     *)
InStep == sinceOpen <= lineCount /\ sinceOpen % MaxLines = lineCount % MaxLines
Rotation ==
  ~overlapped =>
    /\ sinceOpen <= MaxLines
    /\ \A u, v \in Workers : InWrite(u) /\ InWrite(v) => u = v
    /\ \A w \in Workers :
         /\ pc[w] = "rotate" => toDay # day[w] \/ lineCount % MaxLines = 0
         /\ pc[w] \in {"reopen", "open"} => lineCount % MaxLines = 0
         /\ pc[w] = "write" => sinceOpen < MaxLines /\ InStep
    /\ (\A w \in Workers : pc[w] \notin {"rotate", "reopen", "open", "write"}) => InStep

LogOK == LogTypes /\ LockIsRight /\ MainIsLast /\ Lines /\ Rotation

(* Lines are carried over to the open file from the deque and the hand of   *)
(* the writer, who has ended when ~Log closes the last one.                 *)
FileIsRight ==
  /\ began \in Nat /\ Carried <= Capacity + 1
  /\ main = "finished" => writer = "ended"

PoolTypes ==
  /\ connQue \in Seq(0 .. PoolSize) /\ sem \in Nat
  /\ sql \in [Workers -> 0 .. PoolSize]
  /\ served \in [Workers -> Nat] /\ \A w \in Workers : served[w] <= MaxRequests[w]
  /\ alive \subseteq Conns /\ again \in [Conns -> Nat]

(* A worker whose queries run has a connection; one that found the queue    *)
(* empty has none while it logs that.                                       *)
SqlIsRight ==
  \A w \in Workers :
    /\ pc[w] \in {"query", "free"} /\ ~aborted => sql[w] # 0
    /\ pc[w] \in LogLabels /\ ret[w] = "guard" => sql[w] = 0

PoolOK == PoolTypes /\ SqlIsRight /\ PermitsMatchQueue /\ ConnectionsAreAccounted

IInv == LogOK /\ FileIsRight /\ PoolOK

-----------------------------------------------------------------------------
(* Remainders *)

(* There is one remainder only. *)
LEMMA ModUnique ==
  ASSUME NEW M \in Nat \ {0}, NEW k \in Int, NEW x \in 0 .. M - 1, NEW y \in 0 .. M - 1,
         x - y = M * k
  PROVE  x = y
<1>1. CASE k = 0
  BY <1>1
<1>2. CASE k > 0
  <2>1. M * k >= M
    BY <1>2
  <2>. QED  BY <2>1
<1>3. CASE k < 0
  <2>1. M * k <= -M
    BY <1>3
  <2>. QED  BY <2>1
<1>. QED  BY <1>1, <1>2, <1>3

(* What a remainder is. *)
LEMMA ModDiv ==
  ASSUME NEW M \in Nat \ {0}, NEW n \in Int
  PROVE  n \div M \in Int /\ n = (M * (n \div M)) + (n % M) /\ n % M \in 0 .. M - 1
OBVIOUS

(* Two counters that go together to the limit. *)
LEMMA ModNext ==
  ASSUME NEW M \in Nat \ {0}, NEW a \in Int, NEW b \in Int, a % M = b % M
  PROVE  (a + 1) % M = (b + 1) % M
<1>1. PICK p, q, x, y : /\ p = a \div M /\ q = b \div M
                        /\ x = (a + 1) \div M /\ y = (b + 1) \div M
  OBVIOUS
<1>2. PICK r, u, v : r = a % M /\ r = b % M /\ u = (a + 1) % M /\ v = (b + 1) % M
  OBVIOUS
<1>3. /\ p \in Int /\ q \in Int /\ x \in Int /\ y \in Int
      /\ r \in 0 .. M - 1 /\ u \in 0 .. M - 1 /\ v \in 0 .. M - 1
      /\ a + 1 \in Int /\ b + 1 \in Int
  BY <1>1, <1>2, ModDiv
<1>4. a = M * p + r /\ b = M * q + r
  BY <1>1, <1>2, ModDiv
<1>5. a + 1 = M * x + u /\ b + 1 = M * y + v
  BY <1>1, <1>2, <1>3, ModDiv
<1>6. u - v = M * (p - q - x + y)
  BY <1>3, <1>4, <1>5
<1>7. u = v
  BY <1>3, <1>6, ModUnique
<1>. QED  BY <1>2, <1>7

(* The limit is a multiple of itself, and what is below it is not. *)
LEMMA ModLimit ==
  ASSUME NEW M \in Nat \ {0}
  PROVE  M % M = 0 /\ 0 % M = 0 /\ \A n \in 0 .. M - 1 : n % M = n
OBVIOUS

-----------------------------------------------------------------------------
(* How often something occurs *)

Occ(q, c) == {i \in DOMAIN q : q[i] = c}

(* A queue is finite. *)
LEMMA OccFinite ==
  ASSUME NEW S, NEW q \in Seq(S), NEW c
  PROVE  IsFiniteSet(Occ(q, c)) /\ Cardinality(Occ(q, c)) \in Nat
<1>1. Occ(q, c) \subseteq 1 .. Len(q) /\ 1 \in Int /\ Len(q) \in Int
  BY DEF Occ
<1>2. IsFiniteSet(1 .. Len(q))
  BY <1>1, FS_Interval
<1>. QED  BY <1>1, <1>2, FS_Subset, FS_CardinalityType

(* push_back *)
LEMMA OccAppend ==
  ASSUME NEW S, NEW q \in Seq(S), NEW x \in S, NEW c
  PROVE  /\ x = c => Cardinality(Occ(Append(q, x), c)) = Cardinality(Occ(q, c)) + 1
         /\ x # c => Cardinality(Occ(Append(q, x), c)) = Cardinality(Occ(q, c))
<1>1. PICK n \in Nat : n = Len(q)
  OBVIOUS
<1>2. PICK a : a = Append(q, x)
  OBVIOUS
<1>3. /\ DOMAIN a = 1 .. n + 1 /\ DOMAIN q = 1 .. n /\ a[n + 1] = x
      /\ \A i \in 1 .. n : a[i] = q[i]
  BY <1>1, <1>2
<1>4. CASE x = c
  <2>1. Occ(a, c) = Occ(q, c) \cup {n + 1} /\ n + 1 \notin Occ(q, c)
    BY <1>3, <1>4 DEF Occ
  <2>. QED  BY <1>2, <1>4, <2>1, OccFinite, FS_AddElement
<1>5. CASE x # c
  <2>1. Occ(a, c) = Occ(q, c)
    BY <1>3, <1>5 DEF Occ
  <2>. QED  BY <1>2, <1>5, <2>1
<1>. QED  BY <1>4, <1>5

(* pop_front *)
LEMMA OccTail ==
  ASSUME NEW S, NEW q \in Seq(S), q # <<>>, NEW c
  PROVE  /\ Head(q) = c => Cardinality(Occ(Tail(q), c)) = Cardinality(Occ(q, c)) - 1
         /\ Head(q) # c => Cardinality(Occ(Tail(q), c)) = Cardinality(Occ(q, c))
<1>1. PICK n \in Nat : n = Len(q)
  OBVIOUS
<1>2. PICK t : t = Tail(q)
  OBVIOUS
<1>3. /\ DOMAIN t = 1 .. n - 1 /\ DOMAIN q = 1 .. n /\ Head(q) = q[1] /\ n >= 1 /\ t \in Seq(S)
      /\ \A i \in 1 .. n - 1 : t[i] = q[i + 1]
  BY <1>1, <1>2
<1>4. PICK R : R = {i \in Occ(q, c) : i # 1}
  OBVIOUS
<1>5. R = {i \in 2 .. n : q[i] = c}
  BY <1>3, <1>4 DEF Occ
<1>6. ExistsBijection(Occ(t, c), R)
  <2>1. PICK b : b = [i \in Occ(t, c) |-> i + 1]
    OBVIOUS
  <2>2. b \in [Occ(t, c) -> R]
    BY <1>3, <1>5, <2>1 DEF Occ
  <2>3. \A i, j \in Occ(t, c) : b[i] = b[j] => i = j
    BY <1>3, <2>1 DEF Occ
  <2>4. \A j \in R : \E i \in Occ(t, c) : b[i] = j
    <3>1. SUFFICES ASSUME NEW j \in R PROVE \E i \in Occ(t, c) : b[i] = j
      OBVIOUS
    <3>2. j - 1 \in Occ(t, c) /\ (j - 1) + 1 = j
      BY <1>3, <1>5 DEF Occ
    <3>. QED  BY <2>1, <3>2
  <2>5. b \in Bijection(Occ(t, c), R)
    BY <2>2, <2>3, <2>4 DEF Bijection, Injection, Surjection, IsInjective
  <2>. QED  BY <2>5 DEF ExistsBijection
<1>7. Cardinality(R) = Cardinality(Occ(t, c))
  BY <1>3, <1>6, OccFinite, FS_Bijection
<1>8. CASE Head(q) = c
  <2>1. 1 \in Occ(q, c) /\ R = Occ(q, c) \ {1}
    BY <1>3, <1>4, <1>8 DEF Occ
  <2>2. Cardinality(R) = Cardinality(Occ(q, c)) - 1
    BY <2>1, OccFinite, FS_RemoveElement
  <2>. QED  BY <1>2, <1>7, <1>8, <2>2
<1>9. CASE Head(q) # c
  <2>1. R = Occ(q, c)
    BY <1>3, <1>4, <1>9 DEF Occ
  <2>. QED  BY <1>2, <1>7, <1>9, <2>1
<1>. QED  BY <1>8, <1>9

-----------------------------------------------------------------------------
(* Lines *)

(* A line put in at place k. *)
InsertedAt(s, t, k, x) ==
  /\ k \in 1 .. Len(t) /\ Len(t) = Len(s) + 1 /\ t[k] = x
  /\ \A i \in 1 .. k - 1 : t[i] = s[i]
  /\ \A i \in k + 1 .. Len(t) : t[i] = s[i - 1]

(* A line with a higher number than the others may be put in last, or       *)
(* anywhere if it is a direct one.                                          *)
LEMMA NewLine ==
  ASSUME NEW s \in Seq(Line), NEW t \in Seq(Line), NEW k \in Nat, NEW x \in Line,
         InsertedAt(s, t, k, x), \A m \in Numbers(s) : m < x.n,
         x.direct \/ k = Len(t), Ordered(s)
  PROVE  Numbers(t) = Numbers(s) \cup {x.n} /\ Ordered(t)
<1>1. PICK n \in Nat : n = Len(s)
  OBVIOUS
<1>2. /\ DOMAIN s = 1 .. n /\ DOMAIN t = 1 .. n + 1 /\ k \in 1 .. n + 1 /\ t[k] = x
      /\ \A i \in 1 .. k - 1 : t[i] = s[i]
      /\ \A i \in k + 1 .. n + 1 : t[i] = s[i - 1]
      /\ x.direct \/ k = n + 1
  BY <1>1 DEF InsertedAt
<1>3. Numbers(t) = Numbers(s) \cup {x.n}
  <2>1. Numbers(t) \subseteq Numbers(s) \cup {x.n}
    <3>1. SUFFICES ASSUME NEW i \in 1 .. n + 1 PROVE t[i].n \in Numbers(s) \cup {x.n}
      BY <1>2 DEF Numbers
    <3>2. CASE i < k
      BY <1>2, <3>2 DEF Numbers
    <3>3. CASE i = k
      BY <1>2, <3>3
    <3>4. CASE i > k
      <4>1. t[i] = s[i - 1] /\ i - 1 \in 1 .. n
        BY <1>2, <3>4
      <4>. QED  BY <1>2, <4>1 DEF Numbers
    <3>. QED  BY <1>2, <3>2, <3>3, <3>4
  <2>2. x.n \in Numbers(t)
    BY <1>2 DEF Numbers
  <2>3. Numbers(s) \subseteq Numbers(t)
    <3>1. SUFFICES ASSUME NEW i \in 1 .. n PROVE s[i].n \in Numbers(t)
      BY <1>2 DEF Numbers
    <3>2. CASE i < k
      <4>1. t[i] = s[i] /\ i \in 1 .. n + 1
        BY <1>2, <3>2
      <4>. QED  BY <1>2, <4>1 DEF Numbers
    <3>3. CASE i >= k
      <4>1. t[i + 1] = s[i] /\ i + 1 \in 1 .. n + 1
        BY <1>2, <3>3, SMTT(20)
      <4>. QED  BY <1>2, <4>1 DEF Numbers
    <3>. QED  BY <1>2, <3>2, <3>3
  <2>. QED  BY <2>1, <2>2, <2>3
<1>4. Ordered(t)
  <2>1. SUFFICES ASSUME NEW i \in 1 .. n + 1, NEW j \in 1 .. n + 1, i < j, t[i].n > t[j].n
                 PROVE  t[i].direct
    BY <1>2 DEF Ordered
  <2>2. \A l \in 1 .. n : s[l].n \in Nat /\ s[l].n < x.n
    <3>1. SUFFICES ASSUME NEW l \in 1 .. n PROVE s[l].n \in Nat /\ s[l].n < x.n
      OBVIOUS
    <3>2. l \in DOMAIN s /\ s[l] \in Line
      BY <1>1, <1>2
    <3>3. s[l].n \in Numbers(s)
      BY <3>2 DEF Numbers
    <3>. QED  BY <3>2, <3>3 DEF Line
  <2>3. x.n \in Nat
    BY DEF Line
  <2>4. CASE i = k
    BY <1>2, <2>1, <2>4
  <2>5. CASE j = k
    <3>1. t[i] = s[i] /\ i \in 1 .. n
      BY <1>2, <2>1, <2>5
    <3>. QED  BY <1>2, <2>1, <2>2, <2>3, <2>5, <3>1
  <2>6. CASE i # k /\ j # k
    <3>1. PICK a \in 1 .. n : t[i] = s[a] /\ ((i < k /\ a = i) \/ (i > k /\ a = i - 1))
      <4>1. CASE i < k
        BY <1>2, <4>1
      <4>2. CASE i > k
        <5>1. i - 1 \in 1 .. n /\ t[i] = s[i - 1]
          BY <1>2, <4>2
        <5>. QED  BY <4>2, <5>1
      <4>. QED  BY <1>2, <2>6, <4>1, <4>2, SMTT(20)
    <3>2. PICK b \in 1 .. n : t[j] = s[b] /\ ((j < k /\ b = j) \/ (j > k /\ b = j - 1))
      <4>1. CASE j < k
        BY <1>2, <4>1
      <4>2. CASE j > k
        <5>1. j - 1 \in 1 .. n /\ t[j] = s[j - 1]
          BY <1>2, <4>2
        <5>. QED  BY <4>2, <5>1
      <4>. QED  BY <1>2, <2>6, <4>1, <4>2
    <3>3. a < b
      BY <1>2, <2>1, <3>1, <3>2
    <3>. QED  BY <1>2, <2>1, <3>1, <3>2, <3>3 DEF Ordered
  <2>. QED  BY <2>4, <2>5, <2>6
<1>. QED  BY <1>3, <1>4

(* The file, the writer's hand and the deque in a row. *)
LEMMA Rows ==
  ASSUME NEW f \in Seq(Line), NEW h \in Seq(Line), NEW d \in Seq(Line), NEW x \in Line
  PROVE  /\ f \o h \o d \in Seq(Line) /\ Len(f \o h \o d) = Len(f) + Len(h) + Len(d)
         /\ Append(f, x) \o h \o d \in Seq(Line) /\ f \o h \o Append(d, x) \in Seq(Line)
         /\ InsertedAt(f \o h \o d, Append(f, x) \o h \o d, Len(f) + 1, x)
         /\ LET t == f \o h \o Append(d, x)
            IN  InsertedAt(f \o h \o d, t, Len(t), x)
<1>1. PICK a, b, c : a = Len(f) /\ b = Len(h) /\ c = Len(d)
  OBVIOUS
<1>2. PICK s, t, u : /\ s = f \o h \o d /\ t = Append(f, x) \o h \o d
                     /\ u = f \o h \o Append(d, x)
  OBVIOUS
<1>3. a \in Nat /\ b \in Nat /\ c \in Nat
  BY <1>1
<1>4. /\ s \in Seq(Line) /\ Len(s) = a + b + c
      /\ \A i \in 1 .. a : s[i] = f[i]
      /\ \A i \in a + 1 .. a + b : s[i] = h[i - a]
      /\ \A i \in a + b + 1 .. a + b + c : s[i] = d[i - a - b]
  BY <1>1, <1>2
<1>5. /\ t \in Seq(Line) /\ Len(t) = a + 1 + b + c
      /\ \A i \in 1 .. a : t[i] = f[i]
      /\ t[a + 1] = x
      /\ \A i \in a + 2 .. a + 1 + b : t[i] = h[i - a - 1]
      /\ \A i \in a + b + 2 .. a + b + 1 + c : t[i] = d[i - a - 1 - b]
  BY <1>1, <1>2, SMTT(20)
<1>6. /\ u \in Seq(Line) /\ Len(u) = a + b + c + 1
      /\ \A i \in 1 .. a : u[i] = f[i]
      /\ \A i \in a + 1 .. a + b : u[i] = h[i - a]
      /\ \A i \in a + b + 1 .. a + b + c : u[i] = d[i - a - b]
      /\ u[a + b + c + 1] = x
  <2>1. PICK e : e = Append(d, x)
    OBVIOUS
  <2>2. /\ e \in Seq(Line) /\ Len(e) = c + 1 /\ e[c + 1] = x
        /\ \A i \in 1 .. c : e[i] = d[i]
    BY <1>1, <2>1
  <2>3. /\ u \in Seq(Line) /\ Len(u) = a + b + c + 1
        /\ \A i \in 1 .. a : u[i] = f[i]
        /\ \A i \in a + 1 .. a + b : u[i] = h[i - a]
        /\ \A i \in a + b + 1 .. a + b + c + 1 : u[i] = e[i - a - b]
    <3>1. e \in Seq(Line) /\ Len(e) = c + 1 /\ u = f \o h \o e
      BY <1>2, <2>1, <2>2
    <3>2. u \in Seq(Line) /\ Len(u) = a + b + c + 1
      <4>1. PICK g : g = f \o h
        OBVIOUS
      <4>2. g \in Seq(Line) /\ e \in Seq(Line)
        BY <3>1, <4>1
      <4>3. Len(g) = a + b /\ u = g \o e
        BY <1>1, <3>1, <4>1
      <4>4. g \o e \in Seq(Line) /\ Len(g \o e) = Len(g) + Len(e)
        BY <4>2
      <4>. QED  BY <1>3, <3>1, <4>3, <4>4
    <3>3. \A i \in 1 .. a : u[i] = f[i]
      BY <1>1, <1>3, <3>1
    <3>4. \A i \in a + 1 .. a + b : u[i] = h[i - a]
      BY <1>1, <1>3, <3>1
    <3>5. \A i \in a + b + 1 .. a + b + c + 1 : u[i] = e[i - a - b]
      BY <1>1, <1>3, <3>1
    <3>. QED  BY <3>2, <3>3, <3>4, <3>5
  <2>4. \A i \in a + b + 1 .. a + b + c : u[i] = d[i - a - b]
    <3>1. SUFFICES ASSUME NEW i \in a + b + 1 .. a + b + c PROVE u[i] = d[i - a - b]
      OBVIOUS
    <3>2. i - a - b \in 1 .. c /\ i \in a + b + 1 .. a + b + c + 1
      BY <1>3, <3>1
    <3>. QED  BY <2>2, <2>3, <3>2
  <2>5. u[a + b + c + 1] = x
    <3>1. /\ a + b + c + 1 \in a + b + 1 .. a + b + c + 1
          /\ (a + b + c + 1) - a - b = c + 1
      BY <1>3
    <3>. QED  BY <2>2, <2>3, <3>1
  <2>. QED  BY <2>3, <2>4, <2>5
<1>7. InsertedAt(s, t, a + 1, x)
  <2>1. \A i \in a + 2 .. a + b + c + 1 : t[i] = s[i - 1]
    <3>1. SUFFICES ASSUME NEW i \in a + 2 .. a + b + c + 1 PROVE t[i] = s[i - 1]
      OBVIOUS
    <3>2. CASE i <= a + 1 + b
      <4>1. /\ i \in a + 2 .. a + 1 + b /\ i - 1 \in a + 1 .. a + b
            /\ i - a - 1 = (i - 1) - a
        BY <1>3, <3>1, <3>2
      <4>2. t[i] = h[i - a - 1] /\ s[i - 1] = h[(i - 1) - a]
        BY <1>4, <1>5, <4>1
      <4>. QED  BY <4>1, <4>2
    <3>3. CASE i > a + 1 + b
      <4>1. /\ i \in a + b + 2 .. a + b + 1 + c /\ i - 1 \in a + b + 1 .. a + b + c
            /\ i - a - 1 - b = (i - 1) - a - b
        BY <1>3, <3>1, <3>3
      <4>2. t[i] = d[i - a - 1 - b] /\ s[i - 1] = d[(i - 1) - a - b]
        BY <1>4, <1>5, <4>1
      <4>. QED  BY <4>1, <4>2
    <3>. QED  BY <1>3, <3>2, <3>3
  <2>. QED  BY <1>3, <1>4, <1>5, <2>1 DEF InsertedAt
<1>8. InsertedAt(s, u, Len(u), x)
  <2>1. \A i \in 1 .. a + b + c : u[i] = s[i]
    <3>1. SUFFICES ASSUME NEW i \in 1 .. a + b + c PROVE u[i] = s[i]
      OBVIOUS
    <3>2. CASE i <= a
      BY <1>3, <1>4, <1>6, <3>1, <3>2
    <3>3. CASE i \in a + 1 .. a + b
      BY <1>4, <1>6, <3>3
    <3>4. CASE i \in a + b + 1 .. a + b + c
      BY <1>4, <1>6, <3>4
    <3>. QED  BY <1>3, <3>1, <3>2, <3>3, <3>4
  <2>2. PICK n \in Nat : n = a + b + c
    BY <1>3
  <2>3. Len(s) = n /\ Len(u) = n + 1
    BY <1>4, <1>6, <2>2
  <2>4. u[n + 1] = x
    BY <1>6, <2>2
  <2>5. \A i \in 1 .. n : u[i] = s[i]
    BY <2>1, <2>2
  <2>. QED  BY <2>2, <2>3, <2>4, <2>5 DEF InsertedAt
<1>. QED  BY <1>1, <1>2, <1>4, <1>5, <1>6, <1>7, <1>8

(* Moving the first line of the deque through the hand into the file leaves *)
(* the row as it is.                                                        *)
LEMMA RowStays ==
  ASSUME NEW f \in Seq(Line), NEW d \in Seq(Line)
  PROVE  /\ d # <<>> => f \o <<Head(d)>> \o Tail(d) = f \o <<>> \o d
         /\ \A h \in Seq(Line) : (f \o h) \o <<>> \o d = f \o h \o d
<1>1. \A h \in Seq(Line) : (f \o h) \o <<>> \o d = f \o h \o d
  OBVIOUS
<1>2. ASSUME d # <<>> PROVE f \o <<Head(d)>> \o Tail(d) = f \o <<>> \o d
  <2>1. PICK s, t, a, c : /\ s = f \o <<Head(d)>> \o Tail(d) /\ t = f \o <<>> \o d
                          /\ a = Len(f) /\ c = Len(d)
    OBVIOUS
  <2>2. /\ a \in Nat /\ c \in Nat \ {0} /\ Head(d) \in Line /\ Tail(d) \in Seq(Line)
        /\ Len(Tail(d)) = c - 1 /\ <<Head(d)>> \in Seq(Line) /\ <<>> \in Seq(Line)
        /\ \A i \in 1 .. c - 1 : Tail(d)[i] = d[i + 1]
    BY <1>2, <2>1
  <2>3. s \in Seq(Line) /\ Len(s) = a + c /\ t \in Seq(Line) /\ Len(t) = a + c
    BY <2>1, <2>2
  <2>4. \A i \in 1 .. a + c : s[i] = t[i]
    <3>1. SUFFICES ASSUME NEW i \in 1 .. a + c PROVE s[i] = t[i]
      OBVIOUS
    <3>2. t[i] = IF i <= a THEN f[i] ELSE d[i - a]
      BY <2>1, <2>2, <3>1
    <3>3. CASE i <= a
      BY <2>1, <2>2, <3>1, <3>2, <3>3
    <3>4. CASE i = a + 1
      <4>1. s[i] = Head(d)
        BY <2>1, <2>2, <3>4
      <4>. QED  BY <1>2, <2>2, <3>2, <3>4, <4>1
    <3>5. CASE i > a + 1
      <4>1. s[i] = Tail(d)[i - a - 1]
        BY <2>1, <2>2, <3>1, <3>5
      <4>2. i - a - 1 \in 1 .. c - 1 /\ (i - a - 1) + 1 = i - a
        BY <2>2, <3>1, <3>5
      <4>. QED  BY <2>2, <3>2, <3>5, <4>1, <4>2
    <3>. QED  BY <2>2, <3>1, <3>3, <3>4, <3>5
  <2>. QED  BY <2>1, <2>3, <2>4
<1>. QED  BY <1>1, <1>2

-----------------------------------------------------------------------------
(* Parts of the log that an action leaves alone *)

Same(w, l) == pc \in [Workers -> LogLabels \cup PoolLabels] /\ pc' = [pc EXCEPT ![w] = l]

(* A worker goes to another place.                                          *)
LEMMA Elsewhere ==
  ASSUME NEW w \in Workers, NEW l, Same(w, l)
  PROVE  pc'[w] = l /\ \A u \in Workers \ {w} : pc'[u] = pc[u]
BY DEF Same

(* The lines stay as they are.                                              *)
LEMMA LinesStay ==
  ASSUME Lines, Pushing' = Pushing, Stored' = Stored, serial' = serial
  PROVE  Lines'
BY DEF Lines, Written

(* The worker that pushes is the only one, and holds the lock.              *)
LEMMA OnePusher ==
  ASSUME LogTypes, LockIsRight
  PROVE  /\ mtx = NoOne => Pushing = {}
         /\ \A w \in Workers : pc[w] = "push" => Pushing = {w}
         /\ \A w \in Workers : pc[w] = "open" => Pushing = {}
         /\ Cardinality(Pushing) = IF Pushing = {} THEN 0 ELSE 1
<1>1. /\ mtx = NoOne => Pushing = {}
      /\ \A w \in Workers : pc[w] = "push" => Pushing = {w}
      /\ \A w \in Workers : pc[w] = "open" => Pushing = {}
  BY LogAssumption DEF LockIsRight, Pushing, At
<1>2. CASE Pushing = {}
  BY <1>1, <1>2, FS_EmptySet
<1>3. CASE Pushing # {}
  <2>1. PICK w \in Workers : pc[w] = "push"
    BY <1>3 DEF Pushing, At
  <2>2. Pushing = {w}
    BY <1>1, <2>1
  <2>. QED  BY <1>1, <2>2, FS_Singleton
<1>. QED  BY <1>2, <1>3

(* The property follows from the lines in the row.                          *)
LEMMA LinesAreThere ==
  ASSUME LogTypes, LockIsRight, Lines
  PROVE  LinesAreKept
<1>1. PICK a, b, c : a = Len(Stored) /\ b = Cardinality(Pushing) /\ c = serial
  OBVIOUS
<1>2. a \in Nat /\ c \in Nat /\ Numbers(Stored) = Serials
  BY <1>1 DEF Lines, LogTypes, Numbers, Serials
<1>3. LinesAreConserved
  <2>1. CASE Pushing = {}
    BY <1>1, <1>2, <2>1, OnePusher DEF LinesAreConserved, Lines, Written
  <2>2. CASE Pushing # {}
    <3>1. a = c - 1 /\ b = 1 /\ Serials = 1 .. c - 1
      BY <1>1, <1>2, <2>2, OnePusher DEF Lines, Written
    <3>2. (1 .. c - 1) \cup {c} = 1 .. c
      BY <1>2, <3>1
    <3>. QED  BY <1>1, <1>2, <2>2, <3>1, <3>2 DEF LinesAreConserved
  <2>. QED  BY <2>1, <2>2
<1>4. OrderKept
  BY DEF Lines, OrderKept, Ordered
<1>. QED  BY <1>3, <1>4 DEF LinesAreKept

-----------------------------------------------------------------------------
(* Inside Log::write *)

(* The test for a new file.                                                 *)
LEMMA WriteTestKeeps ==
  ASSUME LogOK, NEW w \in Workers, WriteTest(w)
  PROVE  LogOK'
<1>. USE DEF LogOK
<1>1. PICK l \in {"rotate", "write"} :
        /\ Same(w, l) /\ l = (IF RotationDue(w) THEN "rotate" ELSE "write")
        /\ pc[w] = "test"
  BY DEF WriteTest, GoesTo, At, Same, LogTypes
<1>2. pc'[w] = l /\ \A u \in Workers \ {w} : pc'[u] = pc[u]
  BY <1>1, Elsewhere
<1>3. LogTypes'
  BY <1>1 DEF WriteTest, LogTypes, Same, LogLabels, queueVars, fileVars
<1>4. LockIsRight'
  BY <1>1, <1>2 DEF WriteTest, LockIsRight, fileVars
<1>5. MainIsLast'
  BY <1>1, <1>2 DEF WriteTest, MainIsLast, queueVars
<1>6. Lines'
  <2>1. Pushing' = Pushing
    BY <1>1, <1>2 DEF Pushing, At
  <2>. QED  BY <2>1, LinesStay DEF WriteTest, Stored, queueVars, fileVars
<1>7. Rotation'
  <2>1. SUFFICES ASSUME ~overlapped' PROVE Rotation'
    BY DEF Rotation
  <2>2. ~overlapped /\ \A u \in Workers \ {w} : ~InWrite(u)
    BY <2>1 DEF WriteTest
  <2>3. UNCHANGED <<sinceOpen, lineCount, toDay, day>>
    BY DEF WriteTest, fileVars
  <2>4. sinceOpen <= MaxLines /\ InStep
    BY <1>1, <2>2 DEF Rotation, InWrite
  <2>5. l = "rotate" => toDay # day[w] \/ lineCount % MaxLines = 0
    BY <1>1 DEF RotationDue
  <2>6. ASSUME l = "write" PROVE sinceOpen < MaxLines
    <3>1. lineCount = 0 \/ lineCount % MaxLines # 0
      BY <1>1, <2>6 DEF RotationDue
    <3>2. CASE lineCount = 0
      BY <2>4, <3>2, LogAssumption DEF InStep, LogTypes
    <3>3. CASE lineCount % MaxLines # 0
      <4>1. sinceOpen # MaxLines
        BY <2>4, <3>3, ModLimit, LogAssumption DEF InStep
      <4>. QED  BY <2>4, <4>1, LogAssumption DEF LogTypes
    <3>. QED  BY <3>1, <3>2, <3>3
  <2>7. InStep'
    BY <2>3, <2>4 DEF InStep
  <2>8. \A u \in Workers \ {w} : ~InWrite(u)'
    BY <1>2, <2>2 DEF InWrite
  <2>. QED  BY <1>1, <1>2, <2>3, <2>4, <2>5, <2>6, <2>7, <2>8 DEF Rotation, InWrite
<1>. QED  BY <1>3, <1>4, <1>5, <1>6, <1>7

(* The count starts anew on a new day. *)
LEMMA RotateKeeps ==
  ASSUME LogOK, NEW w \in Workers, Rotate(w)
  PROVE  LogOK'
<1>. USE DEF LogOK
<1>1. Same(w, "reopen") /\ pc[w] = "rotate" /\ mtx = NoOne
  BY DEF Rotate, GoesTo, At, Same, LogTypes
<1>2. pc'[w] = "reopen" /\ \A u \in Workers \ {w} : pc'[u] = pc[u]
  BY <1>1, Elsewhere
<1>3. LogTypes'
  BY <1>1 DEF Rotate, LogTypes, Same, LogLabels, queueVars, logHistory
<1>4. LockIsRight'
  BY <1>1, <1>2 DEF Rotate, LockIsRight
<1>5. MainIsLast'
  BY <1>1, <1>2 DEF Rotate, MainIsLast, queueVars
<1>6. Lines'
  <2>1. Pushing' = Pushing
    BY <1>1, <1>2 DEF Pushing, At
  <2>. QED  BY <2>1, LinesStay DEF Rotate, Stored, queueVars, logHistory
<1>7. Rotation'
  <2>1. SUFFICES ASSUME ~overlapped' PROVE Rotation'
    BY DEF Rotation
  <2>2. ~overlapped /\ \A u \in Workers \ {w} : ~InWrite(u)
    BY <1>1, <2>1 DEF Rotate, logHistory, Rotation, InWrite
  <2>3. sinceOpen' = sinceOpen /\ sinceOpen <= MaxLines
    BY <2>2 DEF Rotate, Rotation
  <2>4. lineCount' % MaxLines = 0
    <3>1. CASE toDay # day[w]
      BY <3>1, ModLimit, LogAssumption DEF Rotate
    <3>2. CASE toDay = day[w]
      BY <1>1, <2>2, <3>2 DEF Rotate, Rotation
    <3>. QED  BY <3>1, <3>2
  <2>5. \A u \in Workers \ {w} : ~InWrite(u)'
    BY <1>2, <2>2 DEF InWrite
  <2>. QED  BY <1>1, <1>2, <2>3, <2>4, <2>5 DEF Rotation, InWrite
<1>. QED  BY <1>3, <1>4, <1>5, <1>6, <1>7

(* The lock is taken to change the file. *)
LEMMA CloseFileKeeps ==
  ASSUME LogOK, NEW w \in Workers, CloseFile(w)
  PROVE  LogOK'
<1>. USE DEF LogOK
<1>1. Same(w, "open") /\ pc[w] = "reopen" /\ mtx = NoOne /\ mtx' = w
  BY DEF CloseFile, GoesTo, At, Same, LogTypes
<1>2. pc'[w] = "open" /\ \A u \in Workers \ {w} : pc'[u] = pc[u]
  BY <1>1, Elsewhere
<1>3. LogTypes'
  BY <1>1 DEF CloseFile, LogTypes, Same, LogLabels, logHistory, NotifyConsumer
<1>4. LockIsRight'
  BY <1>1, <1>2, LogAssumption DEF CloseFile, LockIsRight
<1>5. MainIsLast'
  BY <1>1, <1>2 DEF CloseFile, MainIsLast
<1>6. Lines'
  <2>1. Pushing' = Pushing
    BY <1>1, <1>2 DEF Pushing, At
  <2>. QED  BY <2>1, LinesStay DEF CloseFile, Stored, logHistory
<1>7. Rotation'
  <2>1. SUFFICES ASSUME ~overlapped' PROVE Rotation'
    BY DEF Rotation
  <2>2. ~overlapped /\ \A u \in Workers \ {w} : ~InWrite(u)
    BY <1>1, <2>1 DEF CloseFile, logHistory, Rotation, InWrite
  <2>3. sinceOpen' = sinceOpen /\ sinceOpen <= MaxLines /\ lineCount' % MaxLines = 0
    BY <1>1, <2>2 DEF CloseFile, Rotation
  <2>4. \A u \in Workers \ {w} : ~InWrite(u)'
    BY <1>2, <2>2 DEF InWrite
  <2>. QED  BY <1>1, <1>2, <2>3, <2>4 DEF Rotation, InWrite
<1>. QED  BY <1>3, <1>4, <1>5, <1>6, <1>7

(* The new file has no line yet. *)
LEMMA OpenFileKeeps ==
  ASSUME LogOK, NEW w \in Workers, OpenFile(w)
  PROVE  LogOK'
<1>. USE DEF LogOK
<1>1. Same(w, "write") /\ pc[w] = "open" /\ mtx = w /\ mtx' = NoOne
  BY DEF OpenFile, GoesTo, At, Same, LogTypes, LockIsRight
<1>2. pc'[w] = "write" /\ \A u \in Workers \ {w} : pc'[u] = pc[u]
  BY <1>1, Elsewhere
<1>3. LogTypes'
  BY <1>1 DEF OpenFile, LogTypes, Same, LogLabels, queueVars, logHistory
<1>4. LockIsRight'
  <2>1. \A u \in Workers : pc'[u] \notin {"open", "push"}
    BY <1>1, <1>2 DEF LockIsRight
  <2>2. main # "finished"
    BY <1>1 DEF MainIsLast
  <2>. QED  BY <1>1, <2>1, <2>2, LogAssumption DEF OpenFile, LockIsRight
<1>5. MainIsLast'
  BY <1>1, <1>2 DEF OpenFile, MainIsLast, queueVars
<1>6. Lines'
  <2>1. Pushing' = Pushing
    BY <1>1, <1>2 DEF Pushing, At
  <2>. QED  BY <2>1, LinesStay DEF OpenFile, Stored, queueVars, logHistory
<1>7. Rotation'
  <2>1. SUFFICES ASSUME ~overlapped' PROVE Rotation'
    BY DEF Rotation
  <2>2. ~overlapped /\ \A u \in Workers \ {w} : ~InWrite(u)
    BY <1>1, <2>1 DEF OpenFile, logHistory, Rotation, InWrite
  <2>3. lineCount' % MaxLines = 0 /\ lineCount' \in Nat /\ sinceOpen' = 0
    BY <1>1, <2>2 DEF OpenFile, Rotation, LogTypes
  <2>4. InStep' /\ sinceOpen' < MaxLines
    <3>1. 0 % MaxLines = 0 /\ 0 < MaxLines
      BY ModLimit, LogAssumption
    <3>2. PICK c \in Nat : c = lineCount' /\ c % MaxLines = 0
      BY <2>3
    <3>3. 0 <= c
      BY <3>2
    <3>. QED  BY <2>3, <3>1, <3>2, <3>3 DEF InStep
  <2>5. \A u \in Workers \ {w} : ~InWrite(u)'
    BY <1>2, <2>2 DEF InWrite
  <2>6. sinceOpen' <= MaxLines
    BY <2>3, LogAssumption
  <2>. QED  BY <1>1, <1>2, <2>4, <2>5, <2>6 DEF Rotation, InWrite
<1>. QED  BY <1>3, <1>4, <1>5, <1>6, <1>7

(* A line is counted, and queued or put in the file at once. *)
LEMMA WriteLineKeeps ==
  ASSUME LogOK, NEW w \in Workers, WriteLine(w)
  PROVE  LogOK'
<1>. USE DEF LogOK
<1>1. PICK l \in {"push", "flush"} :
        /\ Same(w, l) /\ pc[w] = "write" /\ mtx = NoOne
        /\ \/ l = "push" /\ mtx' = w /\ file' = file
           \/ /\ l = "flush" /\ mtx' = NoOne
              /\ file' = Append(file, [n |-> serial + 1, direct |-> TRUE])
  BY DEF WriteLine, GoesTo, At, Same, LogTypes
<1>2. pc'[w] = l /\ \A u \in Workers \ {w} : pc'[u] = pc[u]
  BY <1>1, Elsewhere
<1>3. PICK x : x = [n |-> serial + 1, direct |-> TRUE]
  OBVIOUS
<1>4. x \in Line /\ x.n = serial + 1 /\ x.direct
  BY <1>3 DEF Line, LogTypes
<1>5. LogTypes'
  <2>1. file' \in Seq(Line)
    <3>1. file \in Seq(Line) /\ Append(file, x) \in Seq(Line)
      BY <1>4 DEF LogTypes
    <3>2. file' = file \/ file' = Append(file, x)
      BY <1>1, <1>3
    <3>. QED  BY <3>1, <3>2
  <2>. QED  BY <1>1, <2>1 DEF WriteLine, LogTypes, Same, LogLabels, queueVars
<1>6. LockIsRight'
  BY <1>1, <1>2, LogAssumption DEF WriteLine, LockIsRight
<1>7. MainIsLast'
  BY <1>1, <1>2 DEF WriteLine, MainIsLast, queueVars
<1>8. Lines'
  <2>1. Pushing = {} /\ Pushing' = IF l = "push" THEN {w} ELSE {}
    BY <1>1, <1>2, OnePusher DEF Pushing, At
  <2>2. serial' = serial + 1 /\ serial \in Nat /\ UNCHANGED <<hand, deq>>
    BY DEF WriteLine, queueVars, LogTypes
  <2>3. CASE l = "push"
    <3>1. Written' = Written /\ Stored' = Stored
      BY <1>1, <2>1, <2>2, <2>3 DEF Written, Stored
    <3>. QED  BY <3>1 DEF Lines
  <2>4. CASE l = "flush"
    <3>1. PICK s, t : s = Stored /\ t = Append(file, x) \o hand \o deq
      OBVIOUS
    <3>2. Stored' = t
      BY <1>1, <1>3, <2>2, <2>4, <3>1 DEF Stored
    <3>3. Written = serial /\ Written' = serial + 1
      BY <2>1, <2>2, <2>4 DEF Written
    <3>4. s \in Seq(Line) /\ Len(s) = serial /\ Numbers(s) = 1 .. serial /\ Ordered(s)
      BY <3>1, <3>3 DEF Lines
    <3>5. PICK k : k = Len(file) + 1
      OBVIOUS
    <3>6. k \in Nat /\ t \in Seq(Line) /\ InsertedAt(s, t, k, x)
      BY <1>4, <3>1, <3>5, Rows, SMTT(20) DEF LogTypes, Stored
    <3>7. \A m \in Numbers(s) : m < x.n
      BY <1>4, <2>2, <3>4
    <3>8. Numbers(t) = Numbers(s) \cup {x.n} /\ Ordered(t)
      BY <1>4, <3>4, <3>6, <3>7, NewLine
    <3>9. Numbers(t) = 1 .. serial + 1
      BY <1>4, <2>2, <3>4, <3>8
    <3>10. Len(t) = serial + 1
      BY <3>4, <3>6 DEF InsertedAt
    <3>. QED  BY <3>2, <3>3, <3>6, <3>8, <3>9, <3>10 DEF Lines
  <2>. QED  BY <2>3, <2>4
<1>9. Rotation'
  <2>1. SUFFICES ASSUME ~overlapped' PROVE Rotation'
    BY DEF Rotation
  <2>2. ~overlapped /\ \A u \in Workers \ {w} : ~InWrite(u)
    BY <1>1, <2>1 DEF WriteLine, Rotation, InWrite
  <2>3. /\ lineCount \in Nat /\ sinceOpen \in Nat /\ MaxLines \in Nat \ {0}
        /\ sinceOpen < MaxLines /\ InStep
        /\ lineCount' = lineCount + 1 /\ sinceOpen' = sinceOpen + 1
    BY <1>1, <2>2, LogAssumption DEF WriteLine, Rotation, LogTypes
  <2>4. sinceOpen' <= MaxLines
    BY <2>3
  <2>5. InStep'
    <3>1. (sinceOpen + 1) % MaxLines = (lineCount + 1) % MaxLines
      <4>1. PICK M \in Nat \ {0}, a \in Int, b \in Int :
              M = MaxLines /\ a = sinceOpen /\ b = lineCount
        BY <2>3
      <4>2. a % M = b % M
        BY <2>3, <4>1 DEF InStep
      <4>3. (a + 1) % M = (b + 1) % M
        BY <4>1, <4>2, ModNext
      <4>. QED  BY <4>1, <4>3
    <3>. QED  BY <2>3, <3>1 DEF InStep
  <2>6. \A u \in Workers \ {w} : ~InWrite(u)'
    BY <1>2, <2>2 DEF InWrite
  <2>. QED  BY <1>1, <1>2, <2>4, <2>5, <2>6 DEF Rotation, InWrite
<1>. QED  BY <1>5, <1>6, <1>7, <1>8, <1>9

(* The line is pushed with the lock still held. *)
LEMMA PushBackKeeps ==
  ASSUME LogOK, NEW w \in Workers, PushBack(w)
  PROVE  LogOK'
<1>. USE DEF LogOK
<1>1. Same(w, "flush") /\ pc[w] = "push" /\ mtx = w /\ mtx' = NoOne
  BY DEF PushBack, GoesTo, At, Same, LogTypes, LockIsRight
<1>2. pc'[w] = "flush" /\ \A u \in Workers \ {w} : pc'[u] = pc[u]
  BY <1>1, Elsewhere
<1>3. PICK x : x = [n |-> serial, direct |-> FALSE]
  OBVIOUS
<1>4. /\ x \in Line /\ x.n = serial
      /\ Len(deq) < Capacity /\ deq' = Append(deq, x) /\ UNCHANGED <<file, hand, serial>>
  BY <1>3 DEF Line, LogTypes, PushBack, Pushed, fileVars, logHistory
<1>5. LogTypes'
  <2>1. deq' \in Seq(Line) /\ Len(deq') <= Capacity
    BY <1>4, LogAssumption DEF LogTypes
  <2>. QED  BY <1>1, <2>1 DEF PushBack, LogTypes, Same, LogLabels, fileVars, logHistory, NotifyConsumer
<1>6. LockIsRight'
  BY <1>1, <1>2, LogAssumption DEF PushBack, LockIsRight, fileVars
<1>7. MainIsLast'
  BY <1>1, <1>2 DEF PushBack, MainIsLast
<1>8. Lines'
  <2>1. Pushing = {w} /\ Pushing' = {}
    <3>1. Pushing = {w}
      BY <1>1, OnePusher
    <3>. QED  BY <1>2, <3>1 DEF Pushing, At
  <2>2. PICK s, t : s = Stored /\ t = file \o hand \o Append(deq, x)
    OBVIOUS
  <2>3. Stored' = t
    BY <1>4, <2>2 DEF Stored
  <2>4. Written = serial - 1 /\ Written' = serial /\ serial \in Nat
    BY <1>4, <2>1 DEF Written, LogTypes
  <2>5. s \in Seq(Line) /\ Len(s) = serial - 1 /\ Numbers(s) = 1 .. serial - 1 /\ Ordered(s)
    BY <2>2, <2>4 DEF Lines
  <2>6. t \in Seq(Line) /\ InsertedAt(s, t, Len(t), x)
    BY <1>4, <2>2, Rows DEF LogTypes, Stored
  <2>7. PICK k \in Nat : k = Len(t)
    BY <2>6
  <2>8. \A m \in Numbers(s) : m < x.n
    BY <1>4, <2>4, <2>5
  <2>9. Numbers(t) = Numbers(s) \cup {x.n} /\ Ordered(t)
    BY <1>4, <2>5, <2>6, <2>7, <2>8, NewLine
  <2>10. Len(t) = serial
    <3>1. PICK m \in Nat : m = Len(s)
      BY <2>5
    <3>2. k = m + 1 /\ m = serial - 1
      BY <2>5, <2>6, <2>7, <3>1 DEF InsertedAt
    <3>. QED  BY <2>4, <2>7, <3>2
  <2>11. Numbers(t) = 1 .. serial
    <3>1. serial >= 1
      <4>1. k \in 1 .. k
        BY <2>6, <2>7 DEF InsertedAt
      <4>. QED  BY <2>7, <2>10, <4>1
    <3>. QED  BY <1>4, <2>4, <2>5, <2>9, <3>1
  <2>. QED  BY <2>3, <2>4, <2>6, <2>9, <2>10, <2>11 DEF Lines
<1>9. Rotation'
  <2>1. SUFFICES ASSUME ~overlapped' PROVE Rotation'
    BY DEF Rotation
  <2>2. ~overlapped /\ \A u \in Workers \ {w} : ~InWrite(u)
    BY <1>1, <2>1 DEF PushBack, logHistory, Rotation, InWrite
  <2>3. sinceOpen <= MaxLines /\ InStep
    BY <1>1, <2>2 DEF Rotation, InWrite
  <2>4. sinceOpen' <= MaxLines /\ InStep'
    BY <2>3 DEF PushBack, fileVars, InStep
  <2>5. \A u \in Workers \ {w} : ~InWrite(u)'
    BY <1>2, <2>2 DEF InWrite
  <2>. QED  BY <1>1, <1>2, <2>4, <2>5 DEF Rotation, InWrite
<1>. QED  BY <1>5, <1>6, <1>7, <1>8, <1>9

(* Who is outside of write(), or stays where he is, does not change when    *)
(* the file is left.                                                        *)
LEMMA RotationStays ==
  ASSUME Rotation, UNCHANGED <<lineCount, toDay, sinceOpen, overlapped>>,
         \A u \in Workers : InWrite(u) => InWrite(u)',
         \A u \in Workers : InWrite(u)' => pc'[u] = pc[u] /\ day'[u] = day[u]
  PROVE  Rotation'
<1>1. InStep => InStep'
  BY DEF InStep
<1>2. SUFFICES ASSUME ~overlapped' PROVE Rotation'
  BY DEF Rotation
<1>3. (\A u \in Workers : pc'[u] \notin {"rotate", "reopen", "open", "write"})
        => (\A u \in Workers : pc[u] \notin {"rotate", "reopen", "open", "write"})
  BY DEF InWrite
<1>. QED  BY <1>1, <1>2, <1>3 DEF Rotation, InWrite

(* A worker that is not between taking the lock and leaving it, outside of  *)
(* write().                                                                 *)
LEMMA OutsideKeeps ==
  ASSUME LogOK, NEW w \in Workers, NEW l \in PoolLabels \cup {"test"},
         Same(w, l), pc[w] \in PoolLabels \cup {"flush"}, main = "running",
         ret' \in [Workers -> {"idle", "get", "guard"}],
         day' \in [Workers -> 1 .. today], \A u \in Workers \ {w} : day'[u] = day[u],
         writer' \in {writer, NotifyConsumer},
         UNCHANGED <<deq, isClose, hand, mtx, fileVars, today, main, logHistory>>
  PROVE  LogOK'
<1>. USE DEF LogOK
<1>1. pc'[w] = l /\ \A u \in Workers \ {w} : pc'[u] = pc[u]
  BY Elsewhere
<1>2. l \in LogLabels \cup PoolLabels
  BY DEF LogLabels
<1>3. LogTypes'
  BY <1>2 DEF LogTypes, Same, fileVars, logHistory, NotifyConsumer
<1>4. LockIsRight'
  BY <1>1 DEF LockIsRight, fileVars, PoolLabels
<1>5. MainIsLast'
  BY DEF MainIsLast
<1>6. Lines'
  <2>1. Pushing' = Pushing
    BY <1>1 DEF Pushing, At, PoolLabels
  <2>. QED  BY <2>1, LinesStay DEF Stored, fileVars, logHistory
<1>7. Rotation'
  <2>1. ~InWrite(w) /\ ~InWrite(w)'
    BY <1>1 DEF InWrite, PoolLabels
  <2>2. /\ \A u \in Workers : InWrite(u) => InWrite(u)'
        /\ \A u \in Workers : InWrite(u)' => pc'[u] = pc[u] /\ day'[u] = day[u]
    BY <1>1, <2>1 DEF InWrite
  <2>. QED  BY <2>2, RotationStays DEF fileVars, logHistory
<1>. QED  BY <1>3, <1>4, <1>5, <1>6, <1>7

(* LOG_BASE ends. *)
LEMMA FlushKeeps ==
  ASSUME LogOK, NEW w \in Workers, Flush(w)
  PROVE  LogOK'
<1>1. /\ Same(w, ret[w]) /\ pc[w] = "flush" /\ ret[w] \in PoolLabels
      /\ day \in [Workers -> 1 .. today] /\ ret \in [Workers -> {"idle", "get", "guard"}]
  BY DEF LogOK, Flush, GoesTo, At, Same, LogTypes, PoolLabels
<1>2. main = "running"
  BY <1>1 DEF LogOK, MainIsLast
<1>3. /\ day' \in [Workers -> 1 .. today] /\ \A u \in Workers \ {w} : day'[u] = day[u]
  <2>1. 1 \in 1 .. today
    BY DEF LogOK, LogTypes
  <2>. QED  BY <1>1, <2>1 DEF Flush
<1>. QED  BY <1>1, <1>2, <1>3, OutsideKeeps DEF Flush, fileVars

(* A step of the writer, of main() or of the clock, which leaves workers    *)
(* and lock where they are.                                                 *)
LEMMA OthersKeep ==
  ASSUME LogOK, UNCHANGED <<pc, ret, day, mtx, lineCount, toDay, sinceOpen, serial, overlapped>>,
         deq' \in Seq(Line), hand' \in Seq(Line), file' \in Seq(Line),
         Len(deq') <= Capacity, Len(hand') = (IF writer' = "put" THEN 1 ELSE 0),
         writer' \in {"pop", "waiting", "woken", "put", "ended"},
         today' \in 1 .. Days, today' >= today, Stored' = Stored,
         main' = "running" => main = "running", MainIsLast',
         isOpen' = (main' # "finished" /\ isOpen), main = "finished" => main' = "finished"
  PROVE  LogOK'
<1>. USE DEF LogOK
<1>1. LogTypes'
  <2>1. today \in Int /\ today' \in Int
    BY LogAssumption DEF LogTypes
  <2>2. 1 .. today \subseteq 1 .. today'
    BY <2>1
  <2>. QED  BY <2>2 DEF LogTypes
<1>2. LockIsRight'
  BY DEF LockIsRight
<1>3. Lines'
  <2>1. Pushing' = Pushing
    BY DEF Pushing, At
  <2>. QED  BY <2>1, LinesStay
<1>4. Rotation'
  BY RotationStays DEF InWrite
<1>. QED  BY <1>1, <1>2, <1>3, <1>4

(* The writer moves the first line on, from the deque into the file. *)
LEMMA WriterKeeps ==
  ASSUME LogOK, WriterStep
  PROVE  LogOK' /\ UNCHANGED <<pc, ret, day, main>>
<1>. USE DEF LogOK, fileVars, threads, logHistory, queueVars
<1>1. UNCHANGED <<pc, ret, day, main, mtx, isOpen, today, lineCount, toDay, sinceOpen, serial, overlapped>>
  BY DEF WriterStep, Pop, PopRefused, Put
<1>2. /\ deq \in Seq(Line) /\ hand \in Seq(Line) /\ file \in Seq(Line) /\ Len(deq) <= Capacity
      /\ Len(hand) = (IF writer = "put" THEN 1 ELSE 0)
      /\ today \in 1 .. Days /\ today >= today
  BY LogAssumption DEF LogTypes
<1>3. isOpen' = (main' # "finished" /\ isOpen)
  BY <1>1 DEF LockIsRight
<1>4. CASE UNCHANGED <<deq, hand, file>> /\ writer \in {"pop", "woken"} /\ writer' \in {"waiting", "ended"}
  <2>1. MainIsLast' /\ Stored' = Stored
    BY <1>1, <1>4 DEF MainIsLast, Stored
  <2>. QED  BY <1>1, <1>2, <1>3, <1>4, <2>1, OthersKeep
<1>5. CASE /\ deq # <<>> /\ writer \in {"pop", "woken"} /\ writer' = "put" /\ file' = file
           /\ hand' = <<Head(deq)>> /\ deq' = Tail(deq)
  <2>1. hand = <<>>
    BY <1>2, <1>5
  <2>2. Stored' = Stored
    BY <1>2, <1>5, <2>1, RowStays DEF Stored
  <2>3. hand' \in Seq(Line) /\ Len(hand') = 1
    <3>1. Head(deq) \in Line
      BY <1>2, <1>5
    <3>. QED  BY <1>5, <3>1
  <2>4. deq' \in Seq(Line) /\ Len(deq') <= Capacity
    BY <1>2, <1>5, LogAssumption
  <2>5. MainIsLast'
    BY <1>1, <1>5 DEF MainIsLast
  <2>. QED  BY <1>1, <1>2, <1>3, <1>5, <2>2, <2>3, <2>4, <2>5, OthersKeep
<1>6. CASE Put
  <2>1. writer = "put" /\ writer' = "pop" /\ file' = file \o hand /\ hand' = <<>> /\ deq' = deq
    BY <1>6 DEF Put
  <2>2. Stored' = Stored
    BY <1>2, <2>1, RowStays DEF Stored
  <2>3. file' \in Seq(Line) /\ hand' \in Seq(Line) /\ Len(hand') = 0
    BY <1>2, <2>1
  <2>4. MainIsLast'
    BY <1>1, <2>1 DEF MainIsLast
  <2>. QED  BY <1>1, <1>2, <1>3, <2>1, <2>2, <2>3, <2>4, OthersKeep
<1>7. \/ UNCHANGED <<deq, hand, file>> /\ writer \in {"pop", "woken"} /\ writer' \in {"waiting", "ended"}
      \/ /\ deq # <<>> /\ writer \in {"pop", "woken"} /\ writer' = "put" /\ file' = file
         /\ hand' = <<Head(deq)>> /\ deq' = Tail(deq)
      \/ Put
  BY DEF WriterStep, Pop, PopRefused, SeenEmpty
<1>. QED  BY <1>1, <1>4, <1>5, <1>6, <1>7

(* ~Log, and the clock. *)
LEMMA MainKeeps ==
  ASSUME LogOK, MainStep \/ Midnight
  PROVE  /\ LogOK' /\ UNCHANGED <<pc, ret, day>>
         /\ main' = "running" => main = "running"
<1>. USE DEF LogOK, fileVars, threads, logHistory, queueVars
<1>1. /\ UNCHANGED <<pc, ret, day, mtx, file, hand, lineCount, toDay, sinceOpen, serial, overlapped>>
      /\ deq' = deq \/ (deq' = <<>> /\ main = "close")
      /\ isOpen' = (main' # "finished" /\ isOpen)
      /\ writer' \in {writer, NotifyConsumer}
      /\ today' = today \/ (today' = today + 1 /\ today < Days)
      /\ main = "finished" => main' = "finished"
      /\ main' = "running" => main = "running"
  BY DEF MainStep, Drain, Close, Join, Midnight, LockIsRight
<1>2. /\ deq \in Seq(Line) /\ hand \in Seq(Line) /\ file \in Seq(Line) /\ Len(deq) <= Capacity
      /\ Len(hand) = (IF writer = "put" THEN 1 ELSE 0)
      /\ today \in 1 .. Days /\ Days \in Nat /\ Capacity \in Nat
      /\ writer \in {"pop", "waiting", "woken", "put", "ended"}
  BY LogAssumption DEF LogTypes
<1>3. deq' = deq
  BY <1>1 DEF MainIsLast
<1>4. MainIsLast'
  <2>1. main' # "running" => main # "running"
    BY DEF MainStep, Drain, Close, Join, Midnight
  <2>2. main' \in {"close", "join", "finished"} => deq = <<>>
    BY DEF MainIsLast, MainStep, Drain, Close, Join, Midnight, SeenEmpty
  <2>. QED  BY <1>1, <1>3, <2>1, <2>2 DEF MainIsLast
<1>5. today' \in 1 .. Days /\ today' >= today
  BY <1>1, <1>2
<1>6. /\ writer' \in {"pop", "waiting", "woken", "put", "ended"}
      /\ Len(hand') = (IF writer' = "put" THEN 1 ELSE 0)
  BY <1>1, <1>2 DEF NotifyConsumer
<1>7. Stored' = Stored
  BY <1>1, <1>3 DEF Stored
<1>8. LogOK'
  BY <1>1, <1>2, <1>3, <1>4, <1>5, <1>6, <1>7, OthersKeep
<1>. QED  BY <1>1, <1>8

(* The log at the steps of Log::write. *)
LEMMA LogStepKeeps ==
  ASSUME LogOK, NEW w \in Workers, LogStep(w)
  PROVE  LogOK'
BY WriteTestKeeps, RotateKeeps, CloseFileKeeps, OpenFileKeeps, WriteLineKeeps, PushBackKeeps,
   FlushKeeps DEF LogStep

-----------------------------------------------------------------------------
(* The open file *)

(* A file that is opened gets what is queued at that moment.                *)
LEMMA OpenFileCarries ==
  ASSUME LogOK, FileIsRight, NEW w \in Workers, OpenFile(w)
  PROVE  FileIsRight'
<1>1. /\ pc[w] = "open" /\ began' = Len(file) /\ sinceOpen' = 0
      /\ UNCHANGED <<serial, main, writer>>
  BY DEF OpenFile, At, queueVars, logHistory
<1>2. PICK a, b, c \in Nat : a = Len(file) /\ b = Len(hand) /\ c = Len(deq)
  <2>1. file \in Seq(Line) /\ hand \in Seq(Line) /\ deq \in Seq(Line)
    BY DEF LogOK, LogTypes
  <2>2. Len(file) \in Nat /\ Len(hand) \in Nat /\ Len(deq) \in Nat
    BY <2>1
  <2>. QED  BY <2>2
<1>3. b <= 1 /\ c <= Capacity
  BY <1>2 DEF LogOK, LogTypes
<1>4. serial = a + b + c
  <2>1. Len(Stored) = serial
    BY <1>1, OnePusher DEF LogOK, Lines, Written
  <2>2. PICK x \in Line : x = [n |-> 0, direct |-> TRUE]
    BY DEF Line
  <2>3. Len(Stored) = Len(file) + Len(hand) + Len(deq)
    BY <2>2, Rows DEF LogOK, LogTypes, Stored
  <2>. QED  BY <1>2, <2>1, <2>3
<1>5. Carried' = b + c
  BY <1>1, <1>2, <1>4 DEF Carried
<1>6. Carried' <= Capacity + 1
  BY <1>2, <1>3, <1>5, LogAssumption
<1>. QED  BY <1>1, <1>2, <1>6 DEF FileIsRight

(* Nothing else changes what was carried over, and the writer does not come *)
(* back.                                                                    *)
LEMMA FileKept ==
  ASSUME LogOK, FileIsRight, UNCHANGED <<serial, sinceOpen, began>>,
         main' = "finished" => main = "finished" \/ writer' = "ended",
         main = "finished" => writer' \in {writer, NotifyConsumer}
  PROVE  FileIsRight'
BY DEF FileIsRight, Carried, NotifyConsumer

(* The file, whoever takes the step.                                        *)
LEMMA FileStep ==
  ASSUME LogOK, FileIsRight, [Next]_vars
  PROVE  FileIsRight'
<1>. USE DEF queueVars, fileVars, threads, logHistory
<1>1. ASSUME NEW w \in Workers, LogStep(w) PROVE FileIsRight'
  <2>1. CASE OpenFile(w)
    BY <2>1, OpenFileCarries
  <2>2. CASE WriteLine(w)
    <3>1. /\ serial' = serial + 1 /\ sinceOpen' = sinceOpen + 1
          /\ UNCHANGED <<began, main, writer>>
      BY <2>2 DEF WriteLine
    <3>2. serial \in Nat /\ sinceOpen \in Nat /\ began \in Nat
      BY DEF LogOK, LogTypes, FileIsRight
    <3>3. Carried' = Carried
      BY <3>1, <3>2 DEF Carried
    <3>. QED  BY <3>1, <3>3 DEF FileIsRight
  <2>3. CASE WriteTest(w) \/ Rotate(w) \/ CloseFile(w) \/ PushBack(w) \/ Flush(w)
    <3>1. UNCHANGED <<serial, sinceOpen, began, main>> /\ writer' \in {writer, NotifyConsumer}
      BY <2>3 DEF WriteTest, Rotate, CloseFile, PushBack, Flush
    <3>. QED  BY <3>1, FileKept
  <2>. QED  BY <1>1, <2>1, <2>2, <2>3 DEF LogStep
<1>2. ASSUME NEW w \in Workers,
             \/ UserVerify(w) \/ GetConn(w) \/ SemWait(w) \/ PopConn(w) \/ FlushClosed(w)
             \/ DropGuard(w) \/ Query(w) \/ FreeAtEnd(w)
      PROVE  FileIsRight'
  <2>1. UNCHANGED <<serial, sinceOpen, began, main, writer>>
    BY <1>2 DEF UserVerify, GetConn, SemWait, PopConn, FlushClosed, DropGuard, Query, FreeAtEnd,
       logState, logVars
  <2>. QED  BY <2>1, FileKept
<1>3. CASE WriterStep
  <2>1. UNCHANGED <<serial, sinceOpen, began, main>> /\ writer # "ended"
    BY <1>3 DEF WriterStep, Pop, PopRefused, Put
  <2>2. main # "finished"
    BY <2>1 DEF FileIsRight
  <2>. QED  BY <2>1, <2>2, FileKept
<1>4. CASE MainStep \/ Midnight \/ ClosePool \/ UNCHANGED vars
  <2>1. /\ UNCHANGED <<serial, sinceOpen, began>> /\ writer' \in {writer, NotifyConsumer}
        /\ main' = "finished" => main = "finished" \/ writer' = "ended"
    BY <1>4 DEF MainStep, Drain, Close, Join, Joined, Midnight, ClosePool, vars, logVars
  <2>. QED  BY <2>1, FileKept
<1>. QED  BY <1>1, <1>2, <1>3, <1>4 DEF Next, WorkerStep

(* Lines are put in the file under the lock, by a worker inside write() or  *)
(* by the writer, who has not ended.                                        *)
LEMMA PutIsOpen ==
  ASSUME LogOK, FileIsRight, [Next]_vars, file' # file
  PROVE  isOpen
<1>. USE DEF fileVars
<1>1. CASE \E w \in Workers : WriteLine(w)
  <2>1. PICK w \in Workers : pc[w] = "write" /\ mtx = NoOne
    BY <1>1 DEF WriteLine, At
  <2>2. main = "running"
    BY <2>1 DEF LogOK, MainIsLast
  <2>. QED  BY <2>1, <2>2, LogAssumption DEF LogOK, LockIsRight
<1>2. CASE Put
  <2>1. mtx = NoOne /\ main # "finished"
    BY <1>2 DEF Put, FileIsRight
  <2>. QED  BY <2>1, LogAssumption DEF LogOK, LockIsRight
<1>3. (\E w \in Workers : WriteLine(w)) \/ Put
  <2>1. ASSUME NEW w \in Workers, LogStep(w) PROVE WriteLine(w)
    BY <2>1 DEF LogStep, WriteTest, Rotate, CloseFile, OpenFile, PushBack, Flush
  <2>2. ASSUME NEW w \in Workers,
               \/ UserVerify(w) \/ GetConn(w) \/ SemWait(w) \/ PopConn(w) \/ FlushClosed(w)
               \/ DropGuard(w) \/ Query(w) \/ FreeAtEnd(w)
        PROVE  FALSE
    BY <2>2 DEF UserVerify, GetConn, SemWait, PopConn, FlushClosed, DropGuard, Query, FreeAtEnd,
       logState, logVars
  <2>3. CASE WriterStep
    BY <2>3 DEF WriterStep, Pop, PopRefused
  <2>4. CASE MainStep \/ Midnight \/ ClosePool \/ UNCHANGED vars
    BY <2>4 DEF MainStep, Drain, Close, Join, Midnight, ClosePool, vars, logVars
  <2>. QED  BY <2>1, <2>2, <2>3, <2>4 DEF Next, WorkerStep
<1>. QED  BY <1>1, <1>2, <1>3

-----------------------------------------------------------------------------
(* The pool *)

(* Workers are finitely many, so those at a label are. *)
LEMMA WorkersCount ==
  ASSUME NEW S \in SUBSET Workers
  PROVE  IsFiniteSet(S) /\ Cardinality(S) \in Nat
BY LogAssumption, FS_Subset, FS_CardinalityType

Popping == {w \in Workers : At(w, "pop")}
Guards(c) == {w \in Workers : At(w, "guard") /\ sql[w] = c}

(* Nobody comes or goes. *)
LEMMA CountsStay ==
  ASSUME PoolOK, UNCHANGED <<connQue, sem, alive, again>>,
         main' = "running" => main = "running",
         \A u \in Workers : pc'[u] = "pop" <=> pc[u] = "pop",
         \A u \in Workers, c \in alive :
            (pc'[u] = "guard" /\ sql'[u] = c) <=> (pc[u] = "guard" /\ sql[u] = c)
  PROVE  PermitsMatchQueue' /\ ConnectionsAreAccounted'
<1>1. {u \in Workers : At(u, "pop")}' = {u \in Workers : At(u, "pop")}
  BY DEF At
<1>2. PermitsMatchQueue'
  BY <1>1 DEF PoolOK, PermitsMatchQueue
<1>3. \A c \in alive : Guarded(c)' = Guarded(c) /\ Copies(c)' = Copies(c)
  <2>1. SUFFICES ASSUME NEW c \in alive PROVE Guarded(c)' = Guarded(c) /\ Copies(c)' = Copies(c)
    OBVIOUS
  <2>2. {u \in Workers : At(u, "guard") /\ sql[u] = c}' = {u \in Workers : At(u, "guard") /\ sql[u] = c}
    BY DEF At
  <2>. QED  BY <2>2 DEF Guarded, Copies
<1>4. ConnectionsAreAccounted'
  BY <1>3 DEF PoolOK, ConnectionsAreAccounted
<1>. QED  BY <1>2, <1>4

(* A null pointer is no connection. *)
LEMMA AliveIsNotNull ==
  ASSUME PoolTypes PROVE 0 \notin alive
BY PoolAssumption DEF PoolTypes, Conns

(* A worker in a verification: the process has not begun to end. *)
LEMMA BusyMeansRunning ==
  ASSUME LogOK, NEW w \in Workers, pc[w] # "idle" PROVE main = "running"
BY DEF LogOK, MainIsLast

(* A step inside of Log::write. *)
LEMMA LogStepKeepsPool ==
  ASSUME LogOK, PoolOK, ~aborted, NEW w \in Workers, LogStep(w), UNCHANGED poolVars
  PROVE  PoolOK'
<1>1. /\ UNCHANGED <<connQue, sem, sql, served, aborted, alive, again>>
  BY DEF poolVars
<1>2. PICK l : /\ pc' = [pc EXCEPT ![w] = l] /\ ret' = ret /\ pc[w] \in LogLabels /\ main' = main
               /\ l \in LogLabels \/ l = ret[w]
  BY DEF LogStep, WriteTest, Rotate, CloseFile, OpenFile, WriteLine, PushBack, Flush, GoesTo, At, LogLabels
<1>3. /\ Same(w, l) /\ ret[w] \in {"idle", "get", "guard"}
  BY <1>2 DEF LogOK, LogTypes, Same
<1>4. pc'[w] = l /\ \A u \in Workers \ {w} : pc'[u] = pc[u]
  BY <1>3, Elsewhere
<1>5. PoolTypes'
  BY <1>1 DEF PoolOK, PoolTypes
<1>6. l = "guard" => sql[w] = 0
  BY <1>2, <1>3 DEF PoolOK, SqlIsRight, LogLabels
<1>7. l \notin {"pop", "query", "free"}
  BY <1>2, <1>3 DEF LogLabels
<1>8. SqlIsRight'
  BY <1>1, <1>2, <1>4, <1>7 DEF PoolOK, SqlIsRight
<1>9. /\ \A u \in Workers : pc'[u] = "pop" <=> pc[u] = "pop"
      /\ \A u \in Workers, c \in alive :
            (pc'[u] = "guard" /\ sql'[u] = c) <=> (pc[u] = "guard" /\ sql[u] = c)
  BY <1>1, <1>2, <1>4, <1>6, <1>7, AliveIsNotNull DEF LogLabels, PoolOK
<1>10. PermitsMatchQueue' /\ ConnectionsAreAccounted'
  BY <1>1, <1>2, <1>9, CountsStay
<1>. QED  BY <1>5, <1>8, <1>10 DEF PoolOK

(* A step of another thread. *)
LEMMA OthersKeepPool ==
  ASSUME PoolOK, UNCHANGED <<poolVars, pc, ret>>, main' = "running" => main = "running"
  PROVE  PoolOK'
<1>1. PoolTypes' /\ SqlIsRight'
  BY DEF PoolOK, PoolTypes, SqlIsRight, poolVars
<1>2. PermitsMatchQueue' /\ ConnectionsAreAccounted'
  BY CountsStay DEF poolVars
<1>. QED  BY <1>1, <1>2 DEF PoolOK

(* The steps of a verification and the log. *)
LEMMA VerificationKeepsLog ==
  ASSUME LogOK, NEW w \in Workers,
         \/ UserVerify(w) \/ GetConn(w) \/ SemWait(w) \/ PopConn(w)
         \/ DropGuard(w) \/ Query(w) \/ FreeAtEnd(w)
  PROVE  LogOK'
<1>1. PICK l \in PoolLabels \cup {"test"} :
        /\ pc' = [pc EXCEPT ![w] = l] /\ pc[w] \in PoolLabels
        /\ pc[w] # "idle" \/ main = "running"
        /\ \/ UNCHANGED <<ret, day>>
           \/ \E r \in {"get", "guard"} :
                ret' = [ret EXCEPT ![w] = r] /\ day' = [day EXCEPT ![w] = today]
  BY DEF UserVerify, GetConn, SemWait, PopConn, DropGuard, Query, FreeAtEnd, CallsLog, GoesTo, At, PoolLabels
<1>2. /\ Same(w, l) /\ today \in 1 .. Days /\ main = "running"
      /\ ret \in [Workers -> {"idle", "get", "guard"}] /\ day \in [Workers -> 1 .. today]
  BY <1>1, BusyMeansRunning DEF LogOK, LogTypes, Same
<1>3. today \in 1 .. today
  BY <1>2, LogAssumption
<1>4. /\ ret' \in [Workers -> {"idle", "get", "guard"}]
      /\ day' \in [Workers -> 1 .. today] /\ \A u \in Workers \ {w} : day'[u] = day[u]
  BY <1>1, <1>2, <1>3
<1>5. UNCHANGED <<queueVars, mtx, fileVars, today, main, logHistory>>
  BY DEF UserVerify, GetConn, SemWait, PopConn, DropGuard, Query, FreeAtEnd, logState
<1>. QED  BY <1>1, <1>2, <1>4, <1>5, OutsideKeeps DEF queueVars

(* A verification begins, looks at the queue or ends without a connection   *)
(* to free.                                                                 *)
LEMMA CallerKeepsPool ==
  ASSUME LogOK, PoolOK, ~aborted, NEW w \in Workers, UserVerify(w) \/ GetConn(w) \/ Query(w)
  PROVE  PoolOK'
<1>1. PICK l : /\ pc' = [pc EXCEPT ![w] = l]
               /\ \/ /\ pc[w] \in {"idle", "get"} /\ l \in {"test", "semwait"}
                     /\ l = "test" => ret' = [ret EXCEPT ![w] = "get"]
                                      \/ (ret' = [ret EXCEPT ![w] = "guard"] /\ sql'[w] = 0)
                     /\ l # "test" => ret' = ret
                  \/ /\ pc[w] = "query" /\ ret' = ret
                     /\ (l = "free" /\ sql' = sql) \/ l = "idle"
  BY DEF UserVerify, GetConn, Query, CallsLog, GoesTo, At, PoolOK, PoolTypes
<1>2. pc'[w] = l /\ \A u \in Workers \ {w} : pc'[u] = pc[u]
  BY <1>1, Elsewhere DEF LogOK, LogTypes, Same
<1>3. /\ UNCHANGED <<connQue, sem, aborted, alive, again, main>>
      /\ sql' = sql \/ sql' = [sql EXCEPT ![w] = 0]
  BY DEF UserVerify, GetConn, Query, logState
<1>4. PoolTypes'
  <2>1. served' = served \/ (served' = [served EXCEPT ![w] = @ + 1] /\ served[w] < MaxRequests[w])
    BY DEF UserVerify, GetConn, Query
  <2>2. \A u \in Workers : MaxRequests[u] \in Nat
    BY PoolAssumption
  <2>3. served' \in [Workers -> Nat] /\ \A u \in Workers : served'[u] <= MaxRequests[u]
    <3>1. served \in [Workers -> Nat] /\ \A u \in Workers : served[u] <= MaxRequests[u]
      BY DEF PoolOK, PoolTypes
    <3>2. CASE served' = served
      BY <3>1, <3>2
    <3>3. CASE served' = [served EXCEPT ![w] = @ + 1] /\ served[w] < MaxRequests[w]
      <4>1. served' \in [Workers -> Nat]
        BY <3>1, <3>3
      <4>2. served'[w] = served[w] + 1 /\ \A u \in Workers \ {w} : served'[u] = served[u]
        BY <3>1, <3>3
      <4>3. served'[w] <= MaxRequests[w]
        <5>1. PICK a, b \in Nat : a = served[w] /\ b = MaxRequests[w]
          BY <2>2, <3>1
        <5>. QED  BY <3>3, <4>2, <5>1
      <4>. QED  BY <3>1, <4>1, <4>2, <4>3
    <3>. QED  BY <2>1, <3>2, <3>3
  <2>4. sql' \in [Workers -> 0 .. PoolSize]
    <3>1. 0 \in 0 .. PoolSize /\ sql \in [Workers -> 0 .. PoolSize]
      BY PoolAssumption DEF PoolOK, PoolTypes
    <3>. QED  BY <1>3, <3>1
  <2>. QED  BY <1>3, <2>3, <2>4 DEF PoolOK, PoolTypes
<1>5. SqlIsRight'
  <2>1. SUFFICES ASSUME NEW u \in Workers
                 PROVE  /\ pc'[u] \in {"query", "free"} /\ ~aborted' => sql'[u] # 0
                        /\ pc'[u] \in LogLabels /\ ret'[u] = "guard" => sql'[u] = 0
    BY DEF SqlIsRight
  <2>2. CASE u = w
    BY <1>1, <1>2, <1>3, <2>2 DEF PoolOK, SqlIsRight, LogLabels, LogOK, LogTypes
  <2>3. CASE u # w
    BY <1>1, <1>2, <1>3, <2>3 DEF PoolOK, PoolTypes, SqlIsRight, LogOK, LogTypes
  <2>. QED  BY <2>2, <2>3
<1>6. /\ \A u \in Workers : pc'[u] = "pop" <=> pc[u] = "pop"
      /\ \A u \in Workers, c \in alive :
            (pc'[u] = "guard" /\ sql'[u] = c) <=> (pc[u] = "guard" /\ sql[u] = c)
  BY <1>1, <1>2, <1>3 DEF PoolOK, PoolTypes
<1>7. PermitsMatchQueue' /\ ConnectionsAreAccounted'
  BY <1>3, <1>6, CountsStay
<1>. QED  BY <1>4, <1>5, <1>7 DEF PoolOK

(* A permit is taken. *)
LEMMA SemWaitKeepsPool ==
  ASSUME LogOK, PoolOK, NEW w \in Workers, SemWait(w)
  PROVE  PoolOK'
<1>1. /\ Same(w, "pop") /\ pc[w] = "semwait" /\ sem > 0 /\ sem' = sem - 1
      /\ UNCHANGED <<ret, main, connQue, sql, served, aborted, alive, again>>
  BY DEF SemWait, GoesTo, At, Same, LogOK, LogTypes, logState
<1>2. pc'[w] = "pop" /\ \A u \in Workers \ {w} : pc'[u] = pc[u]
  BY <1>1, Elsewhere
<1>3. PoolTypes'
  BY <1>1 DEF PoolOK, PoolTypes
<1>4. SqlIsRight'
  BY <1>1, <1>2 DEF PoolOK, SqlIsRight, LogLabels
<1>5. PermitsMatchQueue'
  <2>1. Popping' = Popping \cup {w} /\ w \notin Popping
    BY <1>1, <1>2 DEF Popping, At
  <2>2. PICK a, b \in Nat : a = Cardinality(Popping) /\ b = sem
    BY WorkersCount DEF Popping, PoolOK, PoolTypes
  <2>3. Cardinality(Popping') = a + 1
    BY <2>1, <2>2, WorkersCount, FS_AddElement DEF Popping
  <2>4. main = "running"
    BY <1>1, BusyMeansRunning
  <2>5. b + a = Len(connQue)
    BY <2>2, <2>4 DEF PoolOK, PermitsMatchQueue, Popping
  <2>6. sem' + Cardinality(Popping') = Len(connQue)
    BY <1>1, <2>2, <2>3, <2>5
  <2>. QED  BY <1>1, <2>6 DEF PermitsMatchQueue, Popping
<1>6. ConnectionsAreAccounted'
  <2>1. \A c \in alive : Guarded(c)' = Guarded(c) /\ Copies(c)' = Copies(c)
    <3>1. SUFFICES ASSUME NEW c \in alive PROVE Guarded(c)' = Guarded(c) /\ Copies(c)' = Copies(c)
      OBVIOUS
    <3>2. Guards(c)' = Guards(c)
      BY <1>1, <1>2 DEF Guards, At
    <3>. QED  BY <1>1, <3>2 DEF Guarded, Guards, Copies
  <2>. QED  BY <1>1, <2>1 DEF PoolOK, ConnectionsAreAccounted
<1>. QED  BY <1>3, <1>4, <1>5, <1>6 DEF PoolOK

(* The pop finds the queue with an element, since permits are counted.      *)
LEMMA PopConnKeepsPool ==
  ASSUME LogOK, PoolOK, NEW w \in Workers, PopConn(w)
  PROVE  PoolOK'
<1>1. /\ Same(w, "guard") /\ pc[w] = "pop"
      /\ sql' = [sql EXCEPT ![w] = Head(connQue)] /\ connQue' = Tail(connQue)
      /\ UNCHANGED <<ret, main, sem, served, aborted, alive, again>>
  BY DEF PopConn, GoesTo, At, Same, LogOK, LogTypes, logState
<1>2. pc'[w] = "guard" /\ \A u \in Workers \ {w} : pc'[u] = pc[u]
  BY <1>1, Elsewhere
<1>3. main = "running"
  BY <1>1, BusyMeansRunning
<1>4. PICK a, b, n \in Nat : a = Cardinality(Popping) /\ b = sem /\ n = Len(connQue)
  <2>1. Cardinality(Popping) \in Nat
    BY WorkersCount DEF Popping
  <2>2. sem \in Nat /\ Len(connQue) \in Nat
    BY DEF PoolOK, PoolTypes
  <2>. QED  BY <2>1, <2>2
<1>5. b + a = n
  BY <1>3, <1>4 DEF PoolOK, PermitsMatchQueue, Popping
<1>6. /\ w \in Popping /\ Popping' = Popping \ {w}
  BY <1>1, <1>2 DEF Popping, At
<1>7. Cardinality(Popping') = a - 1 /\ Cardinality(Popping') \in Nat
  <2>1. Popping \in SUBSET Workers /\ Popping' \in SUBSET Workers
    BY <1>6 DEF Popping
  <2>. QED  BY <1>4, <1>6, <2>1, WorkersCount, FS_RemoveElement
<1>8. connQue # <<>> /\ connQue \in Seq(0 .. PoolSize) /\ n >= 1
  <2>1. n >= 1
    BY <1>4, <1>5, <1>7
  <2>. QED  BY <1>4, <2>1 DEF PoolOK, PoolTypes
<1>9. /\ Head(connQue) \in 0 .. PoolSize /\ Tail(connQue) \in Seq(0 .. PoolSize)
      /\ Len(Tail(connQue)) = n - 1
  <2>1. connQue # <<>> /\ connQue \in Seq(0 .. PoolSize)
    BY <1>8
  <2>2. Head(connQue) \in 0 .. PoolSize /\ Tail(connQue) \in Seq(0 .. PoolSize)
    <3>1. PICK S : S = 0 .. PoolSize
      OBVIOUS
    <3>2. connQue # <<>> /\ connQue \in Seq(S)
      BY <2>1, <3>1
    <3>3. Head(connQue) \in S /\ Tail(connQue) \in Seq(S)
      BY <3>2
    <3>. QED  BY <3>1, <3>3
  <2>3. Len(Tail(connQue)) = Len(connQue) - 1
    BY <2>1
  <2>. QED  BY <1>4, <2>2, <2>3
<1>10. PoolTypes'
  BY <1>1, <1>9 DEF PoolOK, PoolTypes
<1>11. SqlIsRight'
  <2>1. SUFFICES ASSUME NEW u \in Workers
                 PROVE  /\ pc'[u] \in {"query", "free"} /\ ~aborted' => sql'[u] # 0
                        /\ pc'[u] \in LogLabels /\ ret'[u] = "guard" => sql'[u] = 0
    BY DEF SqlIsRight
  <2>2. u # w => sql'[u] = sql[u] /\ pc'[u] = pc[u]
    BY <1>1, <1>2 DEF PoolOK, PoolTypes
  <2>. QED  BY <1>1, <1>2, <2>2 DEF PoolOK, SqlIsRight, LogLabels
<1>12. PermitsMatchQueue'
  <2>1. sem' + Cardinality(Popping') = Len(connQue')
    <3>1. sem' = b /\ Len(connQue') = n - 1
      BY <1>1, <1>4, <1>9
    <3>2. b + (a - 1) = n - 1
      BY <1>4, <1>5
    <3>. QED  BY <1>7, <3>1, <3>2
  <2>. QED  BY <2>1 DEF PermitsMatchQueue, Popping
<1>13. ASSUME NEW c \in alive PROVE Copies(c)' + Guarded(c)' = 1 + again[c]
  <2>1. PICK x, y \in Nat : x = Cardinality(Occ(connQue, c)) /\ y = Cardinality(Guards(c))
    BY <1>8, OccFinite, WorkersCount DEF Guards
  <2>2. x + y = 1 + again[c]
    BY <1>3, <2>1 DEF PoolOK, ConnectionsAreAccounted, Copies, Guarded, Occ, Guards
  <2>3. Copies(c)' = Cardinality(Occ(Tail(connQue), c)) /\ Guarded(c)' = Cardinality(Guards(c)')
    BY <1>1 DEF Copies, Occ, Guarded, Guards
  <2>4. sql'[w] = Head(connQue) /\ \A u \in Workers \ {w} : sql'[u] = sql[u]
    BY <1>1 DEF PoolOK, PoolTypes
  <2>5. CASE Head(connQue) = c
    <3>1. Cardinality(Occ(Tail(connQue), c)) = x - 1
      BY <1>8, <2>1, <2>5, OccTail
    <3>2. Guards(c)' = Guards(c) \cup {w} /\ w \notin Guards(c)
      BY <1>1, <1>2, <2>4, <2>5 DEF Guards, At
    <3>3. Cardinality(Guards(c)') = y + 1
      BY <2>1, <3>2, WorkersCount, FS_AddElement DEF Guards
    <3>. QED  BY <2>1, <2>2, <2>3, <3>1, <3>3
  <2>6. CASE Head(connQue) # c
    <3>1. Cardinality(Occ(Tail(connQue), c)) = x
      BY <1>8, <2>1, <2>6, OccTail
    <3>2. Guards(c)' = Guards(c)
      BY <1>1, <1>2, <2>4, <2>6 DEF Guards, At
    <3>. QED  BY <2>1, <2>2, <2>3, <3>1, <3>2
  <2>. QED  BY <2>5, <2>6
<1>14. ConnectionsAreAccounted'
  BY <1>1, <1>13 DEF ConnectionsAreAccounted
<1>. QED  BY <1>10, <1>11, <1>12, <1>14 DEF PoolOK

(* A connection goes back with its permit. *)
LEMMA FreedDoes ==
  ASSUME PoolTypes, NEW c \in 1 .. PoolSize, Freed(c)
  PROVE  /\ connQue' \in Seq(0 .. PoolSize) /\ Len(connQue') = Len(connQue) + 1
         /\ sem' \in Nat /\ sem' = sem + 1
         /\ Cardinality(Occ(connQue', c)) = Cardinality(Occ(connQue, c)) + 1
         /\ \A d : d # c => Cardinality(Occ(connQue', d)) = Cardinality(Occ(connQue, d))
<1>1. PICK S : S = 0 .. PoolSize
  OBVIOUS
<1>2. connQue \in Seq(S) /\ c \in S /\ connQue' = Append(connQue, c) /\ sem' = sem + 1 /\ sem \in Nat
  BY <1>1, PoolAssumption DEF PoolTypes, Freed
<1>3. connQue' \in Seq(S) /\ Len(connQue') = Len(connQue) + 1
  BY <1>2
<1>4. /\ Cardinality(Occ(connQue', c)) = Cardinality(Occ(connQue, c)) + 1
      /\ \A d : d # c => Cardinality(Occ(connQue', d)) = Cardinality(Occ(connQue, d))
  BY <1>2, OccAppend
<1>. QED  BY <1>1, <1>2, <1>3, <1>4

(* The permits after a push and a post, when nobody comes to the pop or     *)
(* leaves it.                                                               *)
LEMMA PermitsFreed ==
  ASSUME PoolOK, main = "running", NEW c \in 1 .. PoolSize, Freed(c),
         \A u \in Workers : pc'[u] = "pop" <=> pc[u] = "pop"
  PROVE  PermitsMatchQueue'
<1>1. Popping' = Popping
  BY DEF Popping, At
<1>2. PICK a, b, n \in Nat : a = Cardinality(Popping) /\ b = sem /\ n = Len(connQue)
  <2>1. Cardinality(Popping) \in Nat
    BY WorkersCount DEF Popping
  <2>2. sem \in Nat /\ Len(connQue) \in Nat
    BY DEF PoolOK, PoolTypes
  <2>. QED  BY <2>1, <2>2
<1>3. b + a = n
  BY <1>2 DEF PoolOK, PermitsMatchQueue, Popping
<1>4. sem' = b + 1 /\ Len(connQue') = n + 1
  BY <1>2, FreedDoes DEF PoolOK
<1>5. sem' + Cardinality(Popping') = Len(connQue')
  <2>1. (b + 1) + a = n + 1
    BY <1>2, <1>3
  <2>. QED  BY <1>1, <1>2, <1>4, <2>1
<1>. QED  BY <1>5 DEF PermitsMatchQueue, Popping

(* The guard dies at the end of its statement. *)
LEMMA DropGuardKeepsPool ==
  ASSUME LogOK, PoolOK, ~aborted, NEW w \in Workers, DropGuard(w)
  PROVE  PoolOK'
<1>1. /\ Same(w, "query") /\ pc[w] = "guard" /\ aborted' = (sql[w] = 0)
      /\ UNCHANGED <<ret, main, sql, served, alive, again>>
      /\ IF sql[w] # 0 THEN Freed(sql[w]) ELSE UNCHANGED <<connQue, sem>>
  BY DEF DropGuard, GoesTo, At, Same, LogOK, LogTypes, logState
<1>2. pc'[w] = "query" /\ \A u \in Workers \ {w} : pc'[u] = pc[u]
  BY <1>1, Elsewhere
<1>3. main = "running"
  BY <1>1, BusyMeansRunning
<1>4. SqlIsRight'
  BY <1>1, <1>2 DEF PoolOK, SqlIsRight, LogLabels
<1>5. \A u \in Workers : pc'[u] = "pop" <=> pc[u] = "pop"
  BY <1>1, <1>2
<1>6. CASE sql[w] = 0
  <2>1. UNCHANGED <<connQue, sem>>
    BY <1>1, <1>6
  <2>2. \A u \in Workers, c \in alive :
            (pc'[u] = "guard" /\ sql'[u] = c) <=> (pc[u] = "guard" /\ sql[u] = c)
    BY <1>1, <1>2, <1>6, AliveIsNotNull DEF PoolOK
  <2>3. PermitsMatchQueue' /\ ConnectionsAreAccounted'
    BY <1>1, <1>5, <2>1, <2>2, CountsStay
  <2>4. PoolTypes'
    BY <1>1, <2>1 DEF PoolOK, PoolTypes
  <2>. QED  BY <1>4, <2>3, <2>4 DEF PoolOK
<1>7. CASE sql[w] # 0
  <2>1. sql[w] \in 1 .. PoolSize /\ Freed(sql[w])
    BY <1>1, <1>7, PoolAssumption DEF PoolOK, PoolTypes
  <2>2. PoolTypes'
    BY <1>1, <2>1, FreedDoes DEF PoolOK, PoolTypes
  <2>3. PermitsMatchQueue'
    BY <1>3, <1>5, <2>1, PermitsFreed
  <2>4. ASSUME NEW c \in alive PROVE Copies(c)' + Guarded(c)' = 1 + again[c]
    <3>1. PICK x, y \in Nat : x = Cardinality(Occ(connQue, c)) /\ y = Cardinality(Guards(c))
      <4>1. Cardinality(Occ(connQue, c)) \in Nat
        BY OccFinite DEF PoolOK, PoolTypes
      <4>2. Cardinality(Guards(c)) \in Nat
        BY WorkersCount DEF Guards
      <4>. QED  BY <4>1, <4>2
    <3>2. x + y = 1 + again[c]
      BY <1>3, <3>1 DEF PoolOK, ConnectionsAreAccounted, Copies, Guarded, Occ, Guards
    <3>3. Copies(c)' = Cardinality(Occ(connQue', c)) /\ Guarded(c)' = Cardinality(Guards(c)')
      BY DEF Copies, Occ, Guarded, Guards
    <3>4. CASE sql[w] = c
      <4>1. Cardinality(Occ(connQue', c)) = x + 1
        BY <2>1, <3>1, <3>4, FreedDoes DEF PoolOK
      <4>2. Guards(c)' = Guards(c) \ {w} /\ w \in Guards(c)
        BY <1>1, <1>2, <3>4 DEF Guards, At
      <4>3. Cardinality(Guards(c)') = y - 1
        BY <3>1, <4>2, WorkersCount, FS_RemoveElement, ZenonT(40) DEF Guards
      <4>. QED  BY <3>1, <3>2, <3>3, <4>1, <4>3
    <3>5. CASE sql[w] # c
      <4>1. Cardinality(Occ(connQue', c)) = x
        BY <2>1, <3>1, <3>5, FreedDoes DEF PoolOK
      <4>2. Guards(c)' = Guards(c)
        BY <1>1, <1>2, <3>5 DEF Guards, At
      <4>. QED  BY <3>1, <3>2, <3>3, <4>1, <4>2
    <3>. QED  BY <3>4, <3>5
  <2>5. ConnectionsAreAccounted'
    BY <1>1, <2>4 DEF ConnectionsAreAccounted
  <2>. QED  BY <1>4, <2>2, <2>3, <2>5 DEF PoolOK
<1>. QED  BY <1>6, <1>7

(* The connection is freed, once more, at the end. *)
LEMMA FreeAtEndKeepsPool ==
  ASSUME LogOK, PoolOK, ~aborted, NEW w \in Workers, FreeAtEnd(w)
  PROVE  PoolOK'
<1>1. /\ Same(w, "idle") /\ pc[w] = "free" /\ Freed(sql[w])
      /\ again' = [again EXCEPT ![sql[w]] = @ + 1] /\ sql' = [sql EXCEPT ![w] = 0]
      /\ UNCHANGED <<ret, main, served, alive, aborted>>
  BY DEF FreeAtEnd, GoesTo, At, Same, LogOK, LogTypes, logState
<1>2. pc'[w] = "idle" /\ \A u \in Workers \ {w} : pc'[u] = pc[u]
  BY <1>1, Elsewhere
<1>3. main = "running"
  BY <1>1, BusyMeansRunning
<1>4. sql[w] \in 1 .. PoolSize /\ sql \in [Workers -> 0 .. PoolSize] /\ 0 \in 0 .. PoolSize
  BY <1>1, PoolAssumption DEF PoolOK, PoolTypes, SqlIsRight
<1>5. /\ sql' \in [Workers -> 0 .. PoolSize] /\ sql'[w] = 0
      /\ \A u \in Workers \ {w} : sql'[u] = sql[u]
  BY <1>1, <1>4
<1>6. /\ again' \in [Conns -> Nat] /\ again \in [Conns -> Nat] /\ again'[sql[w]] = again[sql[w]] + 1
      /\ \A c \in Conns \ {sql[w]} : again'[c] = again[c]
  BY <1>1, <1>4 DEF PoolOK, PoolTypes, Conns
<1>7. PoolTypes'
  BY <1>1, <1>4, <1>5, <1>6, FreedDoes DEF PoolOK, PoolTypes
<1>8. SqlIsRight'
  BY <1>1, <1>2, <1>5 DEF PoolOK, SqlIsRight, LogLabels
<1>9. PermitsMatchQueue'
  BY <1>1, <1>2, <1>3, <1>4, PermitsFreed
<1>10. ASSUME NEW c \in alive PROVE Copies(c)' + Guarded(c)' = 1 + again'[c]
  <2>1. PICK x, y, z \in Nat : /\ x = Cardinality(Occ(connQue, c)) /\ y = Cardinality(Guards(c))
                               /\ z = again[c]
    <3>1. Cardinality(Occ(connQue, c)) \in Nat
      BY OccFinite DEF PoolOK, PoolTypes
    <3>2. Cardinality(Guards(c)) \in Nat
      BY WorkersCount DEF Guards
    <3>3. again[c] \in Nat
      BY DEF PoolOK, PoolTypes
    <3>. QED  BY <3>1, <3>2, <3>3
  <2>2. x + y = 1 + z
    BY <1>3, <2>1 DEF PoolOK, ConnectionsAreAccounted, Copies, Guarded, Occ, Guards
  <2>3. Copies(c)' = Cardinality(Occ(connQue', c)) /\ Guarded(c)' = Cardinality(Guards(c)')
    BY DEF Copies, Occ, Guarded, Guards
  <2>4. Guards(c)' = Guards(c)
    BY <1>1, <1>2, <1>5 DEF Guards, At
  <2>5. CASE sql[w] = c
    <3>1. Cardinality(Occ(connQue', c)) = x + 1
      BY <1>1, <1>4, <2>1, <2>5, FreedDoes DEF PoolOK
    <3>2. again'[c] = z + 1
      BY <1>6, <2>1, <2>5
    <3>. QED  BY <2>1, <2>2, <2>3, <2>4, <3>1, <3>2
  <2>6. CASE sql[w] # c
    <3>1. Cardinality(Occ(connQue', c)) = x
      BY <1>1, <1>4, <2>1, <2>6, FreedDoes DEF PoolOK
    <3>2. again'[c] = z
      BY <1>6, <2>1, <2>6 DEF PoolOK, PoolTypes
    <3>. QED  BY <2>1, <2>2, <2>3, <2>4, <3>1, <3>2
  <2>. QED  BY <2>5, <2>6
<1>11. ConnectionsAreAccounted'
  BY <1>1, <1>10 DEF ConnectionsAreAccounted
<1>. QED  BY <1>7, <1>8, <1>9, <1>11 DEF PoolOK

(* The process dies.                                                        *)
LEMMA FlushClosedKeeps ==
  ASSUME LogOK, PoolOK, NEW w \in Workers, FlushClosed(w)
  PROVE  LogOK' /\ PoolOK'
<1>1. /\ UNCHANGED <<logVars, connQue, sem, sql, served, alive, again>> /\ aborted' = TRUE
  BY DEF FlushClosed
<1>2. LogOK'
  <2>1. /\ Stored' = Stored /\ MainIsLast' /\ isOpen' = (main' # "finished" /\ isOpen)
        /\ today' >= today /\ today' \in 1 .. Days
    BY <1>1, LogAssumption DEF LogOK, LogTypes, LockIsRight, Stored, MainIsLast, logVars, queueVars,
       fileVars, threads
  <2>. QED  BY <1>1, <2>1, OthersKeep DEF LogOK, LogTypes, logVars, queueVars, fileVars, threads,
            logHistory
<1>3. PoolTypes' /\ SqlIsRight'
  BY <1>1 DEF PoolOK, PoolTypes, SqlIsRight, logVars, threads
<1>4. PermitsMatchQueue' /\ ConnectionsAreAccounted'
  BY <1>1, CountsStay DEF logVars, threads
<1>. QED  BY <1>2, <1>3, <1>4 DEF PoolOK

(* The process begins to end: every worker is idle. *)
LEMMA ClosePoolKeeps ==
  ASSUME LogOK, PoolOK, ClosePool
  PROVE  LogOK' /\ PoolOK'
<1>1. /\ main' = "drain" /\ main = "running" /\ connQue' = <<>> /\ \A w \in Workers : pc[w] = "idle"
      /\ UNCHANGED <<queueVars, mtx, fileVars, today, threads, logHistory>>
      /\ UNCHANGED <<sem, sql, served, aborted, alive, again>>
  BY DEF ClosePool, At
<1>2. LogOK'
  <2>1. /\ Stored' = Stored /\ MainIsLast' /\ isOpen' = (main' # "finished" /\ isOpen)
        /\ today' >= today /\ today' \in 1 .. Days
    BY <1>1, LogAssumption DEF LogOK, LogTypes, LockIsRight, Stored, MainIsLast, queueVars, fileVars, threads
  <2>. QED  BY <1>1, <2>1, OthersKeep DEF LogOK, LogTypes, queueVars, fileVars, threads, logHistory
<1>3. PoolTypes' /\ SqlIsRight'
  BY <1>1 DEF PoolOK, PoolTypes, SqlIsRight, threads
<1>4. PermitsMatchQueue' /\ ConnectionsAreAccounted'
  BY <1>1 DEF PermitsMatchQueue, ConnectionsAreAccounted
<1>. QED  BY <1>2, <1>3, <1>4 DEF PoolOK

-----------------------------------------------------------------------------
(* Theorems *)

(* The process begins with an empty deque and every connection queued once. *)
LEMMA IInvInit == Init => IInv
<1>. SUFFICES ASSUME Init PROVE IInv
  OBVIOUS
<1>. USE DEF Init, LogInit
<1>1. /\ Capacity \in Nat \ {0} /\ MaxLines \in Nat \ {0} /\ Days \in Nat \ {0} /\ NoOne \notin Workers
      /\ PoolSize \in Nat \ {0} /\ MaxRequests \in [Workers -> Nat]
  BY LogAssumption, PoolAssumption
<1>2. LogTypes
  BY <1>1 DEF LogTypes, PoolLabels
<1>3. LockIsRight /\ MainIsLast
  BY <1>1 DEF LockIsRight, MainIsLast
<1>4. Lines
  <2>1. Pushing = {} /\ Stored = <<>>
    BY DEF Pushing, At, Stored
  <2>2. Written = 0
    BY <2>1 DEF Written
  <2>. QED  BY <2>1, <2>2 DEF Lines, Numbers, Ordered
<1>5. Rotation
  BY <1>1, ModLimit DEF Rotation, InWrite, InStep
<1>6. /\ connQue \in Seq(0 .. PoolSize) /\ Len(connQue) = PoolSize
      /\ DOMAIN connQue = Conns
  <2>1. PICK f : f = [i \in 1 .. PoolSize |-> IF i \in alive THEN i ELSE 0]
    OBVIOUS
  <2>2. \A i \in 1 .. PoolSize : f[i] \in 0 .. PoolSize
    BY <1>1, <2>1
  <2>3. f \in [1 .. PoolSize -> 0 .. PoolSize]
    BY <2>1, <2>2
  <2>4. f \in Seq(0 .. PoolSize) /\ Len(f) = PoolSize
    BY <1>1, <2>3
  <2>. QED  BY <2>1, <2>4 DEF Conns
<1>7. PoolTypes
  BY <1>1, <1>6 DEF PoolTypes
<1>8. SqlIsRight
  BY DEF SqlIsRight, LogLabels
<1>9. PermitsMatchQueue
  <2>1. {w \in Workers : At(w, "pop")} = {}
    BY DEF At
  <2>2. Cardinality({w \in Workers : At(w, "pop")}) = 0
    BY <2>1, FS_EmptySet
  <2>3. sem = PoolSize /\ PoolSize + 0 = PoolSize
    BY <1>1
  <2>. QED  BY <1>6, <2>2, <2>3 DEF PermitsMatchQueue
<1>10. ConnectionsAreAccounted
  <2>1. SUFFICES ASSUME NEW c \in alive PROVE Copies(c) + Guarded(c) = 1 + again[c]
    BY DEF ConnectionsAreAccounted
  <2>2. {i \in DOMAIN connQue : connQue[i] = c} = {c}
    BY <1>6, AliveIsNotNull, <1>7 DEF Conns
  <2>3. {w \in Workers : At(w, "guard") /\ sql[w] = c} = {}
    BY DEF At
  <2>4. Copies(c) = 1 /\ Guarded(c) = 0
    BY <2>2, <2>3, FS_Singleton, FS_EmptySet DEF Copies, Guarded
  <2>5. again[c] = 0
    OBVIOUS
  <2>. QED  BY <2>4, <2>5
<1>11. FileIsRight
  BY <1>1 DEF FileIsRight, Carried
<1>. QED  BY <1>2, <1>3, <1>4, <1>5, <1>7, <1>8, <1>9, <1>10, <1>11 DEF IInv, LogOK, PoolOK

(* No step breaks the invariant. *)
LEMMA IInvStep == IInv /\ [Next]_vars => IInv'
<1>. SUFFICES ASSUME IInv, [Next]_vars PROVE IInv'
  OBVIOUS
<1>0. LogOK /\ PoolOK /\ FileIsRight'
  BY FileStep DEF IInv
<1>. SUFFICES LogOK' /\ PoolOK'
  BY <1>0 DEF IInv
<1>1. ASSUME ~aborted, NEW w \in Workers, LogStep(w), UNCHANGED poolVars PROVE LogOK' /\ PoolOK'
  BY <1>0, <1>1, LogStepKeeps, LogStepKeepsPool
<1>2. ASSUME ~aborted, NEW w \in Workers,
             \/ UserVerify(w) \/ GetConn(w) \/ SemWait(w) \/ PopConn(w)
             \/ DropGuard(w) \/ Query(w) \/ FreeAtEnd(w)
      PROVE  LogOK' /\ PoolOK'
  <2>1. LogOK'
    BY <1>0, <1>2, VerificationKeepsLog
  <2>2. PoolOK'
    BY <1>0, <1>2, CallerKeepsPool, SemWaitKeepsPool, PopConnKeepsPool, DropGuardKeepsPool,
       FreeAtEndKeepsPool
  <2>. QED  BY <2>1, <2>2
<1>3. CASE WriterStep /\ UNCHANGED poolVars
  <2>1. LogOK' /\ UNCHANGED <<pc, ret, main>>
    BY <1>0, <1>3, WriterKeeps
  <2>2. PoolOK'
    BY <1>0, <1>3, <2>1, OthersKeepPool
  <2>. QED  BY <2>1, <2>2
<1>4. CASE (MainStep \/ Midnight) /\ UNCHANGED poolVars
  <2>1. LogOK' /\ UNCHANGED <<pc, ret>> /\ (main' = "running" => main = "running")
    BY <1>0, <1>4, MainKeeps
  <2>2. PoolOK'
    BY <1>0, <1>4, <2>1, OthersKeepPool
  <2>. QED  BY <2>1, <2>2
<1>5. CASE ClosePool
  BY <1>0, <1>5, ClosePoolKeeps
<1>6. CASE UNCHANGED vars
  <2>1. LogOK'
    <3>1. /\ Stored' = Stored /\ MainIsLast' /\ isOpen' = (main' # "finished" /\ isOpen)
          /\ today' >= today /\ today' \in 1 .. Days
      BY <1>0, <1>6, LogAssumption DEF LogOK, LogTypes, LockIsRight, Stored, MainIsLast, vars, logVars,
         queueVars, fileVars, threads
    <3>. QED  BY <1>0, <1>6, <3>1, OthersKeep DEF LogOK, LogTypes, vars, logVars, queueVars, fileVars,
              threads, logHistory
  <2>2. PoolOK'
    BY <1>0, <1>6, OthersKeepPool DEF vars, logVars, threads
  <2>. QED  BY <2>1, <2>2
<1>7. ASSUME NEW w \in Workers, FlushClosed(w) PROVE LogOK' /\ PoolOK'
  BY <1>0, <1>7, FlushClosedKeeps
<1>. QED  BY <1>1, <1>2, <1>3, <1>4, <1>5, <1>6, <1>7 DEF Next, WorkerStep

(* What the invariant gives. *)
LEMMA IInvImplies == IInv => PoolInv /\ LinesAreKept /\ RotatesOnTime
<1>. SUFFICES ASSUME IInv PROVE PoolInv /\ LinesAreKept /\ RotatesOnTime
  OBVIOUS
<1>. USE DEF IInv, LogOK, PoolOK
<1>1. LogTypeOK
  BY DEF LogTypeOK, LogTypes, LockIsRight, At
<1>2. TypeOK
  BY <1>1, PoolAssumption DEF TypeOK, PoolTypes
<1>3. LinesAreKept
  BY LinesAreThere
<1>4. RotatesOnTime
  <2>1. PICK n \in Nat : n = Len(file)
    BY DEF LogTypes
  <2>2. n <= serial
    <3>1. PICK x \in Line : x = [n |-> 0, direct |-> TRUE]
      BY DEF Line
    <3>2. Len(Stored) = n + Len(hand) + Len(deq) /\ Len(hand) \in Nat /\ Len(deq) \in Nat
      <4>1. file \in Seq(Line) /\ hand \in Seq(Line) /\ deq \in Seq(Line)
        BY DEF LogTypes
      <4>2. Len(hand) \in Nat /\ Len(deq) \in Nat
        BY <4>1
      <4>. QED  BY <2>1, <3>1, <4>1, <4>2, Rows DEF Stored
    <3>3. Len(Stored) <= serial
      BY DEF LogTypes, Lines, Written
    <3>. QED  BY <2>1, <3>2, <3>3 DEF LogTypes
  <2>3. serial \in Nat /\ sinceOpen \in Nat /\ began \in Nat /\ MaxLines \in Nat
    BY LogAssumption DEF LogTypes, FileIsRight
  <2>4. LinesInFile <= sinceOpen + Carried
    BY <2>1, <2>2, <2>3 DEF LinesInFile, Carried
  <2>5. ~overlapped => LinesInFile <= MaxLines + Carried
    <3>1. ~overlapped => sinceOpen <= MaxLines
      BY DEF Rotation
    <3>2. PICK l, c \in Int : l = LinesInFile /\ c = Carried
      <4>1. n - began \in Int /\ serial - sinceOpen - began \in Int
        BY <2>1, <2>3
      <4>. QED  BY <2>1, <4>1 DEF LinesInFile, Carried
    <3>. QED  BY <2>3, <2>4, <3>1, <3>2
  <2>. QED  BY <2>5 DEF RotatesOnTime, FileIsRight
<1>. QED  BY <1>2, <1>3, <1>4 DEF PoolInv

(* The inductive invariant holds at every step of the process, whatever the *)
(* number of workers, connections, requests, days, lines of a file and room *)
(* in the deque.                                                            *)
THEOREM BackendIsConsistent == Spec => []IInv
BY IInvInit, IInvStep, PTL DEF Spec

(* SqlConnPool keeps a permit for each queued connection, so that no pop    *)
(* meets an empty queue, and no connection is lost; one is queued as often  *)
(* as it was freed.                                                         *)
THEOREM PoolIsConsistent == Spec => []PoolInv
BY BackendIsConsistent, IInvImplies, PTL

(* Every line that Log::write accepted is in the file, in the writer's hand *)
(* or in the deque, once, in the order of the calls but for lines that      *)
(* found the deque full.                                                    *)
THEOREM NoLineIsLost == Spec => []LinesAreKept
BY BackendIsConsistent, IInvImplies, PTL

(* The lines of a file are counted when they are accepted, and the ones     *)
(* that were queued at fopen come on top.                                   *)
LEMMA NoFileIsTooLong == Spec => []RotatesOnTime
BY BackendIsConsistent, IInvImplies, PTL

(* No line is put in a closed file, neither in the instant in which another *)
(* worker changes it nor after ~Log, which waits for the writer.            *)
LEMMA NoLineGoesAstray == Spec => LinesGoToOpenFile
<1>1. IInv /\ [Next]_vars => [file' # file => isOpen]_file
  BY PutIsOpen DEF IInv
<1>. QED  BY <1>1, BackendIsConsistent, PTL DEF Spec, LinesGoToOpenFile

(* As long as no two threads have been inside Log::write at once, a log     *)
(* file gets at most MaxLines lines and those that were queued when it was  *)
(* opened, for the writer puts them in the file that is open when it gets   *)
(* to them; and these are never more than the deque holds and one.  No line *)
(* is put in a closed file.                                                 *)
THEOREM FilesAreBounded == Spec => FilesAreRight
BY NoFileIsTooLong, NoLineGoesAstray, PTL DEF FilesAreRight
=============================================================================
