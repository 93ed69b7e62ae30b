------------------------- MODULE FiberObjects_proofs -------------------------
(***************************************************************************)
(* Proofs about the objects that fibers synchronise with: first what they  *)
(* share, the accounting of resumes, then FiberMonitor, FiberRWLock and    *)
(* FiberChannel, each with an inductive invariant of its own.              *)
(*                                                                         *)
(* A fiber that registers itself somewhere is, until it runs on, in exactly *)
(* one place: a wait queue, the list of waiters somebody popped and has    *)
(* not pushed yet, or a signal queue of the scheduler.  From this it       *)
(* follows that the objects respect FiberContract.                         *)
(***************************************************************************)
EXTENDS FiberMonitor, FiberRWLock, FiberChannel, FiniteSetTheorems, TLAPS

-----------------------------------------------------------------------------
(* Queues *)

(* Appending adds one element, and no repetition if the element is new.     *)
LEMMA AppendElems ==
  ASSUME NEW S, NEW s \in Seq(S), NEW x \in S
  PROVE  /\ Append(s, x) \in Seq(S)
         /\ Elems(Append(s, x)) = Elems(s) \cup {x}
         /\ NoRepeats(s) /\ x \notin Elems(s) => NoRepeats(Append(s, x))
<1> DEFINE a == Append(s, x)
<1>1. /\ a \in Seq(S)
      /\ DOMAIN a = 1 .. Len(s) + 1
      /\ \A i \in 1 .. Len(s) : a[i] = s[i]
      /\ a[Len(s) + 1] = x
      /\ DOMAIN s = 1 .. Len(s)
      /\ Len(s) \in Nat
  OBVIOUS
<1>2. Elems(a) = Elems(s) \cup {x}
  BY <1>1 DEF Elems
<1>3. ASSUME NoRepeats(s), x \notin Elems(s)
      PROVE  NoRepeats(a)
  BY <1>1, <1>3 DEF Elems, NoRepeats
<1>. QED  BY <1>1, <1>2, <1>3

(* The tail holds what the queue holds but for the head, if nothing repeats.*)
LEMMA TailElems ==
  ASSUME NEW S, NEW s \in Seq(S), s # <<>>
  PROVE  /\ Head(s) \in S /\ Tail(s) \in Seq(S)
         /\ Head(s) \in Elems(s) /\ Elems(s) = Elems(Tail(s)) \cup {Head(s)}
         /\ NoRepeats(s) => NoRepeats(Tail(s)) /\ Elems(Tail(s)) = Elems(s) \ {Head(s)}
<1> DEFINE r == Tail(s)
<1>1. /\ Head(s) \in S /\ r \in Seq(S)
      /\ DOMAIN s = 1 .. Len(s)
      /\ Len(s) \in Nat \ {0}
      /\ DOMAIN r = 1 .. Len(s) - 1
      /\ \A i \in 1 .. Len(s) - 1 : r[i] = s[i + 1]
      /\ Head(s) = s[1]
  OBVIOUS
<1>2. Elems(s) = Elems(r) \cup {Head(s)}
  <2>1. ASSUME NEW x \in Elems(s) PROVE x \in Elems(r) \cup {Head(s)}
    <3>1. PICK i \in 1 .. Len(s) : x = s[i]
      BY <1>1 DEF Elems
    <3>2. CASE i = 1
      BY <1>1, <3>1, <3>2
    <3>3. CASE i # 1
      <4>1. i - 1 \in 1 .. Len(s) - 1 /\ r[i - 1] = s[i]
        BY <1>1, <3>3
      <4>. QED  BY <1>1, <3>1, <4>1 DEF Elems
    <3>. QED  BY <3>2, <3>3
  <2>2. Elems(r) \cup {Head(s)} \subseteq Elems(s)
    BY <1>1 DEF Elems
  <2>. QED  BY <2>1, <2>2
<1>3. ASSUME NoRepeats(s)
      PROVE  NoRepeats(r) /\ Head(s) \notin Elems(r)
  BY <1>1, <1>3 DEF Elems, NoRepeats
<1>. QED  BY <1>1, <1>2, <1>3

(* Queues of none and of one. *)
LEMMA SmallQueues ==
  /\ Elems(<<>>) = {} /\ NoRepeats(<<>>)
  /\ \A x : Elems(<<x>>) = {x} /\ NoRepeats(<<x>>) /\ <<x>> # <<>>
BY DEF Elems, NoRepeats

(* Whatever is not empty holds something. *)
LEMMA EmptyQueue ==
  ASSUME NEW S, NEW s \in Seq(S)
  PROVE  s = <<>> <=> Elems(s) = {}
<1>1. CASE s = <<>>
  BY <1>1, SmallQueues
<1>2. CASE s # <<>>
  BY <1>2, TailElems
<1>. QED  BY <1>1, <1>2

(* A queue without repetitions is as long as the set of those in it. *)
LEMMA QueueLength ==
  ASSUME NEW S, NEW s \in Seq(S), NoRepeats(s)
  PROVE  IsFiniteSet(Elems(s)) /\ Cardinality(Elems(s)) = Len(s)
<1>1. Len(s) \in Nat /\ DOMAIN s = 1 .. Len(s)
  OBVIOUS
<1>2. IsFiniteSet(1 .. Len(s)) /\ Cardinality(1 .. Len(s)) = Len(s)
  <2>1. IsFiniteSet(1 .. Len(s)) /\ Cardinality(1 .. Len(s)) = IF 1 > Len(s) THEN 0 ELSE Len(s) - 1 + 1
    BY <1>1, FS_Interval
  <2>. QED  BY <1>1, <2>1
<1>3. ExistsBijection(1 .. Len(s), Elems(s))
  <2> DEFINE b == [i \in 1 .. Len(s) |-> s[i]]
  <2>1. b \in [1 .. Len(s) -> Elems(s)]
    BY <1>1 DEF Elems
  <2>2. \A i, j \in 1 .. Len(s) : b[i] = b[j] => i = j
    BY <1>1 DEF NoRepeats
  <2>3. \A x \in Elems(s) : \E i \in 1 .. Len(s) : b[i] = x
    BY <1>1 DEF Elems
  <2> HIDE DEF b
  <2>4. b \in Bijection(1 .. Len(s), Elems(s))
    BY <2>1, <2>2, <2>3 DEF Bijection, Injection, Surjection, IsInjective
  <2>. QED  BY <2>4 DEF ExistsBijection
<1>. QED  BY <1>2, <1>3, FS_Bijection

-----------------------------------------------------------------------------
(* Accounting *)

(* W: the fibers in wait queues.  R: those registered somewhere.            *)
Accounted(W, R, tw, ow) ==
  /\ \A f \in Fibers : ow[f] = 0 \/ ow[f] = 1
  /\ \A g \in Fibers : NoRepeats(tw[g])
  /\ \A f \in Fibers :
       f \in R <=> f \in W \/ ow[f] = 1 \/ \E g \in Fibers : f \in Elems(tw[g])
  /\ \A f \in Fibers : ow[f] = 1 => f \notin W
  /\ \A f, g \in Fibers : f \in Elems(tw[g]) =>
       /\ f \notin W /\ ow[f] = 0
       /\ \A h \in Fibers : f \in Elems(tw[h]) => h = g

(* A fiber enters a wait queue. *)
LEMMA AccountEnter ==
  ASSUME NEW W, NEW R, NEW tw \in [Fibers -> Seq(Fibers)], NEW ow \in [Fibers -> Nat],
         Accounted(W, R, tw, ow), NEW f \in Fibers \ R
  PROVE  Accounted(W \cup {f}, R \cup {f}, tw, ow)
BY DEF Accounted

(* Fiber f pops the waiters s. *)
LEMMA AccountPop ==
  ASSUME NEW W, NEW R, NEW tw \in [Fibers -> Seq(Fibers)], NEW ow \in [Fibers -> Nat],
         Accounted(W, R, tw, ow), NEW f \in Fibers, tw[f] = <<>>,
         NEW s \in Seq(Fibers), NoRepeats(s), Elems(s) \subseteq W
  PROVE  Accounted(W \ Elems(s), R, [tw EXCEPT ![f] = s], ow)
<1> DEFINE tn == [tw EXCEPT ![f] = s]
<1>1. tn[f] = s /\ \A g \in Fibers \ {f} : tn[g] = tw[g]
  OBVIOUS
<1>2. Elems(tw[f]) = {}
  BY SmallQueues
<1>3. \A x, g \in Fibers : x \in Elems(tn[g]) <=> (x \in Elems(tw[g]) \/ (g = f /\ x \in Elems(s)))
  BY <1>1, <1>2
<1>4. \A g \in Fibers : NoRepeats(tn[g])
  BY <1>1 DEF Accounted
<1>5. Accounted(W \ Elems(s), R, tn, ow)
  <2> HIDE DEF tn
  <2>. QED  BY <1>3, <1>4 DEF Accounted
<1>. QED  BY <1>5

(* It pushes the first of them on a signal queue. *)
LEMMA AccountPush ==
  ASSUME NEW W, NEW R, NEW tw \in [Fibers -> Seq(Fibers)], NEW ow \in [Fibers -> Nat],
         Accounted(W, R, tw, ow), NEW f \in Fibers, tw[f] # <<>>
  PROVE  /\ Head(tw[f]) \in Fibers /\ ow[Head(tw[f])] = 0
         /\ Accounted(W, R, [tw EXCEPT ![f] = Tail(@)], [ow EXCEPT ![Head(tw[f])] = @ + 1])
<1> DEFINE h == Head(tw[f])
           tn == [tw EXCEPT ![f] = Tail(@)]
           on == [ow EXCEPT ![h] = @ + 1]
<1>1. /\ h \in Fibers /\ h \in Elems(tw[f])
      /\ NoRepeats(Tail(tw[f])) /\ Elems(Tail(tw[f])) = Elems(tw[f]) \ {h}
  BY TailElems DEF Accounted
<1>2. ow[h] = 0
  BY <1>1 DEF Accounted
<1>3. tn[f] = Tail(tw[f])
  OBVIOUS
<1>4. \A g \in Fibers \ {f} : tn[g] = tw[g]
  OBVIOUS
<1>5. on[h] = 1 /\ \A g \in Fibers \ {h} : on[g] = ow[g]
  BY <1>1, <1>2
<1>6. \A g \in Fibers \ {f} : h \notin Elems(tw[g])
  BY <1>1 DEF Accounted
<1>7. \A g \in Fibers : NoRepeats(tw[g])
  BY DEF Accounted
<1> HIDE DEF h, tn, on
<1>8. \A x, g \in Fibers : x \in Elems(tn[g]) <=> (x \in Elems(tw[g]) /\ x # h)
  <2>1. ASSUME NEW x \in Fibers, NEW g \in Fibers
        PROVE  x \in Elems(tn[g]) <=> (x \in Elems(tw[g]) /\ x # h)
    <3>1. CASE g = f
      BY <1>1, <1>3, <3>1
    <3>2. CASE g # f
      BY <1>4, <1>6, <3>2
    <3>. QED  BY <3>1, <3>2
  <2>. QED  BY <2>1
<1>9. \A g \in Fibers : NoRepeats(tn[g])
  <2>1. ASSUME NEW g \in Fibers
        PROVE  NoRepeats(tn[g])
    <3>1. CASE g = f
      BY <1>1, <1>3, <3>1
    <3>2. CASE g # f
      BY <1>4, <1>7, <3>2
    <3>. QED  BY <3>1, <3>2
  <2>. QED  BY <2>1
<1>10. Accounted(W, R, tn, on)
  BY <1>1, <1>2, <1>5, <1>8, <1>9, SMTT(20) DEF Accounted
<1>. QED  BY <1>1, <1>2, <1>10 DEF h, tn, on

(* The loop resumes a fiber, and a running one yields. *)
LEMMA AccountResume ==
  ASSUME NEW W, NEW R, NEW tw \in [Fibers -> Seq(Fibers)], NEW ow \in [Fibers -> Nat],
         Accounted(W, R, tw, ow), NEW f \in Fibers
  PROVE  /\ ow[f] > 0 => /\ ow[f] = 1
                         /\ Accounted(W, R \ {f}, tw, [ow EXCEPT ![f] = @ - 1])
         /\ f \notin R => /\ ow[f] = 0
                          /\ Accounted(W, R \cup {f}, tw, [ow EXCEPT ![f] = @ + 1])
<1>1. ASSUME ow[f] > 0
      PROVE  ow[f] = 1 /\ Accounted(W, R \ {f}, tw, [ow EXCEPT ![f] = @ - 1])
  <2> DEFINE on == [ow EXCEPT ![f] = @ - 1]
  <2>1. ow[f] = 1
    BY <1>1 DEF Accounted
  <2>2. on[f] = 0 /\ \A g \in Fibers \ {f} : on[g] = ow[g]
    BY <2>1
  <2> HIDE DEF on
  <2>3. f \notin W /\ \A g \in Fibers : f \notin Elems(tw[g])
    BY <2>1 DEF Accounted
  <2>4. Accounted(W, R \ {f}, tw, on)
    <3>1. \A g \in Fibers : on[g] = 1 <=> ow[g] = 1 /\ g # f
      BY <2>2
    <3>2. \A g \in Fibers : on[g] = 0 <=> ow[g] = 0 \/ g = f
      BY <2>2
    <3>. QED  BY <2>3, <3>1, <3>2 DEF Accounted
  <2>. QED  BY <2>1, <2>4 DEF on
<1>2. ASSUME f \notin R
      PROVE  ow[f] = 0 /\ Accounted(W, R \cup {f}, tw, [ow EXCEPT ![f] = @ + 1])
  <2> DEFINE on == [ow EXCEPT ![f] = @ + 1]
  <2>1. ow[f] = 0
    BY <1>2 DEF Accounted
  <2>2. on[f] = 1 /\ \A g \in Fibers \ {f} : on[g] = ow[g]
    BY <2>1
  <2> HIDE DEF on
  <2>3. f \notin W /\ \A g \in Fibers : f \notin Elems(tw[g])
    BY <1>2 DEF Accounted
  <2>4. Accounted(W, R \cup {f}, tw, on)
    <3>1. \A g \in Fibers : on[g] = 1 <=> ow[g] = 1 \/ g = f
      BY <2>2
    <3>2. \A g \in Fibers : on[g] = 0 <=> ow[g] = 0 /\ g # f
      BY <2>1, <2>2
    <3>. QED  BY <2>3, <3>1, <3>2 DEF Accounted
  <2>. QED  BY <2>1, <2>4 DEF on
<1>. QED  BY <1>1, <1>2

-----------------------------------------------------------------------------
(* The state of the fibers *)

(* The fibers that are registered somewhere: those that will park or have   *)
(* parked, and those at one of the labels L of a program, or on their way   *)
(* there, where a wait has begun and they do not park yet.                  *)
Registered(L) ==
  {f \in Fibers : \/ pc[f] \in {"yield", "parked"} \cup L
                  \/ pc[f] = "push" /\ next[f] \in L}

(* What every step keeps, for a program with the given labels whose objects *)
(* have the fibers of W in their wait queues.                               *)
SyncOK(labels, L, W) ==
  /\ SyncTypeOK(labels)
  /\ \A f \in Fibers : /\ status[f] = "parked" <=> pc[f] = "parked"
                       /\ pc[f] = "push" <=> toWake[f] # <<>>
                       /\ pc[f] \in {"yield", "parked"} => next[f] \notin L
  /\ Accounted(W, Registered(L), toWake, owed)

Program(labels, L) == L \subseteq labels /\ labels \cap InsideOp = {}

(* The fibers start parked, each to be resumed once. *)
LEMMA StartsOK ==
  ASSUME NEW labels, NEW L, NEW start \in labels \ L, SyncInit(start)
  PROVE  SyncOK(labels, L, {})
<1>1. SyncTypeOK(labels)
  BY PlacementsAssumption DEF SyncInit, SyncTypeOK, InsideOp
<1>2. Registered(L) = Fibers
  BY DEF SyncInit, Registered
<1>3. Accounted({}, Fibers, toWake, owed)
  BY SmallQueues DEF SyncInit, Accounted
<1>. QED  BY <1>1, <1>2, <1>3 DEF SyncOK, SyncInit

(* Whether a fiber is registered depends on its own label only. *)
LEMMA RegisteredAfter ==
  ASSUME NEW L, NEW f \in Fibers,
         \A g \in Fibers \ {f} : pc'[g] = pc[g] /\ next'[g] = next[g]
  PROVE  /\ Registered(L) \cup {f} = Registered(L)' \cup {f}
         /\ f \in Registered(L)' => Registered(L)' = Registered(L) \cup {f}
         /\ f \notin Registered(L)' => Registered(L)' = Registered(L) \ {f}
         /\ (f \in Registered(L)' <=> f \in Registered(L)) => Registered(L)' = Registered(L)
BY DEF Registered

(* A running fiber that is at a label has nobody to wake. *)
LEMMA AtLabel ==
  ASSUME NEW labels, NEW L, NEW W, Program(labels, L), SyncOK(labels, L, W),
         NEW f \in Fibers, NEW l \in labels, At(f, l)
  PROVE  /\ toWake[f] = <<>> /\ status[f] = "running" /\ pc[f] = l
         /\ f \in Registered(L) <=> l \in L
BY DEF Program, SyncOK, At, Registered, InsideOp

(* The fiber goes on at another label, having entered a wait queue or not.  *)
LEMMA GotoKeeps ==
  ASSUME NEW labels, NEW L, NEW W1, NEW W2, Program(labels, L), SyncOK(labels, L, W1),
         NEW f \in Fibers, NEW l \in labels, NEW m \in labels, At(f, l), Goto(f, m),
         \/ W2 = W1 /\ (l \in L <=> m \in L)
         \/ W2 = W1 \cup {f} /\ l \notin L /\ m \in L
  PROVE  SyncOK(labels, L, W2)'
<1>0. SyncTypeOK(labels)
  BY DEF SyncOK
<1>1. /\ pc'[f] = m /\ UNCHANGED <<status, owed, host, next, toWake>>
      /\ \A g \in Fibers \ {f} : pc'[g] = pc[g]
      /\ pc' \in [Fibers -> labels \cup InsideOp]
  BY <1>0 DEF Goto, SyncTypeOK
<1>2. toWake[f] = <<>> /\ status[f] = "running" /\ (f \in Registered(L) <=> l \in L)
  BY AtLabel
<1>3. f \in Registered(L)' <=> m \in L
  BY <1>1 DEF Program, Registered, InsideOp
<1>4. Accounted(W2, Registered(L)', toWake', owed')
  <2>1. CASE W2 = W1 /\ (l \in L <=> m \in L)
    <3>1. Registered(L)' = Registered(L)
      BY <1>1, <1>2, <1>3, <2>1, RegisteredAfter
    <3>. QED  BY <1>1, <2>1, <3>1 DEF SyncOK
  <2>2. CASE W2 = W1 \cup {f} /\ l \notin L /\ m \in L
    <3>1. Registered(L)' = Registered(L) \cup {f} /\ f \notin Registered(L)
      BY <1>1, <1>2, <1>3, <2>2, RegisteredAfter
    <3>2. Accounted(W1 \cup {f}, Registered(L) \cup {f}, toWake, owed)
      BY <1>0, <3>1, AccountEnter DEF SyncOK, SyncTypeOK
    <3>. QED  BY <1>1, <2>2, <3>1, <3>2
  <2>. QED  BY <2>1, <2>2
<1>5. \A g \in Fibers : /\ status'[g] = "parked" <=> pc'[g] = "parked"
                        /\ pc'[g] = "push" <=> toWake'[g] # <<>>
                        /\ pc'[g] \in {"yield", "parked"} => next'[g] \notin L
  BY <1>1, <1>2 DEF SyncOK, Program, InsideOp
<1>6. SyncTypeOK(labels)'
  BY <1>0, <1>1 DEF SyncTypeOK
<1>. QED  BY <1>4, <1>5, <1>6 DEF SyncOK

(* The fiber performs an operation under the spin lock of an object: it     *)
(* goes on, or enters a queue, or pops some of those who wait.              *)
LEMMA PerformKeeps ==
  ASSUME NEW labels, NEW L, NEW W1, NEW W2, Program(labels, L), SyncOK(labels, L, W1),
         NEW f \in Fibers, NEW l \in labels, NEW m \in labels, At(f, l),
         NEW r, Perform(f, r, m),
         \/ /\ ~r.park /\ r.wake = <<>> /\ W2 = W1 /\ (l \in L <=> m \in L)
         \/ /\ r.park /\ r.wake = <<>> /\ W2 = W1 \cup {f} /\ l \notin L /\ m \notin L
         \/ /\ ~r.park /\ r.wake \in Seq(Fibers) /\ NoRepeats(r.wake)
            /\ Elems(r.wake) \subseteq W1 /\ W2 = W1 \ Elems(r.wake) /\ (l \in L <=> m \in L)
  PROVE  SyncOK(labels, L, W2)'
<1>0. SyncTypeOK(labels)
  BY DEF SyncOK
<1> DEFINE p == IF r.park THEN "yield" ELSE IF r.wake # <<>> THEN "push" ELSE m
<1>1. /\ pc' = [pc EXCEPT ![f] = p] /\ next' = [next EXCEPT ![f] = m]
      /\ toWake' = [toWake EXCEPT ![f] = r.wake]
      /\ UNCHANGED <<status, owed, host>>
  BY DEF Perform
<1>2. toWake[f] = <<>> /\ status[f] = "running" /\ (f \in Registered(L) <=> l \in L)
  BY AtLabel
<1>3. r.wake \in Seq(Fibers) /\ p \in labels \cup InsideOp /\ p # "parked"
  <2>1. r.wake \in Seq(Fibers)
    <3>1. <<>> \in Seq(Fibers)
      OBVIOUS
    <3>. QED  BY <3>1
  <2>2. p \in labels \cup InsideOp /\ p # "parked"
    BY DEF InsideOp, Program
  <2>. QED  BY <2>1, <2>2
<1>4. /\ pc'[f] = p /\ next'[f] = m /\ toWake'[f] = r.wake
      /\ \A g \in Fibers \ {f} : /\ pc'[g] = pc[g] /\ next'[g] = next[g]
                                 /\ toWake'[g] = toWake[g]
  BY <1>0, <1>1 DEF SyncTypeOK
<1>5. f \in Registered(L)' <=> r.park \/ m \in L
  BY <1>4 DEF Registered, Program, InsideOp
<1>6. Accounted(W2, Registered(L)', toWake', owed')
  <2>0. Accounted(W1, Registered(L), toWake, owed) /\ owed' = owed
        /\ toWake \in [Fibers -> Seq(Fibers)] /\ owed \in [Fibers -> Nat]
    BY <1>0, <1>1 DEF SyncOK, SyncTypeOK
  <2>1. CASE ~r.park /\ r.wake = <<>> /\ W2 = W1 /\ (l \in L <=> m \in L)
    <3>1. toWake' = toWake
      BY <1>1, <1>2, <2>0, <2>1
    <3>2. Registered(L)' = Registered(L)
      BY <1>2, <1>4, <1>5, <2>1, RegisteredAfter
    <3>. QED  BY <2>0, <2>1, <3>1, <3>2
  <2>2. CASE r.park /\ r.wake = <<>> /\ W2 = W1 \cup {f} /\ l \notin L
    <3>1. toWake' = toWake
      BY <1>1, <1>2, <2>0, <2>2
    <3>2. Registered(L)' = Registered(L) \cup {f} /\ f \notin Registered(L)
      BY <1>2, <1>4, <1>5, <2>2, RegisteredAfter
    <3>3. Accounted(W1 \cup {f}, Registered(L) \cup {f}, toWake, owed)
      BY <2>0, <3>2, AccountEnter
    <3>. QED  BY <2>0, <2>2, <3>1, <3>2, <3>3
  <2>3. CASE /\ ~r.park /\ r.wake \in Seq(Fibers) /\ NoRepeats(r.wake)
             /\ Elems(r.wake) \subseteq W1 /\ W2 = W1 \ Elems(r.wake) /\ (l \in L <=> m \in L)
    <3>1. Registered(L)' = Registered(L)
      BY <1>2, <1>4, <1>5, <2>3, RegisteredAfter
    <3>2. Accounted(W1 \ Elems(r.wake), Registered(L), [toWake EXCEPT ![f] = r.wake], owed)
      BY <1>2, <2>0, <2>3, AccountPop
    <3>. QED  BY <1>1, <2>0, <2>3, <3>1, <3>2
  <2>. QED  BY <2>1, <2>2, <2>3
<1>7. ASSUME NEW g \in Fibers
      PROVE  /\ status'[g] = "parked" <=> pc'[g] = "parked"
             /\ pc'[g] = "push" <=> toWake'[g] # <<>>
             /\ pc'[g] \in {"yield", "parked"} => next'[g] \notin L
  <2>1. CASE g # f
    BY <1>1, <1>4, <2>1 DEF SyncOK
  <2>2. CASE g = f
    BY <1>1, <1>2, <1>3, <1>4, <2>2 DEF Program, InsideOp
  <2>. QED  BY <2>1, <2>2
<1>8. SyncTypeOK(labels)'
  BY <1>0, <1>1, <1>3 DEF SyncTypeOK
<1>. QED  BY <1>6, <1>7, <1>8 DEF SyncOK

(* The steps between the critical sections, and what they are in the        *)
(* contract: a registered fiber parks, ...                                  *)
LEMMA YieldKeeps ==
  ASSUME NEW labels, NEW L, NEW W, Program(labels, L), SyncOK(labels, L, W),
         NEW f \in Fibers, YieldStep(f)
  PROVE  SyncOK(labels, L, W)' /\ Park(f)
<1>0. SyncTypeOK(labels)
  BY DEF SyncOK
<1>1. /\ pc[f] = "yield" /\ status[f] = "running"
      /\ status' = [status EXCEPT ![f] = "parked"] /\ pc' = [pc EXCEPT ![f] = "parked"]
      /\ UNCHANGED <<owed, host, next, toWake>>
  BY DEF YieldStep, At
<1>2. /\ pc'[f] = "parked" /\ status'[f] = "parked"
      /\ \A g \in Fibers \ {f} : pc'[g] = pc[g] /\ status'[g] = status[g]
  BY <1>0, <1>1 DEF SyncTypeOK
<1>3. Registered(L)' = Registered(L)
  <2>1. f \in Registered(L)' /\ f \in Registered(L)
    BY <1>1, <1>2 DEF Registered
  <2>. QED  BY <1>1, <1>2, <2>1, RegisteredAfter
<1>4. SyncTypeOK(labels)'
  BY <1>0, <1>1 DEF SyncTypeOK, InsideOp
<1>5. SyncOK(labels, L, W)'
  BY <1>1, <1>2, <1>3, <1>4 DEF SyncOK
<1>. QED  BY <1>1, <1>5 DEF Park

(* ... is woken by a push on the signal queue of its thread, ...            *)
LEMMA PushKeeps ==
  ASSUME NEW labels, NEW L, NEW W, Program(labels, L), SyncOK(labels, L, W),
         NEW f \in Fibers, PushStep(f)
  PROVE  SyncOK(labels, L, W)' /\ \E F \in SUBSET Fibers : Wake(F)
<1>0. SyncTypeOK(labels) /\ Accounted(W, Registered(L), toWake, owed)
  BY DEF SyncOK
<1> DEFINE h == Head(toWake[f])
           p == IF Len(toWake[f]) = 1 THEN next[f] ELSE "push"
<1>1. /\ pc[f] = "push" /\ status[f] = "running"
      /\ owed' = [owed EXCEPT ![h] = @ + 1]
      /\ toWake' = [toWake EXCEPT ![f] = Tail(@)]
      /\ pc' = [pc EXCEPT ![f] = p]
      /\ UNCHANGED <<status, host, next>>
  BY DEF PushStep, At
<1>2. toWake[f] # <<>> /\ toWake[f] \in Seq(Fibers)
  BY <1>0, <1>1 DEF SyncOK, SyncTypeOK
<1>3. /\ h \in Fibers /\ owed[h] = 0
      /\ Accounted(W, Registered(L), toWake', owed')
  <2>1. toWake \in [Fibers -> Seq(Fibers)] /\ owed \in [Fibers -> Nat]
    BY <1>0 DEF SyncTypeOK
  <2>2. /\ h \in Fibers /\ owed[h] = 0
        /\ Accounted(W, Registered(L), [toWake EXCEPT ![f] = Tail(@)], [owed EXCEPT ![h] = @ + 1])
    BY <1>0, <1>2, <2>1, AccountPush
  <2>. QED  BY <1>1, <2>2
<1>4. p = "push" <=> Tail(toWake[f]) # <<>>
  <2>1. next[f] # "push"
    BY <1>0 DEF SyncTypeOK, Program, InsideOp
  <2>2. Len(toWake[f]) = 1 <=> Tail(toWake[f]) = <<>>
    <3> DEFINE r == Tail(toWake[f])
               n == Len(toWake[f])
    <3>1. n \in Nat /\ r \in Seq(Fibers) /\ Len(r) = n - 1
      BY <1>2
    <3>2. \A s \in Seq(Fibers) : s = <<>> <=> Len(s) = 0
      OBVIOUS
    <3>3. r = <<>> <=> Len(r) = 0
      BY <3>1, <3>2
    <3> HIDE DEF r, n
    <3>4. n = 1 <=> r = <<>>
      BY <3>1, <3>3
    <3>. QED  BY <3>4 DEF r, n
  <2>. QED  BY <2>1, <2>2
<1>5. next[f] \in labels /\ p \in labels \cup InsideOp /\ p \in {next[f], "push"}
  BY <1>0 DEF SyncTypeOK, InsideOp
<1>6. /\ pc'[f] = p /\ toWake'[f] = Tail(toWake[f])
      /\ \A g \in Fibers \ {f} : pc'[g] = pc[g] /\ toWake'[g] = toWake[g]
  BY <1>0, <1>1 DEF SyncTypeOK
<1> HIDE DEF h, p
<1>7. Registered(L)' = Registered(L)
  <2>1. f \in Registered(L)' <=> next[f] \in L
    BY <1>1, <1>5, <1>6 DEF Registered, Program, InsideOp
  <2>2. f \in Registered(L) <=> next[f] \in L
    BY <1>1 DEF Registered, Program, InsideOp
  <2>. QED  BY <1>1, <1>6, <2>1, <2>2, RegisteredAfter
<1>8. SyncTypeOK(labels)'
  <2>1. Tail(toWake[f]) \in Seq(Fibers)
    BY <1>2, TailElems
  <2>. QED  BY <1>0, <1>1, <1>3, <1>5, <2>1 DEF SyncTypeOK
<1>9. ASSUME NEW g \in Fibers
      PROVE  /\ status'[g] = "parked" <=> pc'[g] = "parked"
             /\ pc'[g] = "push" <=> toWake'[g] # <<>>
             /\ pc'[g] \in {"yield", "parked"} => next'[g] \notin L
  <2>1. CASE g # f
    BY <1>1, <1>6, <2>1 DEF SyncOK
  <2>2. CASE g = f
    BY <1>1, <1>4, <1>5, <1>6, <2>2 DEF Program, InsideOp
  <2>. QED  BY <2>1, <2>2
<1>10. Wake({h})
  <2>1. status[h] # "idle"
    BY <1>0, <1>3 DEF SyncTypeOK
  <2>2. owed' = [g \in Fibers |-> IF g \in {h} THEN 1 ELSE owed[g]]
    <3>1. /\ owed \in [Fibers -> Nat] /\ owed' \in [Fibers -> Nat]
          /\ owed'[h] = 1 /\ \A g \in Fibers \ {h} : owed'[g] = owed[g]
      BY <1>0, <1>1, <1>3 DEF SyncTypeOK
    <3>. QED  BY <3>1
  <2>. QED  BY <1>1, <1>3, <2>1, <2>2 DEF Wake
<1>. QED  BY <1>3, <1>7, <1>8, <1>9, <1>10 DEF SyncOK

(* ... is resumed by its loop, which owes it one resume and finds it parked,*)
LEMMA ResumeKeeps ==
  ASSUME NEW labels, NEW L, NEW W, Program(labels, L), SyncOK(labels, L, W),
         NEW f \in Fibers, ResumeStep(f)
  PROVE  SyncOK(labels, L, W)' /\ Resume(f) /\ pc[f] = "parked"
<1>0. SyncTypeOK(labels) /\ Accounted(W, Registered(L), toWake, owed)
  BY DEF SyncOK
<1>1. /\ owed[f] > 0 /\ LoopRuns(host[f])
      /\ owed' = [owed EXCEPT ![f] = @ - 1]
      /\ status' = [status EXCEPT ![f] = "running"]
      /\ pc' = [pc EXCEPT ![f] = next[f]]
      /\ UNCHANGED <<host, next, toWake>>
  BY DEF ResumeStep
<1>2. status[f] = "parked" /\ pc[f] = "parked"
  BY <1>0, <1>1 DEF LoopRuns, SyncTypeOK, SyncOK
<1>3. /\ owed[f] = 1 /\ Accounted(W, Registered(L) \ {f}, toWake, owed')
  <2>1. toWake \in [Fibers -> Seq(Fibers)] /\ owed \in [Fibers -> Nat]
    BY <1>0 DEF SyncTypeOK
  <2>. QED  BY <1>0, <1>1, <2>1, AccountResume
<1>4. /\ pc'[f] = next[f] /\ status'[f] = "running" /\ next[f] \in labels
      /\ \A g \in Fibers \ {f} : pc'[g] = pc[g] /\ status'[g] = status[g]
  BY <1>0, <1>1 DEF SyncTypeOK
<1>5. next[f] \notin L
  BY <1>2 DEF SyncOK
<1>6. Registered(L)' = Registered(L) \ {f}
  <2>1. f \notin Registered(L)'
    BY <1>4, <1>5 DEF Registered, Program, InsideOp
  <2>. QED  BY <1>1, <1>4, <2>1, RegisteredAfter
<1>7. SyncTypeOK(labels)'
  BY <1>0, <1>1, <1>3, <1>4 DEF SyncTypeOK
<1>8. ASSUME NEW g \in Fibers
      PROVE  /\ status'[g] = "parked" <=> pc'[g] = "parked"
             /\ pc'[g] = "push" <=> toWake'[g] # <<>>
             /\ pc'[g] \in {"yield", "parked"} => next'[g] \notin L
  <2>1. CASE g # f
    BY <1>1, <1>4, <2>1 DEF SyncOK
  <2>2. CASE g = f
    <3>1. toWake[f] = <<>>
      BY <1>2 DEF SyncOK
    <3>. QED  BY <1>1, <1>4, <2>2, <3>1 DEF Program, InsideOp
  <2>. QED  BY <2>1, <2>2
<1>9. Resume(f)
  <2>1. owed' = [owed EXCEPT ![f] = 0]
    BY <1>0, <1>1, <1>3 DEF SyncTypeOK
  <2>. QED  BY <1>1, <1>2, <1>3, <2>1 DEF Resume
<1>. QED  BY <1>1, <1>2, <1>3, <1>6, <1>7, <1>8, <1>9 DEF SyncOK

(* ... and one that is registered nowhere may yield.                        *)
LEMMA PauseKeeps ==
  ASSUME NEW labels, NEW L, NEW W, Program(labels, L), SyncOK(labels, L, W),
         NEW f \in Fibers, NEW l \in labels \ L, At(f, l), Pause(f)
  PROVE  SyncOK(labels, L, W)' /\ YieldNow(f)
<1>0. SyncTypeOK(labels) /\ Accounted(W, Registered(L), toWake, owed)
  BY DEF SyncOK
<1>1. /\ owed' = [owed EXCEPT ![f] = @ + 1]
      /\ status' = [status EXCEPT ![f] = "parked"]
      /\ pc' = [pc EXCEPT ![f] = "parked"] /\ next' = [next EXCEPT ![f] = pc[f]]
      /\ UNCHANGED <<host, toWake>>
  BY DEF Pause
<1>2. toWake[f] = <<>> /\ status[f] = "running" /\ pc[f] = l /\ f \notin Registered(L)
  BY AtLabel
<1>3. /\ owed[f] = 0 /\ Accounted(W, Registered(L) \cup {f}, toWake, owed')
  <2>1. toWake \in [Fibers -> Seq(Fibers)] /\ owed \in [Fibers -> Nat]
    BY <1>0 DEF SyncTypeOK
  <2>2. /\ owed[f] = 0
        /\ Accounted(W, Registered(L) \cup {f}, toWake, [owed EXCEPT ![f] = @ + 1])
    BY <1>0, <1>2, <2>1, AccountResume
  <2>. QED  BY <1>1, <2>2
<1>4. /\ pc'[f] = "parked" /\ status'[f] = "parked" /\ next'[f] = l
      /\ \A g \in Fibers \ {f} : /\ pc'[g] = pc[g] /\ status'[g] = status[g]
                                 /\ next'[g] = next[g]
  BY <1>0, <1>1, <1>2 DEF SyncTypeOK
<1>5. Registered(L)' = Registered(L) \cup {f}
  <2>1. f \in Registered(L)'
    BY <1>4 DEF Registered
  <2>. QED  BY <1>4, <2>1, RegisteredAfter
<1>6. SyncTypeOK(labels)'
  BY <1>0, <1>1, <1>2, <1>3 DEF SyncTypeOK, InsideOp
<1>7. ASSUME NEW g \in Fibers
      PROVE  /\ status'[g] = "parked" <=> pc'[g] = "parked"
             /\ pc'[g] = "push" <=> toWake'[g] # <<>>
             /\ pc'[g] \in {"yield", "parked"} => next'[g] \notin L
  <2>1. CASE g # f
    BY <1>1, <1>4, <2>1 DEF SyncOK
  <2>2. CASE g = f
    BY <1>1, <1>2, <1>4, <2>2
  <2>. QED  BY <2>1, <2>2
<1>8. YieldNow(f)
  <2>1. owed' = [owed EXCEPT ![f] = 1]
    BY <1>0, <1>1, <1>3 DEF SyncTypeOK
  <2>. QED  BY <1>1, <1>2, <1>3, <2>1 DEF YieldNow
<1>. QED  BY <1>1, <1>3, <1>5, <1>6, <1>7, <1>8 DEF SyncOK

(* A step that leaves the fibers alone. *)
LEMMA SameKeeps ==
  ASSUME NEW labels, NEW L, NEW W, SyncOK(labels, L, W), UNCHANGED syncVars
  PROVE  SyncOK(labels, L, W)'
BY DEF SyncOK, SyncTypeOK, Registered, syncVars

(* Where a step leads its fiber; the others stay where they are. *)
LEMMA GotoTo ==
  ASSUME NEW labels, SyncTypeOK(labels), NEW f \in Fibers, NEW m, Goto(f, m)
  PROVE  /\ pc'[f] = m /\ next'[f] = next[f]
         /\ \A g \in Fibers \ {f} : pc'[g] = pc[g] /\ next'[g] = next[g]
         /\ UNCHANGED contractVars
BY DEF Goto, SyncTypeOK, contractVars

(* Where an operation of a sync object leaves its caller: parked, waking    *)
(* others, or at its next label. No other fiber moves.                      *)
LEMMA PerformTo ==
  ASSUME NEW labels, SyncTypeOK(labels), NEW f \in Fibers, NEW m, NEW r, Perform(f, r, m)
  PROVE  /\ r.park => pc'[f] = "yield"
         /\ ~r.park /\ r.wake # <<>> => pc'[f] = "push"
         /\ ~r.park /\ r.wake = <<>> => pc'[f] = m
         /\ next'[f] = m
         /\ \A g \in Fibers \ {f} : pc'[g] = pc[g] /\ next'[g] = next[g]
         /\ UNCHANGED contractVars
BY DEF Perform, SyncTypeOK, contractVars

(* A fiber that pauses parks with its own label as the one to return to.    *)
LEMMA PauseTo ==
  ASSUME NEW labels, SyncTypeOK(labels), NEW f \in Fibers, Pause(f)
  PROVE  /\ pc'[f] = "parked" /\ next'[f] = pc[f]
         /\ \A g \in Fibers \ {f} : pc'[g] = pc[g] /\ next'[g] = next[g]
BY DEF Pause, SyncTypeOK

(* The three steps every operation shares move one fiber and keep the label *)
(* it returns to.                                                           *)
LEMMA SyncStepTo ==
  ASSUME NEW labels, SyncTypeOK(labels), NEW f \in Fibers, SyncStep(f)
  PROVE  /\ next'[f] = next[f]
         /\ \A g \in Fibers \ {f} : pc'[g] = pc[g] /\ next'[g] = next[g]
         /\ \/ YieldStep(f) /\ pc[f] = "yield" /\ pc'[f] = "parked"
            \/ PushStep(f) /\ pc[f] = "push" /\ pc'[f] \in {"push", next[f]}
            \/ ResumeStep(f) /\ pc'[f] = next[f]
BY DEF SyncStep, YieldStep, PushStep, ResumeStep, At, SyncTypeOK

(* The steps between critical sections keep the accounts and the contract; *)
(* a resumed fiber is in no queue.                                          *)
LEMMA SyncStepKeeps ==
  ASSUME NEW labels, NEW L, NEW W, Program(labels, L), SyncOK(labels, L, W),
         NEW f \in Fibers, SyncStep(f)
  PROVE  /\ SyncOK(labels, L, W)' /\ ContractNext
         /\ ResumeStep(f) => pc[f] = "parked" /\ f \notin W
<1>1. CASE YieldStep(f)
  <2>1. SyncOK(labels, L, W)' /\ Park(f)
    BY <1>1, YieldKeeps
  <2>2. ~ResumeStep(f)
    BY <1>1 DEF YieldStep, ResumeStep, SyncOK, SyncTypeOK, At, LoopRuns
  <2>. QED  BY <2>1, <2>2 DEF ContractNext
<1>2. CASE PushStep(f)
  <2>1. SyncOK(labels, L, W)' /\ \E F \in SUBSET Fibers : Wake(F)
    BY <1>2, PushKeeps
  <2>2. ~ResumeStep(f)
    BY <1>2 DEF PushStep, ResumeStep, SyncOK, SyncTypeOK, At, LoopRuns
  <2>. QED  BY <2>1, <2>2 DEF ContractNext
<1>3. CASE ResumeStep(f)
  <2>1. SyncOK(labels, L, W)' /\ Resume(f) /\ pc[f] = "parked"
    BY <1>3, ResumeKeeps
  <2>2. owed[f] = 1
    BY <2>1 DEF Resume
  <2>3. f \notin W
    BY <2>2 DEF SyncOK, Accounted
  <2>. QED  BY <2>1, <2>3 DEF ContractNext
<1>. QED  BY <1>1, <1>2, <1>3 DEF SyncStep

-----------------------------------------------------------------------------
(* What the critical sections do *)

(* mutex::lock takes a free mutex and queues behind a locked one. *)
LEMMA LockDoes ==
  ASSUME NEW m \in Mutex, NEW f \in Fibers, NEW r, r = MutexLock(m, f)
  PROVE  /\ r.obj \in Mutex /\ r.obj.locked /\ r.wake = <<>>
         /\ ~m.locked => ~r.park /\ r.obj.waiters = m.waiters
         /\ m.locked => /\ r.park
                        /\ r.obj.waiters = Append(m.waiters, f)
                        /\ Elems(r.obj.waiters) = Elems(m.waiters) \cup {f}
                        /\ NoRepeats(m.waiters) /\ f \notin Elems(m.waiters)
                             => NoRepeats(r.obj.waiters)
<1>1. m.waiters \in Seq(Fibers) /\ m.locked \in BOOLEAN
  BY DEF Mutex
<1>2. CASE ~m.locked
  BY <1>1, <1>2 DEF MutexLock, GoOn, Mutex
<1>3. CASE m.locked
  <2>1. /\ Append(m.waiters, f) \in Seq(Fibers)
        /\ Elems(Append(m.waiters, f)) = Elems(m.waiters) \cup {f}
        /\ NoRepeats(m.waiters) /\ f \notin Elems(m.waiters) => NoRepeats(Append(m.waiters, f))
    BY <1>1, AppendElems
  <2>2. r = MustPark([m EXCEPT !.waiters = Append(@, f)])
    BY <1>3 DEF MutexLock
  <2>3. r.obj = [m EXCEPT !.waiters = Append(m.waiters, f)] /\ r.wake = <<>> /\ r.park
    BY <2>2 DEF MustPark
  <2>4. r.obj \in Mutex /\ r.obj.locked = m.locked /\ r.obj.waiters = Append(m.waiters, f)
    BY <1>1, <2>1, <2>3 DEF Mutex
  <2>. QED  BY <1>3, <2>1, <2>3, <2>4
<1>. QED  BY <1>2, <1>3

(* mutex::unlock hands the mutex to the first waiter or frees it. *)
LEMMA UnlockDoes ==
  ASSUME NEW m \in Mutex, NEW r, r = MutexUnlock(m)
  PROVE  /\ r.obj \in Mutex /\ ~r.park
         /\ m.waiters = <<>> => ~r.obj.locked /\ r.obj.waiters = <<>> /\ r.wake = <<>>
         /\ m.waiters # <<>> => /\ r.obj.locked = m.locked
                                /\ Head(m.waiters) \in Fibers /\ Head(m.waiters) \in Elems(m.waiters)
                                /\ r.wake = <<Head(m.waiters)>>
                                /\ r.obj.waiters = Tail(m.waiters)
                                /\ NoRepeats(m.waiters) =>
                                     /\ NoRepeats(r.obj.waiters)
                                     /\ Elems(r.obj.waiters) = Elems(m.waiters) \ {Head(m.waiters)}
<1>1. m.waiters \in Seq(Fibers) /\ m.locked \in BOOLEAN
  BY DEF Mutex
<1>2. CASE m.waiters = <<>>
  BY <1>1, <1>2 DEF MutexUnlock, GoOn, Mutex
<1>3. CASE m.waiters # <<>>
  <2>1. /\ Head(m.waiters) \in Fibers /\ Tail(m.waiters) \in Seq(Fibers)
        /\ Head(m.waiters) \in Elems(m.waiters)
        /\ NoRepeats(m.waiters) =>
             /\ NoRepeats(Tail(m.waiters))
             /\ Elems(Tail(m.waiters)) = Elems(m.waiters) \ {Head(m.waiters)}
    BY <1>1, <1>3, TailElems
  <2>2. r = WakeUp([m EXCEPT !.waiters = Tail(@)], <<Head(m.waiters)>>)
    BY <1>3 DEF MutexUnlock
  <2>3. /\ r.obj = [m EXCEPT !.waiters = Tail(m.waiters)]
        /\ r.wake = <<Head(m.waiters)>> /\ ~r.park
    BY <2>2 DEF WakeUp
  <2>4. r.obj \in Mutex /\ r.obj.locked = m.locked /\ r.obj.waiters = Tail(m.waiters)
    BY <1>1, <2>1, <2>3 DEF Mutex
  <2>. QED  BY <1>3, <2>1, <2>3, <2>4
<1>. QED  BY <1>2, <1>3

(* notify_one pops the first waiter, notify_all pops all. *)
LEMMA NotifyDoes ==
  ASSUME NEW q \in Seq(Fibers), NoRepeats(q), NEW r, r = NotifyOne(q) \/ r = NotifyAll(q)
  PROVE  /\ r.obj \in Seq(Fibers) /\ NoRepeats(r.obj) /\ ~r.park
         /\ r.wake \in Seq(Fibers) /\ NoRepeats(r.wake)
         /\ Elems(r.wake) \subseteq Elems(q) /\ Elems(r.obj) = Elems(q) \ Elems(r.wake)
         /\ r.obj # <<>> => \E h \in Fibers : r.wake = <<h>> /\ h \in Elems(q)
         /\ r.wake = <<>> => r.obj = q
<1>0. <<>> \in Seq(Fibers) /\ Elems(<<>>) = {} /\ NoRepeats(<<>>)
  BY SmallQueues
<1>1. CASE q = <<>>
  <2>1. r = GoOn(<<>>) \/ r = WakeUp(<<>>, <<>>)
    BY <1>1 DEF NotifyOne, NotifyAll
  <2>2. r.obj = <<>> /\ r.wake = <<>> /\ ~r.park
    BY <2>1 DEF GoOn, WakeUp
  <2>. QED  BY <1>0, <1>1, <2>2
<1>2. CASE q # <<>> /\ r = NotifyOne(q)
  <2>1. r.obj = Tail(q) /\ r.wake = <<Head(q)>> /\ ~r.park
    BY <1>2 DEF NotifyOne, WakeUp
  <2>2. /\ Head(q) \in Fibers /\ Tail(q) \in Seq(Fibers) /\ Head(q) \in Elems(q)
        /\ NoRepeats(Tail(q)) /\ Elems(Tail(q)) = Elems(q) \ {Head(q)}
    BY <1>2, TailElems
  <2>3. /\ Elems(<<Head(q)>>) = {Head(q)} /\ NoRepeats(<<Head(q)>>) /\ <<Head(q)>> # <<>>
        /\ <<Head(q)>> \in Seq(Fibers)
    BY <2>2, SmallQueues
  <2>. QED  BY <2>1, <2>2, <2>3
<1>3. CASE q # <<>> /\ r = NotifyAll(q)
  <2>1. r.obj = <<>> /\ r.wake = q /\ ~r.park
    BY <1>3 DEF NotifyAll, WakeUp
  <2>. QED  BY <1>0, <1>3, <2>1
<1>. QED  BY <1>1, <1>2, <1>3

(* shared_mutex::lock *)
LEMMA ExclusiveLockDoes ==
  ASSUME NEW m \in SharedMutex, NEW f \in Fibers, NEW r, r = ExclusiveLock(m, f),
         NoRepeats(m.wwaiters), f \notin Elems(m.wwaiters)
  PROVE  /\ r.obj \in SharedMutex /\ r.wake = <<>> /\ r.obj.rwaiters = m.rwaiters
         /\ m.state = 0 => ~r.park /\ r.obj.state = -1 /\ r.obj.wwaiters = m.wwaiters
         /\ m.state # 0 => /\ r.park /\ r.obj.state = m.state
                           /\ Elems(r.obj.wwaiters) = Elems(m.wwaiters) \cup {f}
                           /\ NoRepeats(r.obj.wwaiters)
<1>1. m.wwaiters \in Seq(Fibers) /\ m.rwaiters \in Seq(Fibers) /\ m.state \in Int
  BY DEF SharedMutex
<1>2. CASE m.state = 0
  BY <1>1, <1>2 DEF ExclusiveLock, GoOn, SharedMutex
<1>3. CASE m.state # 0
  <2>1. /\ Append(m.wwaiters, f) \in Seq(Fibers) /\ NoRepeats(Append(m.wwaiters, f))
        /\ Elems(Append(m.wwaiters, f)) = Elems(m.wwaiters) \cup {f}
    BY <1>1, AppendElems
  <2>2. r = MustPark([m EXCEPT !.wwaiters = Append(m.wwaiters, f)])
    BY <1>3 DEF ExclusiveLock
  <2>3. r.obj = [m EXCEPT !.wwaiters = Append(m.wwaiters, f)] /\ r.wake = <<>> /\ r.park
    BY <2>2 DEF MustPark
  <2>4. /\ r.obj \in SharedMutex /\ r.obj.state = m.state
        /\ r.obj.wwaiters = Append(m.wwaiters, f) /\ r.obj.rwaiters = m.rwaiters
    BY <1>1, <2>1, <2>3 DEF SharedMutex
  <2>. QED  BY <1>3, <2>1, <2>3, <2>4
<1>. QED  BY <1>2, <1>3

(* shared_mutex::lock_shared *)
LEMMA SharedLockDoes ==
  ASSUME NEW m \in SharedMutex, NEW f \in Fibers, NEW r, r = SharedLock(m, f),
         NoRepeats(m.rwaiters), f \notin Elems(m.rwaiters)
  PROVE  /\ r.obj \in SharedMutex /\ r.wake = <<>> /\ r.obj.wwaiters = m.wwaiters
         /\ MayShare(m) => ~r.park /\ r.obj.state = m.state + 1 /\ r.obj.rwaiters = m.rwaiters
         /\ ~MayShare(m) => /\ r.park /\ r.obj.state = m.state
                            /\ Elems(r.obj.rwaiters) = Elems(m.rwaiters) \cup {f}
                            /\ NoRepeats(r.obj.rwaiters)
<1>1. m.wwaiters \in Seq(Fibers) /\ m.rwaiters \in Seq(Fibers) /\ m.state \in Int
  BY DEF SharedMutex
<1>2. CASE MayShare(m)
  <2>1. r.obj = [m EXCEPT !.state = m.state + 1] /\ r.wake = <<>> /\ ~r.park
    BY <1>2 DEF SharedLock, GoOn
  <2>. QED  BY <1>1, <1>2, <2>1 DEF SharedMutex
<1>3. CASE ~MayShare(m)
  <2>1. /\ Append(m.rwaiters, f) \in Seq(Fibers) /\ NoRepeats(Append(m.rwaiters, f))
        /\ Elems(Append(m.rwaiters, f)) = Elems(m.rwaiters) \cup {f}
    BY <1>1, AppendElems
  <2>2. r.obj = [m EXCEPT !.rwaiters = Append(m.rwaiters, f)] /\ r.wake = <<>> /\ r.park
    BY <1>3 DEF SharedLock, MustPark
  <2>4. /\ r.obj \in SharedMutex /\ r.obj.state = m.state
        /\ r.obj.rwaiters = Append(m.rwaiters, f) /\ r.obj.wwaiters = m.wwaiters
    BY <1>1, <2>1, <2>2 DEF SharedMutex
  <2>. QED  BY <1>3, <2>1, <2>2, <2>4
<1>. QED  BY <1>2, <1>3

(* shared_mutex::unlock: the first waiting writer, or else all the waiting *)
(* readers, of whom there may be none.                                     *)
LEMMA ExclusiveUnlockDoes ==
  ASSUME NEW m \in SharedMutex, NEW r, r = ExclusiveUnlock(m), NoRepeats(m.wwaiters)
  PROVE  /\ r.obj \in SharedMutex /\ ~r.park
         /\ m.wwaiters # <<>> =>
              /\ r.obj.state = m.state /\ r.obj.rwaiters = m.rwaiters
              /\ NoRepeats(r.obj.wwaiters)
              /\ \E h \in Fibers : /\ r.wake = <<h>> /\ h \in Elems(m.wwaiters)
                                   /\ Elems(r.obj.wwaiters) = Elems(m.wwaiters) \ {h}
         /\ m.wwaiters = <<>> =>
              /\ r.obj.state = Len(m.rwaiters) /\ r.wake = m.rwaiters
              /\ r.obj.rwaiters = <<>> /\ r.obj.wwaiters = <<>>
<1>1. /\ m.wwaiters \in Seq(Fibers) /\ m.rwaiters \in Seq(Fibers) /\ m.state \in Int
      /\ Len(m.rwaiters) \in Nat
  BY DEF SharedMutex
<1>2. CASE m.wwaiters # <<>>
  <2>1. /\ Head(m.wwaiters) \in Fibers /\ Tail(m.wwaiters) \in Seq(Fibers)
        /\ Head(m.wwaiters) \in Elems(m.wwaiters) /\ NoRepeats(Tail(m.wwaiters))
        /\ Elems(Tail(m.wwaiters)) = Elems(m.wwaiters) \ {Head(m.wwaiters)}
    BY <1>1, <1>2, TailElems
  <2>2. /\ r.obj = [m EXCEPT !.wwaiters = Tail(m.wwaiters)]
        /\ r.wake = <<Head(m.wwaiters)>> /\ ~r.park
    BY <1>2 DEF ExclusiveUnlock, WakeUp
  <2>3. /\ r.obj \in SharedMutex /\ r.obj.state = m.state /\ r.obj.rwaiters = m.rwaiters
        /\ r.obj.wwaiters = Tail(m.wwaiters)
    BY <1>1, <2>1, <2>2 DEF SharedMutex
  <2>. QED  BY <1>2, <2>1, <2>2, <2>3
<1>3. CASE m.wwaiters = <<>> /\ m.rwaiters # <<>>
  <2>1. /\ r.obj = [m EXCEPT !.state = Len(m.rwaiters), !.rwaiters = <<>>]
        /\ r.wake = m.rwaiters /\ ~r.park
    BY <1>3 DEF ExclusiveUnlock, WakeUp
  <2>2. r.obj = [state |-> Len(m.rwaiters), rwaiters |-> <<>>, wwaiters |-> <<>>]
    BY <1>3, <2>1 DEF SharedMutex
  <2>3. /\ r.obj \in SharedMutex /\ r.obj.state = Len(m.rwaiters)
        /\ r.obj.rwaiters = <<>> /\ r.obj.wwaiters = <<>>
    BY <1>1, <2>2 DEF SharedMutex
  <2>. QED  BY <1>3, <2>1, <2>3
<1>4. CASE m.wwaiters = <<>> /\ m.rwaiters = <<>>
  <2>1. r.obj = [m EXCEPT !.state = 0] /\ r.wake = <<>> /\ ~r.park
    BY <1>4 DEF ExclusiveUnlock, GoOn
  <2>2. Len(m.rwaiters) = 0
    BY <1>4
  <2>. QED  BY <1>1, <1>4, <2>1, <2>2 DEF SharedMutex
<1>. QED  BY <1>2, <1>3, <1>4

(* shared_mutex::unlock_shared *)
LEMMA SharedUnlockDoes ==
  ASSUME NEW m \in SharedMutex, NEW r, r = SharedUnlock(m), NoRepeats(m.wwaiters)
  PROVE  /\ r.obj \in SharedMutex /\ ~r.park /\ r.obj.rwaiters = m.rwaiters
         /\ m.state = 1 /\ m.wwaiters # <<>> =>
              /\ r.obj.state = -1 /\ NoRepeats(r.obj.wwaiters)
              /\ \E h \in Fibers : /\ r.wake = <<h>> /\ h \in Elems(m.wwaiters)
                                   /\ Elems(r.obj.wwaiters) = Elems(m.wwaiters) \ {h}
         /\ ~(m.state = 1 /\ m.wwaiters # <<>>) =>
              r.obj.state = m.state - 1 /\ r.wake = <<>> /\ r.obj.wwaiters = m.wwaiters
<1>1. /\ m.wwaiters \in Seq(Fibers) /\ m.rwaiters \in Seq(Fibers) /\ m.state \in Int
  BY DEF SharedMutex
<1>2. CASE m.state = 1 /\ m.wwaiters # <<>>
  <2>1. /\ Head(m.wwaiters) \in Fibers /\ Tail(m.wwaiters) \in Seq(Fibers)
        /\ Head(m.wwaiters) \in Elems(m.wwaiters) /\ NoRepeats(Tail(m.wwaiters))
        /\ Elems(Tail(m.wwaiters)) = Elems(m.wwaiters) \ {Head(m.wwaiters)}
    BY <1>1, <1>2, TailElems
  <2>2. /\ r.obj = [m EXCEPT !.wwaiters = Tail(m.wwaiters), !.state = -1]
        /\ r.wake = <<Head(m.wwaiters)>> /\ ~r.park
    BY <1>2 DEF SharedUnlock, WakeUp
  <2>3. r.obj = [state |-> -1, rwaiters |-> m.rwaiters, wwaiters |-> Tail(m.wwaiters)]
    BY <2>2 DEF SharedMutex
  <2>4. /\ r.obj \in SharedMutex /\ r.obj.state = -1 /\ r.obj.rwaiters = m.rwaiters
        /\ r.obj.wwaiters = Tail(m.wwaiters)
    BY <1>1, <2>1, <2>3 DEF SharedMutex
  <2>. QED  BY <1>2, <2>1, <2>2, <2>4
<1>3. CASE ~(m.state = 1 /\ m.wwaiters # <<>>)
  <2>1. r.obj = [m EXCEPT !.state = m.state - 1] /\ r.wake = <<>> /\ ~r.park
    BY <1>3 DEF SharedUnlock, GoOn
  <2>. QED  BY <1>1, <1>3, <2>1 DEF SharedMutex
<1>. QED  BY <1>2, <1>3

(* semaphore::wait *)
LEMMA SemWaitDoes ==
  ASSUME NEW m \in Semaphore, NEW f \in Fibers, NEW r, r = SemWait(m, f),
         NoRepeats(m.waiters), f \notin Elems(m.waiters)
  PROVE  /\ r.obj \in Semaphore /\ r.wake = <<>>
         /\ m.count > 0 => ~r.park /\ r.obj.count = m.count - 1 /\ r.obj.waiters = m.waiters
         /\ m.count = 0 => /\ r.park /\ r.obj.count = 0
                           /\ Elems(r.obj.waiters) = Elems(m.waiters) \cup {f}
                           /\ NoRepeats(r.obj.waiters)
<1>1. m.waiters \in Seq(Fibers) /\ m.count \in Nat
  BY DEF Semaphore
<1>2. CASE m.count > 0
  <2>1. r.obj = [m EXCEPT !.count = m.count - 1] /\ r.wake = <<>> /\ ~r.park
    BY <1>2 DEF SemWait, GoOn
  <2>2. m.count - 1 \in Nat
    BY <1>1, <1>2
  <2>. QED  BY <1>1, <1>2, <2>1, <2>2 DEF Semaphore
<1>3. CASE m.count = 0
  <2>1. /\ Append(m.waiters, f) \in Seq(Fibers) /\ NoRepeats(Append(m.waiters, f))
        /\ Elems(Append(m.waiters, f)) = Elems(m.waiters) \cup {f}
    BY <1>1, AppendElems
  <2>2. r.obj = [m EXCEPT !.waiters = Append(m.waiters, f)] /\ r.wake = <<>> /\ r.park
    BY <1>3 DEF SemWait, MustPark
  <2>3. r.obj \in Semaphore /\ r.obj.count = 0 /\ r.obj.waiters = Append(m.waiters, f)
    BY <1>1, <1>3, <2>1, <2>2 DEF Semaphore
  <2>. QED  BY <1>3, <2>1, <2>2, <2>3
<1>. QED  BY <1>1, <1>2, <1>3

(* semaphore::signal *)
LEMMA SemSignalDoes ==
  ASSUME NEW m \in Semaphore, NEW r, r = SemSignal(m), NoRepeats(m.waiters)
  PROVE  /\ r.obj \in Semaphore /\ ~r.park /\ NoRepeats(r.obj.waiters)
         /\ m.waiters = <<>> => /\ r.obj.count = m.count + 1 /\ r.wake = <<>>
                                /\ r.obj.waiters = <<>>
         /\ m.waiters # <<>> =>
              /\ r.obj.count = m.count /\ r.wake = <<Head(m.waiters)>>
              /\ Head(m.waiters) \in Fibers /\ Head(m.waiters) \in Elems(m.waiters)
              /\ Elems(r.obj.waiters) = Elems(m.waiters) \ {Head(m.waiters)}
<1>1. m.waiters \in Seq(Fibers) /\ m.count \in Nat
  BY DEF Semaphore
<1>2. CASE m.waiters = <<>>
  <2>1. r.obj = [m EXCEPT !.count = m.count + 1] /\ r.wake = <<>> /\ ~r.park
    BY <1>2 DEF SemSignal, GoOn
  <2>. QED  BY <1>1, <1>2, <2>1 DEF Semaphore
<1>3. CASE m.waiters # <<>>
  <2>1. /\ Head(m.waiters) \in Fibers /\ Tail(m.waiters) \in Seq(Fibers)
        /\ Head(m.waiters) \in Elems(m.waiters) /\ NoRepeats(Tail(m.waiters))
        /\ Elems(Tail(m.waiters)) = Elems(m.waiters) \ {Head(m.waiters)}
    BY <1>1, <1>3, TailElems
  <2>2. /\ r.obj = [m EXCEPT !.waiters = Tail(m.waiters)]
        /\ r.wake = <<Head(m.waiters)>> /\ ~r.park
    BY <1>3 DEF SemSignal, WakeUp
  <2>3. r.obj \in Semaphore /\ r.obj.count = m.count /\ r.obj.waiters = Tail(m.waiters)
    BY <1>1, <2>1, <2>2 DEF Semaphore
  <2>. QED  BY <1>3, <2>1, <2>2, <2>3
<1>. QED  BY <1>2, <1>3

-----------------------------------------------------------------------------
(***************************************************************************)
(* FiberMonitor: fiber::mutex with fiber::condition_variable, for any number *)
(* of fibers, threads and tokens.                                          *)
(***************************************************************************)

(* The inductive invariant *)

(* The labels inside condition_variable::wait, from the entry in its queue  *)
(* to the Yield.                                                            *)
InWaitLabels == {"waitUnlock", "waitYield"}

(* Whoever waits, for the mutex or for the condition. *)
MonitorQueued == Elems(mtx.waiters) \cup Elems(cond)

MonitorObjects ==
  /\ mtx \in Mutex /\ cond \in Seq(Fibers) /\ tokens \in 0 .. MaxTokens
  /\ NoRepeats(mtx.waiters) /\ NoRepeats(cond)

(* A fiber in a queue is where the operation that put it there left it.     *)
MonitorQueuesAreRight ==
  /\ \A f \in Elems(mtx.waiters) : pc[f] \in {"yield", "parked"} /\ next[f] \in {"get", "put"}
  /\ \A f \in Elems(cond) : InWait(f)

(* One fiber owns a locked mutex and none a free one, and none waits for it.*)
Ownership ==
  /\ mtx.locked => \E o \in Fibers : \A f \in Fibers : Owns(f) <=> f = o
  /\ ~mtx.locked => mtx.waiters = <<>> /\ \A f \in Fibers : ~Owns(f)

(* As long as somebody waits for the condition, there are at least as many  *)
(* fibers under way as tokens.                                              *)
Moving == {f \in Fibers : UnderWay(f)}
EnoughUnderWay == cond # <<>> => tokens <= Cardinality(Moving)

MonitorIInv == /\ SyncOK(MonitorLabels, InWaitLabels, MonitorQueued)
               /\ MonitorObjects /\ MonitorQueuesAreRight /\ Ownership /\ EnoughUnderWay

-----------------------------------------------------------------------------
(* Helpers *)

(* The labels are those of a program. *)
LEMMA MonitorProgram == Program(MonitorLabels, InWaitLabels)
BY DEF Program, MonitorLabels, InWaitLabels, InsideOp

(* The state space is typed. *)
LEMMA MonitorTyped == ASSUME MonitorIInv PROVE SyncTypeOK(MonitorLabels) /\ Fibers = Fibers \cup MonitorQueued
<1>1. SyncTypeOK(MonitorLabels)
  BY DEF MonitorIInv, SyncOK
<1>2. mtx.waiters \in Seq(Fibers) /\ cond \in Seq(Fibers)
  BY DEF MonitorIInv, MonitorObjects, Mutex
<1>3. \A s \in Seq(Fibers) : Elems(s) \subseteq Fibers
  BY DEF Elems
<1>. QED  BY <1>1, <1>2, <1>3 DEF MonitorQueued

(* Nobody waits for the mutex and for the condition. *)
LEMMA MonitorOneQueueEach ==
  ASSUME MonitorQueuesAreRight
  PROVE  Elems(mtx.waiters) \cap Elems(cond) = {}
BY DEF MonitorQueuesAreRight, InWait, InsideOp

(* A fiber that is under way and is not in wait(). *)
Active(f) ==
  \/ pc[f] \in {"lockGet", "get", "notify", "notifyHeld", "unlockNotify"}
  \/ pc[f] \in InsideOp /\ next[f] \in {"get", "notify"}

Way(f) == Active(f) \/ (InWait(f) /\ f \notin Elems(cond))

(* A fiber in wait() was notified if and only if it left the queue, *)
(* so that the label and the queue say who is under way.            *)
WaysAreExact ==
  /\ \A f \in Fibers : Notified(f) <=> InWait(f) /\ f \notin Elems(cond)
  /\ Moving = {f \in Fibers : Way(f)}

(* When every queue is right, the labels and the queue of the condition *)
(* variable say who was notified and who is under way.                  *)
LEMMA UnderWayIs ==
  SyncOK(MonitorLabels, InWaitLabels, MonitorQueued) /\ MonitorQueuesAreRight => WaysAreExact
<1> SUFFICES ASSUME SyncOK(MonitorLabels, InWaitLabels, MonitorQueued), MonitorQueuesAreRight
             PROVE  WaysAreExact
  OBVIOUS
<1>1. ASSUME NEW f \in Fibers
      PROVE  Notified(f) <=> InWait(f) /\ f \notin Elems(cond)
  <2>1. InWait(f) => f \in Registered(InWaitLabels) /\ f \notin Elems(mtx.waiters)
    BY DEF InWait, Registered, InWaitLabels, InsideOp, MonitorQueuesAreRight
  <2>2. owed[f] > 0 <=> owed[f] = 1
    BY DEF SyncOK, Accounted
  <2>3. f \in Registered(InWaitLabels) =>
          ((owed[f] > 0 \/ \E g \in Fibers : f \in Elems(toWake[g])) <=> f \notin MonitorQueued)
    BY <2>2 DEF SyncOK, Accounted
  <2>. QED  BY <2>1, <2>3 DEF Notified, MonitorQueued
<1>2. Moving = {f \in Fibers : Way(f)}
  BY <1>1 DEF Moving, UnderWay, Way, Active
<1>. QED  BY <1>1, <1>2 DEF WaysAreExact

(* The same of the state after a step. *)
LEMMA UnderWayIsNext ==
  SyncOK(MonitorLabels, InWaitLabels, MonitorQueued)' /\ MonitorQueuesAreRight' => WaysAreExact'
BY UnderWayIs, PTL

(* What is true of a fiber that stays where it is does not change. *)
LEMMA MonitorOthersStay ==
  ASSUME NEW f \in Fibers, \A g \in Fibers \ {f} : pc'[g] = pc[g] /\ next'[g] = next[g],
         NEW g \in Fibers \ {f}
  PROVE  /\ InWait(g)' <=> InWait(g)
         /\ Active(g)' <=> Active(g)
         /\ (g \in Elems(mtx.waiters)' <=> g \in Elems(mtx.waiters)) => (Owns(g)' <=> Owns(g))
BY DEF InWait, Active, Owns, WaitsForMutex

(* The queues keep those who stay in them. *)
LEMMA MonitorQueuesKeep ==
  ASSUME MonitorQueuesAreRight, NEW f \in Fibers,
         \A g \in Fibers \ {f} : pc'[g] = pc[g] /\ next'[g] = next[g],
         Elems(mtx.waiters)' \subseteq Elems(mtx.waiters) \cup {f},
         Elems(cond)' \subseteq Elems(cond) \cup {f},
         MonitorQueued \subseteq Fibers,
         f \in Elems(mtx.waiters)' => pc'[f] \in {"yield", "parked"} /\ next'[f] \in {"get", "put"},
         f \in Elems(cond)' => InWait(f)'
  PROVE  MonitorQueuesAreRight'
<1>1. ASSUME NEW g \in Elems(mtx.waiters)'
      PROVE  pc'[g] \in {"yield", "parked"} /\ next'[g] \in {"get", "put"}
  BY DEF MonitorQueuesAreRight, MonitorQueued
<1>2. ASSUME NEW g \in Elems(cond)'
      PROVE  InWait(g)'
  <2>1. CASE g = f
    BY <2>1
  <2>2. CASE g # f
    BY <2>2, MonitorOthersStay DEF MonitorQueuesAreRight, MonitorQueued
  <2>. QED  BY <2>1, <2>2
<1>. QED  BY <1>1, <1>2 DEF MonitorQueuesAreRight

(* How many are in a set of fibers. *)
LEMMA MonitorHowMany ==
  ASSUME NEW A \in SUBSET Fibers, NEW B \in SUBSET Fibers, NEW f \in Fibers
  PROVE  /\ Cardinality(A) \in Nat /\ Cardinality(B) \in Nat
         /\ A \subseteq B => Cardinality(A) <= Cardinality(B)
         /\ A \subseteq B /\ f \in B /\ f \notin A => Cardinality(A) + 1 <= Cardinality(B)
         /\ A \ {f} \subseteq B => Cardinality(A) <= Cardinality(B) + 1
<1>0. IsFiniteSet(A) /\ IsFiniteSet(B)
  BY FS_Subset, SyncFibersAssumption
<1>1. Cardinality(A) \in Nat /\ Cardinality(B) \in Nat
  BY <1>0, FS_CardinalityType
<1>2. ASSUME NEW C, C \subseteq B
      PROVE  Cardinality(C) <= Cardinality(B)
  BY <1>0, <1>2, FS_Subset
<1>3. ASSUME A \subseteq B, f \in B, f \notin A
      PROVE  Cardinality(A) + 1 <= Cardinality(B)
  <2>1. Cardinality(A \cup {f}) = Cardinality(A) + 1
    BY <1>0, <1>3, FS_AddElement
  <2>. QED  BY <1>2, <1>3, <2>1
<1>4. ASSUME A \ {f} \subseteq B
      PROVE  Cardinality(A) <= Cardinality(B) + 1
  <2>1. Cardinality(A \ {f}) = IF f \in A THEN Cardinality(A) - 1 ELSE Cardinality(A)
    BY <1>0, FS_RemoveElement
  <2>2. Cardinality(A \ {f}) <= Cardinality(B)
    BY <1>2, <1>4
  <2>. QED  BY <1>1, <2>1, <2>2
<1>. QED  BY <1>1, <1>2, <1>3, <1>4

(* There are enough fibers under way after a step of f in these cases. *)
LEMMA EnoughKeeps ==
  ASSUME MonitorIInv, NEW f \in Fibers,
         \A g \in Fibers \ {f} : pc'[g] = pc[g] /\ next'[g] = next[g],
         SyncOK(MonitorLabels, InWaitLabels, MonitorQueued)', MonitorQueuesAreRight',
         tokens' \in Nat,
         Elems(cond)' \subseteq Elems(cond) \cup {f},
         \/ tokens' = 0
         \/ cond' = <<>>
         \/ cond # <<>> /\ tokens' = tokens /\ (Way(f) => Way(f)')
         \/ cond # <<>> /\ tokens' = tokens + 1 /\ ~Way(f) /\ Way(f)'
         \/ cond # <<>> /\ tokens' = tokens - 1
         \/ /\ cond # <<>> /\ tokens' = tokens
            /\ \E h \in Fibers \ {f} : h \in Elems(cond) /\ h \notin Elems(cond)'
  PROVE  EnoughUnderWay'
<1> DEFINE A == Moving
           B == Moving'
<1>1. /\ A \in SUBSET Fibers /\ B \in SUBSET Fibers
      /\ A = {g \in Fibers : Way(g)}
      /\ B = {g \in Fibers : Way(g)'}
  <2>1. Moving = {g \in Fibers : Way(g)}
    BY UnderWayIs DEF MonitorIInv, WaysAreExact
  <2>2. Moving' = {g \in Fibers : Way(g)'}
    BY UnderWayIsNext DEF WaysAreExact
  <2>. QED  BY <2>1, <2>2
<1>2. \A g \in Fibers \ {f} : Way(g) => Way(g)'
  BY MonitorOthersStay DEF Way
<1>3. cond # <<>> => tokens <= Cardinality(A)
  BY DEF MonitorIInv, EnoughUnderWay
<1>4. tokens \in Nat
  BY DEF MonitorIInv, MonitorObjects
<1> HIDE DEF A, B
<1>5. Cardinality(A) \in Nat /\ Cardinality(B) \in Nat
  BY <1>1, MonitorHowMany
<1>6. cond' # <<>> => tokens' <= Cardinality(B)
  <2>1. CASE tokens' = 0
    BY <1>5, <2>1
  <2>2. CASE cond # <<>> /\ tokens' = tokens /\ (Way(f) => Way(f)')
    <3>1. A \subseteq B
      BY <1>1, <1>2, <2>2
    <3>. QED  BY <1>1, <1>3, <1>4, <1>5, <2>2, <3>1, MonitorHowMany
  <2>3. CASE cond # <<>> /\ tokens' = tokens + 1 /\ ~Way(f) /\ Way(f)'
    <3>1. A \subseteq B /\ f \in B /\ f \notin A
      BY <1>1, <1>2, <2>3
    <3>2. Cardinality(A) + 1 <= Cardinality(B)
      BY <1>1, <3>1, MonitorHowMany
    <3>. QED  BY <1>3, <1>4, <1>5, <2>3, <3>2
  <2>4. CASE cond # <<>> /\ tokens' = tokens - 1
    <3>1. A \ {f} \subseteq B
      BY <1>1, <1>2
    <3>2. Cardinality(A) <= Cardinality(B) + 1
      BY <1>1, <3>1, MonitorHowMany
    <3>. QED  BY <1>3, <1>4, <1>5, <2>4, <3>2
  <2>5. ASSUME cond # <<>>, tokens' = tokens, NEW h \in Fibers \ {f},
               h \in Elems(cond), h \notin Elems(cond)'
        PROVE  tokens' <= Cardinality(B)
    <3>1. InWait(h) /\ InWait(h)' /\ ~Active(h)
      <4>1. InWait(h)
        BY <2>5 DEF MonitorIInv, MonitorQueuesAreRight
      <4>2. InWait(h)'
        BY <4>1, MonitorOthersStay
      <4>. QED  BY <4>1, <4>2 DEF InWait, Active, InsideOp
    <3>2. h \in B /\ h \notin A
      BY <1>1, <2>5, <3>1 DEF Way
    <3>3. A \ {f} \subseteq B \ {h}
      BY <1>1, <1>2, <3>2
    <3>4. Cardinality(A) <= Cardinality(B \ {h}) + 1
      BY <1>1, <3>3, MonitorHowMany
    <3>5. Cardinality(B \ {h}) + 1 <= Cardinality(B)
      BY <1>1, <3>2, MonitorHowMany
    <3>6. Cardinality(B \ {h}) \in Nat
      BY <1>1, MonitorHowMany
    <3>. QED  BY <1>3, <1>4, <1>5, <2>5, <3>4, <3>5, <3>6
  <2>. QED  BY <2>1, <2>2, <2>3, <2>4, <2>5
<1>. QED  BY <1>6 DEF B, EnoughUnderWay

(* The owner stays the owner when the mutex does not change hands. *)
LEMMA OwnershipKeeps ==
  ASSUME Ownership, NEW f \in Fibers,
         \A g \in Fibers \ {f} : pc'[g] = pc[g] /\ next'[g] = next[g],
         mtx.locked' = mtx.locked, mtx.locked \/ mtx.waiters' = <<>>,
         \A g \in Fibers \ {f} : g \in Elems(mtx.waiters)' <=> g \in Elems(mtx.waiters),
         Owns(f)' <=> Owns(f)
  PROVE  Ownership'
<1>1. \A g \in Fibers : Owns(g)' <=> Owns(g)
  BY MonitorOthersStay
<1>. QED  BY <1>1 DEF Ownership

(* A fiber at a label waits for nothing, but for the condition on its way *)
(* through wait().                                                        *)
LEMMA NotQueued ==
  ASSUME MonitorIInv, NEW f \in Fibers, NEW l \in MonitorLabels, At(f, l)
  PROVE  /\ pc[f] = l /\ f \notin Elems(mtx.waiters)
         /\ l \notin InWaitLabels => f \notin Elems(cond)
BY DEF MonitorIInv, MonitorQueuesAreRight, InWait, InWaitLabels, At, MonitorLabels, InsideOp

(* A step that leaves the objects alone. *)
LEMMA ObjectsStay ==
  ASSUME MonitorIInv, NEW f \in Fibers, UNCHANGED monitorObjs,
         \A g \in Fibers \ {f} : pc'[g] = pc[g] /\ next'[g] = next[g],
         SyncOK(MonitorLabels, InWaitLabels, MonitorQueued)',
         f \in Elems(mtx.waiters) => pc'[f] \in {"yield", "parked"} /\ next'[f] \in {"get", "put"},
         f \in Elems(cond) => InWait(f)',
         Owns(f)' <=> Owns(f), Way(f) => Way(f)'
  PROVE  MonitorIInv'
<1>0. mtx' = mtx /\ cond' = cond /\ tokens' = tokens
  BY DEF monitorObjs
<1>1. MonitorObjects'
  BY <1>0 DEF MonitorIInv, MonitorObjects
<1>2. MonitorQueuesAreRight'
  BY <1>0, MonitorQueuesKeep, MonitorTyped DEF MonitorIInv
<1>3. Ownership'
  BY <1>0, OwnershipKeeps DEF MonitorIInv, Ownership
<1>4. EnoughUnderWay'
  <2>1. tokens' \in Nat
    BY <1>1 DEF MonitorObjects
  <2>2. CASE cond = <<>>
    BY <1>0, <2>2 DEF EnoughUnderWay
  <2>3. CASE cond # <<>>
    BY <1>0, <1>2, <2>1, <2>3, EnoughKeeps
  <2>. QED  BY <2>2, <2>3
<1>. QED  BY <1>1, <1>2, <1>3, <1>4 DEF MonitorIInv

-----------------------------------------------------------------------------
(* The steps *)

(* Yield, push and resume. *)
LEMMA MonitorSyncSteps ==
  ASSUME MonitorIInv, NEW f \in Fibers, SyncStep(f), UNCHANGED monitorObjs
  PROVE  MonitorIInv' /\ ContractNext
<1>0. MonitorQueued' = MonitorQueued /\ cond' = cond /\ mtx' = mtx
  BY DEF MonitorQueued, monitorObjs
<1>1. /\ SyncOK(MonitorLabels, InWaitLabels, MonitorQueued)' /\ ContractNext
      /\ ResumeStep(f) => pc[f] = "parked" /\ f \notin MonitorQueued
  BY <1>0, SyncStepKeeps, MonitorProgram DEF MonitorIInv
<1>2. /\ next'[f] = next[f]
      /\ \A g \in Fibers \ {f} : pc'[g] = pc[g] /\ next'[g] = next[g]
      /\ \/ pc[f] = "yield" /\ pc'[f] = "parked"
         \/ pc[f] = "push" /\ pc'[f] \in {"push", next[f]}
         \/ pc[f] = "parked" /\ pc'[f] = next[f] /\ f \notin MonitorQueued
  BY <1>1, MonitorTyped, SyncStepTo
<1>3. /\ next[f] \in MonitorLabels
      /\ pc[f] \in {"yield", "parked"} => next[f] \notin InWaitLabels
  BY MonitorTyped DEF MonitorIInv, SyncOK, SyncTypeOK
<1>4. f \in Elems(mtx.waiters) => pc'[f] \in {"yield", "parked"} /\ next'[f] \in {"get", "put"}
  BY <1>2 DEF MonitorIInv, MonitorQueuesAreRight, MonitorQueued
<1>5. f \in Elems(cond) => InWait(f) /\ InWait(f)'
  <2>1. f \in Elems(cond) => InWait(f)
    BY DEF MonitorIInv, MonitorQueuesAreRight
  <2>2. f \in Elems(cond) => pc[f] # "parked" \/ pc'[f] # next[f]
    BY <1>2 DEF MonitorQueued
  <2>3. f \in Elems(cond) => InWait(f)'
    BY <1>2, <1>3, <2>1 DEF MonitorQueued, InWait, InWaitLabels, InsideOp
  <2>. QED  BY <2>1, <2>3
<1>6. Owns(f)' <=> Owns(f)
  <2>1. WaitsForMutex(f)' <=> WaitsForMutex(f)
    BY <1>0 DEF WaitsForMutex
  <2>2. pc[f] = "push" \/ f \notin MonitorQueued => ~WaitsForMutex(f)
    BY DEF MonitorIInv, MonitorQueuesAreRight, WaitsForMutex, MonitorQueued
  <2>3. Held \cap InsideOp = {} /\ MonitorLabels \cap InsideOp = {}
    BY DEF Held, InsideOp, MonitorLabels
  <2>4. {"yield", "parked", "push"} = InsideOp
    BY DEF InsideOp
  <2>. QED  BY <1>2, <1>3, <2>1, <2>2, <2>3, <2>4 DEF Owns
<1>7. Way(f) => Way(f)'
  <2>1. Active(f) => Active(f)'
    BY <1>2, <1>3 DEF Active, InsideOp, MonitorLabels
  <2>2. InWait(f) => InWait(f)' \/ Active(f)'
    BY <1>2, <1>3 DEF Active, InWait, InWaitLabels, InsideOp, MonitorLabels
  <2>. QED  BY <1>0, <2>1, <2>2 DEF Way
<1>. QED  BY <1>0, <1>1, <1>2, <1>4, <1>5, <1>6, <1>7, ObjectsStay

(* Going to an operation, and yielding with or without the mutex. *)
LEMMA MonitorOutside ==
  ASSUME MonitorIInv, NEW f \in Fibers, MonitorBegin(f) \/ MonitorRest(f) \/ PauseHolding(f)
  PROVE  /\ MonitorIInv' /\ (ContractNext \/ UNCHANGED contractVars)
<1>0. UNCHANGED monitorObjs /\ MonitorQueued' = MonitorQueued /\ cond' = cond /\ mtx' = mtx
  BY DEF MonitorQueued, monitorObjs, MonitorBegin, MonitorRest, PauseHolding
<1>1. PICK l \in {"out", "get", "put"} : At(f, l)
  BY DEF MonitorBegin, MonitorRest, PauseHolding
<1>2. /\ pc[f] = l /\ f \notin Elems(mtx.waiters) /\ f \notin Elems(cond)
      /\ l \in MonitorLabels \ InWaitLabels
  BY <1>1, NotQueued DEF InWaitLabels, MonitorLabels
<1>3. CASE MonitorBegin(f)
  <2>1. PICK m \in {"lockPut", "lockGet"} : At(f, "out") /\ Goto(f, m)
    BY <1>3 DEF MonitorBegin
  <2>2. l = "out"
    BY <1>2, <2>1 DEF At
  <2>3. /\ pc'[f] = m /\ next'[f] = next[f] /\ UNCHANGED contractVars
        /\ \A g \in Fibers \ {f} : pc'[g] = pc[g] /\ next'[g] = next[g]
    BY <2>1, GotoTo, MonitorTyped
  <2>4. SyncOK(MonitorLabels, InWaitLabels, MonitorQueued)'
    <3>1. m \in MonitorLabels \ InWaitLabels
      BY DEF MonitorLabels, InWaitLabels
    <3>. QED  BY <1>0, <1>1, <1>2, <2>1, <3>1, GotoKeeps, MonitorProgram DEF MonitorIInv
  <2>5. (Owns(f)' <=> Owns(f)) /\ (Way(f) => Way(f)')
    BY <1>2, <2>2, <2>3 DEF Owns, Way, Active, InWait, Held, InsideOp
  <2>. QED  BY <1>0, <1>2, <2>3, <2>4, <2>5, ObjectsStay
<1>4. CASE Pause(f)
  <2>1. /\ pc'[f] = "parked" /\ next'[f] = l
        /\ \A g \in Fibers \ {f} : pc'[g] = pc[g] /\ next'[g] = next[g]
    BY <1>2, <1>4, PauseTo, MonitorTyped
  <2>2. SyncOK(MonitorLabels, InWaitLabels, MonitorQueued)' /\ YieldNow(f)
    BY <1>0, <1>1, <1>2, <1>4, PauseKeeps, MonitorProgram DEF MonitorIInv
  <2>3. (Owns(f)' <=> Owns(f)) /\ (Way(f) => Way(f)')
    <3>1. ~WaitsForMutex(f) /\ ~WaitsForMutex(f)'
      BY <1>0, <1>2 DEF WaitsForMutex
    <3>. QED  BY <1>2, <2>1, <3>1 DEF Owns, Way, Active, InWait, Held, InsideOp
  <2>. QED  BY <1>0, <1>2, <2>1, <2>2, <2>3, ObjectsStay DEF ContractNext
<1>. QED  BY <1>3, <1>4 DEF MonitorRest, PauseHolding

(* mutex::lock: the mutex is free and the fiber becomes its owner, or the   *)
(* fiber enters the queue.                                                  *)
LEMMA LockStep ==
  ASSUME MonitorIInv, NEW f \in Fibers, MonitorLock(f)
  PROVE  MonitorIInv' /\ UNCHANGED contractVars
<1>0. PICK r : r = MutexLock(mtx, f)
  OBVIOUS
<1>1. PICK c \in {<<"lockGet", "get">>, <<"lockPut", "put">>} :
        At(f, c[1]) /\ OnMutex(f, r, c[2])
  BY <1>0 DEF MonitorLock
<1>2. /\ c[1] \in MonitorLabels \ InWaitLabels /\ c[2] \in MonitorLabels \ InWaitLabels
      /\ c[2] \in {"get", "put"}
  BY DEF MonitorLabels, InWaitLabels
<1>3. /\ mtx' = r.obj /\ Perform(f, r, c[2]) /\ cond' = cond /\ tokens' = tokens
      /\ pc[f] = c[1] /\ f \notin Elems(mtx.waiters) /\ f \notin Elems(cond)
  BY <1>1, <1>2, NotQueued DEF OnMutex
<1>4. mtx \in Mutex /\ NoRepeats(mtx.waiters) /\ mtx.locked \in BOOLEAN
  BY DEF MonitorIInv, MonitorObjects, Mutex
<1>5. /\ r.obj \in Mutex /\ r.obj.locked /\ r.wake = <<>>
      /\ ~mtx.locked => ~r.park /\ r.obj.waiters = mtx.waiters
      /\ mtx.locked => /\ r.park
                       /\ Elems(r.obj.waiters) = Elems(mtx.waiters) \cup {f}
                       /\ NoRepeats(r.obj.waiters)
  <2>1. f \notin Elems(mtx.waiters) /\ mtx \in Mutex /\ NoRepeats(mtx.waiters)
    BY <1>3, <1>4
  <2>. QED  BY <1>0, <2>1, LockDoes
<1>6. /\ r.park => pc'[f] = "yield"
      /\ ~r.park => pc'[f] = c[2]
      /\ next'[f] = c[2]
      /\ \A g \in Fibers \ {f} : pc'[g] = pc[g] /\ next'[g] = next[g]
      /\ UNCHANGED contractVars
  BY <1>3, <1>5, MonitorTyped, PerformTo
<1>7. SyncOK(MonitorLabels, InWaitLabels, MonitorQueued)'
  <2>1. /\ ~mtx.locked => MonitorQueued' = MonitorQueued
        /\ mtx.locked => MonitorQueued' = MonitorQueued \cup {f}
    BY <1>3, <1>5 DEF MonitorQueued
  <2>2. SyncOK(MonitorLabels, InWaitLabels, MonitorQueued) /\ Program(MonitorLabels, InWaitLabels) /\ At(f, c[1])
    BY <1>1, MonitorProgram DEF MonitorIInv
  <2>. QED  BY <1>2, <1>3, <1>4, <1>5, <2>1, <2>2, PerformKeeps
<1>8. MonitorObjects'
  BY <1>3, <1>4, <1>5 DEF MonitorIInv, MonitorObjects
<1>9. MonitorQueuesAreRight'
  <2>1. /\ Elems(mtx.waiters)' \subseteq Elems(mtx.waiters) \cup {f}
        /\ Elems(cond)' = Elems(cond)
        /\ f \in Elems(mtx.waiters)' => pc'[f] = "yield"
    BY <1>3, <1>4, <1>5, <1>6
  <2>. QED  BY <1>2, <1>3, <1>6, <2>1, MonitorQueuesKeep, MonitorTyped DEF MonitorIInv
<1>10. Ownership'
  <2>0. ~Owns(f)
    BY <1>3, <1>1 DEF Owns, Held, InsideOp
  <2>1. CASE mtx.locked
    <3>1. ~Owns(f)'
      BY <1>3, <1>5, <1>6, <2>1 DEF Owns, WaitsForMutex, Held
    <3>. QED  BY <1>3, <1>5, <1>6, <2>0, <2>1, <3>1, OwnershipKeeps DEF MonitorIInv
  <2>2. CASE ~mtx.locked
    <3>1. Owns(f)' /\ mtx'.locked
      BY <1>2, <1>3, <1>5, <1>6, <2>2 DEF Owns, Held
    <3>2. \A g \in Fibers \ {f} : ~Owns(g)'
      BY <1>3, <1>5, <1>6, <2>2, MonitorOthersStay DEF MonitorIInv, Ownership
    <3>. QED  BY <3>1, <3>2 DEF Ownership
  <2>. QED  BY <2>1, <2>2
<1>11. EnoughUnderWay'
  <2>1. Way(f) => Way(f)'
    BY <1>1, <1>3, <1>6 DEF Way, Active, InWait, InsideOp
  <2>2. tokens' \in Nat
    BY <1>8 DEF MonitorObjects
  <2>. QED  BY <1>3, <1>6, <1>7, <1>9, <2>1, <2>2, EnoughKeeps
<1>. QED  BY <1>6, <1>7, <1>8, <1>9, <1>10, <1>11 DEF MonitorIInv

(* mutex::try_lock *)
LEMMA TryLockStep ==
  ASSUME MonitorIInv, NEW f \in Fibers, TryLockGet(f)
  PROVE  MonitorIInv' /\ UNCHANGED contractVars
<1>0. mtx \in Mutex /\ NoRepeats(mtx.waiters) /\ mtx.locked \in BOOLEAN
  BY DEF MonitorIInv, MonitorObjects, Mutex
<1>1. /\ At(f, "out") /\ cond' = cond /\ tokens' = tokens
      /\ \/ mtx.locked /\ Goto(f, "out") /\ mtx' = mtx
         \/ ~mtx.locked /\ Goto(f, "get") /\ mtx' = [mtx EXCEPT !.locked = TRUE]
  BY DEF TryLockGet
<1>2. PICK m \in {"out", "get"} : Goto(f, m) /\ (m = "out" <=> mtx.locked)
  BY <1>1
<1>3. /\ "out" \in MonitorLabels \ InWaitLabels /\ m \in MonitorLabels \ InWaitLabels
      /\ pc[f] = "out" /\ f \notin Elems(mtx.waiters) /\ f \notin Elems(cond)
  <2>1. "out" \in MonitorLabels \ InWaitLabels /\ m \in MonitorLabels \ InWaitLabels
    BY DEF MonitorLabels, InWaitLabels
  <2>. QED  BY <1>1, <2>1, NotQueued
<1>4. /\ pc'[f] = m /\ next'[f] = next[f] /\ UNCHANGED contractVars
      /\ \A g \in Fibers \ {f} : pc'[g] = pc[g] /\ next'[g] = next[g]
  BY <1>2, GotoTo, MonitorTyped
<1>5. mtx'.waiters = mtx.waiters /\ mtx'.locked /\ mtx' \in Mutex /\ MonitorQueued' = MonitorQueued
  BY <1>0, <1>1 DEF Mutex, MonitorQueued
<1>6. SyncOK(MonitorLabels, InWaitLabels, MonitorQueued)'
  BY <1>1, <1>2, <1>3, <1>5, GotoKeeps, MonitorProgram DEF MonitorIInv
<1>7. CASE mtx.locked
  <2>1. mtx' = mtx /\ m = "out" /\ UNCHANGED monitorObjs
    BY <1>1, <1>2, <1>7 DEF monitorObjs
  <2>2. (Owns(f)' <=> Owns(f)) /\ (Way(f) => Way(f)')
    BY <1>3, <1>4, <2>1 DEF Owns, Way, Active, InWait, Held, InsideOp
  <2>. QED  BY <1>3, <1>4, <1>6, <2>1, <2>2, ObjectsStay
<1>8. CASE ~mtx.locked
  <2>1. m = "get"
    BY <1>2, <1>8
  <2>2. MonitorObjects'
    BY <1>0, <1>1, <1>5 DEF MonitorIInv, MonitorObjects
  <2>3. MonitorQueuesAreRight'
    BY <1>1, <1>3, <1>4, <1>5, MonitorQueuesKeep, MonitorTyped DEF MonitorIInv
  <2>4. Ownership'
    <3>1. Owns(f)'
      BY <1>4, <2>1 DEF Owns, Held
    <3>2. \A g \in Fibers \ {f} : ~Owns(g)'
      BY <1>4, <1>5, <1>8, MonitorOthersStay DEF MonitorIInv, Ownership
    <3>. QED  BY <1>5, <3>1, <3>2 DEF Ownership
  <2>5. EnoughUnderWay'
    <3>1. Way(f)' /\ tokens' \in Nat
      BY <1>4, <2>1, <2>2 DEF Way, Active, MonitorObjects
    <3>. QED  BY <1>1, <1>4, <1>6, <2>3, <3>1, EnoughKeeps
  <2>. QED  BY <1>4, <1>6, <2>2, <2>3, <2>4, <2>5 DEF MonitorIInv
<1>. QED  BY <1>7, <1>8

(* The owner looks at the tokens: it puts one or takes one, or enters the *)
(* queue of the condition when there is none.                             *)
LEMMA HolderStep ==
  ASSUME MonitorIInv, NEW f \in Fibers, Put(f) \/ Get(f) \/ WaitEnqueue(f)
  PROVE  MonitorIInv' /\ UNCHANGED contractVars
<1>0. /\ mtx \in Mutex /\ cond \in Seq(Fibers) /\ tokens \in 0 .. MaxTokens /\ MaxTokens \in Nat
      /\ NoRepeats(mtx.waiters) /\ NoRepeats(cond)
  BY MonitorAssumption DEF MonitorIInv, MonitorObjects
<1>1. PICK l \in {"get", "put"}, m \in {"unlock", "notifyHeld", "unlockNotify", "waitUnlock"} :
        /\ At(f, l) /\ Goto(f, m) /\ mtx' = mtx
        /\ \/ /\ l = "put" /\ tokens' = tokens + 1 /\ tokens < MaxTokens /\ cond' = cond
              /\ m \in {"notifyHeld", "unlockNotify"}
           \/ l = "put" /\ tokens' = tokens /\ cond' = cond /\ m = "unlock"
           \/ l = "get" /\ tokens > 0 /\ tokens' = tokens - 1 /\ cond' = cond /\ m = "unlock"
           \/ l = "get" /\ tokens = 0 /\ tokens' = 0 /\ cond' = Append(cond, f) /\ m = "waitUnlock"
  BY <1>0 DEF Put, Get, WaitEnqueue
<1>2. /\ l \in MonitorLabels \ InWaitLabels /\ m \in MonitorLabels
      /\ m \in InWaitLabels <=> m = "waitUnlock"
      /\ pc[f] = l /\ f \notin Elems(mtx.waiters) /\ f \notin Elems(cond)
  <2>1. l \in MonitorLabels \ InWaitLabels /\ m \in MonitorLabels /\ (m \in InWaitLabels <=> m = "waitUnlock")
    BY DEF MonitorLabels, InWaitLabels
  <2>. QED  BY <1>1, <2>1, NotQueued
<1>3. /\ pc'[f] = m /\ next'[f] = next[f] /\ UNCHANGED contractVars
      /\ \A g \in Fibers \ {f} : pc'[g] = pc[g] /\ next'[g] = next[g]
  BY <1>1, GotoTo, MonitorTyped
<1>4. /\ cond' \in Seq(Fibers) /\ NoRepeats(cond')
      /\ m # "waitUnlock" => Elems(cond') = Elems(cond) /\ MonitorQueued' = MonitorQueued
      /\ m = "waitUnlock" => Elems(cond') = Elems(cond) \cup {f} /\ MonitorQueued' = MonitorQueued \cup {f}
  <2>1. /\ Append(cond, f) \in Seq(Fibers) /\ NoRepeats(Append(cond, f))
        /\ Elems(Append(cond, f)) = Elems(cond) \cup {f}
    BY <1>0, <1>2, AppendElems
  <2>. QED  BY <1>0, <1>1, <2>1 DEF MonitorQueued
<1>5. SyncOK(MonitorLabels, InWaitLabels, MonitorQueued)'
  <2>1. SyncOK(MonitorLabels, InWaitLabels, MonitorQueued) /\ At(f, l) /\ Goto(f, m)
    BY <1>1 DEF MonitorIInv
  <2>2. \/ MonitorQueued' = MonitorQueued /\ (l \in InWaitLabels <=> m \in InWaitLabels)
        \/ MonitorQueued' = MonitorQueued \cup {f} /\ l \notin InWaitLabels /\ m \in InWaitLabels
    BY <1>2, <1>4
  <2>. QED  BY <1>2, <2>1, <2>2, GotoKeeps, MonitorProgram
<1>6. MonitorObjects' /\ tokens' \in Nat
  BY <1>0, <1>1, <1>4 DEF MonitorObjects
<1>7. MonitorQueuesAreRight'
  <2>1. Elems(mtx.waiters)' = Elems(mtx.waiters) /\ Elems(cond)' \subseteq Elems(cond) \cup {f}
    BY <1>1, <1>4
  <2>2. f \in Elems(cond)' => InWait(f)'
    BY <1>2, <1>3, <1>4 DEF InWait
  <2>. QED  BY <1>2, <1>3, <2>1, <2>2, MonitorQueuesKeep, MonitorTyped DEF MonitorIInv
<1>8. Ownership'
  <2>1. Owns(f) /\ Owns(f)'
    BY <1>2, <1>3 DEF Owns, Held
  <2>2. mtx.locked
    BY <2>1 DEF MonitorIInv, Ownership
  <2>. QED  BY <1>1, <1>3, <2>1, <2>2, OwnershipKeeps DEF MonitorIInv
<1>9. EnoughUnderWay'
  <2>1. /\ l = "put" => ~Way(f)
        /\ m \in {"notifyHeld", "unlockNotify"} => Way(f)'
    BY <1>2, <1>3 DEF Way, Active, InWait, InsideOp
  <2>2. CASE m = "waitUnlock"
    BY <1>1, <1>3, <1>4, <1>5, <1>6, <1>7, <2>2, EnoughKeeps
  <2>3. CASE cond' = cond
    <3>1. \/ cond' = <<>>
          \/ cond # <<>> /\ tokens' = tokens /\ (Way(f) => Way(f)')
          \/ cond # <<>> /\ tokens' = tokens + 1 /\ ~Way(f) /\ Way(f)'
          \/ cond # <<>> /\ tokens' = tokens - 1
      BY <1>1, <2>1, <2>3
    <3>2. Elems(cond)' \subseteq Elems(cond) \cup {f}
      BY <2>3
    <3>. QED  BY <1>3, <1>5, <1>6, <1>7, <3>1, <3>2, EnoughKeeps
  <2>. QED  BY <1>1, <2>2, <2>3
<1>. QED  BY <1>3, <1>5, <1>6, <1>7, <1>8, <1>9 DEF MonitorIInv

(* condition_variable::wait yields, the mutex being unlocked.  The fiber is *)
(* in the queue of the condition, or was popped from it already.            *)
LEMMA WaitYieldStep ==
  ASSUME MonitorIInv, NEW f \in Fibers, WaitYield(f)
  PROVE  MonitorIInv' /\ Park(f)
<1>0. SyncTypeOK(MonitorLabels)
  BY MonitorTyped
<1>1. /\ At(f, "waitYield") /\ pc[f] = "waitYield" /\ status[f] = "running"
      /\ status' = [status EXCEPT ![f] = "parked"]
      /\ pc' = [pc EXCEPT ![f] = "parked"] /\ next' = [next EXCEPT ![f] = "lockGet"]
      /\ UNCHANGED <<owed, host, toWake, monitorObjs>>
  BY DEF WaitYield, At
<1>2. /\ pc'[f] = "parked" /\ next'[f] = "lockGet" /\ status'[f] = "parked"
      /\ \A g \in Fibers \ {f} : pc'[g] = pc[g] /\ next'[g] = next[g] /\ status'[g] = status[g]
  BY <1>0, <1>1 DEF SyncTypeOK
<1>3. /\ "waitYield" \in MonitorLabels /\ "lockGet" \in MonitorLabels /\ "parked" \in InsideOp
      /\ "lockGet" \notin InWaitLabels /\ "waitYield" \in InWaitLabels
  BY DEF MonitorLabels, InWaitLabels, InsideOp
<1>4. f \notin Elems(mtx.waiters) /\ MonitorQueued' = MonitorQueued /\ cond' = cond /\ mtx' = mtx
  BY <1>1, <1>3, NotQueued DEF MonitorQueued, monitorObjs
<1>5. SyncOK(MonitorLabels, InWaitLabels, MonitorQueued)'
  <2>1. SyncTypeOK(MonitorLabels)'
    BY <1>0, <1>1, <1>3 DEF SyncTypeOK
  <2>2. Registered(InWaitLabels)' = Registered(InWaitLabels)
    <3>1. f \in Registered(InWaitLabels) /\ f \in Registered(InWaitLabels)'
      BY <1>1, <1>2, <1>3 DEF Registered
    <3>. QED  BY <1>2, <3>1, RegisteredAfter
  <2>3. ASSUME NEW g \in Fibers
        PROVE  /\ status'[g] = "parked" <=> pc'[g] = "parked"
               /\ pc'[g] = "push" <=> toWake'[g] # <<>>
               /\ pc'[g] \in {"yield", "parked"} => next'[g] \notin InWaitLabels
    <3>1. CASE g # f
      BY <1>1, <1>2, <3>1 DEF MonitorIInv, SyncOK
    <3>2. CASE g = f
      <4>1. toWake[f] = <<>>
        BY <1>1 DEF MonitorIInv, SyncOK
      <4>. QED  BY <1>1, <1>2, <1>3, <3>2, <4>1
    <3>. QED  BY <3>1, <3>2
  <2>4. Accounted(MonitorQueued, Registered(InWaitLabels), toWake, owed)'
    BY <1>1, <1>4, <2>2 DEF MonitorIInv, SyncOK
  <2>. QED  BY <2>1, <2>3, <2>4 DEF SyncOK
<1>6. (Owns(f)' <=> Owns(f)) /\ (Way(f) => Way(f)') /\ InWait(f)'
  BY <1>1, <1>2, <1>4 DEF Owns, Way, Active, InWait, Held, InsideOp
<1>7. MonitorIInv'
  BY <1>1, <1>2, <1>4, <1>5, <1>6, ObjectsStay
<1>. QED  BY <1>1, <1>7 DEF Park

(* mutex::unlock, from each place that calls it: the first waiter becomes *)
(* the owner, or the mutex becomes free.                                  *)
LEMMA UnlockStep ==
  ASSUME MonitorIInv, NEW f \in Fibers, MonitorUnlock(f)
  PROVE  MonitorIInv' /\ UNCHANGED contractVars
<1>0. PICK r : r = MutexUnlock(mtx)
  OBVIOUS
<1>1. PICK l \in {"unlock", "waitUnlock", "unlockNotify"}, m \in {"out", "waitYield", "notify"} :
        /\ At(f, l) /\ OnMutex(f, r, m)
        /\ l = "waitUnlock" <=> m = "waitYield"
        /\ l = "unlockNotify" <=> m = "notify"
  BY <1>0 DEF MonitorUnlock
<1>2. /\ l \in MonitorLabels /\ m \in MonitorLabels
      /\ l \in InWaitLabels <=> m \in InWaitLabels
      /\ l \in InWaitLabels <=> l = "waitUnlock"
      /\ l \in Held /\ m \notin Held
  BY <1>1 DEF MonitorLabels, InWaitLabels, Held
<1>3. /\ mtx' = r.obj /\ Perform(f, r, m) /\ cond' = cond /\ tokens' = tokens
      /\ pc[f] = l /\ f \notin Elems(mtx.waiters) /\ At(f, l)
  BY <1>1, <1>2, NotQueued DEF OnMutex
<1>4. mtx \in Mutex /\ NoRepeats(mtx.waiters) /\ mtx.waiters \in Seq(Fibers)
  BY DEF MonitorIInv, MonitorObjects, Mutex
<1>5. /\ mtx.locked /\ Owns(f) /\ \A g \in Fibers \ {f} : ~Owns(g)
  <2>1. Owns(f)
    BY <1>2, <1>3 DEF Owns
  <2>. QED  BY <2>1 DEF MonitorIInv, Ownership
<1>6. r.obj \in Mutex /\ ~r.park
  BY <1>0, <1>4, UnlockDoes
<1>7. /\ r.wake # <<>> => pc'[f] = "push"
      /\ r.wake = <<>> => pc'[f] = m
      /\ next'[f] = m
      /\ \A g \in Fibers \ {f} : pc'[g] = pc[g] /\ next'[g] = next[g]
      /\ UNCHANGED contractVars
  BY <1>3, <1>6, MonitorTyped, PerformTo
<1>8. ~Owns(f)'
  BY <1>2, <1>7 DEF Owns, Held
<1>9. Way(f) => Way(f)'
  BY <1>1, <1>3, <1>7 DEF Way, Active, InWait, InsideOp
<1>10. f \in Elems(cond) => InWait(f)'
  <2>1. f \in Elems(cond) => l = "waitUnlock"
    BY <1>1, <1>2, NotQueued
  <2>. QED  BY <1>1, <1>7, <2>1 DEF InWait, InsideOp
<1>11. /\ SyncOK(MonitorLabels, InWaitLabels, MonitorQueued)' /\ Ownership'
       /\ NoRepeats(mtx.waiters)' /\ Elems(mtx.waiters)' \subseteq Elems(mtx.waiters)
  <2>1. CASE mtx.waiters = <<>>
    <3>1. ~r.obj.locked /\ r.obj.waiters = <<>> /\ r.wake = <<>>
      BY <1>0, <1>4, <2>1, UnlockDoes
    <3>2. MonitorQueued' = MonitorQueued
      BY <1>3, <2>1, <3>1 DEF MonitorQueued
    <3>3. SyncOK(MonitorLabels, InWaitLabels, MonitorQueued)'
      <4>1. SyncOK(MonitorLabels, InWaitLabels, MonitorQueued)
        BY DEF MonitorIInv
      <4>. QED  BY <1>2, <1>3, <1>6, <3>1, <3>2, <4>1, PerformKeeps, MonitorProgram
    <3>4. \A g \in Fibers : ~Owns(g)'
      BY <1>3, <1>5, <1>7, <1>8, <2>1, <3>1, MonitorOthersStay
    <3>5. Ownership'
      BY <1>3, <3>1, <3>4 DEF Ownership
    <3>. QED  BY <1>3, <1>4, <2>1, <3>1, <3>3, <3>5
  <2>2. CASE mtx.waiters # <<>>
    <3>1. PICK h \in Fibers :
            /\ r.obj.locked = mtx.locked /\ r.wake = <<h>> /\ h \in Elems(mtx.waiters)
            /\ NoRepeats(r.obj.waiters)
            /\ Elems(r.obj.waiters) = Elems(mtx.waiters) \ {h}
      BY <1>0, <1>4, <2>2, UnlockDoes
    <3>2. Elems(r.wake) = {h} /\ NoRepeats(r.wake) /\ r.wake \in Seq(Fibers) /\ r.wake # <<>>
      BY <3>1, SmallQueues
    <3>3. MonitorQueued' = MonitorQueued \ {h} /\ h \in MonitorQueued
      <4>1. h \notin Elems(cond)
        BY <3>1, MonitorOneQueueEach DEF MonitorIInv
      <4>. QED  BY <1>3, <3>1, <4>1 DEF MonitorQueued
    <3>4. SyncOK(MonitorLabels, InWaitLabels, MonitorQueued)'
      <4>1. SyncOK(MonitorLabels, InWaitLabels, MonitorQueued)
        BY DEF MonitorIInv
      <4>2. Elems(r.wake) \subseteq MonitorQueued /\ MonitorQueued' = MonitorQueued \ Elems(r.wake)
        BY <3>2, <3>3
      <4>. QED  BY <1>2, <1>3, <1>6, <3>2, <4>1, <4>2, PerformKeeps, MonitorProgram
    <3>5. h # f /\ h \notin Elems(mtx.waiters)'
      BY <1>3, <3>1
    <3>6. Owns(h)'
      <4>1. pc'[h] \in {"yield", "parked"} /\ next'[h] \in {"get", "put"}
        BY <1>7, <3>1, <3>5 DEF MonitorIInv, MonitorQueuesAreRight
      <4>. QED  BY <3>5, <4>1 DEF Owns, WaitsForMutex, Held, InsideOp
    <3>7. \A g \in Fibers \ {f, h} : ~Owns(g)'
      BY <1>3, <1>5, <1>7, <3>1, MonitorOthersStay
    <3>8. Ownership'
      BY <1>3, <1>5, <1>8, <3>1, <3>6, <3>7 DEF Ownership
    <3>. QED  BY <1>3, <3>1, <3>4, <3>8
  <2>. QED  BY <2>1, <2>2
<1>12. MonitorObjects'
  BY <1>3, <1>6, <1>11 DEF MonitorIInv, MonitorObjects
<1>13. MonitorQueuesAreRight'
  <2>1. f \notin Elems(mtx.waiters)' /\ Elems(cond)' = Elems(cond)
    BY <1>3, <1>11
  <2>. QED  BY <1>7, <1>10, <1>11, <2>1, MonitorQueuesKeep, MonitorTyped DEF MonitorIInv
<1>14. EnoughUnderWay'
  <2>1. tokens' \in Nat
    BY <1>12 DEF MonitorObjects
  <2>. QED  BY <1>3, <1>7, <1>9, <1>11, <1>13, <2>1, EnoughKeeps
<1>. QED  BY <1>7, <1>11, <1>12, <1>13, <1>14 DEF MonitorIInv

(* notify_one and notify_all pop waiters, who are under way from then on.   *)
LEMMA NotifyStep ==
  ASSUME MonitorIInv, NEW f \in Fibers, Notify(f)
  PROVE  MonitorIInv' /\ UNCHANGED contractVars
<1>1. PICK r : /\ r = NotifyOne(cond) \/ r = NotifyAll(cond)
               /\ \/ At(f, "notify") /\ OnCond(f, r, "out")
                  \/ At(f, "notifyHeld") /\ OnCond(f, r, "unlock")
  BY DEF Notify
<1>2. PICK l \in {"notify", "notifyHeld"}, m \in {"out", "unlock"} :
        /\ At(f, l) /\ OnCond(f, r, m)
        /\ l = "notify" <=> m = "out"
  BY <1>1
<1>3. /\ l \in MonitorLabels \ InWaitLabels /\ m \in MonitorLabels \ InWaitLabels
      /\ l \in Held <=> m \in Held
  BY <1>2 DEF MonitorLabels, InWaitLabels, Held
<1>4. /\ cond' = r.obj /\ Perform(f, r, m) /\ mtx' = mtx /\ tokens' = tokens
      /\ pc[f] = l /\ f \notin Elems(mtx.waiters) /\ f \notin Elems(cond) /\ At(f, l)
  BY <1>2, <1>3, NotQueued DEF OnCond
<1>5. /\ r.obj \in Seq(Fibers) /\ NoRepeats(r.obj) /\ ~r.park
      /\ r.wake \in Seq(Fibers) /\ NoRepeats(r.wake)
      /\ Elems(r.wake) \subseteq Elems(cond) /\ Elems(r.obj) = Elems(cond) \ Elems(r.wake)
      /\ r.obj # <<>> => \E h \in Fibers : r.wake = <<h>> /\ h \in Elems(cond)
  <2>1. cond \in Seq(Fibers) /\ NoRepeats(cond)
    BY DEF MonitorIInv, MonitorObjects
  <2>. QED  BY <1>1, <2>1, NotifyDoes
<1>6. /\ r.wake # <<>> => pc'[f] = "push"
      /\ r.wake = <<>> => pc'[f] = m
      /\ next'[f] = m
      /\ \A g \in Fibers \ {f} : pc'[g] = pc[g] /\ next'[g] = next[g]
      /\ UNCHANGED contractVars
  BY <1>4, <1>5, MonitorTyped, PerformTo
<1>7. SyncOK(MonitorLabels, InWaitLabels, MonitorQueued)'
  <2>1. Elems(r.wake) \subseteq MonitorQueued /\ MonitorQueued' = MonitorQueued \ Elems(r.wake)
    BY <1>4, <1>5, MonitorOneQueueEach DEF MonitorQueued, MonitorIInv
  <2>2. SyncOK(MonitorLabels, InWaitLabels, MonitorQueued)
    BY DEF MonitorIInv
  <2>. QED  BY <1>3, <1>4, <1>5, <2>1, <2>2, PerformKeeps, MonitorProgram
<1>8. MonitorObjects'
  BY <1>4, <1>5 DEF MonitorIInv, MonitorObjects
<1>9. MonitorQueuesAreRight'
  <2>1. Elems(mtx.waiters)' = Elems(mtx.waiters) /\ Elems(cond)' \subseteq Elems(cond)
    BY <1>4, <1>5
  <2>. QED  BY <1>4, <1>6, <2>1, MonitorQueuesKeep, MonitorTyped DEF MonitorIInv
<1>10. Ownership'
  <2>1. Owns(f)' <=> Owns(f)
    <3>1. ~WaitsForMutex(f) /\ ~WaitsForMutex(f)'
      BY <1>4 DEF WaitsForMutex
    <3>2. "push" \in InsideOp /\ Held \cap InsideOp = {} /\ MonitorLabels \cap InsideOp = {}
      BY DEF InsideOp, Held, MonitorLabels
    <3>. QED  BY <1>3, <1>4, <1>6, <3>1, <3>2 DEF Owns
  <2>2. mtx.locked' = mtx.locked /\ (mtx.locked \/ mtx.waiters' = <<>>)
    BY <1>4 DEF MonitorIInv, Ownership
  <2>. QED  BY <1>4, <1>6, <2>1, <2>2, OwnershipKeeps DEF MonitorIInv
<1>11. EnoughUnderWay'
  <2>1. tokens' \in Nat
    BY <1>8 DEF MonitorObjects
  <2>2. CASE cond' = <<>>
    BY <2>2 DEF EnoughUnderWay
  <2>3. CASE cond' # <<>>
    <3>1. PICK h \in Fibers : r.wake = <<h>> /\ h \in Elems(cond)
      BY <1>4, <1>5, <2>3
    <3>2. h # f /\ h \notin Elems(cond)'
      BY <1>4, <1>5, <3>1, SmallQueues
    <3>3. cond # <<>>
      BY <3>1, SmallQueues
    <3>4. Elems(cond)' \subseteq Elems(cond) \cup {f}
      BY <1>4, <1>5
    <3>. QED  BY <1>4, <1>6, <1>7, <1>9, <2>1, <3>1, <3>2, <3>3, <3>4, EnoughKeeps
  <2>. QED  BY <2>2, <2>3
<1>. QED  BY <1>6, <1>7, <1>8, <1>9, <1>10, <1>11 DEF MonitorIInv

-----------------------------------------------------------------------------
(* The theorems *)

(* The invariant holds at the start ... *)
LEMMA MonitorIInvInit == MonitorInit => MonitorIInv
<1> SUFFICES ASSUME MonitorInit PROVE MonitorIInv
  OBVIOUS
<1>1. /\ mtx = [locked |-> FALSE, waiters |-> <<>>] /\ cond = <<>> /\ tokens = 0
      /\ Elems(<<>>) = {} /\ NoRepeats(<<>>)
  BY SmallQueues DEF MonitorInit, NewMutex
<1>2. MonitorQueued = {}
  BY <1>1 DEF MonitorQueued
<1>3. SyncOK(MonitorLabels, InWaitLabels, MonitorQueued)
  <2>1. "out" \in MonitorLabels \ InWaitLabels
    BY DEF MonitorLabels, InWaitLabels
  <2>. QED  BY <1>2, <2>1, StartsOK DEF MonitorInit
<1>4. MonitorObjects
  BY <1>1, MonitorAssumption DEF MonitorObjects, Mutex
<1>5. MonitorQueuesAreRight
  BY <1>1 DEF MonitorQueuesAreRight
<1>6. Ownership
  <2>1. \A f \in Fibers : pc[f] = "parked" /\ next[f] = "out"
    BY DEF MonitorInit, SyncInit
  <2>. QED  BY <1>1, <2>1 DEF Ownership, Owns, Held
<1>7. EnoughUnderWay
  BY <1>1 DEF EnoughUnderWay
<1>. QED  BY <1>3, <1>4, <1>5, <1>6, <1>7 DEF MonitorIInv

(* ... and at every step, which is one of the contract or none of its       *)
(* business.                                                                *)
LEMMA MonitorIInvStep == MonitorIInv /\ [MonitorNext]_monitorVars => MonitorIInv' /\ [ContractNext]_contractVars
<1> SUFFICES ASSUME MonitorIInv, [MonitorNext]_monitorVars
             PROVE  MonitorIInv' /\ [ContractNext]_contractVars
  OBVIOUS
<1>1. CASE UNCHANGED monitorVars
  <2>1. UNCHANGED monitorObjs /\ UNCHANGED syncVars /\ UNCHANGED contractVars
        /\ UNCHANGED <<pc, next, toWake, status, owed, host>>
    BY <1>1 DEF monitorVars, monitorObjs, syncVars, contractVars
  <2>2. MonitorIInv'
    BY <2>1 DEF MonitorIInv, SyncOK, SyncTypeOK, Registered, Accounted, MonitorObjects, MonitorQueuesAreRight,
      Ownership, EnoughUnderWay, Moving, UnderWay, Notified, InWait, Owns, WaitsForMutex,
      MonitorQueued, monitorObjs
  <2>. QED  BY <2>1, <2>2
<1>2. ASSUME NEW f \in Fibers,
             \/ SyncStep(f) /\ UNCHANGED monitorObjs
             \/ MonitorBegin(f) \/ MonitorRest(f) \/ TryLockGet(f) \/ Proceed(f) \/ PauseHolding(f)
      PROVE  MonitorIInv' /\ [ContractNext]_contractVars
  <2>1. CASE SyncStep(f) /\ UNCHANGED monitorObjs
    BY <2>1, MonitorSyncSteps
  <2>2. CASE MonitorBegin(f) \/ MonitorRest(f) \/ PauseHolding(f)
    BY <2>2, MonitorOutside
  <2>3. CASE TryLockGet(f)
    BY <2>3, TryLockStep
  <2>4. CASE MonitorLock(f)
    BY <2>4, LockStep
  <2>5. CASE Put(f) \/ Get(f) \/ WaitEnqueue(f)
    BY <2>5, HolderStep
  <2>6. CASE WaitYield(f)
    BY <2>6, WaitYieldStep DEF ContractNext
  <2>7. CASE MonitorUnlock(f)
    BY <2>7, UnlockStep
  <2>8. CASE Notify(f)
    BY <2>8, NotifyStep
  <2>. QED  BY <1>2, <2>1, <2>2, <2>3, <2>4, <2>5, <2>6, <2>7, <2>8 DEF Proceed
<1>. QED  BY <1>1, <1>2 DEF MonitorNext

(* It says what MonitorInv says: the owner is one, and the fibers that are  *)
(* under way are at least as many as the tokens, so there is one.           *)
LEMMA MonitorIInvImplies == MonitorIInv => MonitorInv
<1> SUFFICES ASSUME MonitorIInv PROVE MonitorInv
  OBVIOUS
<1>1. MonitorTypeOK
  BY DEF MonitorIInv, SyncOK, MonitorObjects, MonitorTypeOK
<1>2. OneOwner
  <2>1. CASE mtx.locked
    <3>1. PICK o \in Fibers : \A f \in Fibers : Owns(f) <=> f = o
      BY <2>1 DEF MonitorIInv, Ownership
    <3>2. {f \in Fibers : Owns(f)} = {o}
      BY <3>1
    <3>. QED  BY <2>1, <3>2, FS_Singleton DEF OneOwner
  <2>2. CASE ~mtx.locked
    <3>1. {f \in Fibers : Owns(f)} = {} /\ mtx.waiters = <<>>
      BY <2>2 DEF MonitorIInv, Ownership
    <3>. QED  BY <2>2, <3>1, FS_EmptySet DEF OneOwner
  <2>. QED  BY <2>1, <2>2
<1>3. NoLostWakeup
  <2>1. \A f \in Fibers : InWait(f) => f \in Elems(cond) \/ Notified(f)
    BY UnderWayIs DEF MonitorIInv, WaysAreExact
  <2>2. ASSUME tokens > 0, cond # <<>>
        PROVE  \E f \in Fibers : UnderWay(f)
    <3>1. tokens \in Nat /\ tokens <= Cardinality(Moving)
      BY <2>2 DEF MonitorIInv, EnoughUnderWay, MonitorObjects
    <3>2. Moving # {}
      BY <2>2, <3>1, FS_EmptySet
    <3>. QED  BY <3>2 DEF Moving
  <2>. QED  BY <2>1, <2>2 DEF NoLostWakeup
<1>. QED  BY <1>1, <1>2, <1>3 DEF MonitorInv

(* mutex and condition_variable, for any number of fibers, threads and      *)
(* tokens: one owner at a time, from the moment the mutex is handed over;   *)
(* nobody waits for a free mutex; and no wake-up is lost, wherever the      *)
(* notification falls between the release and the Yield of a waiter.        *)
THEOREM MonitorIsSafe == MonitorSpec => []MonitorInv
<1>1. MonitorSpec => []MonitorIInv
  BY MonitorIInvInit, MonitorIInvStep, PTL DEF MonitorSpec
<1>. QED  BY <1>1, MonitorIInvImplies, PTL

(* They use the scheduler as they must: whoever parks has registered itself *)
(* first, nobody is resumed twice, and no fiber that runs is resumed.       *)
THEOREM MonitorRespectsContract == MonitorSpec => RespectsContract
<1>1. MonitorSpec => []MonitorIInv
  BY MonitorIInvInit, MonitorIInvStep, PTL DEF MonitorSpec
<1>. QED  BY <1>1, MonitorIInvStep, PTL DEF MonitorSpec, RespectsContract

-----------------------------------------------------------------------------
(***************************************************************************)
(* FiberRWLock: fiber::shared_mutex, for any number of readers, writers and *)
(* threads.                                                                *)
(***************************************************************************)

(* The inductive invariant *)

RWQueued == Elems(rw.rwaiters) \cup Elems(rw.wwaiters)

Object ==
  rw \in SharedMutex /\ NoRepeats(rw.rwaiters) /\ NoRepeats(rw.wwaiters)

(* A fiber in a queue is where lock or lock_shared left it.                 *)
RWQueuesAreRight ==
  /\ \A f \in Elems(rw.rwaiters) : pc[f] \in {"yield", "parked"} /\ next[f] = "reading"
  /\ \A f \in Elems(rw.wwaiters) : pc[f] \in {"yield", "parked"} /\ next[f] = "writing"

(* The two states of the lock: one writer alone, or as many readers as the *)
(* state word says.                                                        *)
Exclusive == /\ rw.state = -1 /\ ReadHolders = {}
             /\ \E w \in Fibers : WriteHolders = {w}
Shared == WriteHolders = {} /\ rw.state = Cardinality(ReadHolders)

RWIInv == /\ SyncOK(RWLabels, {}, RWQueued)
          /\ Object /\ RWQueuesAreRight /\ (Exclusive \/ Shared) /\ WaitersHaveABlocker

-----------------------------------------------------------------------------
(* Helpers *)

(* The labels are those of a program. *)
LEMMA LockProgram == Program(RWLabels, {})
BY DEF Program, RWLabels, InsideOp

(* The state space is typed. *)
LEMMA RWTyped ==
  ASSUME RWIInv
  PROVE  /\ SyncTypeOK(RWLabels) /\ rw.state \in Int
         /\ rw.rwaiters \in Seq(Fibers) /\ rw.wwaiters \in Seq(Fibers) /\ RWQueued \subseteq Fibers
<1>1. SyncTypeOK(RWLabels)
  BY DEF RWIInv, SyncOK
<1>2. rw.rwaiters \in Seq(Fibers) /\ rw.wwaiters \in Seq(Fibers) /\ rw.state \in Int
  BY DEF RWIInv, Object, SharedMutex
<1>3. \A s \in Seq(Fibers) : Elems(s) \subseteq Fibers
  BY DEF Elems
<1>. QED  BY <1>1, <1>2, <1>3 DEF RWQueued

(* How many readers there are. *)
LEMMA CountReaders ==
  ASSUME RWIInv
  PROVE  /\ Cardinality(ReadHolders) \in Nat
         /\ Cardinality(ReadHolders) = 0 <=> ReadHolders = {}
         /\ \A f :
              /\ f \notin ReadHolders =>
                   Cardinality(ReadHolders \cup {f}) = Cardinality(ReadHolders) + 1
              /\ f \in ReadHolders =>
                   /\ Cardinality(ReadHolders \ {f}) = Cardinality(ReadHolders) - 1
                   /\ Cardinality(ReadHolders) = 1 => ReadHolders = {f}
<1>1. IsFiniteSet(ReadHolders)
  BY SyncFibersAssumption, FS_Subset DEF ReadHolders, Holders
<1>2. Cardinality(ReadHolders) \in Nat /\ (Cardinality(ReadHolders) = 0 <=> ReadHolders = {})
  BY <1>1, FS_CardinalityType, FS_EmptySet
<1>3. Cardinality(ReadHolders) = 1 <=> \E x : ReadHolders = {x}
  BY <1>1, FS_Singleton
<1>. QED  BY <1>1, <1>2, <1>3, FS_AddElement, FS_RemoveElement

(* What is true of a fiber that stays where it is does not change. *)
LEMMA OthersHold ==
  ASSUME NEW f \in Fibers, \A g \in Fibers \ {f} : pc'[g] = pc[g] /\ next'[g] = next[g],
         NEW g \in Fibers \ {f}
  PROVE  /\ (g \in Elems(rw.wwaiters)' <=> g \in Elems(rw.wwaiters))
              => (g \in WriteHolders' <=> g \in WriteHolders)
         /\ (g \in Elems(rw.rwaiters)' <=> g \in Elems(rw.rwaiters))
              => (g \in ReadHolders' <=> g \in ReadHolders)
BY DEF WriteHolders, ReadHolders, Holders

(* The queues keep those who stay in them. *)
LEMMA RWQueuesKeep ==
  ASSUME RWQueuesAreRight, NEW f \in Fibers, RWQueued \subseteq Fibers,
         \A g \in Fibers \ {f} : pc'[g] = pc[g] /\ next'[g] = next[g],
         Elems(rw.rwaiters)' \subseteq Elems(rw.rwaiters) \cup {f},
         Elems(rw.wwaiters)' \subseteq Elems(rw.wwaiters) \cup {f},
         f \in Elems(rw.rwaiters)' => pc'[f] \in {"yield", "parked"} /\ next'[f] = "reading",
         f \in Elems(rw.wwaiters)' => pc'[f] \in {"yield", "parked"} /\ next'[f] = "writing"
  PROVE  RWQueuesAreRight'
BY DEF RWQueuesAreRight, RWQueued

(* A fiber at a label waits for nothing, and holds what the label says.     *)
LEMMA AtLabelHolds ==
  ASSUME RWIInv, NEW f \in Fibers, NEW l \in RWLabels, At(f, l)
  PROVE  /\ pc[f] = l /\ f \notin Elems(rw.rwaiters) /\ f \notin Elems(rw.wwaiters)
         /\ f \in WriteHolders <=> l = "writing"
         /\ f \in ReadHolders <=> l = "reading"
BY DEF RWIInv, RWQueuesAreRight, WriteHolders, ReadHolders, Holders, At, RWLabels, InsideOp

(* A fiber holds the lock when it waits no more and has lock() behind it. *)
LEMMA HoldsNext ==
  ASSUME NEW f \in Fibers
  PROVE  /\ f \in WriteHolders' <=>
              \/ pc'[f] = "writing"
              \/ pc'[f] \in InsideOp /\ next'[f] = "writing" /\ f \notin Elems(rw.wwaiters)'
         /\ f \in ReadHolders' <=>
              \/ pc'[f] = "reading"
              \/ pc'[f] \in InsideOp /\ next'[f] = "reading" /\ f \notin Elems(rw.rwaiters)'
BY DEF WriteHolders, ReadHolders, Holders

(* A step after which the same fibers hold the lock and wait for it. *)
LEMMA LockStays ==
  ASSUME RWIInv, NEW f \in Fibers, rw' = rw,
         \A g \in Fibers \ {f} : pc'[g] = pc[g] /\ next'[g] = next[g],
         SyncOK(RWLabels, {}, RWQueued)',
         f \in RWQueued => pc'[f] \in {"yield", "parked"} /\ next'[f] = next[f],
         f \in WriteHolders' <=> f \in WriteHolders,
         f \in ReadHolders' <=> f \in ReadHolders
  PROVE  RWIInv' /\ ReadHolders' = ReadHolders
<1>1. WriteHolders' = WriteHolders /\ ReadHolders' = ReadHolders
  <2>1. \A g \in Fibers : /\ g \in WriteHolders' <=> g \in WriteHolders
                          /\ g \in ReadHolders' <=> g \in ReadHolders
    BY OthersHold
  <2>2. WriteHolders \subseteq Fibers /\ WriteHolders' \subseteq Fibers
        /\ ReadHolders \subseteq Fibers /\ ReadHolders' \subseteq Fibers
    BY DEF WriteHolders, ReadHolders, Holders
  <2>. QED  BY <2>1, <2>2
<1>2. RWQueuesAreRight'
  BY RWTyped, RWQueuesKeep DEF RWIInv, RWQueuesAreRight, RWQueued
<1>3. Object' /\ (Exclusive \/ Shared)' /\ WaitersHaveABlocker'
  BY <1>1 DEF RWIInv, Object, Exclusive, Shared, WaitersHaveABlocker
<1>. QED  BY <1>1, <1>2, <1>3 DEF RWIInv

-----------------------------------------------------------------------------
(* The steps.  NoReaderPasses is what WritersFirst says of one of them.     *)

NoReaderPasses == rw.wwaiters # <<>> => ReadHolders' \subseteq ReadHolders

(* Yield, push and resume. *)
LEMMA RWSyncSteps ==
  ASSUME RWIInv, NEW f \in Fibers, SyncStep(f), rw' = rw
  PROVE  RWIInv' /\ ContractNext /\ NoReaderPasses
<1>0. RWQueued' = RWQueued
  BY DEF RWQueued
<1>1. /\ SyncOK(RWLabels, {}, RWQueued)' /\ ContractNext
      /\ ResumeStep(f) => pc[f] = "parked" /\ f \notin RWQueued
  BY <1>0, SyncStepKeeps, LockProgram DEF RWIInv
<1>2. /\ next'[f] = next[f]
      /\ \A g \in Fibers \ {f} : pc'[g] = pc[g] /\ next'[g] = next[g]
      /\ \/ pc[f] = "yield" /\ pc'[f] = "parked"
         \/ pc[f] = "push" /\ pc'[f] \in {"push", next[f]}
         \/ pc[f] = "parked" /\ pc'[f] = next[f] /\ f \notin RWQueued
  BY <1>1, RWTyped, SyncStepTo
<1>3. next[f] \in RWLabels
  BY RWTyped DEF SyncTypeOK
<1>4. /\ f \in RWQueued => pc'[f] \in {"yield", "parked"}
      /\ pc[f] = "push" => f \notin RWQueued
  BY <1>2 DEF RWIInv, RWQueuesAreRight, RWQueued
<1>5. /\ f \in WriteHolders' <=> f \in WriteHolders
      /\ f \in ReadHolders' <=> f \in ReadHolders
  <2>1. /\ f \in WriteHolders <=>
             pc[f] = "writing" \/ (pc[f] \in InsideOp /\ next[f] = "writing" /\ f \notin Elems(rw.wwaiters))
        /\ f \in ReadHolders <=>
             pc[f] = "reading" \/ (pc[f] \in InsideOp /\ next[f] = "reading" /\ f \notin Elems(rw.rwaiters))
    BY DEF WriteHolders, ReadHolders, Holders
  <2>. QED  BY <1>2, <1>3, <1>4, <2>1, HoldsNext DEF RWQueued, RWLabels, InsideOp
<1>. QED  BY <1>1, <1>2, <1>4, <1>5, LockStays DEF NoReaderPasses

(* Going to lock, and yielding with or without the lock. *)
LEMMA RWOutside ==
  ASSUME RWIInv, NEW f \in Fibers, RWBegin(f) \/ RWRest(f)
  PROVE  RWIInv' /\ (ContractNext \/ UNCHANGED contractVars) /\ NoReaderPasses
<1>0. RWQueued' = RWQueued /\ rw' = rw
  BY DEF RWQueued, RWBegin, RWRest
<1>1. PICK l \in {"out", "writing", "reading"} : At(f, l)
  BY DEF RWBegin, RWRest
<1>2. /\ pc[f] = l /\ f \notin RWQueued /\ l \in RWLabels
      /\ f \in WriteHolders <=> l = "writing"
      /\ f \in ReadHolders <=> l = "reading"
  <2>1. l \in RWLabels
    BY DEF RWLabels
  <2>. QED  BY <1>1, <2>1, AtLabelHolds DEF RWQueued
<1>3. CASE RWBegin(f)
  <2>1. PICK m \in {"wrLock", "rdLock"} : At(f, "out") /\ Goto(f, m)
    BY <1>3 DEF RWBegin
  <2>2. l = "out" /\ m \in RWLabels
    BY <1>2, <2>1 DEF At, RWLabels
  <2>3. /\ pc'[f] = m /\ next'[f] = next[f] /\ UNCHANGED contractVars
        /\ \A g \in Fibers \ {f} : pc'[g] = pc[g] /\ next'[g] = next[g]
    BY <2>1, GotoTo, RWTyped
  <2>4. SyncOK(RWLabels, {}, RWQueued)'
    BY <1>0, <1>1, <1>2, <2>1, <2>2, GotoKeeps, LockProgram DEF RWIInv
  <2>5. f \notin WriteHolders' /\ f \notin ReadHolders'
    BY <2>3, HoldsNext DEF InsideOp
  <2>. QED  BY <1>0, <1>2, <2>2, <2>3, <2>4, <2>5, LockStays DEF NoReaderPasses
<1>4. CASE Pause(f)
  <2>1. /\ pc'[f] = "parked" /\ next'[f] = l
        /\ \A g \in Fibers \ {f} : pc'[g] = pc[g] /\ next'[g] = next[g]
    BY <1>2, <1>4, PauseTo, RWTyped
  <2>2. SyncOK(RWLabels, {}, RWQueued)' /\ YieldNow(f)
    BY <1>0, <1>1, <1>2, <1>4, PauseKeeps, LockProgram DEF RWIInv
  <2>3. /\ f \in WriteHolders' <=> l = "writing"
        /\ f \in ReadHolders' <=> l = "reading"
    <3>1. f \notin Elems(rw.wwaiters)' /\ f \notin Elems(rw.rwaiters)'
      BY <1>0, <1>2 DEF RWQueued
    <3>. QED  BY <2>1, <3>1, HoldsNext DEF InsideOp
  <2>. QED  BY <1>0, <1>2, <2>1, <2>2, <2>3, LockStays DEF ContractNext, NoReaderPasses
<1>. QED  BY <1>3, <1>4 DEF RWRest

(* lock and try_lock *)
LEMMA WriterLocks ==
  ASSUME RWIInv, NEW f \in Fibers, NEW l \in {"wrLock", "out"}, At(f, l),
         On(f, ExclusiveLock(rw, f), "writing")
  PROVE  RWIInv' /\ UNCHANGED contractVars /\ NoReaderPasses
<1>0. PICK r : r = ExclusiveLock(rw, f)
  OBVIOUS
<1>1. /\ l \in RWLabels /\ "writing" \in RWLabels
      /\ pc[f] = l /\ f \notin Elems(rw.rwaiters) /\ f \notin Elems(rw.wwaiters)
      /\ f \notin WriteHolders /\ f \notin ReadHolders
  <2>1. l \in RWLabels /\ "writing" \in RWLabels
    BY DEF RWLabels
  <2>. QED  BY <2>1, AtLabelHolds
<1>2. rw' = r.obj /\ Perform(f, r, "writing")
  BY <1>0 DEF On
<1>3. /\ r.obj \in SharedMutex /\ r.wake = <<>> /\ r.obj.rwaiters = rw.rwaiters
      /\ rw.state = 0 => ~r.park /\ r.obj.state = -1 /\ r.obj.wwaiters = rw.wwaiters
      /\ rw.state # 0 => /\ r.park /\ r.obj.state = rw.state
                         /\ Elems(r.obj.wwaiters) = Elems(rw.wwaiters) \cup {f}
                         /\ NoRepeats(r.obj.wwaiters)
  <2>1. rw \in SharedMutex /\ NoRepeats(rw.wwaiters) /\ f \notin Elems(rw.wwaiters)
    BY <1>1 DEF RWIInv, Object
  <2>. QED  BY <1>0, <2>1, ExclusiveLockDoes
<1>4. /\ r.park => pc'[f] = "yield"
      /\ ~r.park => pc'[f] = "writing"
      /\ next'[f] = "writing"
      /\ \A g \in Fibers \ {f} : pc'[g] = pc[g] /\ next'[g] = next[g]
      /\ UNCHANGED contractVars
  BY <1>2, <1>3, RWTyped, PerformTo
<1>5. SyncOK(RWLabels, {}, RWQueued)'
  <2>1. SyncOK(RWLabels, {}, RWQueued) /\ Program(RWLabels, {})
    BY LockProgram DEF RWIInv
  <2>2. /\ ~r.park => RWQueued' = RWQueued
        /\ r.park => RWQueued' = RWQueued \cup {f}
    BY <1>2, <1>3 DEF RWQueued
  <2>. QED  BY <1>1, <1>2, <1>3, <2>1, <2>2, PerformKeeps
<1>6. Object'
  BY <1>2, <1>3 DEF RWIInv, Object
<1>7. RWQueuesAreRight'
  <2>1. /\ Elems(rw.rwaiters)' = Elems(rw.rwaiters)
        /\ Elems(rw.wwaiters)' \subseteq Elems(rw.wwaiters) \cup {f}
        /\ f \in Elems(rw.wwaiters)' => pc'[f] = "yield"
    BY <1>1, <1>2, <1>3, <1>4
  <2>. QED  BY <1>1, <1>4, <2>1, RWQueuesKeep, RWTyped DEF RWIInv
<1>8. \A g \in Fibers \ {f} : /\ g \in WriteHolders' <=> g \in WriteHolders
                              /\ g \in ReadHolders' <=> g \in ReadHolders
  BY <1>2, <1>3, <1>4, OthersHold
<1>9. /\ WriteHolders \subseteq Fibers /\ WriteHolders' \subseteq Fibers
      /\ ReadHolders \subseteq Fibers /\ ReadHolders' \subseteq Fibers
  BY DEF WriteHolders, ReadHolders, Holders
<1>10. ReadHolders' = ReadHolders
  <2>1. f \notin ReadHolders'
    BY <1>4, HoldsNext
  <2>. QED  BY <1>1, <1>8, <1>9, <2>1
<1>11. (Exclusive \/ Shared)' /\ WaitersHaveABlocker'
  <2>1. CASE rw.state = 0
    <3>1. f \in WriteHolders'
      BY <1>3, <1>4, <2>1, HoldsNext
    <3>2. WriteHolders = {} /\ ReadHolders = {}
      BY <2>1, CountReaders DEF RWIInv, Exclusive, Shared
    <3>3. WriteHolders' = {f} /\ ReadHolders' = {}
      BY <1>8, <1>9, <1>10, <3>1, <3>2
    <3>. QED  BY <1>2, <1>3, <2>1, <3>3 DEF Exclusive, WaitersHaveABlocker
  <2>2. CASE rw.state # 0
    <3>1. f \notin WriteHolders'
      BY <1>2, <1>3, <1>4, <2>2, HoldsNext
    <3>2. WriteHolders' = WriteHolders
      BY <1>1, <1>8, <1>9, <3>1
    <3>3. (Exclusive \/ Shared)'
      BY <1>2, <1>3, <1>10, <2>2, <3>2 DEF RWIInv, Exclusive, Shared
    <3>4. rw.wwaiters' # <<>>
      BY <1>2, <1>3, <2>2, SmallQueues
    <3>. QED  BY <1>2, <1>3, <2>2, <3>3, <3>4 DEF WaitersHaveABlocker
  <2>. QED  BY <2>1, <2>2
<1>. QED  BY <1>4, <1>5, <1>6, <1>7, <1>10, <1>11 DEF RWIInv, NoReaderPasses

(* lock_shared and try_lock_shared *)
LEMMA ReaderLocks ==
  ASSUME RWIInv, NEW f \in Fibers, NEW l \in {"rdLock", "out"}, At(f, l),
         On(f, SharedLock(rw, f), "reading")
  PROVE  RWIInv' /\ UNCHANGED contractVars /\ NoReaderPasses
<1>0. PICK r : r = SharedLock(rw, f)
  OBVIOUS
<1>1. /\ l \in RWLabels /\ "reading" \in RWLabels
      /\ pc[f] = l /\ f \notin Elems(rw.rwaiters) /\ f \notin Elems(rw.wwaiters)
      /\ f \notin WriteHolders /\ f \notin ReadHolders
  <2>1. l \in RWLabels /\ "reading" \in RWLabels
    BY DEF RWLabels
  <2>. QED  BY <2>1, AtLabelHolds
<1>2. rw' = r.obj /\ Perform(f, r, "reading")
  BY <1>0 DEF On
<1>3. /\ r.obj \in SharedMutex /\ r.wake = <<>> /\ r.obj.wwaiters = rw.wwaiters
      /\ MayShare(rw) => ~r.park /\ r.obj.state = rw.state + 1 /\ r.obj.rwaiters = rw.rwaiters
      /\ ~MayShare(rw) => /\ r.park /\ r.obj.state = rw.state
                          /\ Elems(r.obj.rwaiters) = Elems(rw.rwaiters) \cup {f}
                          /\ NoRepeats(r.obj.rwaiters)
  <2>1. rw \in SharedMutex /\ NoRepeats(rw.rwaiters) /\ f \notin Elems(rw.rwaiters)
    BY <1>1 DEF RWIInv, Object
  <2>. QED  BY <1>0, <2>1, SharedLockDoes
<1>4. /\ r.park => pc'[f] = "yield"
      /\ ~r.park => pc'[f] = "reading"
      /\ next'[f] = "reading"
      /\ \A g \in Fibers \ {f} : pc'[g] = pc[g] /\ next'[g] = next[g]
      /\ UNCHANGED contractVars
  BY <1>2, <1>3, RWTyped, PerformTo
<1>5. SyncOK(RWLabels, {}, RWQueued)'
  <2>1. SyncOK(RWLabels, {}, RWQueued) /\ Program(RWLabels, {})
    BY LockProgram DEF RWIInv
  <2>2. /\ ~r.park => RWQueued' = RWQueued
        /\ r.park => RWQueued' = RWQueued \cup {f}
    BY <1>2, <1>3 DEF RWQueued
  <2>. QED  BY <1>1, <1>2, <1>3, <2>1, <2>2, PerformKeeps
<1>6. Object'
  BY <1>2, <1>3 DEF RWIInv, Object
<1>7. RWQueuesAreRight'
  <2>1. /\ Elems(rw.wwaiters)' = Elems(rw.wwaiters)
        /\ Elems(rw.rwaiters)' \subseteq Elems(rw.rwaiters) \cup {f}
        /\ f \in Elems(rw.rwaiters)' => pc'[f] = "yield"
    BY <1>1, <1>2, <1>3, <1>4
  <2>. QED  BY <1>1, <1>4, <2>1, RWQueuesKeep, RWTyped DEF RWIInv
<1>8. \A g \in Fibers \ {f} : /\ g \in WriteHolders' <=> g \in WriteHolders
                              /\ g \in ReadHolders' <=> g \in ReadHolders
  BY <1>2, <1>3, <1>4, OthersHold
<1>9. /\ WriteHolders \subseteq Fibers /\ WriteHolders' \subseteq Fibers
      /\ ReadHolders \subseteq Fibers /\ ReadHolders' \subseteq Fibers
  BY DEF WriteHolders, ReadHolders, Holders
<1>10. WriteHolders' = WriteHolders
  <2>1. f \notin WriteHolders'
    BY <1>4, HoldsNext
  <2>. QED  BY <1>1, <1>8, <1>9, <2>1
<1>11. (Exclusive \/ Shared)' /\ WaitersHaveABlocker' /\ NoReaderPasses
  <2>1. CASE MayShare(rw)
    <3>1. f \in ReadHolders'
      BY <1>3, <1>4, <2>1, HoldsNext
    <3>2. ReadHolders' = ReadHolders \cup {f}
      BY <1>8, <1>9, <3>1
    <3>3. Shared /\ rw.state >= 0 /\ rw.wwaiters = <<>>
      BY <2>1, RWTyped DEF RWIInv, Exclusive, MayShare
    <3>4. Shared'
      BY <1>1, <1>2, <1>3, <1>10, <2>1, <3>2, <3>3, CountReaders DEF Shared
    <3>5. rw.rwaiters = <<>>
      BY <3>3, RWTyped DEF RWIInv, WaitersHaveABlocker
    <3>. QED  BY <1>2, <1>3, <2>1, <3>3, <3>4, <3>5 DEF WaitersHaveABlocker, NoReaderPasses
  <2>2. CASE ~MayShare(rw)
    <3>1. f \notin ReadHolders'
      BY <1>2, <1>3, <1>4, <2>2, HoldsNext
    <3>2. ReadHolders' = ReadHolders
      BY <1>1, <1>8, <1>9, <3>1
    <3>3. (Exclusive \/ Shared)'
      BY <1>2, <1>3, <1>10, <2>2, <3>2 DEF RWIInv, Exclusive, Shared
    <3>4. rw.state = -1 \/ rw.wwaiters # <<>>
      BY <2>2, RWTyped, CountReaders DEF RWIInv, Exclusive, Shared, MayShare
    <3>5. WaitersHaveABlocker'
      BY <1>2, <1>3, <2>2, <3>4 DEF RWIInv, WaitersHaveABlocker
    <3>. QED  BY <3>2, <3>3, <3>5 DEF NoReaderPasses
  <2>. QED  BY <2>1, <2>2
<1>. QED  BY <1>4, <1>5, <1>6, <1>7, <1>11 DEF RWIInv

(* unlock: the first waiting writer becomes the owner, or all the waiting *)
(* readers do.                                                            *)
LEMMA WriterUnlocks ==
  ASSUME RWIInv, NEW f \in Fibers, At(f, "writing"), On(f, ExclusiveUnlock(rw), "out")
  PROVE  RWIInv' /\ UNCHANGED contractVars /\ NoReaderPasses
<1>0. PICK r : r = ExclusiveUnlock(rw)
  OBVIOUS
<1>1. /\ "writing" \in RWLabels /\ "out" \in RWLabels
      /\ pc[f] = "writing" /\ f \notin Elems(rw.rwaiters) /\ f \notin Elems(rw.wwaiters)
      /\ f \in WriteHolders
  <2>1. "writing" \in RWLabels /\ "out" \in RWLabels
    BY DEF RWLabels
  <2>. QED  BY <2>1, AtLabelHolds
<1>2. rw' = r.obj /\ Perform(f, r, "out")
  BY <1>0 DEF On
<1>3. rw.state = -1 /\ ReadHolders = {} /\ WriteHolders = {f}
  BY <1>1 DEF RWIInv, Exclusive, Shared
<1>4. /\ r.obj \in SharedMutex /\ ~r.park
      /\ rw.wwaiters # <<>> =>
           /\ r.obj.state = rw.state /\ r.obj.rwaiters = rw.rwaiters
           /\ NoRepeats(r.obj.wwaiters)
           /\ \E h \in Fibers : /\ r.wake = <<h>> /\ h \in Elems(rw.wwaiters)
                                /\ Elems(r.obj.wwaiters) = Elems(rw.wwaiters) \ {h}
      /\ rw.wwaiters = <<>> =>
           /\ r.obj.state = Len(rw.rwaiters) /\ r.wake = rw.rwaiters
           /\ r.obj.rwaiters = <<>> /\ r.obj.wwaiters = <<>>
  <2>1. rw \in SharedMutex /\ NoRepeats(rw.wwaiters)
    BY DEF RWIInv, Object
  <2>. QED  BY <1>0, <2>1, ExclusiveUnlockDoes, SMTT(20)
<1>5. /\ r.wake # <<>> => pc'[f] = "push"
      /\ r.wake = <<>> => pc'[f] = "out"
      /\ next'[f] = "out"
      /\ \A g \in Fibers \ {f} : pc'[g] = pc[g] /\ next'[g] = next[g]
      /\ UNCHANGED contractVars
  BY <1>2, <1>4, RWTyped, PerformTo
<1>6. f \notin WriteHolders' /\ f \notin ReadHolders'
  BY <1>5, HoldsNext
<1>7. /\ WriteHolders \subseteq Fibers /\ WriteHolders' \subseteq Fibers
      /\ ReadHolders \subseteq Fibers /\ ReadHolders' \subseteq Fibers
  BY DEF WriteHolders, ReadHolders, Holders
<1>8. SyncOK(RWLabels, {}, RWQueued) /\ Program(RWLabels, {}) /\ NoRepeats(rw.rwaiters)
  BY LockProgram DEF RWIInv, Object
<1>9. Elems(<<>>) = {} /\ NoRepeats(<<>>)
  BY SmallQueues
<1>10. /\ SyncOK(RWLabels, {}, RWQueued)' /\ (Exclusive \/ Shared)' /\ WaitersHaveABlocker'
       /\ NoRepeats(rw.rwaiters)' /\ NoRepeats(rw.wwaiters)'
       /\ Elems(rw.rwaiters)' \subseteq Elems(rw.rwaiters)
       /\ Elems(rw.wwaiters)' \subseteq Elems(rw.wwaiters)
       /\ NoReaderPasses
  <2>1. CASE rw.wwaiters # <<>>
    <3>1. PICK h \in Fibers : /\ r.wake = <<h>> /\ h \in Elems(rw.wwaiters)
                              /\ Elems(r.obj.wwaiters) = Elems(rw.wwaiters) \ {h}
      BY <1>4, <2>1
    <3>2. Elems(r.wake) = {h} /\ NoRepeats(r.wake) /\ r.wake \in Seq(Fibers) /\ r.wake # <<>>
      BY <3>1, SmallQueues
    <3>3. h # f /\ pc[h] \in {"yield", "parked"} /\ next[h] = "writing" /\ h \notin Elems(rw.rwaiters)
      BY <1>1, <3>1 DEF RWIInv, RWQueuesAreRight
    <3>4. Elems(r.wake) \subseteq RWQueued /\ RWQueued' = RWQueued \ Elems(r.wake)
      BY <1>2, <1>4, <2>1, <3>1, <3>2, <3>3 DEF RWQueued
    <3>5. SyncOK(RWLabels, {}, RWQueued)'
      BY <1>1, <1>2, <1>4, <1>8, <3>2, <3>4, PerformKeeps
    <3>6. h \in WriteHolders'
      BY <1>2, <1>5, <3>1, <3>3, HoldsNext DEF InsideOp
    <3>7. \A g \in Fibers \ {f, h} : g \notin WriteHolders'
      BY <1>2, <1>3, <1>5, <3>1, OthersHold
    <3>8. \A g \in Fibers \ {f} : g \notin ReadHolders'
      BY <1>2, <1>3, <1>4, <1>5, <2>1, OthersHold
    <3>9. WriteHolders' = {h} /\ ReadHolders' = {}
      BY <1>6, <1>7, <3>6, <3>7, <3>8
    <3>10. rw'.state = -1
      BY <1>2, <1>3, <1>4, <2>1
    <3>. QED  BY <1>2, <1>4, <1>8, <2>1, <3>1, <3>5, <3>9, <3>10
              DEF Exclusive, WaitersHaveABlocker, NoReaderPasses
  <2>2. CASE rw.wwaiters = <<>>
    <3>1. /\ r.wake = rw.rwaiters /\ rw'.state = Len(rw.rwaiters)
          /\ rw'.rwaiters = <<>> /\ rw'.wwaiters = <<>>
      BY <1>2, <1>4, <2>2
    <3>2. r.wake \in Seq(Fibers) /\ Elems(r.wake) \subseteq RWQueued
          /\ RWQueued = Elems(r.wake) /\ RWQueued' = {}
      BY <1>9, <2>2, <3>1, RWTyped DEF RWQueued
    <3>3. SyncOK(RWLabels, {}, RWQueued)'
      <4>1. RWQueued' = RWQueued \ Elems(r.wake) /\ NoRepeats(r.wake)
        BY <1>8, <3>1, <3>2
      <4>. QED  BY <1>1, <1>2, <1>4, <1>8, <3>2, <4>1, PerformKeeps
    <3>4. \A g \in Fibers \ {f} : g \notin WriteHolders'
      BY <1>3, <1>5, <1>9, <2>2, <3>1, OthersHold
    <3>5. \A g \in Fibers \ {f} : g \in ReadHolders' <=> g \in Elems(rw.rwaiters)
      <4>1. ASSUME NEW g \in Fibers \ {f}, g \in Elems(rw.rwaiters)
            PROVE  g \in ReadHolders'
        BY <1>5, <1>9, <3>1, <4>1, HoldsNext DEF RWIInv, RWQueuesAreRight, InsideOp
      <4>2. ASSUME NEW g \in Fibers \ {f}, g \notin Elems(rw.rwaiters)
            PROVE  g \notin ReadHolders'
        BY <1>3, <1>5, <1>9, <3>1, <4>2, OthersHold
      <4>. QED  BY <4>1, <4>2
    <3>6. WriteHolders' = {} /\ ReadHolders' = Elems(rw.rwaiters)
      <4>1. Elems(rw.rwaiters) \subseteq Fibers
        BY RWTyped DEF RWQueued
      <4>. QED  BY <1>1, <1>6, <1>7, <3>4, <3>5, <4>1
    <3>7. Shared'
      <4>1. Cardinality(Elems(rw.rwaiters)) = Len(rw.rwaiters)
        BY <1>8, RWTyped, QueueLength
      <4>. QED  BY <3>1, <3>6, <4>1 DEF Shared
    <3>. QED  BY <1>9, <2>2, <3>1, <3>3, <3>7 DEF WaitersHaveABlocker, NoReaderPasses
  <2>. QED  BY <2>1, <2>2
<1>11. Object'
  BY <1>2, <1>4, <1>10 DEF Object
<1>12. RWQueuesAreRight'
  BY <1>1, <1>5, <1>10, RWQueuesKeep, RWTyped DEF RWIInv
<1>. QED  BY <1>5, <1>10, <1>11, <1>12 DEF RWIInv

(* unlock_shared: the last reader hands the lock to the first waiting       *)
(* writer.                                                                  *)
LEMMA ReaderUnlocks ==
  ASSUME RWIInv, NEW f \in Fibers, At(f, "reading"), On(f, SharedUnlock(rw), "out")
  PROVE  RWIInv' /\ UNCHANGED contractVars /\ NoReaderPasses
<1>0. PICK r : r = SharedUnlock(rw)
  OBVIOUS
<1>1. /\ "reading" \in RWLabels /\ "out" \in RWLabels
      /\ pc[f] = "reading" /\ f \notin Elems(rw.rwaiters) /\ f \notin Elems(rw.wwaiters)
      /\ f \in ReadHolders
  <2>1. "reading" \in RWLabels /\ "out" \in RWLabels
    BY DEF RWLabels
  <2>. QED  BY <2>1, AtLabelHolds
<1>2. rw' = r.obj /\ Perform(f, r, "out")
  BY <1>0 DEF On
<1>3. /\ WriteHolders = {} /\ rw.state = Cardinality(ReadHolders)
      /\ rw.state \in Nat \ {0}
      /\ rw.state = 1 => ReadHolders = {f}
      /\ Cardinality(ReadHolders \ {f}) = rw.state - 1
  <2>1. Shared
    BY <1>1 DEF RWIInv, Exclusive
  <2>. QED  BY <1>1, <2>1, CountReaders DEF Shared
<1>4. /\ r.obj \in SharedMutex /\ ~r.park /\ r.obj.rwaiters = rw.rwaiters
      /\ rw.state = 1 /\ rw.wwaiters # <<>> =>
           /\ r.obj.state = -1 /\ NoRepeats(r.obj.wwaiters)
           /\ \E h \in Fibers : /\ r.wake = <<h>> /\ h \in Elems(rw.wwaiters)
                                /\ Elems(r.obj.wwaiters) = Elems(rw.wwaiters) \ {h}
      /\ ~(rw.state = 1 /\ rw.wwaiters # <<>>) =>
           r.obj.state = rw.state - 1 /\ r.wake = <<>> /\ r.obj.wwaiters = rw.wwaiters
  <2>1. rw \in SharedMutex /\ NoRepeats(rw.wwaiters)
    BY DEF RWIInv, Object
  <2>. QED  BY <1>0, <2>1, SharedUnlockDoes, SMTT(20)
<1>5. /\ r.wake # <<>> => pc'[f] = "push"
      /\ r.wake = <<>> => pc'[f] = "out"
      /\ next'[f] = "out"
      /\ \A g \in Fibers \ {f} : pc'[g] = pc[g] /\ next'[g] = next[g]
      /\ UNCHANGED contractVars
  BY <1>2, <1>4, RWTyped, PerformTo
<1>6. f \notin WriteHolders' /\ f \notin ReadHolders'
  BY <1>5, HoldsNext
<1>7. /\ WriteHolders \subseteq Fibers /\ WriteHolders' \subseteq Fibers
      /\ ReadHolders \subseteq Fibers /\ ReadHolders' \subseteq Fibers
  BY DEF WriteHolders, ReadHolders, Holders
<1>8. SyncOK(RWLabels, {}, RWQueued) /\ Program(RWLabels, {})
      /\ NoRepeats(rw.rwaiters) /\ NoRepeats(rw.wwaiters)
  BY LockProgram DEF RWIInv, Object
<1>9. ReadHolders' = ReadHolders \ {f}
  <2>1. \A g \in Fibers \ {f} : g \in ReadHolders' <=> g \in ReadHolders
    BY <1>2, <1>4, <1>5, OthersHold
  <2>. QED  BY <1>6, <1>7, <2>1
<1>10. /\ SyncOK(RWLabels, {}, RWQueued)' /\ (Exclusive \/ Shared)' /\ WaitersHaveABlocker'
       /\ NoRepeats(rw.wwaiters)' /\ Elems(rw.wwaiters)' \subseteq Elems(rw.wwaiters)
  <2>1. CASE rw.state = 1 /\ rw.wwaiters # <<>>
    <3>1. PICK h \in Fibers : /\ r.wake = <<h>> /\ h \in Elems(rw.wwaiters)
                              /\ Elems(r.obj.wwaiters) = Elems(rw.wwaiters) \ {h}
      BY <1>4, <2>1
    <3>2. Elems(r.wake) = {h} /\ NoRepeats(r.wake) /\ r.wake \in Seq(Fibers) /\ r.wake # <<>>
      BY <3>1, SmallQueues
    <3>3. h # f /\ pc[h] \in {"yield", "parked"} /\ next[h] = "writing" /\ h \notin Elems(rw.rwaiters)
      BY <1>1, <3>1 DEF RWIInv, RWQueuesAreRight
    <3>4. Elems(r.wake) \subseteq RWQueued /\ RWQueued' = RWQueued \ Elems(r.wake)
      BY <1>2, <1>4, <2>1, <3>1, <3>2, <3>3 DEF RWQueued
    <3>5. SyncOK(RWLabels, {}, RWQueued)'
      BY <1>1, <1>2, <1>4, <1>8, <3>2, <3>4, PerformKeeps
    <3>6. h \in WriteHolders'
      BY <1>2, <1>5, <3>1, <3>3, HoldsNext DEF InsideOp
    <3>7. \A g \in Fibers \ {f, h} : g \notin WriteHolders'
      BY <1>2, <1>3, <1>5, <3>1, OthersHold
    <3>8. WriteHolders' = {h} /\ ReadHolders' = {}
      BY <1>3, <1>6, <1>7, <1>9, <2>1, <3>6, <3>7
    <3>9. rw'.state = -1
      BY <1>2, <1>4, <2>1
    <3>. QED  BY <1>2, <1>4, <2>1, <3>1, <3>5, <3>8, <3>9 DEF Exclusive, WaitersHaveABlocker
  <2>2. CASE ~(rw.state = 1 /\ rw.wwaiters # <<>>)
    <3>1. /\ r.wake = <<>> /\ rw'.state = rw.state - 1
          /\ rw'.wwaiters = rw.wwaiters /\ rw'.rwaiters = rw.rwaiters
      BY <1>2, <1>4, <2>2
    <3>2. SyncOK(RWLabels, {}, RWQueued)'
      <4>1. RWQueued' = RWQueued
        BY <3>1 DEF RWQueued
      <4>. QED  BY <1>1, <1>2, <1>4, <1>8, <3>1, <4>1, PerformKeeps
    <3>3. WriteHolders' = {}
      BY <1>3, <1>5, <1>6, <1>7, <3>1, OthersHold
    <3>4. Shared'
      BY <1>3, <1>9, <3>1, <3>3 DEF Shared
    <3>5. WaitersHaveABlocker'
      BY <1>3, <2>2, <3>1 DEF RWIInv, WaitersHaveABlocker
    <3>. QED  BY <1>8, <3>1, <3>2, <3>4, <3>5
  <2>. QED  BY <2>1, <2>2
<1>11. Object'
  BY <1>2, <1>4, <1>8, <1>10 DEF Object
<1>12. RWQueuesAreRight'
  <2>1. Elems(rw.rwaiters)' = Elems(rw.rwaiters)
    BY <1>2, <1>4
  <2>. QED  BY <1>1, <1>5, <1>10, <2>1, RWQueuesKeep, RWTyped DEF RWIInv
<1>. QED  BY <1>5, <1>9, <1>10, <1>11, <1>12 DEF RWIInv, NoReaderPasses

-----------------------------------------------------------------------------
(* The theorems *)

(* The invariant holds at the start ... *)
LEMMA RWIInvInit == RWInit => RWIInv
<1> SUFFICES ASSUME RWInit PROVE RWIInv
  OBVIOUS
<1>1. /\ rw = [state |-> 0, rwaiters |-> <<>>, wwaiters |-> <<>>]
      /\ Elems(<<>>) = {} /\ NoRepeats(<<>>)
  BY SmallQueues DEF RWInit, NewSharedMutex
<1>2. RWQueued = {}
  BY <1>1 DEF RWQueued
<1>3. SyncOK(RWLabels, {}, RWQueued)
  <2>1. "out" \in RWLabels \ {}
    BY DEF RWLabels
  <2>. QED  BY <1>2, <2>1, StartsOK DEF RWInit
<1>4. Object /\ RWQueuesAreRight /\ WaitersHaveABlocker
  BY <1>1 DEF Object, SharedMutex, RWQueuesAreRight, WaitersHaveABlocker
<1>5. Shared
  <2>1. \A f \in Fibers : pc[f] = "parked" /\ next[f] = "out"
    BY DEF RWInit, SyncInit
  <2>2. WriteHolders = {} /\ ReadHolders = {}
    BY <2>1 DEF WriteHolders, ReadHolders, Holders
  <2>. QED  BY <1>1, <2>2, FS_EmptySet DEF Shared
<1>. QED  BY <1>3, <1>4, <1>5 DEF RWIInv

(* ... and at every step, which is one of the contract or none of its       *)
(* business, and lets no reader pass a waiting writer.                      *)
LEMMA RWIInvStep ==
  RWIInv /\ [RWNext]_rwVars =>
    RWIInv' /\ [ContractNext]_contractVars /\ [NoReaderPasses]_rwVars
<1> SUFFICES ASSUME RWIInv, [RWNext]_rwVars
             PROVE  RWIInv' /\ [ContractNext]_contractVars /\ [NoReaderPasses]_rwVars
  OBVIOUS
<1>1. CASE UNCHANGED rwVars
  <2>1. UNCHANGED <<pc, next, toWake, status, owed, host, rw>> /\ UNCHANGED contractVars
    BY <1>1 DEF rwVars, syncVars, contractVars
  <2>2. SyncOK(RWLabels, {}, RWQueued)'
    <3>1. RWQueued' = RWQueued
      BY <2>1 DEF RWQueued
    <3>. QED  BY <1>1, <3>1, SameKeeps DEF RWIInv, rwVars
  <2>3. WriteHolders' = WriteHolders /\ ReadHolders' = ReadHolders
    BY <2>1 DEF WriteHolders, ReadHolders, Holders
  <2>4. Object' /\ RWQueuesAreRight' /\ (Exclusive \/ Shared)' /\ WaitersHaveABlocker'
    BY <2>1, <2>3 DEF RWIInv, Object, RWQueuesAreRight, Exclusive, Shared, WaitersHaveABlocker
  <2>5. RWIInv'
    BY <2>2, <2>4 DEF RWIInv
  <2>. QED  BY <1>1, <2>1, <2>5
<1>2. ASSUME NEW f \in Fibers,
             \/ SyncStep(f) /\ UNCHANGED rw
             \/ RWBegin(f) \/ RWLock(f) \/ TryLock(f) \/ RWUnlock(f) \/ RWRest(f)
      PROVE  RWIInv' /\ [ContractNext]_contractVars /\ [NoReaderPasses]_rwVars
  <2>1. CASE SyncStep(f) /\ UNCHANGED rw
    BY <2>1, RWSyncSteps
  <2>2. CASE RWBegin(f) \/ RWRest(f)
    BY <2>2, RWOutside
  <2>3. CASE RWLock(f) \/ TryLock(f)
    <3>1. \/ \E l \in {"wrLock", "out"} : At(f, l) /\ On(f, ExclusiveLock(rw, f), "writing")
          \/ \E l \in {"rdLock", "out"} : At(f, l) /\ On(f, SharedLock(rw, f), "reading")
      BY <2>3 DEF RWLock, TryLock
    <3>. QED  BY <3>1, WriterLocks, ReaderLocks
  <2>4. CASE RWUnlock(f)
    BY <2>4, WriterUnlocks, ReaderUnlocks DEF RWUnlock
  <2>. QED  BY <1>2, <2>1, <2>2, <2>3, <2>4
<1>. QED  BY <1>1, <1>2 DEF RWNext

(* It says what SharedMutexInv says. *)
LEMMA RWIInvImplies == RWIInv => SharedMutexInv
<1> SUFFICES ASSUME RWIInv PROVE SharedMutexInv
  OBVIOUS
<1>1. Cardinality(ReadHolders) \in Nat /\ Cardinality(Fibers) \in Nat
      /\ Cardinality(ReadHolders) <= Cardinality(Fibers)
  <2>1. ReadHolders \in SUBSET Fibers
    BY DEF ReadHolders, Holders
  <2>. QED  BY <2>1, SyncFibersAssumption, FS_Subset, FS_CardinalityType
<1>2. rw.state \in -1 .. Cardinality(Fibers)
  BY <1>1 DEF RWIInv, Exclusive, Shared
<1>3. RWTypeOK
  BY <1>2 DEF RWIInv, SyncOK, Object, RWTypeOK
<1>4. StateIsExact
  <2>1. CASE Exclusive
    <3>1. Cardinality(WriteHolders) = 1 /\ WriteHolders # {}
      BY <2>1, FS_Singleton DEF Exclusive
    <3>. QED  BY <2>1, <3>1 DEF Exclusive, StateIsExact
  <2>2. CASE Shared
    BY <2>2 DEF Shared, StateIsExact
  <2>. QED  BY <2>1, <2>2 DEF RWIInv
<1>. QED  BY <1>3, <1>4 DEF RWIInv, SharedMutexInv

(* shared_mutex, for any number of fibers and threads: the state word says  *)
(* at every step who holds the lock, from the moment it is handed over, and *)
(* for everybody who waits there is somebody whose release serves him.      *)
THEOREM SharedMutexIsSafe == RWSpec => []SharedMutexInv
<1>1. RWSpec => []RWIInv
  BY RWIInvInit, RWIInvStep, PTL DEF RWSpec
<1>. QED  BY <1>1, RWIInvImplies, PTL

(* Its fibers use the scheduler as they must: nobody is resumed twice, and  *)
(* no fiber that runs is resumed.                                           *)
THEOREM SharedMutexRespectsContract == RWSpec => RespectsContract
<1>1. RWSpec => []RWIInv
  BY RWIInvInit, RWIInvStep, PTL DEF RWSpec
<1>. QED  BY <1>1, RWIInvStep, PTL DEF RWSpec, RespectsContract

(* While a writer waits, no reader gets in.  This is the safety part of     *)
(* GrantPolicy.                                                             *)
THEOREM WritersGoFirst == RWSpec => WritersFirst
<1>1. RWSpec => []RWIInv
  BY RWIInvInit, RWIInvStep, PTL DEF RWSpec
<1>2. [NoReaderPasses]_rwVars => [rw.wwaiters # <<>> => ReadHolders' \subseteq ReadHolders]_rwVars
  BY DEF NoReaderPasses
<1>. QED  BY <1>1, <1>2, RWIInvStep, PTL DEF RWSpec, WritersFirst

-----------------------------------------------------------------------------
(***************************************************************************)
(* FiberChannel: fiber::channel, for any capacity and any number of writers, *)
(* readers and threads.                                                    *)
(***************************************************************************)

(* The inductive invariant *)

ChannelQueued == Elems(channelMtx.waiters) \cup Elems(full.waiters) \cup Elems(space.waiters)

ChannelObjects ==
  /\ channelMtx \in Mutex /\ full \in Semaphore /\ space \in Semaphore /\ items \in Seq(ChannelWriters)
  /\ NoRepeats(channelMtx.waiters) /\ NoRepeats(full.waiters) /\ NoRepeats(space.waiters)

(* A fiber in a queue is where the operation that put it there left it.     *)
Waits(f, labels) == pc[f] \in {"yield", "parked"} /\ next[f] \in labels
ChannelQueuesAreRight ==
  /\ \A f \in Elems(channelMtx.waiters) : Waits(f, {"append", "take"})
  /\ \A f \in Elems(full.waiters) : Waits(f, {"readLock"})
  /\ \A f \in Elems(space.waiters) : Waits(f, {"writeLock"})

(* Only writers write. *)
WriteLabels == {"write", "writeLock", "append", "writeUnlock", "signalFull"}
WritersWrite == \A f \in Fibers : pc[f] \in WriteLabels \/ next[f] \in WriteLabels => f \in ChannelWriters

(* The fibers that hold a free place or gave one back, and those that hold *)
(* an item or added one, in the words of UnitsAreConserved.                *)
HavePlace == AtOneOf({"writeLock", "append"}, space.waiters)
FreePlace == AtOneOf({"readUnlock", "signalSpace"}, <<>>)
HaveItem  == AtOneOf({"readLock", "take"}, full.waiters)
AddedItem == AtOneOf({"writeUnlock", "signalFull"}, <<>>)

ChannelIInv == /\ SyncOK(ChannelLabels, {}, ChannelQueued)
               /\ ChannelObjects /\ ChannelQueuesAreRight /\ WritersWrite /\ UnitsAreConserved

-----------------------------------------------------------------------------
(* Helpers *)

(* The labels are those of a program. *)
LEMMA ChannelProgram == Program(ChannelLabels, {})
BY DEF Program, ChannelLabels, InsideOp

(* The state space is typed. *)
LEMMA ChannelTyped ==
  ASSUME ChannelIInv
  PROVE  /\ SyncTypeOK(ChannelLabels) /\ ChannelQueued \subseteq Fibers
         /\ channelMtx.waiters \in Seq(Fibers) /\ full.waiters \in Seq(Fibers) /\ space.waiters \in Seq(Fibers)
         /\ full.count \in Nat /\ space.count \in Nat /\ Len(items) \in Nat
<1>1. SyncTypeOK(ChannelLabels)
  BY DEF ChannelIInv, SyncOK
<1>2. /\ channelMtx.waiters \in Seq(Fibers) /\ full.waiters \in Seq(Fibers) /\ space.waiters \in Seq(Fibers)
      /\ full.count \in Nat /\ space.count \in Nat /\ Len(items) \in Nat
  BY DEF ChannelIInv, ChannelObjects, Mutex, Semaphore
<1>3. \A s \in Seq(Fibers) : Elems(s) \subseteq Fibers
  BY DEF Elems
<1>. QED  BY <1>1, <1>2, <1>3 DEF ChannelQueued

(* Nobody waits twice. *)
LEMMA ChannelOneQueueEach ==
  ASSUME ChannelQueuesAreRight
  PROVE  /\ Elems(channelMtx.waiters) \cap Elems(full.waiters) = {}
         /\ Elems(channelMtx.waiters) \cap Elems(space.waiters) = {}
         /\ Elems(full.waiters) \cap Elems(space.waiters) = {}
BY DEF ChannelQueuesAreRight, Waits

(* How many are in a set of fibers. *)
LEMMA ChannelHowMany ==
  ASSUME NEW A \in SUBSET Fibers
  PROVE  /\ Cardinality(A) \in Nat
         /\ \A f : f \notin A => Cardinality(A \cup {f}) = Cardinality(A) + 1
         /\ \A f : f \in A => Cardinality(A \ {f}) = Cardinality(A) - 1 /\ Cardinality(A) > 0
<1>1. IsFiniteSet(A)
  BY FS_Subset, SyncFibersAssumption
<1>2. Cardinality(A) \in Nat /\ (Cardinality(A) = 0 <=> A = {})
  BY <1>1, FS_CardinalityType, FS_EmptySet
<1>. QED  BY <1>1, <1>2, FS_AddElement, FS_RemoveElement

(* The sets hold fibers. *)
LEMMA SetsOfFibers ==
  /\ HavePlace \in SUBSET Fibers /\ HaveItem \in SUBSET Fibers
  /\ FreePlace \in SUBSET Fibers /\ AddedItem \in SUBSET Fibers
  /\ HavePlace' \in SUBSET Fibers /\ HaveItem' \in SUBSET Fibers
  /\ FreePlace' \in SUBSET Fibers /\ AddedItem' \in SUBSET Fibers
BY DEF HavePlace, FreePlace, HaveItem, AddedItem, AtOneOf

(* Who is in them now, ... *)
LEMMA InSets ==
  ASSUME NEW f \in Fibers
  PROVE  /\ f \in HavePlace <=>
              \/ pc[f] \in {"writeLock", "append"}
              \/ /\ pc[f] \in InsideOp /\ next[f] \in {"writeLock", "append"}
                 /\ f \notin Elems(space.waiters)
         /\ f \in HaveItem <=>
              \/ pc[f] \in {"readLock", "take"}
              \/ /\ pc[f] \in InsideOp /\ next[f] \in {"readLock", "take"}
                 /\ f \notin Elems(full.waiters)
         /\ f \in FreePlace <=>
              \/ pc[f] \in {"readUnlock", "signalSpace"}
              \/ pc[f] \in InsideOp /\ next[f] \in {"readUnlock", "signalSpace"}
         /\ f \in AddedItem <=>
              \/ pc[f] \in {"writeUnlock", "signalFull"}
              \/ pc[f] \in InsideOp /\ next[f] \in {"writeUnlock", "signalFull"}
BY SmallQueues DEF HavePlace, FreePlace, HaveItem, AddedItem, AtOneOf

(* ... and after a step. *)
LEMMA InSetsNext ==
  ASSUME NEW f \in Fibers
  PROVE  /\ f \in HavePlace' <=>
              \/ pc'[f] \in {"writeLock", "append"}
              \/ /\ pc'[f] \in InsideOp /\ next'[f] \in {"writeLock", "append"}
                 /\ f \notin Elems(space.waiters)'
         /\ f \in HaveItem' <=>
              \/ pc'[f] \in {"readLock", "take"}
              \/ /\ pc'[f] \in InsideOp /\ next'[f] \in {"readLock", "take"}
                 /\ f \notin Elems(full.waiters)'
         /\ f \in FreePlace' <=>
              \/ pc'[f] \in {"readUnlock", "signalSpace"}
              \/ pc'[f] \in InsideOp /\ next'[f] \in {"readUnlock", "signalSpace"}
         /\ f \in AddedItem' <=>
              \/ pc'[f] \in {"writeUnlock", "signalFull"}
              \/ pc'[f] \in InsideOp /\ next'[f] \in {"writeUnlock", "signalFull"}
BY SmallQueues DEF HavePlace, FreePlace, HaveItem, AddedItem, AtOneOf

(* What is true of a fiber that stays where it is does not change. *)
LEMMA ChannelOthersStay ==
  ASSUME NEW f \in Fibers, \A g \in Fibers \ {f} : pc'[g] = pc[g] /\ next'[g] = next[g],
         NEW g \in Fibers \ {f}
  PROVE  /\ (g \in Elems(space.waiters)' <=> g \in Elems(space.waiters))
              => (g \in HavePlace' <=> g \in HavePlace)
         /\ (g \in Elems(full.waiters)' <=> g \in Elems(full.waiters))
              => (g \in HaveItem' <=> g \in HaveItem)
         /\ g \in FreePlace' <=> g \in FreePlace
         /\ g \in AddedItem' <=> g \in AddedItem
BY DEF HavePlace, FreePlace, HaveItem, AddedItem, AtOneOf

(* So a step of f changes them by f, as long as nobody else is popped from  *)
(* the queue of a semaphore.                                                *)
LEMMA SetsChangeByOne ==
  ASSUME NEW f \in Fibers, \A g \in Fibers \ {f} : pc'[g] = pc[g] /\ next'[g] = next[g]
  PROVE  /\ (\A g \in Fibers \ {f} : g \in Elems(space.waiters)' <=> g \in Elems(space.waiters))
              => /\ f \in HavePlace' => HavePlace' = HavePlace \cup {f}
                 /\ f \notin HavePlace' => HavePlace' = HavePlace \ {f}
                 /\ (f \in HavePlace' <=> f \in HavePlace) => HavePlace' = HavePlace
         /\ (\A g \in Fibers \ {f} : g \in Elems(full.waiters)' <=> g \in Elems(full.waiters))
              => /\ f \in HaveItem' => HaveItem' = HaveItem \cup {f}
                 /\ f \notin HaveItem' => HaveItem' = HaveItem \ {f}
                 /\ (f \in HaveItem' <=> f \in HaveItem) => HaveItem' = HaveItem
         /\ f \in FreePlace' => FreePlace' = FreePlace \cup {f}
         /\ f \notin FreePlace' => FreePlace' = FreePlace \ {f}
         /\ (f \in FreePlace' <=> f \in FreePlace) => FreePlace' = FreePlace
         /\ f \in AddedItem' => AddedItem' = AddedItem \cup {f}
         /\ f \notin AddedItem' => AddedItem' = AddedItem \ {f}
         /\ (f \in AddedItem' <=> f \in AddedItem) => AddedItem' = AddedItem
<1>1. \A S, T \in SUBSET Fibers :
        (\A g \in Fibers \ {f} : g \in T <=> g \in S)
          => /\ f \in T => T = S \cup {f}
             /\ f \notin T => T = S \ {f}
             /\ (f \in T <=> f \in S) => T = S
  OBVIOUS
<1>2. (\A g \in Fibers \ {f} : g \in Elems(space.waiters)' <=> g \in Elems(space.waiters))
        => /\ f \in HavePlace' => HavePlace' = HavePlace \cup {f}
           /\ f \notin HavePlace' => HavePlace' = HavePlace \ {f}
           /\ (f \in HavePlace' <=> f \in HavePlace) => HavePlace' = HavePlace
  BY <1>1, ChannelOthersStay, SetsOfFibers
<1>3. (\A g \in Fibers \ {f} : g \in Elems(full.waiters)' <=> g \in Elems(full.waiters))
        => /\ f \in HaveItem' => HaveItem' = HaveItem \cup {f}
           /\ f \notin HaveItem' => HaveItem' = HaveItem \ {f}
           /\ (f \in HaveItem' <=> f \in HaveItem) => HaveItem' = HaveItem
  BY <1>1, ChannelOthersStay, SetsOfFibers
<1>4. /\ f \in FreePlace' => FreePlace' = FreePlace \cup {f}
      /\ f \notin FreePlace' => FreePlace' = FreePlace \ {f}
      /\ (f \in FreePlace' <=> f \in FreePlace) => FreePlace' = FreePlace
  BY <1>1, ChannelOthersStay, SetsOfFibers
<1>5. /\ f \in AddedItem' => AddedItem' = AddedItem \cup {f}
      /\ f \notin AddedItem' => AddedItem' = AddedItem \ {f}
      /\ (f \in AddedItem' <=> f \in AddedItem) => AddedItem' = AddedItem
  BY <1>1, ChannelOthersStay, SetsOfFibers
<1>. QED  BY <1>2, <1>3, <1>4, <1>5

(* The queues keep those who stay in them. *)
LEMMA ChannelQueuesKeep ==
  ASSUME ChannelQueuesAreRight, NEW f \in Fibers, ChannelQueued \subseteq Fibers,
         \A g \in Fibers \ {f} : pc'[g] = pc[g] /\ next'[g] = next[g],
         Elems(channelMtx.waiters)' \subseteq Elems(channelMtx.waiters) \cup {f},
         Elems(full.waiters)' \subseteq Elems(full.waiters) \cup {f},
         Elems(space.waiters)' \subseteq Elems(space.waiters) \cup {f},
         f \in Elems(channelMtx.waiters)' =>
           pc'[f] \in {"yield", "parked"} /\ next'[f] \in {"append", "take"},
         f \in Elems(full.waiters)' => pc'[f] \in {"yield", "parked"} /\ next'[f] = "readLock",
         f \in Elems(space.waiters)' => pc'[f] \in {"yield", "parked"} /\ next'[f] = "writeLock"
  PROVE  ChannelQueuesAreRight'
BY DEF ChannelQueuesAreRight, Waits, ChannelQueued

(* A fiber at a label waits for nothing, and has what the label says.       *)
LEMMA AtLabelHas ==
  ASSUME ChannelIInv, NEW f \in Fibers, NEW l \in ChannelLabels, At(f, l)
  PROVE  /\ pc[f] = l /\ f \notin ChannelQueued
         /\ f \notin Elems(channelMtx.waiters) /\ f \notin Elems(full.waiters) /\ f \notin Elems(space.waiters)
         /\ f \in HavePlace <=> l \in {"writeLock", "append"}
         /\ f \in HaveItem <=> l \in {"readLock", "take"}
         /\ f \in FreePlace <=> l \in {"readUnlock", "signalSpace"}
         /\ f \in AddedItem <=> l \in {"writeUnlock", "signalFull"}
         /\ l \in WriteLabels => f \in ChannelWriters
<1>1. pc[f] = l /\ l \notin InsideOp
  BY DEF At, ChannelLabels, InsideOp
<1>2. f \notin Elems(channelMtx.waiters) /\ f \notin Elems(full.waiters) /\ f \notin Elems(space.waiters)
  BY <1>1 DEF ChannelIInv, ChannelQueuesAreRight, Waits, InsideOp
<1>3. l \in WriteLabels => f \in ChannelWriters
  BY <1>1 DEF ChannelIInv, WritersWrite
<1>. QED  BY <1>1, <1>2, <1>3, InSets DEF ChannelQueued

(* What the counters of the semaphores say. *)
LEMMA UnitsAre ==
  UnitsAreConserved <=>
    /\ space.count + Len(items) + Cardinality(HavePlace) + Cardinality(FreePlace) = Capacity
    /\ full.count + Cardinality(HaveItem) + Cardinality(AddedItem) = Len(items)
BY DEF UnitsAreConserved, HavePlace, FreePlace, HaveItem, AddedItem

(* ... and after a step. *)
LEMMA UnitsAreNext ==
  UnitsAreConserved' <=>
    /\ space'.count + Len(items') + Cardinality(HavePlace') + Cardinality(FreePlace') = Capacity
    /\ full'.count + Cardinality(HaveItem') + Cardinality(AddedItem') = Len(items')
BY DEF UnitsAreConserved, HavePlace, FreePlace, HaveItem, AddedItem

(* A step that changes no semaphore and no item, and moves nobody in or out *)
(* of the sets, may change the mutex.                                       *)
LEMMA UnitsStay ==
  ASSUME ChannelIInv, NEW f \in Fibers, full' = full, space' = space, items' = items,
         \A g \in Fibers \ {f} : pc'[g] = pc[g] /\ next'[g] = next[g],
         SyncOK(ChannelLabels, {}, ChannelQueued)',
         channelMtx' \in Mutex, NoRepeats(channelMtx.waiters)', ChannelQueuesAreRight',
         pc'[f] \in WriteLabels \/ next'[f] \in WriteLabels => f \in ChannelWriters,
         f \in HavePlace' <=> f \in HavePlace, f \in HaveItem' <=> f \in HaveItem,
         f \in FreePlace' <=> f \in FreePlace, f \in AddedItem' <=> f \in AddedItem
  PROVE  ChannelIInv'
<1>1. /\ HavePlace' = HavePlace /\ HaveItem' = HaveItem
      /\ FreePlace' = FreePlace /\ AddedItem' = AddedItem
  BY SetsChangeByOne
<1>2. UnitsAreConserved'
  BY <1>1, UnitsAre, UnitsAreNext DEF ChannelIInv
<1>3. ChannelObjects' /\ WritersWrite'
  BY DEF ChannelIInv, ChannelObjects, WritersWrite
<1>. QED  BY <1>2, <1>3 DEF ChannelIInv

-----------------------------------------------------------------------------
(* The steps *)

BufferStep == (\E x \in ChannelWriters : Buffer!Write(x)) \/ Buffer!Read

(* Yield, push and resume. *)
LEMMA ChannelSyncSteps ==
  ASSUME ChannelIInv, NEW f \in Fibers, SyncStep(f), UNCHANGED channelObjs
  PROVE  ChannelIInv' /\ ContractNext
<1>0. ChannelQueued' = ChannelQueued /\ channelMtx' = channelMtx /\ full' = full /\ space' = space /\ items' = items
  BY DEF ChannelQueued, channelObjs
<1>1. /\ SyncOK(ChannelLabels, {}, ChannelQueued)' /\ ContractNext
      /\ ResumeStep(f) => pc[f] = "parked" /\ f \notin ChannelQueued
  BY <1>0, SyncStepKeeps, ChannelProgram DEF ChannelIInv
<1>2. /\ next'[f] = next[f]
      /\ \A g \in Fibers \ {f} : pc'[g] = pc[g] /\ next'[g] = next[g]
      /\ \/ pc[f] = "yield" /\ pc'[f] = "parked"
         \/ pc[f] = "push" /\ pc'[f] \in {"push", next[f]}
         \/ pc[f] = "parked" /\ pc'[f] = next[f] /\ f \notin ChannelQueued
  BY <1>1, ChannelTyped, SyncStepTo
<1>3. next[f] \in ChannelLabels
  BY ChannelTyped DEF SyncTypeOK
<1>4. /\ f \in ChannelQueued => pc'[f] \in {"yield", "parked"}
      /\ pc[f] = "push" => f \notin ChannelQueued
  BY <1>2 DEF ChannelIInv, ChannelQueuesAreRight, Waits, ChannelQueued
<1>5. /\ f \in HavePlace' <=> f \in HavePlace
      /\ f \in HaveItem' <=> f \in HaveItem
      /\ f \in FreePlace' <=> f \in FreePlace
      /\ f \in AddedItem' <=> f \in AddedItem
  <2>1. /\ f \in Elems(space.waiters)' <=> f \in Elems(space.waiters)
        /\ f \in Elems(full.waiters)' <=> f \in Elems(full.waiters)
        /\ f \in Elems(space.waiters) \/ f \in Elems(full.waiters) => f \in ChannelQueued
    BY <1>0 DEF ChannelQueued
  <2>. QED  BY <1>2, <1>3, <1>4, <2>1, InSets, InSetsNext DEF ChannelLabels, InsideOp
<1>6. ChannelQueuesAreRight'
  <2>1. /\ f \in Elems(channelMtx.waiters) => next[f] \in {"append", "take"}
        /\ f \in Elems(full.waiters) => next[f] = "readLock"
        /\ f \in Elems(space.waiters) => next[f] = "writeLock"
    BY DEF ChannelIInv, ChannelQueuesAreRight, Waits
  <2>. QED  BY <1>0, <1>2, <1>4, <2>1, ChannelQueuesKeep, ChannelTyped DEF ChannelIInv, ChannelQueued
<1>7. pc'[f] \in WriteLabels \/ next'[f] \in WriteLabels => f \in ChannelWriters
  BY <1>2 DEF ChannelIInv, WritersWrite, WriteLabels
<1>8. channelMtx' \in Mutex /\ NoRepeats(channelMtx.waiters)'
  BY <1>0 DEF ChannelIInv, ChannelObjects
<1>. QED  BY <1>0, <1>1, <1>2, <1>5, <1>6, <1>7, <1>8, UnitsStay

(* Between two operations. *)
LEMMA ChannelOutside ==
  ASSUME ChannelIInv, NEW f \in Fibers, ChannelBegin(f) \/ ChannelRest(f)
  PROVE  ChannelIInv' /\ (ContractNext \/ UNCHANGED contractVars)
<1>0. /\ ChannelQueued' = ChannelQueued /\ channelMtx' = channelMtx /\ full' = full /\ space' = space /\ items' = items
      /\ At(f, "out")
  BY DEF ChannelQueued, ChannelBegin, ChannelRest, channelObjs
<1>1. "out" \in ChannelLabels /\ "write" \in ChannelLabels /\ "read" \in ChannelLabels
  BY DEF ChannelLabels
<1>2. /\ pc[f] = "out" /\ f \notin ChannelQueued
      /\ f \notin HavePlace /\ f \notin HaveItem /\ f \notin FreePlace /\ f \notin AddedItem
  BY <1>0, <1>1, AtLabelHas
<1>3. channelMtx' \in Mutex /\ NoRepeats(channelMtx.waiters)'
  BY <1>0 DEF ChannelIInv, ChannelObjects
<1>4. CASE ChannelBegin(f)
  <2>1. PICK m \in {"write", "read"} : Goto(f, m) /\ (m = "write" => f \in ChannelWriters)
    BY <1>4 DEF ChannelBegin
  <2>2. /\ pc'[f] = m /\ next'[f] = next[f] /\ UNCHANGED contractVars
        /\ \A g \in Fibers \ {f} : pc'[g] = pc[g] /\ next'[g] = next[g]
    BY <2>1, GotoTo, ChannelTyped
  <2>3. SyncOK(ChannelLabels, {}, ChannelQueued)'
    BY <1>0, <1>1, <2>1, GotoKeeps, ChannelProgram DEF ChannelIInv
  <2>4. f \notin HavePlace' /\ f \notin HaveItem' /\ f \notin FreePlace' /\ f \notin AddedItem'
    BY <2>2, InSetsNext DEF InsideOp
  <2>5. ChannelQueuesAreRight'
    BY <1>0, <1>2, <2>2, ChannelQueuesKeep, ChannelTyped DEF ChannelIInv, ChannelQueued
  <2>6. pc'[f] \in WriteLabels \/ next'[f] \in WriteLabels => f \in ChannelWriters
    BY <2>1, <2>2 DEF ChannelIInv, WritersWrite, WriteLabels
  <2>. QED  BY <1>0, <1>2, <1>3, <2>2, <2>3, <2>4, <2>5, <2>6, UnitsStay
<1>5. CASE Pause(f)
  <2>1. /\ pc'[f] = "parked" /\ next'[f] = "out"
        /\ \A g \in Fibers \ {f} : pc'[g] = pc[g] /\ next'[g] = next[g]
    BY <1>2, <1>5, PauseTo, ChannelTyped
  <2>2. SyncOK(ChannelLabels, {}, ChannelQueued)' /\ YieldNow(f)
    BY <1>0, <1>1, <1>5, PauseKeeps, ChannelProgram DEF ChannelIInv
  <2>3. f \notin HavePlace' /\ f \notin HaveItem' /\ f \notin FreePlace' /\ f \notin AddedItem'
    BY <2>1, InSetsNext
  <2>4. ChannelQueuesAreRight'
    BY <1>0, <1>2, <2>1, ChannelQueuesKeep, ChannelTyped DEF ChannelIInv, ChannelQueued
  <2>5. pc'[f] \notin WriteLabels /\ next'[f] \notin WriteLabels
    BY <2>1 DEF WriteLabels
  <2>. QED  BY <1>0, <1>2, <1>3, <2>1, <2>2, <2>3, <2>4, <2>5, UnitsStay DEF ContractNext
<1>. QED  BY <1>4, <1>5 DEF ChannelRest

(* lock and unlock of the mutex, on either side: whoever passed a semaphore *)
(* keeps what it has while it waits.                                        *)
LEMMA MutexSteps ==
  ASSUME ChannelIInv, NEW f \in Fibers, NEW l, NEW m, At(f, l),
         NEW r, OnMtx(f, r, m),
         \/ r = MutexLock(channelMtx, f) /\ <<l, m>> \in {<<"writeLock", "append">>, <<"readLock", "take">>}
         \/ r = MutexUnlock(channelMtx)
            /\ <<l, m>> \in {<<"writeUnlock", "signalFull">>, <<"readUnlock", "signalSpace">>}
  PROVE  ChannelIInv' /\ UNCHANGED contractVars
<1>1. /\ channelMtx' = r.obj /\ Perform(f, r, m)
      /\ full' = full /\ space' = space /\ items' = items
  BY DEF OnMtx
<1>2. /\ l \in ChannelLabels /\ m \in ChannelLabels
      /\ l \in {"writeLock", "append"} <=> m \in {"writeLock", "append"}
      /\ l \in {"readLock", "take"} <=> m \in {"readLock", "take"}
      /\ l \in {"readUnlock", "signalSpace"} <=> m \in {"readUnlock", "signalSpace"}
      /\ l \in {"writeUnlock", "signalFull"} <=> m \in {"writeUnlock", "signalFull"}
      /\ l \in WriteLabels <=> m \in WriteLabels
  BY DEF ChannelLabels, WriteLabels
<1>3. /\ pc[f] = l /\ f \notin ChannelQueued
      /\ f \notin Elems(channelMtx.waiters) /\ f \notin Elems(full.waiters) /\ f \notin Elems(space.waiters)
      /\ f \in HavePlace <=> l \in {"writeLock", "append"}
      /\ f \in HaveItem <=> l \in {"readLock", "take"}
      /\ f \in FreePlace <=> l \in {"readUnlock", "signalSpace"}
      /\ f \in AddedItem <=> l \in {"writeUnlock", "signalFull"}
      /\ l \in WriteLabels => f \in ChannelWriters
  BY <1>2, AtLabelHas
<1>4. channelMtx \in Mutex /\ NoRepeats(channelMtx.waiters) /\ channelMtx.waiters \in Seq(Fibers)
  BY ChannelTyped DEF ChannelIInv, ChannelObjects
<1>5. /\ r.obj \in Mutex /\ NoRepeats(r.obj.waiters)
      /\ Elems(r.obj.waiters) \subseteq Elems(channelMtx.waiters) \cup {f}
      /\ f \in Elems(r.obj.waiters) => r.park /\ m \in {"append", "take"}
      /\ \/ ~r.park /\ r.wake = <<>> /\ Elems(r.obj.waiters) = Elems(channelMtx.waiters)
         \/ r.park /\ r.wake = <<>> /\ Elems(r.obj.waiters) = Elems(channelMtx.waiters) \cup {f}
         \/ /\ ~r.park /\ r.wake \in Seq(Fibers) /\ NoRepeats(r.wake)
            /\ Elems(r.wake) \subseteq Elems(channelMtx.waiters)
            /\ Elems(r.obj.waiters) = Elems(channelMtx.waiters) \ Elems(r.wake)
  <2>1. CASE r = MutexLock(channelMtx, f) /\ m \in {"append", "take"}
    <3>1. f \notin Elems(channelMtx.waiters)
      BY <1>3
    <3>2. /\ r.obj \in Mutex /\ r.wake = <<>>
          /\ ~channelMtx.locked => ~r.park /\ r.obj.waiters = channelMtx.waiters
          /\ channelMtx.locked => /\ r.park
                                  /\ Elems(r.obj.waiters) = Elems(channelMtx.waiters) \cup {f}
                                  /\ NoRepeats(r.obj.waiters)
      BY <1>4, <2>1, <3>1, LockDoes
    <3>. QED  BY <1>4, <2>1, <3>1, <3>2
  <2>2. CASE r = MutexUnlock(channelMtx)
    <3>1. r.obj \in Mutex /\ ~r.park
      BY <1>4, <2>2, UnlockDoes
    <3>2. CASE channelMtx.waiters = <<>>
      <4>1. r.obj.waiters = <<>> /\ r.wake = <<>>
        BY <1>4, <2>2, <3>2, UnlockDoes
      <4>. QED  BY <1>3, <1>4, <3>1, <3>2, <4>1
    <3>3. CASE channelMtx.waiters # <<>>
      <4>1. PICK h \in Fibers : /\ r.wake = <<h>> /\ h \in Elems(channelMtx.waiters)
                                /\ NoRepeats(r.obj.waiters)
                                /\ Elems(r.obj.waiters) = Elems(channelMtx.waiters) \ {h}
        BY <1>4, <2>2, <3>3, UnlockDoes
      <4>2. Elems(r.wake) = {h} /\ NoRepeats(r.wake) /\ r.wake \in Seq(Fibers)
        BY <4>1, SmallQueues
      <4>. QED  BY <1>3, <3>1, <4>1, <4>2
    <3>. QED  BY <3>2, <3>3
  <2>. QED  BY <2>1, <2>2
<1>6. /\ r.park => pc'[f] = "yield"
      /\ ~r.park /\ r.wake # <<>> => pc'[f] = "push"
      /\ ~r.park /\ r.wake = <<>> => pc'[f] = m
      /\ next'[f] = m
      /\ \A g \in Fibers \ {f} : pc'[g] = pc[g] /\ next'[g] = next[g]
      /\ UNCHANGED contractVars
  BY <1>1, ChannelTyped, PerformTo
<1>7. SyncOK(ChannelLabels, {}, ChannelQueued)'
  <2>1. SyncOK(ChannelLabels, {}, ChannelQueued) /\ Program(ChannelLabels, {})
    BY ChannelProgram DEF ChannelIInv
  <2>2. \/ ~r.park /\ r.wake = <<>> /\ ChannelQueued' = ChannelQueued
        \/ r.park /\ r.wake = <<>> /\ ChannelQueued' = ChannelQueued \cup {f}
        \/ /\ ~r.park /\ r.wake \in Seq(Fibers) /\ NoRepeats(r.wake)
           /\ Elems(r.wake) \subseteq ChannelQueued /\ ChannelQueued' = ChannelQueued \ Elems(r.wake)
    BY <1>1, <1>5, ChannelOneQueueEach DEF ChannelIInv, ChannelQueued
  <2>. QED  BY <1>1, <1>2, <2>1, <2>2, PerformKeeps
<1>8. ChannelQueuesAreRight'
  BY <1>1, <1>3, <1>5, <1>6, ChannelQueuesKeep, ChannelTyped DEF ChannelIInv
<1>9. /\ f \in HavePlace' <=> f \in HavePlace
      /\ f \in HaveItem' <=> f \in HaveItem
      /\ f \in FreePlace' <=> f \in FreePlace
      /\ f \in AddedItem' <=> f \in AddedItem
  <2>1. f \notin Elems(space.waiters)' /\ f \notin Elems(full.waiters)'
    BY <1>1, <1>3
  <2>2. pc'[f] = m \/ pc'[f] \in {"yield", "push"}
    BY <1>5, <1>6
  <2>. QED  BY <1>2, <1>3, <1>6, <2>1, <2>2, InSetsNext DEF InsideOp
<1>10. pc'[f] \in WriteLabels \/ next'[f] \in WriteLabels => f \in ChannelWriters
  BY <1>2, <1>3, <1>5, <1>6 DEF WriteLabels
<1>11. channelMtx' \in Mutex /\ NoRepeats(channelMtx.waiters)'
  BY <1>1, <1>5
<1>. QED  BY <1>1, <1>6, <1>7, <1>8, <1>9, <1>10, <1>11, UnitsStay

(* space.wait(): the writer takes a free place or waits for one. *)
LEMMA WaitForPlace ==
  ASSUME ChannelIInv, NEW f \in Fibers, At(f, "write"), OnSpace(f, SemWait(space, f), "writeLock")
  PROVE  ChannelIInv' /\ UNCHANGED contractVars
<1>0. PICK r : r = SemWait(space, f)
  OBVIOUS
<1>1. /\ space' = r.obj /\ Perform(f, r, "writeLock")
      /\ channelMtx' = channelMtx /\ full' = full /\ items' = items
  BY <1>0 DEF OnSpace
<1>2. "write" \in ChannelLabels /\ "writeLock" \in ChannelLabels
  BY DEF ChannelLabels
<1>3. /\ pc[f] = "write" /\ f \notin ChannelQueued
      /\ f \notin Elems(channelMtx.waiters) /\ f \notin Elems(full.waiters) /\ f \notin Elems(space.waiters)
      /\ f \notin HavePlace /\ f \notin HaveItem /\ f \notin FreePlace /\ f \notin AddedItem
      /\ "write" \in WriteLabels => f \in ChannelWriters
  BY <1>2, AtLabelHas
<1>4. /\ r.obj \in Semaphore /\ r.wake = <<>>
      /\ space.count > 0 => ~r.park /\ r.obj.count = space.count - 1 /\ r.obj.waiters = space.waiters
      /\ space.count = 0 =>
           /\ r.park /\ r.obj.count = 0 /\ NoRepeats(r.obj.waiters)
           /\ Elems(r.obj.waiters) = Elems(space.waiters) \cup {f}
  <2>1. space \in Semaphore /\ NoRepeats(space.waiters) /\ f \notin Elems(space.waiters)
    BY <1>3 DEF ChannelIInv, ChannelObjects
  <2>. QED  BY <1>0, <2>1, SemWaitDoes
<1>5. /\ r.park => pc'[f] = "yield"
      /\ ~r.park => pc'[f] = "writeLock"
      /\ next'[f] = "writeLock"
      /\ \A g \in Fibers \ {f} : pc'[g] = pc[g] /\ next'[g] = next[g]
      /\ UNCHANGED contractVars
  BY <1>1, <1>4, ChannelTyped, PerformTo
<1>6. space.count \in Nat
  BY ChannelTyped
<1>7. /\ NoRepeats(r.obj.waiters)
      /\ r.park => Elems(r.obj.waiters) = Elems(space.waiters) \cup {f}
      /\ ~r.park => Elems(r.obj.waiters) = Elems(space.waiters)
  BY <1>4, <1>6 DEF ChannelIInv, ChannelObjects
<1>8. SyncOK(ChannelLabels, {}, ChannelQueued)'
  <2>1. SyncOK(ChannelLabels, {}, ChannelQueued) /\ Program(ChannelLabels, {})
    BY ChannelProgram DEF ChannelIInv
  <2>2. \/ ~r.park /\ ChannelQueued' = ChannelQueued
        \/ r.park /\ ChannelQueued' = ChannelQueued \cup {f}
    BY <1>1, <1>4, <1>6, <1>7 DEF ChannelQueued
  <2>. QED  BY <1>1, <1>2, <1>4, <2>1, <2>2, PerformKeeps
<1>9. ChannelQueuesAreRight'
  BY <1>1, <1>3, <1>5, <1>7, ChannelQueuesKeep, ChannelTyped DEF ChannelIInv
<1>10. ChannelObjects'
  BY <1>1, <1>4, <1>7 DEF ChannelIInv, ChannelObjects
<1>11. WritersWrite'
  <2>1. pc'[f] \in WriteLabels \/ next'[f] \in WriteLabels => f \in ChannelWriters
    BY <1>3, <1>4, <1>5, <1>6 DEF WriteLabels
  <2>. QED  BY <1>5, <2>1 DEF ChannelIInv, WritersWrite
<1>12. UnitsAreConserved'
  <2>1. \A g \in Fibers \ {f} : /\ g \in Elems(space.waiters)' <=> g \in Elems(space.waiters)
                                /\ g \in Elems(full.waiters)' <=> g \in Elems(full.waiters)
    BY <1>1, <1>7, <1>4, <1>6
  <2>2. f \notin HaveItem' /\ f \notin FreePlace' /\ f \notin AddedItem'
    BY <1>4, <1>5, <1>6, InSetsNext
  <2>3. HaveItem' = HaveItem /\ FreePlace' = FreePlace /\ AddedItem' = AddedItem
    BY <1>3, <1>5, <2>1, <2>2, SetsChangeByOne
  <2>4. CASE space.count > 0
    <3>1. f \in HavePlace'
      BY <1>4, <1>5, <2>4, InSetsNext
    <3>2. HavePlace' = HavePlace \cup {f}
      BY <1>5, <2>1, <3>1, SetsChangeByOne
    <3>3. Cardinality(HavePlace') = Cardinality(HavePlace) + 1 /\ Cardinality(HavePlace) \in Nat
      BY <1>3, <3>2, ChannelHowMany, SetsOfFibers
    <3>4. space'.count = space.count - 1
      BY <1>1, <1>4, <2>4
    <3>5. Cardinality(HaveItem) \in Nat /\ Cardinality(FreePlace) \in Nat /\ Cardinality(AddedItem) \in Nat
      BY ChannelHowMany, SetsOfFibers
    <3>6. UnitsAreConserved'
      <4>0. space.count + Len(items) + Cardinality(HavePlace) + Cardinality(FreePlace) = Capacity
        BY UnitsAre DEF ChannelIInv
      <4>1. full.count + Cardinality(HaveItem) + Cardinality(AddedItem) = Len(items)
        BY UnitsAre DEF ChannelIInv
      <4>2. /\ space.count \in Nat /\ full.count \in Nat /\ Len(items) \in Nat
            /\ Cardinality(HavePlace) \in Nat /\ Cardinality(FreePlace) \in Nat
            /\ Cardinality(HaveItem) \in Nat /\ Cardinality(AddedItem) \in Nat
        BY ChannelTyped, ChannelHowMany, SetsOfFibers
      <4>3. /\ Cardinality(HavePlace') = Cardinality(HavePlace) + 1
            /\ Cardinality(FreePlace') = Cardinality(FreePlace)
            /\ Cardinality(HaveItem') = Cardinality(HaveItem)
            /\ Cardinality(AddedItem') = Cardinality(AddedItem)
        BY <2>3, <3>3, <3>4, <3>5
      <4>4. /\ space'.count = space.count - 1
            /\ full'.count = full.count /\ Len(items') = Len(items)
        BY <1>1, <2>3, <3>3, <3>4, <3>5
      <4>5. space'.count + Len(items') + Cardinality(HavePlace') + Cardinality(FreePlace') = Capacity
        BY <4>0, <4>2, <4>3, <4>4, SMTT(20)
      <4>6. full'.count + Cardinality(HaveItem') + Cardinality(AddedItem') = Len(items')
        BY <4>1, <4>2, <4>3, <4>4
      <4>. QED  BY <4>5, <4>6, UnitsAreNext
    <3>. QED  BY <3>6
  <2>5. CASE space.count = 0
    <3>1. f \notin HavePlace'
      BY <1>1, <1>4, <1>5, <1>7, <2>5, InSetsNext
    <3>2. HavePlace' = HavePlace
      BY <1>3, <1>5, <2>1, <3>1, SetsChangeByOne
    <3>3. space'.count = space.count
      BY <1>1, <1>4, <2>5
    <3>. QED  BY <1>1, <2>3, <3>2, <3>3, UnitsAre, UnitsAreNext DEF ChannelIInv
  <2>. QED  BY <1>6, <2>4, <2>5
<1>. QED  BY <1>5, <1>8, <1>9, <1>10, <1>11, <1>12 DEF ChannelIInv

(* full.wait(): the reader takes an item or waits for one. *)
LEMMA WaitForItem ==
  ASSUME ChannelIInv, NEW f \in Fibers, At(f, "read"), OnFull(f, SemWait(full, f), "readLock")
  PROVE  ChannelIInv' /\ UNCHANGED contractVars
<1>0. PICK r : r = SemWait(full, f)
  OBVIOUS
<1>1. /\ full' = r.obj /\ Perform(f, r, "readLock")
      /\ channelMtx' = channelMtx /\ space' = space /\ items' = items
  BY <1>0 DEF OnFull
<1>2. "read" \in ChannelLabels /\ "readLock" \in ChannelLabels
  BY DEF ChannelLabels
<1>3. /\ pc[f] = "read" /\ f \notin ChannelQueued
      /\ f \notin Elems(channelMtx.waiters) /\ f \notin Elems(full.waiters) /\ f \notin Elems(space.waiters)
      /\ f \notin HavePlace /\ f \notin HaveItem /\ f \notin FreePlace /\ f \notin AddedItem
      /\ "read" \in WriteLabels => f \in ChannelWriters
  BY <1>2, AtLabelHas
<1>4. /\ r.obj \in Semaphore /\ r.wake = <<>>
      /\ full.count > 0 => ~r.park /\ r.obj.count = full.count - 1 /\ r.obj.waiters = full.waiters
      /\ full.count = 0 =>
           /\ r.park /\ r.obj.count = 0 /\ NoRepeats(r.obj.waiters)
           /\ Elems(r.obj.waiters) = Elems(full.waiters) \cup {f}
  <2>1. full \in Semaphore /\ NoRepeats(full.waiters) /\ f \notin Elems(full.waiters)
    BY <1>3 DEF ChannelIInv, ChannelObjects
  <2>. QED  BY <1>0, <2>1, SemWaitDoes
<1>5. /\ r.park => pc'[f] = "yield"
      /\ ~r.park => pc'[f] = "readLock"
      /\ next'[f] = "readLock"
      /\ \A g \in Fibers \ {f} : pc'[g] = pc[g] /\ next'[g] = next[g]
      /\ UNCHANGED contractVars
  BY <1>1, <1>4, ChannelTyped, PerformTo
<1>6. full.count \in Nat
  BY ChannelTyped
<1>7. /\ NoRepeats(r.obj.waiters)
      /\ r.park => Elems(r.obj.waiters) = Elems(full.waiters) \cup {f}
      /\ ~r.park => Elems(r.obj.waiters) = Elems(full.waiters)
  BY <1>4, <1>6 DEF ChannelIInv, ChannelObjects
<1>8. SyncOK(ChannelLabels, {}, ChannelQueued)'
  <2>1. SyncOK(ChannelLabels, {}, ChannelQueued) /\ Program(ChannelLabels, {})
    BY ChannelProgram DEF ChannelIInv
  <2>2. \/ ~r.park /\ ChannelQueued' = ChannelQueued
        \/ r.park /\ ChannelQueued' = ChannelQueued \cup {f}
    BY <1>1, <1>4, <1>6, <1>7 DEF ChannelQueued
  <2>. QED  BY <1>1, <1>2, <1>4, <2>1, <2>2, PerformKeeps
<1>9. ChannelQueuesAreRight'
  BY <1>1, <1>3, <1>5, <1>7, ChannelQueuesKeep, ChannelTyped DEF ChannelIInv
<1>10. ChannelObjects'
  BY <1>1, <1>4, <1>7 DEF ChannelIInv, ChannelObjects
<1>11. WritersWrite'
  <2>1. pc'[f] \in WriteLabels \/ next'[f] \in WriteLabels => f \in ChannelWriters
    BY <1>3, <1>4, <1>5, <1>6 DEF WriteLabels
  <2>. QED  BY <1>5, <2>1 DEF ChannelIInv, WritersWrite
<1>12. UnitsAreConserved'
  <2>1. \A g \in Fibers \ {f} : /\ g \in Elems(space.waiters)' <=> g \in Elems(space.waiters)
                                /\ g \in Elems(full.waiters)' <=> g \in Elems(full.waiters)
    BY <1>1, <1>7, <1>4, <1>6
  <2>2. f \notin HavePlace' /\ f \notin FreePlace' /\ f \notin AddedItem'
    BY <1>4, <1>5, <1>6, InSetsNext
  <2>3. HavePlace' = HavePlace /\ FreePlace' = FreePlace /\ AddedItem' = AddedItem
    BY <1>3, <1>5, <2>1, <2>2, SetsChangeByOne
  <2>4. CASE full.count > 0
    <3>1. f \in HaveItem'
      BY <1>4, <1>5, <2>4, InSetsNext
    <3>2. HaveItem' = HaveItem \cup {f}
      BY <1>5, <2>1, <3>1, SetsChangeByOne
    <3>3. Cardinality(HaveItem') = Cardinality(HaveItem) + 1 /\ Cardinality(HaveItem) \in Nat
      BY <1>3, <3>2, ChannelHowMany, SetsOfFibers
    <3>4. full'.count = full.count - 1
      BY <1>1, <1>4, <2>4
    <3>5. Cardinality(HavePlace) \in Nat /\ Cardinality(FreePlace) \in Nat /\ Cardinality(AddedItem) \in Nat
      BY ChannelHowMany, SetsOfFibers
    <3>6. UnitsAreConserved'
      <4>0. space.count + Len(items) + Cardinality(HavePlace) + Cardinality(FreePlace) = Capacity
        BY UnitsAre DEF ChannelIInv
      <4>1. full.count + Cardinality(HaveItem) + Cardinality(AddedItem) = Len(items)
        BY UnitsAre DEF ChannelIInv
      <4>2. /\ space.count \in Nat /\ full.count \in Nat /\ Len(items) \in Nat
            /\ Cardinality(HavePlace) \in Nat /\ Cardinality(FreePlace) \in Nat
            /\ Cardinality(HaveItem) \in Nat /\ Cardinality(AddedItem) \in Nat
        BY ChannelTyped, ChannelHowMany, SetsOfFibers
      <4>3. /\ Cardinality(HavePlace') = Cardinality(HavePlace)
            /\ Cardinality(FreePlace') = Cardinality(FreePlace)
            /\ Cardinality(HaveItem') = Cardinality(HaveItem) + 1
            /\ Cardinality(AddedItem') = Cardinality(AddedItem)
        BY <2>3, <3>3, <3>4, <3>5
      <4>4. /\ space'.count = space.count
            /\ full'.count = full.count - 1 /\ Len(items') = Len(items)
        BY <1>1, <2>3, <3>3, <3>4, <3>5
      <4>5. space'.count + Len(items') + Cardinality(HavePlace') + Cardinality(FreePlace') = Capacity
        BY <4>0, <4>2, <4>3, <4>4
      <4>6. full'.count + Cardinality(HaveItem') + Cardinality(AddedItem') = Len(items')
        BY <4>1, <4>2, <4>3, <4>4, SMTT(20)
      <4>. QED  BY <4>5, <4>6, UnitsAreNext
    <3>. QED  BY <3>6
  <2>5. CASE full.count = 0
    <3>1. f \notin HaveItem'
      BY <1>1, <1>4, <1>5, <1>7, <2>5, InSetsNext
    <3>2. HaveItem' = HaveItem
      BY <1>3, <1>5, <2>1, <3>1, SetsChangeByOne
    <3>3. full'.count = full.count
      BY <1>1, <1>4, <2>5
    <3>. QED  BY <1>1, <2>3, <3>2, <3>3, UnitsAre, UnitsAreNext DEF ChannelIInv
  <2>. QED  BY <1>6, <2>4, <2>5
<1>. QED  BY <1>5, <1>8, <1>9, <1>10, <1>11, <1>12 DEF ChannelIInv

(* full.signal(): the item goes to the first waiting reader or is counted.  *)
LEMMA SignalItem ==
  ASSUME ChannelIInv, NEW f \in Fibers, At(f, "signalFull"), OnFull(f, SemSignal(full), "out")
  PROVE  ChannelIInv' /\ UNCHANGED contractVars
<1>0. PICK r : r = SemSignal(full)
  OBVIOUS
<1>1. /\ full' = r.obj /\ Perform(f, r, "out")
      /\ channelMtx' = channelMtx /\ space' = space /\ items' = items
  BY <1>0 DEF OnFull
<1>2. "signalFull" \in ChannelLabels /\ "out" \in ChannelLabels
  BY DEF ChannelLabels
<1>3. /\ pc[f] = "signalFull" /\ f \notin ChannelQueued
      /\ f \notin Elems(channelMtx.waiters) /\ f \notin Elems(full.waiters) /\ f \notin Elems(space.waiters)
      /\ f \notin HavePlace /\ f \notin HaveItem /\ f \notin FreePlace /\ f \in AddedItem
  BY <1>2, AtLabelHas
<1>4. /\ r.obj \in Semaphore /\ ~r.park /\ NoRepeats(r.obj.waiters)
      /\ full.waiters = <<>> =>
           r.obj.count = full.count + 1 /\ r.wake = <<>> /\ r.obj.waiters = <<>>
      /\ full.waiters # <<>> =>
           /\ r.obj.count = full.count /\ r.wake = <<Head(full.waiters)>>
           /\ Head(full.waiters) \in Fibers /\ Head(full.waiters) \in Elems(full.waiters)
           /\ Elems(r.obj.waiters) = Elems(full.waiters) \ {Head(full.waiters)}
  <2>1. full \in Semaphore /\ NoRepeats(full.waiters)
    BY DEF ChannelIInv, ChannelObjects
  <2>. QED  BY <1>0, <2>1, SemSignalDoes
<1>5. /\ r.wake # <<>> => pc'[f] = "push"
      /\ r.wake = <<>> => pc'[f] = "out"
      /\ next'[f] = "out"
      /\ \A g \in Fibers \ {f} : pc'[g] = pc[g] /\ next'[g] = next[g]
      /\ UNCHANGED contractVars
  BY <1>1, <1>4, ChannelTyped, PerformTo
<1>6. /\ SyncOK(ChannelLabels, {}, ChannelQueued) /\ Program(ChannelLabels, {})
      /\ full.count \in Nat
      /\ Cardinality(HaveItem) \in Nat /\ Cardinality(AddedItem) \in Nat
      /\ Cardinality(HavePlace) \in Nat /\ Cardinality(FreePlace) \in Nat
  BY ChannelProgram, ChannelTyped, ChannelHowMany, SetsOfFibers DEF ChannelIInv
<1>7. f \notin HavePlace' /\ f \notin HaveItem' /\ f \notin FreePlace' /\ f \notin AddedItem'
  BY <1>5, InSetsNext
<1>8. /\ FreePlace' = FreePlace /\ HavePlace' = HavePlace
      /\ Cardinality(AddedItem') = Cardinality(AddedItem) - 1
  <2>1. FreePlace' = FreePlace /\ AddedItem' = AddedItem \ {f}
    BY <1>3, <1>5, <1>7, SetsChangeByOne
  <2>2. HavePlace' = HavePlace
    <3>1. Elems(space.waiters)' = Elems(space.waiters)
      BY <1>1
    <3>. QED  BY <1>3, <1>5, <1>7, <3>1, SetsChangeByOne
  <2>3. Cardinality(AddedItem \ {f}) = Cardinality(AddedItem) - 1
    BY <1>3, ChannelHowMany, SetsOfFibers
  <2>. QED  BY <2>1, <2>2, <2>3
<1>9. /\ SyncOK(ChannelLabels, {}, ChannelQueued)' /\ UnitsAreConserved'
      /\ Elems(full.waiters)' \subseteq Elems(full.waiters)
  <2>1. CASE full.waiters = <<>>
    <3>1. r.wake = <<>> /\ full'.waiters = full.waiters /\ full'.count = full.count + 1
      BY <1>1, <1>4, <2>1
    <3>2. SyncOK(ChannelLabels, {}, ChannelQueued)'
      <4>1. ChannelQueued' = ChannelQueued
        BY <1>1, <3>1 DEF ChannelQueued
      <4>. QED  BY <1>1, <1>2, <1>4, <1>6, <3>1, <4>1, PerformKeeps
    <3>3. HaveItem' = HaveItem
      <4>1. Elems(full.waiters)' = Elems(full.waiters)
        BY <3>1
      <4>. QED  BY <1>3, <1>5, <1>7, <4>1, SetsChangeByOne
    <3>4. UnitsAreConserved'
      <4>0. space.count + Len(items) + Cardinality(HavePlace) + Cardinality(FreePlace) = Capacity
        BY UnitsAre DEF ChannelIInv
      <4>1. full.count + Cardinality(HaveItem) + Cardinality(AddedItem) = Len(items)
        BY UnitsAre DEF ChannelIInv
      <4>2. /\ space.count \in Nat /\ full.count \in Nat /\ Len(items) \in Nat
            /\ Cardinality(HavePlace) \in Nat /\ Cardinality(FreePlace) \in Nat
            /\ Cardinality(HaveItem) \in Nat /\ Cardinality(AddedItem) \in Nat
        BY ChannelTyped, ChannelHowMany, SetsOfFibers
      <4>3. /\ Cardinality(HavePlace') = Cardinality(HavePlace)
            /\ Cardinality(FreePlace') = Cardinality(FreePlace)
            /\ Cardinality(HaveItem') = Cardinality(HaveItem)
            /\ Cardinality(AddedItem') = Cardinality(AddedItem) - 1
        BY <1>6, <1>8, <3>1, <3>3
      <4>4. /\ space'.count = space.count
            /\ full'.count = full.count + 1 /\ Len(items') = Len(items)
        BY <1>1, <1>6, <1>8, <3>1, <3>3
      <4>5. space'.count + Len(items') + Cardinality(HavePlace') + Cardinality(FreePlace') = Capacity
        BY <4>0, <4>2, <4>3, <4>4
      <4>6. full'.count + Cardinality(HaveItem') + Cardinality(AddedItem') = Len(items')
        BY <4>1, <4>2, <4>3, <4>4
      <4>. QED  BY <4>5, <4>6, UnitsAreNext
    <3>. QED  BY <3>1, <3>2, <3>4
  <2>2. CASE full.waiters # <<>>
    <3>1. PICK h \in Fibers : /\ r.wake = <<h>> /\ h \in Elems(full.waiters)
                              /\ Elems(r.obj.waiters) = Elems(full.waiters) \ {h}
                              /\ r.obj.count = full.count
      BY <1>4, <2>2
    <3>2. Elems(r.wake) = {h} /\ NoRepeats(r.wake) /\ r.wake \in Seq(Fibers) /\ r.wake # <<>>
      BY <3>1, SmallQueues
    <3>3. h # f /\ pc[h] \in {"yield", "parked"} /\ next[h] = "readLock"
      BY <1>3, <3>1 DEF ChannelIInv, ChannelQueuesAreRight, Waits
    <3>4. Elems(r.wake) \subseteq ChannelQueued /\ ChannelQueued' = ChannelQueued \ Elems(r.wake)
      BY <1>1, <3>1, <3>2, ChannelOneQueueEach DEF ChannelIInv, ChannelQueued
    <3>5. SyncOK(ChannelLabels, {}, ChannelQueued)'
      BY <1>1, <1>2, <1>4, <1>6, <3>2, <3>4, PerformKeeps
    <3>6. h \in HaveItem' /\ h \notin HaveItem
      BY <1>1, <1>5, <3>1, <3>3, InSets, InSetsNext DEF InsideOp
    <3>7. HaveItem' = HaveItem \cup {h}
      <4>1. \A g \in Fibers \ {f, h} : g \in HaveItem' <=> g \in HaveItem
        BY <1>1, <1>5, <3>1, ChannelOthersStay
      <4>. QED  BY <1>3, <1>7, <3>6, <4>1, SetsOfFibers
    <3>8. Cardinality(HaveItem') = Cardinality(HaveItem) + 1
      BY <3>6, <3>7, ChannelHowMany, SetsOfFibers
    <3>9. full'.count = full.count
      BY <1>1, <3>1
    <3>10. UnitsAreConserved'
      <4>0. space.count + Len(items) + Cardinality(HavePlace) + Cardinality(FreePlace) = Capacity
        BY UnitsAre DEF ChannelIInv
      <4>1. full.count + Cardinality(HaveItem) + Cardinality(AddedItem) = Len(items)
        BY UnitsAre DEF ChannelIInv
      <4>2. /\ space.count \in Nat /\ full.count \in Nat /\ Len(items) \in Nat
            /\ Cardinality(HavePlace) \in Nat /\ Cardinality(FreePlace) \in Nat
            /\ Cardinality(HaveItem) \in Nat /\ Cardinality(AddedItem) \in Nat
        BY ChannelTyped, ChannelHowMany, SetsOfFibers
      <4>3. /\ Cardinality(HavePlace') = Cardinality(HavePlace)
            /\ Cardinality(FreePlace') = Cardinality(FreePlace)
            /\ Cardinality(HaveItem') = Cardinality(HaveItem) + 1
            /\ Cardinality(AddedItem') = Cardinality(AddedItem) - 1
        BY <1>6, <1>8, <3>8, <3>9
      <4>4. /\ space'.count = space.count
            /\ full'.count = full.count /\ Len(items') = Len(items)
        BY <1>1, <1>6, <1>8, <3>8, <3>9
      <4>5. space'.count + Len(items') + Cardinality(HavePlace') + Cardinality(FreePlace') = Capacity
        BY <4>0, <4>2, <4>3, <4>4
      <4>6. full'.count + Cardinality(HaveItem') + Cardinality(AddedItem') = Len(items')
        BY <4>1, <4>2, <4>3, <4>4
      <4>. QED  BY <4>5, <4>6, UnitsAreNext
    <3>. QED  BY <1>1, <3>1, <3>5, <3>10
  <2>. QED  BY <2>1, <2>2
<1>10. ChannelQueuesAreRight'
  <2>1. /\ Elems(channelMtx.waiters)' = Elems(channelMtx.waiters)
        /\ Elems(space.waiters)' = Elems(space.waiters)
    BY <1>1
  <2>. QED  BY <1>3, <1>5, <1>9, <2>1, ChannelQueuesKeep, ChannelTyped DEF ChannelIInv
<1>11. ChannelObjects'
  BY <1>1, <1>4 DEF ChannelIInv, ChannelObjects
<1>12. WritersWrite'
  <2>1. pc'[f] \notin WriteLabels /\ next'[f] \notin WriteLabels
    BY <1>5 DEF WriteLabels
  <2>. QED  BY <1>5, <2>1 DEF ChannelIInv, WritersWrite
<1>. QED  BY <1>5, <1>9, <1>10, <1>11, <1>12 DEF ChannelIInv

(* space.signal(): the place goes to the first waiting writer or is counted.*)
LEMMA SignalPlace ==
  ASSUME ChannelIInv, NEW f \in Fibers, At(f, "signalSpace"), OnSpace(f, SemSignal(space), "out")
  PROVE  ChannelIInv' /\ UNCHANGED contractVars
<1>0. PICK r : r = SemSignal(space)
  OBVIOUS
<1>1. /\ space' = r.obj /\ Perform(f, r, "out")
      /\ channelMtx' = channelMtx /\ full' = full /\ items' = items
  BY <1>0 DEF OnSpace
<1>2. "signalSpace" \in ChannelLabels /\ "out" \in ChannelLabels
  BY DEF ChannelLabels
<1>3. /\ pc[f] = "signalSpace" /\ f \notin ChannelQueued
      /\ f \notin Elems(channelMtx.waiters) /\ f \notin Elems(full.waiters) /\ f \notin Elems(space.waiters)
      /\ f \notin HavePlace /\ f \notin HaveItem /\ f \notin AddedItem /\ f \in FreePlace
  BY <1>2, AtLabelHas
<1>4. /\ r.obj \in Semaphore /\ ~r.park /\ NoRepeats(r.obj.waiters)
      /\ space.waiters = <<>> =>
           r.obj.count = space.count + 1 /\ r.wake = <<>> /\ r.obj.waiters = <<>>
      /\ space.waiters # <<>> =>
           /\ r.obj.count = space.count /\ r.wake = <<Head(space.waiters)>>
           /\ Head(space.waiters) \in Fibers /\ Head(space.waiters) \in Elems(space.waiters)
           /\ Elems(r.obj.waiters) = Elems(space.waiters) \ {Head(space.waiters)}
  <2>1. space \in Semaphore /\ NoRepeats(space.waiters)
    BY DEF ChannelIInv, ChannelObjects
  <2>. QED  BY <1>0, <2>1, SemSignalDoes
<1>5. /\ r.wake # <<>> => pc'[f] = "push"
      /\ r.wake = <<>> => pc'[f] = "out"
      /\ next'[f] = "out"
      /\ \A g \in Fibers \ {f} : pc'[g] = pc[g] /\ next'[g] = next[g]
      /\ UNCHANGED contractVars
  BY <1>1, <1>4, ChannelTyped, PerformTo
<1>6. /\ SyncOK(ChannelLabels, {}, ChannelQueued) /\ Program(ChannelLabels, {})
      /\ space.count \in Nat
      /\ Cardinality(HavePlace) \in Nat /\ Cardinality(FreePlace) \in Nat
      /\ Cardinality(HaveItem) \in Nat /\ Cardinality(AddedItem) \in Nat
  BY ChannelProgram, ChannelTyped, ChannelHowMany, SetsOfFibers DEF ChannelIInv
<1>7. f \notin HavePlace' /\ f \notin HaveItem' /\ f \notin FreePlace' /\ f \notin AddedItem'
  BY <1>5, InSetsNext
<1>8. /\ AddedItem' = AddedItem /\ HaveItem' = HaveItem
      /\ Cardinality(FreePlace') = Cardinality(FreePlace) - 1
  <2>1. AddedItem' = AddedItem /\ FreePlace' = FreePlace \ {f}
    BY <1>3, <1>5, <1>7, SetsChangeByOne
  <2>2. HaveItem' = HaveItem
    <3>1. Elems(full.waiters)' = Elems(full.waiters)
      BY <1>1
    <3>. QED  BY <1>3, <1>5, <1>7, <3>1, SetsChangeByOne
  <2>3. Cardinality(FreePlace \ {f}) = Cardinality(FreePlace) - 1
    BY <1>3, ChannelHowMany, SetsOfFibers
  <2>. QED  BY <2>1, <2>2, <2>3
<1>9. /\ SyncOK(ChannelLabels, {}, ChannelQueued)' /\ UnitsAreConserved'
      /\ Elems(space.waiters)' \subseteq Elems(space.waiters)
  <2>1. CASE space.waiters = <<>>
    <3>1. r.wake = <<>> /\ space'.waiters = space.waiters /\ space'.count = space.count + 1
      BY <1>1, <1>4, <2>1
    <3>2. SyncOK(ChannelLabels, {}, ChannelQueued)'
      <4>1. ChannelQueued' = ChannelQueued
        BY <1>1, <3>1 DEF ChannelQueued
      <4>. QED  BY <1>1, <1>2, <1>4, <1>6, <3>1, <4>1, PerformKeeps
    <3>3. HavePlace' = HavePlace
      <4>1. Elems(space.waiters)' = Elems(space.waiters)
        BY <3>1
      <4>. QED  BY <1>3, <1>5, <1>7, <4>1, SetsChangeByOne
    <3>4. UnitsAreConserved'
      <4>0. space.count + Len(items) + Cardinality(HavePlace) + Cardinality(FreePlace) = Capacity
        BY UnitsAre DEF ChannelIInv
      <4>1. full.count + Cardinality(HaveItem) + Cardinality(AddedItem) = Len(items)
        BY UnitsAre DEF ChannelIInv
      <4>2. /\ space.count \in Nat /\ full.count \in Nat /\ Len(items) \in Nat
            /\ Cardinality(HavePlace) \in Nat /\ Cardinality(FreePlace) \in Nat
            /\ Cardinality(HaveItem) \in Nat /\ Cardinality(AddedItem) \in Nat
        BY ChannelTyped, ChannelHowMany, SetsOfFibers
      <4>3. /\ Cardinality(HavePlace') = Cardinality(HavePlace)
            /\ Cardinality(FreePlace') = Cardinality(FreePlace) - 1
            /\ Cardinality(FreePlace') \in Int
            /\ Cardinality(HaveItem') = Cardinality(HaveItem)
            /\ Cardinality(AddedItem') = Cardinality(AddedItem)
        BY <1>6, <1>8, <3>1, <3>3
      <4>4. /\ space'.count = space.count + 1
            /\ full'.count = full.count /\ Len(items') = Len(items)
        BY <1>1, <1>6, <1>8, <3>1, <3>3
      <4>5. space'.count + Len(items') + Cardinality(HavePlace') + Cardinality(FreePlace') = Capacity
        <5>1. space.count \in Nat /\ Len(items) \in Nat /\ Capacity \in Int
          BY <4>2, ChannelAssumption
        <5>2. Cardinality(HavePlace) \in Nat /\ Cardinality(FreePlace) \in Nat
          BY <4>2
        <5>3. /\ Cardinality(HavePlace') = Cardinality(HavePlace)
              /\ Cardinality(FreePlace') = Cardinality(FreePlace) - 1
              /\ Cardinality(FreePlace') \in Int
          BY <4>3
        <5>4. space'.count = space.count + 1 /\ Len(items') = Len(items)
          BY <4>4
        <5>. QED  BY <4>0, <5>1, <5>2, <5>3, <5>4, SMTT(20)
      <4>6. full'.count + Cardinality(HaveItem') + Cardinality(AddedItem') = Len(items')
        BY <4>1, <4>2, <4>3, <4>4
      <4>. QED  BY <4>5, <4>6, UnitsAreNext
    <3>. QED  BY <3>1, <3>2, <3>4
  <2>2. CASE space.waiters # <<>>
    <3>1. PICK h \in Fibers : /\ r.wake = <<h>> /\ h \in Elems(space.waiters)
                              /\ Elems(r.obj.waiters) = Elems(space.waiters) \ {h}
                              /\ r.obj.count = space.count
      BY <1>4, <2>2
    <3>2. Elems(r.wake) = {h} /\ NoRepeats(r.wake) /\ r.wake \in Seq(Fibers) /\ r.wake # <<>>
      BY <3>1, SmallQueues
    <3>3. h # f /\ pc[h] \in {"yield", "parked"} /\ next[h] = "writeLock"
      BY <1>3, <3>1 DEF ChannelIInv, ChannelQueuesAreRight, Waits
    <3>4. Elems(r.wake) \subseteq ChannelQueued /\ ChannelQueued' = ChannelQueued \ Elems(r.wake)
      BY <1>1, <3>1, <3>2, ChannelOneQueueEach DEF ChannelIInv, ChannelQueued
    <3>5. SyncOK(ChannelLabels, {}, ChannelQueued)'
      BY <1>1, <1>2, <1>4, <1>6, <3>2, <3>4, PerformKeeps
    <3>6. h \in HavePlace' /\ h \notin HavePlace
      BY <1>1, <1>5, <3>1, <3>3, InSets, InSetsNext DEF InsideOp
    <3>7. HavePlace' = HavePlace \cup {h}
      <4>1. \A g \in Fibers \ {f, h} : g \in HavePlace' <=> g \in HavePlace
        BY <1>1, <1>5, <3>1, ChannelOthersStay
      <4>. QED  BY <1>3, <1>7, <3>6, <4>1, SetsOfFibers
    <3>8. Cardinality(HavePlace') = Cardinality(HavePlace) + 1
      BY <3>6, <3>7, ChannelHowMany, SetsOfFibers
    <3>9. space'.count = space.count
      BY <1>1, <3>1
    <3>10. UnitsAreConserved'
      <4>0. space.count + Len(items) + Cardinality(HavePlace) + Cardinality(FreePlace) = Capacity
        BY UnitsAre DEF ChannelIInv
      <4>1. full.count + Cardinality(HaveItem) + Cardinality(AddedItem) = Len(items)
        BY UnitsAre DEF ChannelIInv
      <4>2. /\ space.count \in Nat /\ full.count \in Nat /\ Len(items) \in Nat
            /\ Cardinality(HavePlace) \in Nat /\ Cardinality(FreePlace) \in Nat
            /\ Cardinality(HaveItem) \in Nat /\ Cardinality(AddedItem) \in Nat
        BY ChannelTyped, ChannelHowMany, SetsOfFibers
      <4>3. /\ Cardinality(HavePlace') = Cardinality(HavePlace) + 1
            /\ Cardinality(FreePlace') = Cardinality(FreePlace) - 1
            /\ Cardinality(FreePlace') \in Int
            /\ Cardinality(HaveItem') = Cardinality(HaveItem)
            /\ Cardinality(AddedItem') = Cardinality(AddedItem)
        BY <1>6, <1>8, <3>8, <3>9
      <4>4. /\ space'.count = space.count
            /\ full'.count = full.count /\ Len(items') = Len(items)
        BY <1>1, <1>6, <1>8, <3>8, <3>9
      <4>5. space'.count + Len(items') + Cardinality(HavePlace') + Cardinality(FreePlace') = Capacity
        <5>1. space.count \in Nat /\ Len(items) \in Nat /\ Capacity \in Int
          BY <4>2, ChannelAssumption
        <5>2. Cardinality(HavePlace) \in Nat /\ Cardinality(FreePlace) \in Nat
          BY <4>2
        <5>3. /\ Cardinality(HavePlace') = Cardinality(HavePlace) + 1
              /\ Cardinality(FreePlace') = Cardinality(FreePlace) - 1
              /\ Cardinality(FreePlace') \in Int
          BY <4>3
        <5>4. space'.count = space.count /\ Len(items') = Len(items)
          BY <4>4
        <5>5. PICK a, b, n, k : /\ a = Cardinality(HavePlace) /\ b = Cardinality(FreePlace)
                                /\ n = Len(items) /\ k = space.count
          OBVIOUS
        <5>6. /\ a \in Nat /\ b \in Nat /\ n \in Nat /\ k \in Nat /\ Capacity \in Int
              /\ k + n + a + b = Capacity
          BY <4>0, <5>1, <5>2, <5>5
        <5>7. k + n + (a + 1) + (b - 1) = Capacity
          BY <5>6
        <5>. QED  BY <5>3, <5>4, <5>5, <5>7
      <4>6. full'.count + Cardinality(HaveItem') + Cardinality(AddedItem') = Len(items')
        BY <4>1, <4>2, <4>3, <4>4
      <4>. QED  BY <4>5, <4>6, UnitsAreNext
    <3>. QED  BY <1>1, <3>1, <3>5, <3>10
  <2>. QED  BY <2>1, <2>2
<1>10. ChannelQueuesAreRight'
  <2>1. /\ Elems(channelMtx.waiters)' = Elems(channelMtx.waiters)
        /\ Elems(full.waiters)' = Elems(full.waiters)
    BY <1>1
  <2>. QED  BY <1>3, <1>5, <1>9, <2>1, ChannelQueuesKeep, ChannelTyped DEF ChannelIInv
<1>11. ChannelObjects'
  BY <1>1, <1>4 DEF ChannelIInv, ChannelObjects
<1>12. WritersWrite'
  <2>1. pc'[f] \notin WriteLabels /\ next'[f] \notin WriteLabels
    BY <1>5 DEF WriteLabels
  <2>. QED  BY <1>5, <2>1 DEF ChannelIInv, WritersWrite
<1>. QED  BY <1>5, <1>9, <1>10, <1>11, <1>12 DEF ChannelIInv

(* items.push_back: the writer's place becomes an item, and there was room. *)
LEMMA Appends ==
  ASSUME ChannelIInv, NEW f \in Fibers, At(f, "append"), items' = AddItem(f),
         Goto(f, "writeUnlock"), UNCHANGED <<channelMtx, full, space>>
  PROVE  ChannelIInv' /\ UNCHANGED contractVars /\ Buffer!Write(f) /\ f \in ChannelWriters
<1>0. channelMtx' = channelMtx /\ full' = full /\ space' = space /\ ChannelQueued' = ChannelQueued
  BY DEF ChannelQueued
<1>1. "append" \in ChannelLabels /\ "writeUnlock" \in ChannelLabels /\ "append" \in WriteLabels
  BY DEF ChannelLabels, WriteLabels
<1>2. /\ pc[f] = "append" /\ f \notin ChannelQueued /\ f \in ChannelWriters
      /\ f \in HavePlace /\ f \notin HaveItem /\ f \notin FreePlace /\ f \notin AddedItem
  BY <1>1, AtLabelHas
<1>3. /\ pc'[f] = "writeUnlock" /\ next'[f] = next[f] /\ UNCHANGED contractVars
      /\ \A g \in Fibers \ {f} : pc'[g] = pc[g] /\ next'[g] = next[g]
  BY GotoTo, ChannelTyped
<1>4. SyncOK(ChannelLabels, {}, ChannelQueued)'
  BY <1>0, <1>1, GotoKeeps, ChannelProgram DEF ChannelIInv
<1>5. f \notin HavePlace' /\ f \notin HaveItem' /\ f \notin FreePlace' /\ f \in AddedItem'
  BY <1>3, InSetsNext DEF InsideOp
<1>6. /\ HavePlace' = HavePlace \ {f} /\ AddedItem' = AddedItem \cup {f}
      /\ HaveItem' = HaveItem /\ FreePlace' = FreePlace
  BY <1>0, <1>2, <1>3, <1>5, SetsChangeByOne
<1>7. items \in Seq(ChannelWriters) /\ items' \in Seq(ChannelWriters) /\ Len(items') = Len(items) + 1
  BY <1>2 DEF ChannelIInv, ChannelObjects, AddItem
<1>8. /\ Cardinality(HavePlace') = Cardinality(HavePlace) - 1 /\ Cardinality(HavePlace) > 0
      /\ Cardinality(AddedItem') = Cardinality(AddedItem) + 1
  BY <1>2, <1>6, ChannelHowMany, SetsOfFibers
<1>9. UnitsAreConserved' /\ Len(items) < Capacity
  <2>1. PICK a, b, c, d, i, s, n :
          /\ a = Cardinality(HavePlace) /\ b = Cardinality(FreePlace)
          /\ c = Cardinality(HaveItem) /\ d = Cardinality(AddedItem)
          /\ i = full.count /\ s = space.count /\ n = Len(items)
    OBVIOUS
  <2>2. /\ a \in Nat /\ b \in Nat /\ c \in Nat /\ d \in Nat /\ i \in Nat /\ s \in Nat /\ n \in Nat
        /\ Capacity \in Int /\ a > 0
    BY <1>8, <2>1, ChannelHowMany, SetsOfFibers, ChannelTyped, ChannelAssumption
  <2>3. s + n + a + b = Capacity /\ i + c + d = n
    BY <2>1, UnitsAre DEF ChannelIInv
  <2>4. /\ s + (n + 1) + (a - 1) + b = Capacity /\ i + c + (d + 1) = n + 1
        /\ n < Capacity
    BY <2>2, <2>3
  <2>5. UnitsAreConserved'
    BY <1>0, <1>6, <1>7, <1>8, <2>1, <2>4, UnitsAreNext
  <2>. QED  BY <2>1, <2>4, <2>5
<1>10. ChannelQueuesAreRight'
  BY <1>0, <1>2, <1>3, ChannelQueuesKeep, ChannelTyped DEF ChannelIInv, ChannelQueued
<1>11. ChannelObjects' /\ WritersWrite'
  <2>1. ChannelObjects'
    BY <1>0, <1>7 DEF ChannelIInv, ChannelObjects
  <2>2. WritersWrite'
    BY <1>2, <1>3 DEF ChannelIInv, WritersWrite
  <2>. QED  BY <2>1, <2>2
<1>12. Buffer!Write(f)
  BY <1>9 DEF Buffer!Write, AddItem
<1>. QED  BY <1>2, <1>3, <1>4, <1>9, <1>10, <1>11, <1>12 DEF ChannelIInv

(* items.pop_front: the reader's item becomes a free place.                 *)
LEMMA Takes ==
  ASSUME ChannelIInv, NEW f \in Fibers, At(f, "take"), items # <<>>, items' = Tail(items),
         Goto(f, "readUnlock"), UNCHANGED <<channelMtx, full, space>>
  PROVE  ChannelIInv' /\ UNCHANGED contractVars /\ Buffer!Read
<1>0. channelMtx' = channelMtx /\ full' = full /\ space' = space /\ ChannelQueued' = ChannelQueued
  BY DEF ChannelQueued
<1>1. "take" \in ChannelLabels /\ "readUnlock" \in ChannelLabels
  BY DEF ChannelLabels
<1>2. /\ pc[f] = "take" /\ f \notin ChannelQueued
      /\ f \notin HavePlace /\ f \in HaveItem /\ f \notin FreePlace /\ f \notin AddedItem
  BY <1>1, AtLabelHas
<1>3. /\ pc'[f] = "readUnlock" /\ next'[f] = next[f] /\ UNCHANGED contractVars
      /\ \A g \in Fibers \ {f} : pc'[g] = pc[g] /\ next'[g] = next[g]
  BY GotoTo, ChannelTyped
<1>4. SyncOK(ChannelLabels, {}, ChannelQueued)'
  BY <1>0, <1>1, GotoKeeps, ChannelProgram DEF ChannelIInv
<1>5. f \notin HavePlace' /\ f \notin HaveItem' /\ f \in FreePlace' /\ f \notin AddedItem'
  BY <1>3, InSetsNext DEF InsideOp
<1>6. /\ HaveItem' = HaveItem \ {f} /\ FreePlace' = FreePlace \cup {f}
      /\ HavePlace' = HavePlace /\ AddedItem' = AddedItem
  BY <1>0, <1>2, <1>3, <1>5, SetsChangeByOne
<1>7. items' \in Seq(ChannelWriters) /\ Len(items') = Len(items) - 1
  BY DEF ChannelIInv, ChannelObjects
<1>8. /\ Cardinality(HaveItem') = Cardinality(HaveItem) - 1
      /\ Cardinality(FreePlace') = Cardinality(FreePlace) + 1
  BY <1>2, <1>6, ChannelHowMany, SetsOfFibers
<1>9. UnitsAreConserved'
  <2>1. PICK a, b, c, d, i, s, n :
          /\ a = Cardinality(HavePlace) /\ b = Cardinality(FreePlace)
          /\ c = Cardinality(HaveItem) /\ d = Cardinality(AddedItem)
          /\ i = full.count /\ s = space.count /\ n = Len(items)
    OBVIOUS
  <2>2. /\ a \in Nat /\ b \in Nat /\ c \in Nat /\ d \in Nat /\ i \in Nat /\ s \in Nat /\ n \in Nat
        /\ Capacity \in Int
    BY <2>1, ChannelHowMany, SetsOfFibers, ChannelTyped, ChannelAssumption
  <2>3. s + n + a + b = Capacity /\ i + c + d = n
    BY <2>1, UnitsAre DEF ChannelIInv
  <2>4. s + (n - 1) + a + (b + 1) = Capacity /\ i + (c - 1) + d = n - 1
    BY <2>2, <2>3
  <2>. QED  BY <1>0, <1>6, <1>7, <1>8, <2>1, <2>4, UnitsAreNext
<1>10. ChannelQueuesAreRight'
  BY <1>0, <1>2, <1>3, ChannelQueuesKeep, ChannelTyped DEF ChannelIInv, ChannelQueued
<1>11. ChannelObjects' /\ WritersWrite'
  <2>1. ChannelObjects'
    BY <1>0, <1>7 DEF ChannelIInv, ChannelObjects
  <2>2. WritersWrite'
    BY <1>3 DEF ChannelIInv, WritersWrite, WriteLabels
  <2>. QED  BY <2>1, <2>2
<1>. QED  BY <1>3, <1>4, <1>9, <1>10, <1>11 DEF ChannelIInv, Buffer!Read

-----------------------------------------------------------------------------
(* The theorems *)

(* The invariant holds at the start ... *)
LEMMA ChannelIInvInit == ChannelInit => ChannelIInv
<1> SUFFICES ASSUME ChannelInit PROVE ChannelIInv
  OBVIOUS
<1>1. /\ channelMtx = [locked |-> FALSE, waiters |-> <<>>] /\ items = <<>>
      /\ full = [count |-> 0, waiters |-> <<>>]
      /\ space = [count |-> Capacity, waiters |-> <<>>]
      /\ Elems(<<>>) = {} /\ NoRepeats(<<>>)
      /\ Capacity \in Nat
  BY SmallQueues, ChannelAssumption DEF ChannelInit, NewMutex, NewSemaphore
<1>2. ChannelQueued = {}
  BY <1>1 DEF ChannelQueued
<1>3. SyncOK(ChannelLabels, {}, ChannelQueued)
  <2>1. "out" \in ChannelLabels \ {}
    BY DEF ChannelLabels
  <2>. QED  BY <1>2, <2>1, StartsOK DEF ChannelInit
<1>4. ChannelObjects /\ ChannelQueuesAreRight
  BY <1>1 DEF ChannelObjects, Mutex, Semaphore, ChannelQueuesAreRight
<1>5. \A f \in Fibers : pc[f] = "parked" /\ next[f] = "out"
  BY DEF ChannelInit, SyncInit
<1>6. WritersWrite
  BY <1>5 DEF WritersWrite, WriteLabels
<1>7. UnitsAreConserved
  <2>1. HavePlace = {} /\ FreePlace = {} /\ HaveItem = {} /\ AddedItem = {}
    BY <1>5 DEF HavePlace, FreePlace, HaveItem, AddedItem, AtOneOf
  <2>2. Cardinality({}) = 0 /\ Len(items) = 0
    BY <1>1, FS_EmptySet
  <2>. QED  BY <1>1, <2>1, <2>2, UnitsAre
<1>. QED  BY <1>3, <1>4, <1>6, <1>7 DEF ChannelIInv

(* ... and at every step, which is one of the contract or none of its       *)
(* business, and a step of the bounded buffer or none of its.               *)
LEMMA ChannelIInvStep ==
  ChannelIInv /\ [ChannelNext]_channelVars =>
    ChannelIInv' /\ [ContractNext]_contractVars /\ [BufferStep]_items
<1> SUFFICES ASSUME ChannelIInv, [ChannelNext]_channelVars
             PROVE  ChannelIInv' /\ [ContractNext]_contractVars /\ [BufferStep]_items
  OBVIOUS
<1>1. CASE UNCHANGED channelVars
  <2>1. /\ pc' = pc /\ next' = next /\ UNCHANGED contractVars
        /\ channelMtx' = channelMtx /\ full' = full /\ space' = space /\ items' = items
    BY <1>1 DEF channelVars, syncVars, contractVars, channelObjs
  <2>2. SyncOK(ChannelLabels, {}, ChannelQueued)'
    <3>1. ChannelQueued' = ChannelQueued
      BY <2>1 DEF ChannelQueued
    <3>. QED  BY <1>1, <3>1, SameKeeps DEF ChannelIInv, channelVars
  <2>3. /\ HavePlace' = HavePlace /\ HaveItem' = HaveItem
        /\ FreePlace' = FreePlace /\ AddedItem' = AddedItem
    BY <2>1 DEF HavePlace, FreePlace, HaveItem, AddedItem, AtOneOf
  <2>4. ChannelObjects' /\ ChannelQueuesAreRight' /\ WritersWrite'
    BY <2>1 DEF ChannelIInv, ChannelObjects, ChannelQueuesAreRight, Waits, WritersWrite
  <2>5. UnitsAreConserved'
    BY <2>1, <2>3, UnitsAre, UnitsAreNext DEF ChannelIInv
  <2>. QED  BY <2>1, <2>2, <2>4, <2>5 DEF ChannelIInv
<1>2. ASSUME NEW f \in Fibers,
             \/ SyncStep(f) /\ UNCHANGED channelObjs
             \/ ChannelBegin(f) \/ ChannelRest(f) \/ WriteStep(f) \/ ReadStep(f)
      PROVE  ChannelIInv' /\ [ContractNext]_contractVars /\ [BufferStep]_items
  <2>1. CASE SyncStep(f) /\ UNCHANGED channelObjs
    BY <2>1, ChannelSyncSteps DEF channelObjs
  <2>2. CASE ChannelBegin(f) \/ ChannelRest(f)
    BY <2>2, ChannelOutside DEF ChannelBegin, ChannelRest, channelObjs
  <2>3. CASE WriteStep(f)
    <3>1. CASE At(f, "write") /\ OnSpace(f, SemWait(space, f), "writeLock")
      BY <3>1, WaitForPlace DEF OnSpace
    <3>2. CASE At(f, "writeLock") /\ OnMtx(f, MutexLock(channelMtx, f), "append")
      BY <3>2, MutexSteps DEF OnMtx
    <3>3. CASE /\ At(f, "append") /\ items' = AddItem(f)
               /\ Goto(f, "writeUnlock") /\ UNCHANGED <<channelMtx, full, space>>
      BY <3>3, Appends DEF BufferStep
    <3>4. CASE At(f, "writeUnlock") /\ OnMtx(f, MutexUnlock(channelMtx), "signalFull")
      BY <3>4, MutexSteps DEF OnMtx
    <3>5. CASE At(f, "signalFull") /\ OnFull(f, SemSignal(full), "out")
      BY <3>5, SignalItem DEF OnFull
    <3>. QED  BY <2>3, <3>1, <3>2, <3>3, <3>4, <3>5 DEF WriteStep
  <2>4. CASE ReadStep(f)
    <3>1. CASE At(f, "read") /\ OnFull(f, SemWait(full, f), "readLock")
      BY <3>1, WaitForItem DEF OnFull
    <3>2. CASE At(f, "readLock") /\ OnMtx(f, MutexLock(channelMtx, f), "take")
      BY <3>2, MutexSteps DEF OnMtx
    <3>3. CASE /\ At(f, "take") /\ items # <<>> /\ items' = Tail(items)
               /\ Goto(f, "readUnlock") /\ UNCHANGED <<channelMtx, full, space>>
      BY <3>3, Takes DEF BufferStep
    <3>4. CASE At(f, "readUnlock") /\ OnMtx(f, MutexUnlock(channelMtx), "signalSpace")
      BY <3>4, MutexSteps DEF OnMtx
    <3>5. CASE At(f, "signalSpace") /\ OnSpace(f, SemSignal(space), "out")
      BY <3>5, SignalPlace DEF OnSpace
    <3>. QED  BY <2>4, <3>1, <3>2, <3>3, <3>4, <3>5 DEF ReadStep
  <2>. QED  BY <1>2, <2>1, <2>2, <2>3, <2>4
<1>. QED  BY <1>1, <1>2 DEF ChannelNext

(* It says what ChannelInv says, *)
LEMMA ChannelIInvImplies == ChannelIInv => ChannelInv
BY DEF ChannelIInv, SyncOK, ChannelObjects, ChannelTypeOK, ChannelInv

(* and that the buffer is never too full, and never empty for a reader that *)
(* is about to take: front() of an empty deque would be undefined.          *)
LEMMA IInvFindsAnItem ==
  ChannelIInv => \A f \in Fibers : At(f, "take") => items # <<>>
<1> SUFFICES ASSUME ChannelIInv, NEW f \in Fibers, At(f, "take") PROVE items # <<>>
  OBVIOUS
<1>1. f \in HaveItem
  BY AtLabelHas DEF ChannelLabels
<1>2. Cardinality(HaveItem) > 0 /\ Cardinality(HaveItem) \in Nat /\ Cardinality(AddedItem) \in Nat
  BY <1>1, ChannelHowMany, SetsOfFibers
<1>3. full.count + Cardinality(HaveItem) + Cardinality(AddedItem) = Len(items) /\ full.count \in Nat
  BY UnitsAre, ChannelTyped DEF ChannelIInv
<1>4. Len(items) > 0
  BY <1>2, <1>3
<1>. QED  BY <1>4 DEF ChannelIInv, ChannelObjects

(* channel, for any capacity, any writers, readers and threads: no unit of  *)
(* its semaphores is lost or duplicated.                                    *)
THEOREM ChannelIsSafe == ChannelSpec => []ChannelInv
<1>1. ChannelSpec => []ChannelIInv
  BY ChannelIInvInit, ChannelIInvStep, PTL DEF ChannelSpec
<1>. QED  BY <1>1, ChannelIInvImplies, PTL

(* A reader that passed full.wait() and locked the mutex finds an item: the *)
(* guard of its step never stops it, and front() is never undefined.        *)
THEOREM ReadersFindAnItem == ChannelSpec => [](\A f \in Fibers : At(f, "take") => items # <<>>)
<1>1. ChannelSpec => []ChannelIInv
  BY ChannelIInvInit, ChannelIInvStep, PTL DEF ChannelSpec
<1>. QED  BY <1>1, IInvFindsAnItem, PTL

(* Its fibers use the scheduler as they must. *)
THEOREM ChannelRespectsContract == ChannelSpec => RespectsContract
<1>1. ChannelSpec => []ChannelIInv
  BY ChannelIInvInit, ChannelIInvStep, PTL DEF ChannelSpec
<1>. QED  BY <1>1, ChannelIInvStep, PTL DEF ChannelSpec, RespectsContract

(* The channel implements the bounded first-in first-out buffer: what is    *)
(* written is read once, in order, and never more than Capacity is kept.    *)
THEOREM ChannelIsABuffer == ChannelSpec => ImplementsBuffer
<1>1. ChannelSpec => []ChannelIInv
  BY ChannelIInvInit, ChannelIInvStep, PTL DEF ChannelSpec
<1>2. ChannelInit => Buffer!BufferInit
  BY DEF ChannelInit, Buffer!BufferInit
<1>3. [BufferStep]_items => [(\E x \in ChannelWriters : Buffer!Write(x)) \/ Buffer!Read]_items
  BY DEF BufferStep
<1>. QED  BY <1>1, <1>2, <1>3, ChannelIInvStep, PTL DEF ChannelSpec, ImplementsBuffer, Buffer!BufferSpec
=============================================================================
