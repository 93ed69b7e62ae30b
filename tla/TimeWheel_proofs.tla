-------------------------- MODULE TimeWheel_proofs --------------------------
(***************************************************************************)
(* Proofs about TimeWheel, for any number of slots, any items, any clock   *)
(* and any width of the integers, as long as the loop comes round often    *)
(* enough for its count of slots to fit an int: 24.8 days with 2^32.       *)
(***************************************************************************)
EXTENDS TimeWheel, TLAPS

(* The loop is not half the range of an int late.  The run TimeWheel_overflow *)
(* shows what happens when it is.                                             *)
LoopIsPrompt == clock - ullStart + 1 < IntWord \div 2

-----------------------------------------------------------------------------
(* Remainders *)

(* A remainder is a number of a slot. *)
LEMMA ModRange ==
  ASSUME NEW S \in Nat \ {0}, NEW n \in Int
  PROVE  n % S \in 0 .. S - 1
OBVIOUS

(* What is smaller than the divisor is its own remainder. *)
LEMMA ModSmall ==
  ASSUME NEW S \in Nat \ {0}, NEW n \in 0 .. S - 1
  PROVE  n % S = n
OBVIOUS

(* What a remainder is. *)
LEMMA ModDiv ==
  ASSUME NEW S \in Nat \ {0}, NEW n \in Int
  PROVE  n \div S \in Int /\ n = (S * (n \div S)) + (n % S)
OBVIOUS

(* There is one. *)
LEMMA ModUnique ==
  ASSUME NEW S \in Nat \ {0}, NEW k \in Int, NEW x \in 0 .. S - 1, NEW y \in 0 .. S - 1,
         x - y = S * k
  PROVE  x = y
<1>1. CASE k = 0
  BY <1>1
<1>2. CASE k > 0
  <2>1. S * k >= S
    BY <1>2
  <2>. QED  BY <2>1
<1>3. CASE k < 0
  <2>1. S * k <= -S
    BY <1>3
  <2>. QED  BY <2>1
<1>. QED  BY <1>1, <1>2, <1>3

(* Going round the wheel changes nothing. *)
LEMMA ModShift ==
  ASSUME NEW S \in Nat \ {0}, NEW a \in Int, NEW n \in Int
  PROVE  (a + (n % S)) % S = (a + n) % S
<1>1. PICK q, x, y : q = n \div S /\ x = (a + (n % S)) \div S /\ y = (a + n) \div S
  OBVIOUS
<1>2. q \in Int /\ x \in Int /\ y \in Int
  BY <1>1, ModDiv
<1>3. PICK r, u, v : r = n % S /\ u = (a + (n % S)) % S /\ v = (a + n) % S
  OBVIOUS
<1>4. r \in 0 .. S - 1 /\ u \in 0 .. S - 1 /\ v \in 0 .. S - 1
  BY <1>3
<1>5. n = S * q + r /\ a + r = S * x + u /\ a + n = S * y + v
  <2>1. n = S * q + r
    BY <1>1, <1>3, ModDiv
  <2>2. a + r = S * x + u
    BY <1>1, <1>3, <1>4, ModDiv
  <2>3. a + n = S * y + v
    BY <1>1, <1>3, ModDiv
  <2>. QED  BY <2>1, <2>2, <2>3
<1>6. u - v = S * (y - x - q)
  BY <1>2, <1>4, <1>5
<1>7. u = v
  BY <1>2, <1>4, <1>6, ModUnique
<1>. QED  BY <1>3, <1>7

-----------------------------------------------------------------------------
(* The inductive invariant *)

(* The list of a round: its items have left the wheel, their fibers wait,   *)
(* and those that came out by their slot belong to a round that advanced it.*)
ListIsRight ==
  /\ Linked \subseteq parked
  /\ active \subseteq parked /\ active \cap Linked = {}
  /\ bTimeout \subseteq active
  /\ pc = "wait" => active = {}
  /\ bTimeout # {} => now >= ullStart

IInv == TypeOK /\ ullStart >= 1 /\ ListIsRight /\ SlotsAgree

(* What the assumptions and the types say. *)
LEMMA Typed ==
  ASSUME IInv
  PROVE  /\ Size \in Nat \ {0} /\ Word \in Nat /\ MaxTime < Word /\ MaxTime \in Nat
         /\ clock \in Nat /\ clock <= MaxTime /\ ullStart \in Nat /\ ullStart >= 1
         /\ ullStart <= MaxTime /\ llStartIdx \in Nat /\ now \in Nat /\ now <= MaxTime
         /\ \A i \in Items : ullExpireTime[i] \in 0 .. Word - 1
BY WheelAssumption DEF IInv, TypeOK

(* The numbers of the slots that a round empties are exact. *)
LEMMA CountIsExact ==
  ASSUME IInv, LoopIsPrompt, clock >= ullStart
  PROVE  RawCnt(clock) = clock - ullStart + 1
<1>1. PICK c : c = clock - ullStart + 1
  OBVIOUS
<1>2. /\ c \in Nat /\ c < Word /\ c < IntWord \div 2
      /\ Word \in Nat /\ IntWord \in Nat
  BY <1>1, Typed, WheelAssumption DEF LoopIsPrompt
<1>3. IntWord \div 2 <= IntWord
  BY <1>2
<1>4. c % Word = c /\ c % IntWord = c
  BY <1>2, <1>3, ModSmall
<1>. QED  BY <1>1, <1>2, <1>4 DEF RawCnt, AsInt

(* An accepted item is linked into the slot that stands for its time. *)
LEMMA SlotIsRight ==
  ASSUME IInv, NEW e \in 0 .. Word - 1, NEW t \in Int, Accepts(e, t)
  PROVE  /\ e >= ullStart /\ SlotFor(e) \in Slots /\ SlotFor(e) # NoSlot
         /\ SlotFor(e) = (llStartIdx + (e - ullStart)) % Size
<1>1. e >= ullStart
  BY Typed DEF Accepts
<1>2. (e - ullStart) % Word = e - ullStart
  BY <1>1, Typed, ModSmall
<1>3. SlotFor(e) = (llStartIdx + (e - ullStart)) % Size
  BY <1>2 DEF SlotFor
<1>4. SlotFor(e) \in Slots
  <2>1. llStartIdx + (e - ullStart) \in Int /\ Size \in Nat \ {0}
    BY Typed
  <2>. QED  BY <1>3, <2>1, ModRange DEF Slots
<1>. QED  BY <1>1, <1>3, <1>4, WheelAssumption

-----------------------------------------------------------------------------
(* The steps *)

(* A call that waits: the item is new. *)
LEMMA RegisterKeeps ==
  ASSUME IInv, NEW i \in Items \ parked, NEW e \in 0 .. Word - 1, Register(i, e)
  PROVE  /\ IInv' /\ parked' = parked \cup {i} /\ active' = active
         /\ Accepts(e, clock) => Linked' = Linked \cup {i}
<1>1. /\ ullExpireTime' = [ullExpireTime EXCEPT ![i] = e]
      /\ slotOf' = [slotOf EXCEPT ![i] = IF Accepts(e, clock) THEN SlotFor(e) ELSE NoSlot]
      /\ parked' = parked \cup {i}
      /\ clock' = clock /\ ullStart' = ullStart /\ llStartIdx' = llStartIdx
      /\ pc' = pc /\ now' = now /\ active' = active /\ bTimeout' = bTimeout
  BY DEF Register, wheel, round
<1>2. /\ slotOf \in [Items -> Slots \cup {NoSlot}]
      /\ ullExpireTime \in [Items -> 0 .. Word - 1]
      /\ clock \in Int
  BY Typed DEF IInv, TypeOK
<1>3. Accepts(e, clock) =>
        /\ e >= ullStart /\ SlotFor(e) \in Slots /\ SlotFor(e) # NoSlot
        /\ SlotFor(e) = (llStartIdx + (e - ullStart)) % Size
  BY <1>2, SlotIsRight
<1>4. /\ slotOf' \in [Items -> Slots \cup {NoSlot}]
      /\ ullExpireTime' \in [Items -> 0 .. Word - 1]
      /\ ullExpireTime'[i] = e
      /\ slotOf'[i] = IF Accepts(e, clock) THEN SlotFor(e) ELSE NoSlot
      /\ \A j \in Items \ {i} : slotOf'[j] = slotOf[j] /\ ullExpireTime'[j] = ullExpireTime[j]
  BY <1>1, <1>2, <1>3
<1>5. /\ Accepts(e, clock) => Linked' = Linked \cup {i}
      /\ Linked' \subseteq Linked \cup {i}
  BY <1>3, <1>4 DEF Linked
<1>6. TypeOK'
  BY <1>1, <1>4 DEF IInv, TypeOK
<1>7. ListIsRight'
  BY <1>1, <1>5 DEF IInv, ListIsRight
<1>8. SlotsAgree'
  <2>1. SUFFICES ASSUME NEW j \in Linked'
                 PROVE  /\ ullExpireTime'[j] >= ullStart'
                        /\ slotOf'[j] = (llStartIdx' + (ullExpireTime'[j] - ullStart')) % Size
    BY DEF SlotsAgree
  <2>2. CASE j = i
    <3>1. Accepts(e, clock)
      BY <1>4, <2>1, <2>2 DEF Linked
    <3>. QED  BY <1>1, <1>3, <1>4, <2>2, <3>1
  <2>3. CASE j # i
    <3>1. j \in Linked /\ j \in Items
      BY <1>5, <2>1, <2>3 DEF Linked
    <3>. QED  BY <1>1, <1>4, <2>3, <3>1 DEF IInv, SlotsAgree
  <2>. QED  BY <2>2, <2>3
<1>. QED  BY <1>1, <1>5, <1>6, <1>7, <1>8 DEF IInv

(* The three calls. *)
LEMMA CallsKeep ==
  ASSUME IInv, NEW i \in Items, SleepFor(i) \/ SleepUntil(i) \/ Poll(i)
  PROVE  /\ IInv' /\ parked' = parked \cup {i} /\ active' = active /\ bTimeout' = bTimeout
         /\ pc' = pc
         /\ SleepUntil(i) \/ Poll(i) => Linked' = Linked \cup {i}
<1>1. i \notin parked
  BY DEF SleepFor, SleepUntil, Poll
<1>2. \A d \in Delays : (clock + d) % Word \in 0 .. Word - 1
  <2>1. Word \in Nat \ {0} /\ clock \in Int /\ Delays \subseteq Int
    BY Typed, WheelAssumption
  <2>. QED  BY <2>1, ModRange
<1>3. Word - 1 \in 0 .. Word - 1
  BY Typed
<1>4. \E e \in 0 .. Word - 1 :
        Register(i, e) /\ (SleepUntil(i) \/ Poll(i) => Accepts(e, clock))
  <2>1. CASE SleepFor(i) /\ ~SleepUntil(i) /\ ~Poll(i)
    BY <1>2, <2>1 DEF SleepFor
  <2>2. CASE SleepUntil(i)
    BY <1>2, <2>2 DEF SleepUntil
  <2>3. CASE Poll(i)
    BY <1>2, <1>3, <2>3 DEF Poll
  <2>. QED  BY <2>1, <2>2, <2>3
<1>5. PICK e \in 0 .. Word - 1 :
        Register(i, e) /\ (SleepUntil(i) \/ Poll(i) => Accepts(e, clock))
  BY <1>4
<1>6. bTimeout' = bTimeout /\ pc' = pc
  BY <1>5 DEF Register, round
<1>. QED  BY <1>1, <1>5, <1>6, RegisterKeeps

(* An early item goes back. *)
LEMMA PutBackKeeps ==
  ASSUME IInv, NEW i \in Items, PutBack(i)
  PROVE  /\ IInv' /\ parked' = parked /\ active' = active \ {i} /\ Linked' = Linked \cup {i}
<1>1. /\ i \in active /\ Accepts(ullExpireTime[i], now) /\ pc = "process"
      /\ slotOf' = [slotOf EXCEPT ![i] = SlotFor(ullExpireTime[i])]
      /\ bTimeout' = bTimeout \ {i} /\ active' = active \ {i}
      /\ clock' = clock /\ ullStart' = ullStart /\ llStartIdx' = llStartIdx
      /\ ullExpireTime' = ullExpireTime /\ parked' = parked /\ pc' = pc /\ now' = now
  BY DEF PutBack, wheel
<1>2. PICK e \in 0 .. Word - 1 : e = ullExpireTime[i]
  BY Typed
<1>3. /\ e >= ullStart /\ SlotFor(e) \in Slots /\ SlotFor(e) # NoSlot
      /\ SlotFor(e) = (llStartIdx + (e - ullStart)) % Size
  <2>1. now \in Int
    BY Typed
  <2>. QED  BY <1>1, <1>2, <2>1, SlotIsRight
<1>4. slotOf \in [Items -> Slots \cup {NoSlot}]
  BY DEF IInv, TypeOK
<1>5. /\ slotOf' \in [Items -> Slots \cup {NoSlot}] /\ slotOf'[i] = SlotFor(e)
      /\ \A j \in Items \ {i} : slotOf'[j] = slotOf[j]
  BY <1>1, <1>2, <1>3, <1>4
<1>6. Linked' = Linked \cup {i}
  BY <1>3, <1>5 DEF Linked
<1>7. TypeOK'
  BY <1>1, <1>5 DEF IInv, TypeOK
<1>8. ListIsRight'
  BY <1>1, <1>6 DEF IInv, ListIsRight
<1>9. SlotsAgree'
  <2>1. SUFFICES ASSUME NEW j \in Linked'
                 PROVE  /\ ullExpireTime'[j] >= ullStart'
                        /\ slotOf'[j] = (llStartIdx' + (ullExpireTime'[j] - ullStart')) % Size
    BY DEF SlotsAgree
  <2>2. CASE j = i
    BY <1>1, <1>2, <1>3, <1>5, <2>2
  <2>3. CASE j # i
    <3>1. j \in Linked /\ j \in Items
      BY <1>6, <2>1, <2>3 DEF Linked
    <3>. QED  BY <1>1, <1>5, <2>3, <3>1 DEF IInv, SlotsAgree
  <2>. QED  BY <2>2, <2>3
<1>. QED  BY <1>1, <1>6, <1>7, <1>8, <1>9 DEF IInv

(* The others are processed: their fibers are resumed, and an item that came*)
(* out of its slot is not too early, since the wheel would have accepted it.*)
LEMMA FireKeeps ==
  ASSUME IInv, NEW i \in Items, Fire(i)
  PROVE  /\ IInv' /\ parked' = parked \ {i} /\ active' = active \ {i} /\ Linked' = Linked
         /\ i \in bTimeout => ullExpireTime[i] <= now
<1>1. /\ i \in active /\ ~(IsEarly(i) /\ Accepts(ullExpireTime[i], now)) /\ pc = "process"
      /\ bTimeout' = bTimeout \ {i} /\ active' = active \ {i} /\ parked' = parked \ {i}
      /\ clock' = clock /\ ullStart' = ullStart /\ llStartIdx' = llStartIdx
      /\ ullExpireTime' = [ullExpireTime EXCEPT ![i] = 0]
      /\ slotOf' = slotOf /\ pc' = pc /\ now' = now
  BY DEF Fire, wheel
<1>2. i \in bTimeout => ullExpireTime[i] <= now
  <2>1. SUFFICES ASSUME i \in bTimeout PROVE ullExpireTime[i] <= now
    OBVIOUS
  <2>2. now >= ullStart
    BY <2>1 DEF IInv, ListIsRight
  <2>3. now \in Int /\ ullExpireTime[i] \in Int
    BY Typed
  <2>. QED  BY <1>1, <2>1, <2>2, <2>3 DEF IsEarly, Accepts
<1>3. Linked' = Linked /\ i \notin Linked
  BY <1>1 DEF Linked, IInv, ListIsRight
<1>4. /\ ullExpireTime' \in [Items -> 0 .. Word - 1]
      /\ \A j \in Items \ {i} : ullExpireTime'[j] = ullExpireTime[j]
  <2>1. ullExpireTime \in [Items -> 0 .. Word - 1] /\ 0 \in 0 .. Word - 1
    BY Typed DEF IInv, TypeOK
  <2>. QED  BY <1>1, <2>1
<1>5. TypeOK'
  BY <1>1, <1>4 DEF IInv, TypeOK
<1>6. ListIsRight'
  BY <1>1, <1>3 DEF IInv, ListIsRight
<1>7. SlotsAgree'
  <2>1. \A j \in Linked : j \in Items \ {i}
    BY <1>3 DEF Linked
  <2>. QED  BY <1>1, <1>3, <1>4, <2>1 DEF IInv, SlotsAgree
<1>. QED  BY <1>1, <1>2, <1>3, <1>5, <1>6, <1>7 DEF IInv

(* The slots that a round does not empty hold later times only: a slot that *)
(* stands for a time up to the clock is emptied.                            *)
LEMMA ExpiredAreTaken ==
  ASSUME IInv, LoopIsPrompt, clock >= ullStart, NEW i \in Linked,
         ullExpireTime[i] <= clock \/ clock - ullStart + 1 >= Size
  PROVE  i \in Expired(clock)
<1>1. RawCnt(clock) = clock - ullStart + 1 /\ ~TakesNothing(clock)
  BY CountIsExact, Typed DEF TakesNothing
<1>2. PICK n : n = ullExpireTime[i] - ullStart
  OBVIOUS
<1>3. /\ n \in Nat /\ slotOf[i] = (llStartIdx + n) % Size
      /\ Size \in Nat \ {0} /\ llStartIdx \in Nat
      /\ ullExpireTime[i] \in Int
  <2>1. i \in Items
    BY DEF Linked
  <2>. QED  BY <1>2, <2>1, Typed DEF IInv, SlotsAgree
<1>4. \E k \in 0 .. Cnt(clock) - 1 : slotOf[i] = (llStartIdx + k) % Size
  <2>1. CASE clock - ullStart + 1 >= Size
    <3>1. Cnt(clock) = Size
      BY <1>1, <2>1, Typed DEF Cnt
    <3>2. n % Size \in 0 .. Size - 1
      BY <1>3, ModRange
    <3>3. (llStartIdx + (n % Size)) % Size = (llStartIdx + n) % Size
      <4>1. llStartIdx \in Int /\ n \in Int /\ Size \in Nat \ {0}
        BY <1>3
      <4>. QED  BY <4>1, ModShift
    <3>. QED  BY <1>3, <3>1, <3>2, <3>3
  <2>2. CASE clock - ullStart + 1 < Size
    <3>1. Cnt(clock) = clock - ullStart + 1
      BY <1>1, <2>2, Typed DEF Cnt
    <3>2. n <= clock - ullStart
      BY <1>2, <1>3, <2>2, Typed
    <3>3. n \in 0 .. Cnt(clock) - 1
      BY <1>3, <3>1, <3>2, Typed
    <3>. QED  BY <1>3, <3>3
  <2>. QED  BY <2>1, <2>2, Typed
<1>. QED  BY <1>1, <1>4 DEF Expired

(* A round collects its list.  What it leaves in the wheel is for later.    *)
LEMMA BeginRoundKeeps ==
  ASSUME IInv, LoopIsPrompt, BeginRound
  PROVE  /\ IInv' /\ parked' = parked /\ Linked' \cup active' = Linked
         /\ \A i \in Linked' : ullExpireTime[i] > clock
<1>1. PICK A \in SUBSET (Linked \cap Pollers), T \in SUBSET Linked :
        /\ T = Expired(clock) \ A /\ active' = A \cup T /\ bTimeout' = bTimeout \cup T
        /\ slotOf' = [i \in Items |-> IF i \in A \cup T THEN NoSlot ELSE slotOf[i]]
  <2>1. \A A \in SUBSET (Linked \cap Pollers) : Expired(clock) \ A \in SUBSET Linked
    BY DEF Expired
  <2>. QED  BY <2>1 DEF BeginRound
<1>2. /\ pc = "wait" /\ pc' = "process" /\ now' = clock /\ AdvanceWheel(clock)
      /\ clock' = clock /\ ullExpireTime' = ullExpireTime /\ parked' = parked
      /\ active = {} /\ bTimeout = {}
  BY DEF BeginRound, IInv, ListIsRight
<1>3. /\ slotOf \in [Items -> Slots \cup {NoSlot}]
      /\ slotOf' \in [Items -> Slots \cup {NoSlot}]
      /\ \A i \in A \cup T : slotOf'[i] = NoSlot
      /\ \A i \in Items \ (A \cup T) : slotOf'[i] = slotOf[i]
      /\ Linked \subseteq Items
  BY <1>1 DEF IInv, TypeOK, Linked
<1>4. Linked' = Linked \ (A \cup T) /\ A \cup T \subseteq Linked
  BY <1>1, <1>3 DEF Linked
<1>5. \A i \in Linked' : i \notin Expired(clock)
  BY <1>1, <1>4
<1>6. \A i \in Linked' : ullExpireTime[i] > clock
  <2>1. SUFFICES ASSUME NEW i \in Linked' PROVE ullExpireTime[i] > clock
    OBVIOUS
  <2>2. i \in Linked /\ i \in Items /\ ullExpireTime[i] \in Int
    BY <1>3, <1>4, <2>1, Typed
  <2>3. CASE clock >= ullStart
    BY <1>5, <2>1, <2>2, <2>3, ExpiredAreTaken, Typed
  <2>4. CASE clock < ullStart
    BY <2>2, <2>4, Typed DEF IInv, SlotsAgree
  <2>. QED  BY <2>3, <2>4, Typed
<1>7. /\ ullStart' \in Nat /\ ullStart' >= 1 /\ ullStart' <= MaxTime /\ llStartIdx' \in Nat
      /\ clock >= ullStart => ullStart' = clock
      /\ T # {} => clock >= ullStart
      /\ \A i \in Linked' :
           /\ ullExpireTime[i] >= ullStart'
           /\ slotOf[i] = (llStartIdx' + (ullExpireTime[i] - ullStart')) % Size
  <2>1. CASE clock < ullStart
    <3>1. TakesNothing(clock)
      BY <2>1 DEF TakesNothing
    <3>2. ullStart' = ullStart /\ llStartIdx' = llStartIdx /\ T = {}
      BY <1>1, <1>2, <3>1 DEF AdvanceWheel, Expired, wheel
    <3>3. \A i \in Linked' : i \in Linked
      BY <1>4
    <3>. QED  BY <2>1, <3>2, <3>3, Typed DEF IInv, SlotsAgree
  <2>2. CASE clock >= ullStart
    <3>1. RawCnt(clock) = clock - ullStart + 1 /\ ~TakesNothing(clock)
      BY <2>2, CountIsExact, Typed DEF TakesNothing
    <3>2. ullStart' = clock /\ llStartIdx' = llStartIdx + Cnt(clock) - 1
      BY <1>2, <3>1 DEF AdvanceWheel
    <3>3. Cnt(clock) \in Nat /\ Cnt(clock) >= 1
      BY <2>2, <3>1, Typed DEF Cnt
    <3>4. llStartIdx' \in Nat
      BY <3>2, <3>3, Typed
    <3>5. \A i \in Linked' :
            /\ ullExpireTime[i] >= clock
            /\ slotOf[i] = (llStartIdx' + (ullExpireTime[i] - clock)) % Size
      <4>1. SUFFICES ASSUME NEW i \in Linked'
                     PROVE  /\ ullExpireTime[i] >= clock
                            /\ slotOf[i] = (llStartIdx' + (ullExpireTime[i] - clock)) % Size
        OBVIOUS
      <4>2. i \in Linked /\ i \in Items /\ ullExpireTime[i] \in Int
        BY <1>3, <1>4, <4>1, Typed
      <4>3. clock - ullStart + 1 < Size
        BY <1>5, <2>2, <4>1, <4>2, ExpiredAreTaken, Typed
      <4>4. Cnt(clock) = clock - ullStart + 1
        BY <3>1, <4>3, Typed DEF Cnt
      <4>5. llStartIdx' + (ullExpireTime[i] - clock) = llStartIdx + (ullExpireTime[i] - ullStart)
        BY <3>2, <4>2, <4>4, Typed
      <4>6. ullExpireTime[i] >= clock
        BY <1>6, <4>1, <4>2, Typed
      <4>. QED  BY <4>2, <4>5, <4>6 DEF IInv, SlotsAgree
    <3>. QED  BY <2>2, <3>2, <3>4, <3>5, Typed
  <2>. QED  BY <2>1, <2>2, Typed
<1>8. TypeOK'
  <2>1. active' \subseteq Items /\ bTimeout' \subseteq Items
    BY <1>1, <1>2, <1>3, <1>4
  <2>2. now' \in 0 .. MaxTime /\ ullStart' \in 0 .. MaxTime
    BY <1>2, <1>7, Typed
  <2>. QED  BY <1>2, <1>3, <1>7, <2>1, <2>2 DEF IInv, TypeOK
<1>9. ListIsRight'
  <2>1. bTimeout' # {} => now' >= ullStart'
    BY <1>1, <1>2, <1>7, Typed
  <2>2. Linked' \subseteq parked' /\ active' \subseteq parked' /\ active' \cap Linked' = {}
    BY <1>1, <1>2, <1>4 DEF IInv, ListIsRight
  <2>. QED  BY <1>1, <1>2, <2>1, <2>2 DEF ListIsRight
<1>10. SlotsAgree'
  <2>1. \A i \in Linked' : slotOf'[i] = slotOf[i]
    BY <1>3, <1>4
  <2>. QED  BY <1>2, <1>7, <2>1 DEF SlotsAgree
<1>. QED  BY <1>1, <1>2, <1>4, <1>6, <1>7, <1>8, <1>9, <1>10 DEF IInv

-----------------------------------------------------------------------------
(* The theorems *)

(* The invariant holds at the start ... *)
LEMMA IInvInit == Init => IInv
<1> SUFFICES ASSUME Init PROVE IInv
  OBVIOUS
<1>1. /\ slotOf = [i \in Items |-> NoSlot] /\ Linked = {}
      /\ clock \in 1 .. MaxTime /\ MaxTime \in Nat /\ MaxTime <= Word - 1 /\ Word \in Nat
      /\ 0 \in 0 .. Word - 1
  BY WheelAssumption DEF Init, Linked
<1>2. TypeOK
  BY <1>1 DEF Init, TypeOK
<1>3. ListIsRight /\ SlotsAgree
  BY <1>1 DEF Init, ListIsRight, SlotsAgree
<1>. QED  BY <1>1, <1>2, <1>3 DEF IInv, Init

(* What happens to a fiber that waits: nobody is forgotten, ...             *)
NobodyForgotten ==
  (\A d \in Delays : d >= 0 /\ MaxTime + d < Word) /\ clock >= ullStart
    => Stranded' \subseteq Stranded

(* nobody is resumed too early by its timer, and nobody is left in the      *)
(* wheel by a round that comes after its time.                              *)
NobodyEarly == \A i \in parked \ parked' : i \in bTimeout => ullExpireTime[i] <= now
NobodyMissed ==
  pc = "wait" /\ pc' = "process" => \A i \in Linked' : ullExpireTime[i] > clock

(* ... and at every step. *)
LEMMA IInvStep ==
  IInv /\ LoopIsPrompt /\ [Next]_vars =>
    IInv' /\ [NobodyForgotten]_vars /\ [NobodyEarly]_vars /\ [NobodyMissed]_vars
<1> SUFFICES ASSUME IInv, LoopIsPrompt, [Next]_vars
             PROVE  IInv' /\ ( \/ UNCHANGED vars
                               \/ NobodyForgotten /\ NobodyEarly /\ NobodyMissed )
  OBVIOUS
<1>1. CASE UNCHANGED vars
  BY <1>1 DEF vars, wheel, round, IInv, TypeOK, ListIsRight, SlotsAgree, Linked
<1>2. ASSUME NEW i \in Items, SleepFor(i) \/ SleepUntil(i) \/ Poll(i)
      PROVE  IInv' /\ NobodyForgotten /\ NobodyEarly /\ NobodyMissed
  <2>1. /\ IInv' /\ parked' = parked \cup {i} /\ active' = active /\ pc' = pc
        /\ SleepUntil(i) \/ Poll(i) => Linked' = Linked \cup {i}
    BY <1>2, CallsKeep
  <2>2. NobodyEarly /\ NobodyMissed
    BY <2>1 DEF NobodyEarly, NobodyMissed
  <2>3. SUFFICES ASSUME \A d \in Delays : d >= 0 /\ MaxTime + d < Word, clock >= ullStart
                 PROVE  Stranded' \subseteq Stranded
    BY <2>1, <2>2 DEF NobodyForgotten
  <2>4. Linked' = Linked \cup {i}
    <3>1. CASE SleepFor(i)
      <4>1. PICK d \in Delays : Register(i, (clock + d) % Word) /\ i \in Items \ parked
        BY <3>1 DEF SleepFor
      <4>2. d \in Nat /\ clock + d \in 0 .. Word - 1 /\ Word \in Nat \ {0}
        BY <2>3, Typed, WheelAssumption
      <4>3. (clock + d) % Word = clock + d
        BY <4>2, ModSmall
      <4>4. Accepts(clock + d, clock)
        BY <2>3, <4>2, Typed DEF Accepts
      <4>. QED  BY <4>1, <4>2, <4>3, <4>4, RegisterKeeps
    <3>. QED  BY <1>2, <2>1, <3>1
  <2>. QED  BY <2>1, <2>4 DEF Stranded
<1>3. ASSUME NEW i \in Items, PutBack(i)
      PROVE  IInv' /\ NobodyForgotten /\ NobodyEarly /\ NobodyMissed
  <2>1. /\ IInv' /\ parked' = parked /\ active' = active \ {i} /\ Linked' = Linked \cup {i}
        /\ pc' = pc
    BY <1>3, PutBackKeeps DEF PutBack
  <2>. QED  BY <2>1 DEF NobodyForgotten, NobodyEarly, NobodyMissed, Stranded
<1>4. ASSUME NEW i \in Items, Fire(i)
      PROVE  IInv' /\ NobodyForgotten /\ NobodyEarly /\ NobodyMissed
  <2>1. /\ IInv' /\ parked' = parked \ {i} /\ active' = active \ {i} /\ Linked' = Linked
        /\ i \in bTimeout => ullExpireTime[i] <= now
        /\ pc' = pc
    BY <1>4, FireKeeps DEF Fire
  <2>. QED  BY <2>1 DEF NobodyForgotten, NobodyEarly, NobodyMissed, Stranded
<1>5. CASE BeginRound
  <2>1. /\ IInv' /\ parked' = parked /\ Linked' \cup active' = Linked
        /\ \A i \in Linked' : ullExpireTime[i] > clock
    BY <1>5, BeginRoundKeeps
  <2>2. NobodyForgotten /\ NobodyEarly
    <3>1. active = {}
      BY <1>5 DEF BeginRound, IInv, ListIsRight
    <3>. QED  BY <2>1, <3>1 DEF NobodyForgotten, NobodyEarly, Stranded
  <2>3. NobodyMissed
    BY <2>1 DEF NobodyMissed
  <2>. QED  BY <2>1, <2>2, <2>3
<1>6. CASE EndRound
  <2>1. /\ clock' = clock /\ ullStart' = ullStart /\ llStartIdx' = llStartIdx /\ slotOf' = slotOf
        /\ ullExpireTime' = ullExpireTime /\ parked' = parked /\ active' = active
        /\ bTimeout' = bTimeout /\ active = {} /\ pc' = "wait" /\ now' = 0
    BY <1>6 DEF EndRound, wheel
  <2>2. bTimeout = {} /\ 0 \in 0 .. MaxTime
    BY <2>1, Typed DEF IInv, ListIsRight
  <2>3. Linked' = Linked
    BY <2>1 DEF Linked
  <2>4. IInv'
    BY <2>1, <2>2, <2>3 DEF IInv, TypeOK, ListIsRight, SlotsAgree
  <2>. QED  BY <2>1, <2>3, <2>4 DEF NobodyForgotten, NobodyEarly, NobodyMissed, Stranded
<1>7. CASE Tick \/ SetBack
  <2>1. /\ ullStart' = ullStart /\ llStartIdx' = llStartIdx /\ slotOf' = slotOf
        /\ ullExpireTime' = ullExpireTime /\ parked' = parked /\ active' = active
        /\ bTimeout' = bTimeout /\ pc' = pc /\ now' = now
    BY <1>7 DEF Tick, SetBack, wheel, round
  <2>2. clock' \in 1 .. MaxTime
    <3>1. clock \in Nat /\ clock >= 1 /\ MaxJump \in Nat /\ StepBack \in Nat /\ clock <= MaxTime
          /\ MaxTime \in Nat
      BY Typed, WheelAssumption DEF IInv, TypeOK
    <3>. QED  BY <1>7, <3>1 DEF Tick, SetBack
  <2>3. Linked' = Linked
    BY <2>1 DEF Linked
  <2>4. IInv'
    BY <2>1, <2>2, <2>3 DEF IInv, TypeOK, ListIsRight, SlotsAgree
  <2>. QED  BY <2>1, <2>3, <2>4 DEF NobodyForgotten, NobodyEarly, NobodyMissed, Stranded
<1>. QED  BY <1>1, <1>2, <1>3, <1>4, <1>5, <1>6, <1>7 DEF Next

(* The time wheel, however many slots it has and however long the sleeps:   *)
(* as long as the loop is not weeks late, each item sits in the slot that   *)
(* stands for its time.                                                     *)
THEOREM SlotsStandForTimes == Spec /\ []LoopIsPrompt => []WheelInv
<1>1. Spec /\ []LoopIsPrompt => []IInv
  BY IInvInit, IInvStep, PTL DEF Spec
<1>2. IInv => WheelInv
  BY DEF IInv, WheelInv
<1>. QED  BY <1>1, <1>2, PTL

(* No fiber is resumed by its timer before its time, and a round of the     *)
(* loop leaves nobody behind whose time has come.                           *)
THEOREM TimersAreOnTime == Spec /\ []LoopIsPrompt => OnTime
<1>1. Spec /\ []LoopIsPrompt => []IInv
  BY IInvInit, IInvStep, PTL DEF Spec
<1>. QED  BY <1>1, IInvStep, PTL DEF Spec, OnTime, NeverEarly, NeverMissed, NobodyEarly, NobodyMissed

(* For sleeps that are not negative and end before the numbers do: only a   *)
(* clock that was set back to before the start of the wheel strands a fiber.*)
THEOREM NobodyIsForgotten ==
  ASSUME \A d \in Delays : d >= 0 /\ MaxTime + d < Word
  PROVE  Spec /\ []LoopIsPrompt => StrandedOnlyBySetBack
<1>1. Spec /\ []LoopIsPrompt => []IInv
  BY IInvInit, IInvStep, PTL DEF Spec
<1>2. [NobodyForgotten]_vars => [clock >= ullStart => Stranded' \subseteq Stranded]_vars
  BY DEF NobodyForgotten
<1>. QED  BY <1>1, <1>2, IInvStep, PTL DEF Spec, StrandedOnlyBySetBack
=============================================================================
