----------------------------- MODULE TimeWheel -----------------------------
(***************************************************************************)
(* StTimeout, the time wheel of a scheduler thread, with its users: the    *)
(* loop of threadRoutine that collects and processes the active list, and  *)
(* the fibers of the thread in sleep_for, sleep_until and co_poll_inner.   *)
(*                                                                         *)
(* Times are unsigned numbers of Word values (2^64), counts of slots are   *)
(* signed ints of IntWord values (2^32).  The doubly linked lists of the   *)
(* slots are abstracted to the slot an item is linked into: the order in   *)
(* which items of one slot are processed is left open.                     *)
(***************************************************************************)
EXTENDS Integers, FiniteSets

CONSTANTS Items,        \* one timeout item per fiber that may wait
          Pollers,      \* the items of fibers in co_poll_inner; others sleep
          Size,         \* iItemSize_, the number of slots (65536)
          Word, IntWord,
          MaxTime,      \* bound: the clock stops there
          Delays,       \* arguments of the sleeps, and timeouts of the polls
          Forever,      \* a negative timeout of poll
          MaxJump,      \* the clock advances by at most this at once
          StepBack,     \* it may be set back by at most this
          NoSlot

Slots == 0 .. Size - 1

ASSUME WheelAssumption ==
  /\ Pollers \subseteq Items
  /\ Size \in Nat \ {0} /\ Word \in Nat /\ IntWord \in Nat
  /\ Word % Size = 0 /\ IntWord % 2 = 0
  /\ MaxTime \in 0 .. Word - 1
  /\ Delays \subseteq Int /\ Forever \notin Delays
  /\ MaxJump \in Nat /\ StepBack \in Nat
  /\ NoSlot \notin Slots

VARIABLES
  clock,                \* what GetTickMS returns
  ullStart, llStartIdx, \* time and slot up to which the wheel was emptied
  slotOf,               \* the slot an item is linked into
  ullExpireTime,
  parked,               \* items whose fiber has yielded
  pc,                   \* wait: the loop is elsewhere; process: active list
  now,                  \* time of the current round, 0 outside it
  active,               \* items still to be processed in this round
  bTimeout              \* items taken because their slot came up

wheel == <<ullStart, llStartIdx>>
round == <<pc, now, active>>
vars == <<clock, wheel, slotOf, ullExpireTime, parked, round, bTimeout>>

Linked == {i \in Items : slotOf[i] # NoSlot}

Init ==
  /\ clock \in 1 .. MaxTime
  /\ ullStart = clock
  /\ llStartIdx = 0
  /\ slotOf = [i \in Items |-> NoSlot]
  /\ ullExpireTime = [i \in Items |-> 0]
  /\ parked = {}
  /\ pc = "wait"
  /\ now = 0
  /\ active = {}
  /\ bTimeout = {}

-----------------------------------------------------------------------------
(* StTimeout::AddTimeout.  The wheel has passed allNow, or the item would   *)
(* be late already: -1.                                                     *)
Accepts_Strict(expire, allNow) == allNow >= ullStart /\ expire > allNow
Accepts(expire, allNow) == allNow >= ullStart /\ expire >= allNow

SlotFor_Absolute(expire) == expire % Size
SlotFor(expire) == (llStartIdx + ((expire - ullStart) % Word)) % Size

(* StTimeout::TakeAllTimeout: the number of slots that are emptied.  int    *)
(* cnt keeps the low bits of the difference.                                *)
AsInt(n) == LET m == n % IntWord IN IF m >= IntWord \div 2 THEN m - IntWord ELSE m
RawCnt(allNow) == AsInt((allNow - ullStart + 1) % Word)
Cnt(allNow) == IF RawCnt(allNow) > Size THEN Size ELSE RawCnt(allNow)

TakesNothing(allNow) == allNow < ullStart \/ RawCnt(allNow) < 0

Expired_OffByOne(allNow) ==
  IF TakesNothing(allNow) THEN {}
  ELSE {i \in Linked : \E k \in 0 .. Cnt(allNow) - 2 :
                          slotOf[i] = (llStartIdx + k) % Size}
Expired(allNow) ==
  IF TakesNothing(allNow) THEN {}
  ELSE {i \in Linked : \E k \in 0 .. Cnt(allNow) - 1 :
                          slotOf[i] = (llStartIdx + k) % Size}

(* The next round starts with the last slot of this one. *)
AdvanceWheel(allNow) ==
  IF TakesNothing(allNow) THEN UNCHANGED wheel
  ELSE /\ ullStart' = allNow
       /\ llStartIdx' = llStartIdx + Cnt(allNow) - 1

-----------------------------------------------------------------------------
(* A waiting call by a fiber makes a fresh item, on its stack or heap; the  *)
(* item is gone when the call returns.                                      *)
Register(i, expire) ==
  /\ ullExpireTime' = [ullExpireTime EXCEPT ![i] = expire]
  /\ slotOf' = [slotOf EXCEPT ![i] =
                  IF Accepts(expire, clock) THEN SlotFor(expire) ELSE NoSlot]
  /\ parked' = parked \cup {i}
  /\ UNCHANGED <<clock, wheel, round, bTimeout>>

(* sleep_for ignores the answer and yields. *)
SleepFor(i) ==
  /\ i \in Items \ (Pollers \cup parked)
  /\ \E d \in Delays : Register(i, (clock + d) % Word)

(* sleep_until and co_poll_inner yield only if the item was added, and      *)
(* return at once if it was not.                                            *)
SleepUntil(i) ==
  /\ i \in Items \ (Pollers \cup parked)
  /\ \E d \in Delays : LET expire == (clock + d) % Word IN
       Accepts(expire, clock) /\ Register(i, expire)

(* A timeout of 0 does not get here, a negative one never expires.          *)
Poll(i) ==
  /\ i \in Pollers \ parked
  /\ \E d \in {e \in Delays : e > 0} \cup {Forever} :
       LET expire == IF d = Forever THEN Word - 1 ELSE (clock + d) % Word IN
       Accepts(expire, clock) /\ Register(i, expire)

-----------------------------------------------------------------------------
(* The start of a round: pollers whose descriptor became ready leave the    *)
(* wheel (OnPollPrepare), then the expired slots are emptied.               *)
BeginRound ==
  /\ pc = "wait"
  /\ \E A \in SUBSET (Linked \cap Pollers) :
       LET T == Expired(clock) \ A IN
       /\ active' = A \cup T
       /\ bTimeout' = bTimeout \cup T
       /\ slotOf' = [i \in Items |-> IF i \in A \cup T THEN NoSlot ELSE slotOf[i]]
  /\ now' = clock
  /\ AdvanceWheel(clock)
  /\ pc' = "process"
  /\ UNCHANGED <<clock, ullExpireTime, parked>>

(* An item of a later turn of the wheel goes back into it. *)
IsEarly(i) == i \in bTimeout /\ now < ullExpireTime[i]

PutBack(i) ==
  /\ pc = "process" /\ i \in active
  /\ IsEarly(i) /\ Accepts(ullExpireTime[i], now)
  /\ slotOf' = [slotOf EXCEPT ![i] = SlotFor(ullExpireTime[i])]
  /\ bTimeout' = bTimeout \ {i}
  /\ active' = active \ {i}
  /\ UNCHANGED <<clock, wheel, ullExpireTime, parked, pc, now>>

(* OnPollProcess: the fiber is resumed. *)
Fire(i) ==
  /\ pc = "process" /\ i \in active
  /\ ~(IsEarly(i) /\ Accepts(ullExpireTime[i], now))
  /\ parked' = parked \ {i}
  /\ active' = active \ {i}
  /\ bTimeout' = bTimeout \ {i}
  /\ ullExpireTime' = [ullExpireTime EXCEPT ![i] = 0]
  /\ UNCHANGED <<clock, wheel, slotOf, pc, now>>

EndRound ==
  /\ pc = "process" /\ active = {}
  /\ pc' = "wait"
  /\ now' = 0
  /\ UNCHANGED <<clock, wheel, slotOf, ullExpireTime, parked, active, bTimeout>>

-----------------------------------------------------------------------------
(* Time passes, in the loop and while fibers run; gettimeofday may also be  *)
(* set back.                                                                *)
Tick ==
  /\ clock' \in clock + 1 .. clock + MaxJump
  /\ clock' <= MaxTime
  /\ UNCHANGED <<wheel, slotOf, ullExpireTime, parked, round, bTimeout>>

SetBack ==
  /\ clock' \in clock - StepBack .. clock - 1
  /\ clock' >= 1
  /\ UNCHANGED <<wheel, slotOf, ullExpireTime, parked, round, bTimeout>>

Next ==
  \/ \E i \in Items : \/ SleepFor(i) \/ SleepUntil(i) \/ Poll(i)
                      \/ PutBack(i) \/ Fire(i)
  \/ BeginRound \/ EndRound \/ Tick \/ SetBack

Spec == Init /\ [][Next]_vars

-----------------------------------------------------------------------------
TypeOK ==
  /\ clock \in 1 .. MaxTime
  /\ ullStart \in 0 .. MaxTime
  /\ llStartIdx \in Nat
  /\ slotOf \in [Items -> Slots \cup {NoSlot}]
  /\ ullExpireTime \in [Items -> 0 .. Word - 1]
  /\ parked \subseteq Items
  /\ pc \in {"wait", "process"}
  /\ now \in 0 .. MaxTime
  /\ active \subseteq Items
  /\ bTimeout \subseteq Items

(* The wheel's arithmetic: however often the wheel turned and however long  *)
(* the loop was late, every item sits in the slot that stands for its time, *)
(* and that time was not passed over.                                       *)
SlotsAgree ==
  \A i \in Linked :
    /\ ullExpireTime[i] >= ullStart
    /\ slotOf[i] = (llStartIdx + (ullExpireTime[i] - ullStart)) % Size

(* What the wheel keeps at every step: types, and slots that stand for the  *)
(* times of their items.                                                    *)
WheelInv == TypeOK /\ SlotsAgree

(* A fiber is resumed by its timer only when its time has come. *)
NeverEarly ==
  [][\A i \in parked \ parked' : i \in bTimeout => ullExpireTime[i] <= now]_vars

(* A round leaves no item in the wheel whose time has come. *)
NeverMissed ==
  [][pc = "wait" /\ pc' = "process" =>
       \A i \in Linked' : ullExpireTime[i] > clock]_vars

(* A timer fires in the first round of the loop that is not too early. *)
OnTime == NeverEarly /\ NeverMissed

(* A fiber that waits and is neither in the wheel nor about to be processed.*)
Stranded == parked \ (Linked \cup active)

(* Only a clock that was set back, to before the start of the wheel, can    *)
(* strand a fiber; whoever is in the wheel is never dropped from it.        *)
StrandedOnlyBySetBack == [][clock >= ullStart => Stranded' \subseteq Stranded]_vars

(* The comment in TakeAllTimeout: cnt is certainly not negative. *)
CntIsNotNegative == clock >= ullStart => RawCnt(clock) >= 0
=============================================================================
