------------------------- MODULE ConfigVars_proofs -------------------------
(***************************************************************************)
(* Proofs about ConfigVars: the registry, the variables with their         *)
(* listeners, and the loader, for any number of threads and variables.     *)
(***************************************************************************)
EXTENDS ConfigVars, TLAPS

-----------------------------------------------------------------------------
(* The inductive invariant *)

(* Where the locks are held, and where a thread works on a variable that it *)
(* has found.                                                               *)
InRegistry == {"find", "describe", "create"}
InAdd == {"bump", "store", "answer"}
OnVariable == Notifying \cup InAdd \cup {"compare", "assign", "add", "del", "clear"}
Labels ==
  InRegistry \cup OnVariable \cup
  {"idle", "lookup", "visit", "each", "stat", "check", "read", "base", "finish"}

Locals == [n : Names, v : Values \cup Types, id : Nat, todo : SUBSET (Names \cup Nat)]
Objects == [ty : Types, by : Threads \cup {NoOne}]
Listeners == [who : Threads, heard : Values \cup {Null}]

Typed ==
  /\ datas \in [Names -> {Null} \cup Objects] /\ value \in [Names -> Values]
  /\ DOMAIN cbs = Names
  /\ \A n \in Names : \A id \in DOMAIN cbs[n] : id \in Nat \ {0} /\ cbs[n][id] \in Listeners
  /\ funId \in [Types -> Nat]
  /\ readers \in [Locks -> SUBSET Threads] /\ writer \in [Locks -> Threads \cup {NoOne}]
  /\ pc \in [Threads -> Labels] /\ loc \in [Threads -> Locals]
  /\ handle \in [Threads -> {Null} \cup (Names \X Nat)]

(* What a thread carries is of the right kind, and the objects it works on  *)
(* exist, except for the one it is about to create.                         *)
Carries(t) ==
  /\ pc[t] \in {"lookup"} \cup InRegistry => loc[t].v \in Types
  /\ pc[t] \in Notifying \cup {"compare", "assign", "base"} => loc[t].v \in Values
  /\ pc[t] \in OnVariable => datas[loc[t].n] # Null
  /\ pc[t] = "create" => datas[loc[t].n] = Null
  /\ pc[t] = "base" => loc[t].n = FileName
Carried ==
  \A t \in Threads : Carries(t) /\ (handle[t] # Null => datas[handle[t][1]] # Null)

(* Who holds which lock. *)
HoldsShared(t, n) == pc[t] \in Notifying /\ loc[t].n = n
HoldsOwn(t, n) == pc[t] \in InAdd /\ loc[t].n = n
LocksAreExact ==
  /\ \A n \in Names, t \in Threads :
       (t \in readers[n] <=> HoldsShared(t, n)) /\ (t = writer[n] <=> HoldsOwn(t, n))
  /\ \A t \in Threads :
       /\ t = writer[Registry] <=> pc[t] \in InRegistry
       /\ t \in readers[Registry] <=> pc[t] = "each"
  /\ \A l \in Locks : writer[l] # NoOne => readers[l] = {}

(* The ids of a type whose counter nobody disturbed grow.  An id that is    *)
(* kept anywhere is below one that is being added, and no id names two      *)
(* listeners of a variable.                                                 *)
Safe(t) == TypeOf(loc[t].n) \notin idRace
NewId(t) == pc[t] \in InAdd
Before(n, id, t) == TypeOf(loc[t].n) = TypeOf(n) => id < loc[t].id
Positive(t) ==
  /\ NewId(t) => loc[t].id > 0
  /\ pc[t] \in {"store", "answer"} => funId[TypeOf(loc[t].n)] > 0
Uses(t) ==
  /\ NewId(t) \/ pc[t] = "add" => handle[t] = Null
  /\ pc[t] = "del" => handle[t] \in {Null, <<loc[t].n, loc[t].id>>}
NewIsAbove(t) ==
  /\ loc[t].id = IF pc[t] = "bump" THEN funId[TypeOf(loc[t].n)] + 1
                                   ELSE funId[TypeOf(loc[t].n)]
  /\ \A u \in Threads : NewId(u) /\ TypeOf(loc[u].n) = TypeOf(loc[t].n) => u = t
  /\ \A n \in Names : datas[n] # Null =>
       \A id \in DOMAIN cbs[n] :
         Before(n, id, t) \/ (/\ pc[t] = "answer" /\ n = loc[t].n /\ id = loc[t].id)
  /\ \A u \in Threads : handle[u] # Null => Before(handle[u][1], handle[u][2], t)
  /\ \A u \in Threads : pc[u] = "del" => Before(loc[u].n, loc[u].id, t)
  /\ pc[t] = "answer" => /\ loc[t].id \in DOMAIN cbs[loc[t].n]
                         /\ cbs[loc[t].n][loc[t].id].who = t
Counted(n, id) == datas[n] # Null /\ TypeOf(n) \notin idRace => id <= funId[TypeOf(n)]
IdsGrow ==
  /\ \A t \in Threads : Positive(t) /\ Uses(t)
  /\ \A t \in Threads : NewId(t) /\ Safe(t) => NewIsAbove(t)
  /\ \A n \in Names : \A id \in DOMAIN cbs[n] : Counted(n, id)
  /\ \A t \in Threads : handle[t] # Null => Counted(handle[t][1], handle[t][2])
  /\ \A t \in Threads : pc[t] = "del" /\ Safe(t) =>
       /\ Counted(loc[t].n, loc[t].id)
       /\ \A u \in Threads \ {t} : handle[u] # Null => handle[u] # <<loc[t].n, loc[t].id>>

(* While a variable that was never set twice at once is being set, those    *)
(* that were called have heard the new value.                               *)
HeardAt(n) ==
  \A t \in Threads : t \in Setting(n) =>
    /\ \A u \in Threads : u \in Setting(n) => u = t
    /\ pc[t] = "assign" =>
         \A id \in DOMAIN cbs[n] : cbs[n][id].heard \in {Null, loc[t].v}
    /\ pc[t] \in Notifying =>
         \A id \in DOMAIN cbs[n] :
           cbs[n][id].heard \in IF id \in loc[t].todo THEN {Null, value[n]} ELSE {loc[t].v}
MirrorAt(n) ==
  Setting(n) = {} => \A id \in DOMAIN cbs[n] : cbs[n][id].heard \in {Null, value[n]}
HeardRight == \A n \in Names \ crossed : HeardAt(n)

(* Times that were read lie in the past. *)
TimesPass ==
  /\ file \in [content : Contents, mtime : 1 .. MaxTime]
  /\ recorded \in 0 .. file.mtime
  /\ \A t \in Threads : pc[t] = "check" => loc[t].id <= file.mtime

IInv ==
  /\ Typed /\ Carried /\ LocksAreExact /\ IdsGrow /\ HandleNamesListener
  /\ HeardRight /\ MirrorFollows /\ TimesPass /\ FileIsLoaded

-----------------------------------------------------------------------------
(* What the steps are made of *)

(* Locks. *)
Owned(t, l) ==
  /\ writer[l] = NoOne /\ readers[l] = {}
  /\ writer' \in [Locks -> Threads \cup {NoOne}] /\ readers' = readers
  /\ writer'[l] = t /\ \A k \in Locks \ {l} : writer'[k] = writer[k]
Shared(t, l) ==
  /\ writer[l] = NoOne
  /\ readers' \in [Locks -> SUBSET Threads] /\ writer' = writer
  /\ readers'[l] = readers[l] \cup {t} /\ \A k \in Locks \ {l} : readers'[k] = readers[k]
Released(t, l) ==
  /\ readers' \in [Locks -> SUBSET Threads]
  /\ writer' \in [Locks -> Threads \cup {NoOne}]
  /\ writer'[l] = IF writer[l] = t THEN NoOne ELSE writer[l]
  /\ readers'[l] = readers[l] \ {t}
  /\ \A k \in Locks \ {l} : readers'[k] = readers[k] /\ writer'[k] = writer[k]

(* Taking and releasing a lock changes that lock alone.                     *)
LEMMA LocksDo ==
  ASSUME Typed
  PROVE  \A t \in Threads, l \in Locks :
           /\ Own(t, l) => Owned(t, l)
           /\ Share(t, l) => Shared(t, l)
           /\ Release(t, l) => Released(t, l)
BY DEF Typed, Own, Share, Release, CanOwn, CanShare, Owned, Shared, Released

-----------------------------------------------------------------------------
(* The steps, by what they do *)

others == <<datas, value, cbs, funId, handle, crossed, idRace>>
times == <<file, recorded, fresh, sameSecond>>

(* One thread moves. *)
Moves(t) ==
  /\ t \in Threads
  /\ pc' \in [Threads -> Labels] /\ loc' \in [Threads -> Locals]
  /\ \A u \in Threads \ {t} : pc'[u] = pc[u] /\ loc'[u] = loc[u]
SameLocals(t) == loc'[t] = loc[t]
NewTodo(t) == loc'[t].n = loc[t].n /\ loc'[t].v = loc[t].v /\ loc'[t].id = loc[t].id

(* It holds no lock and takes none. *)
Holding == InRegistry \cup Notifying \cup InAdd \cup {"each"}
Walks(t) ==
  /\ Moves(t) /\ UNCHANGED <<locks, others, times>>
  /\ pc[t] \notin Holding \cup {"assign", "read", "check"}
  /\ pc'[t] \notin Holding \cup {"assign", "read"}
  /\ Carries(t)'
  /\ pc'[t] = "add" => handle[t] = Null
  /\ pc'[t] = "del" => handle[t] # Null /\ handle[t] = <<loc'[t].n, loc'[t].id>>
  /\ pc'[t] = "check" => loc'[t].id = file.mtime

LookupTakes(t) ==
  /\ Moves(t) /\ SameLocals(t) /\ pc[t] = "lookup" /\ pc'[t] = "find"
  /\ Owned(t, Registry) /\ UNCHANGED <<others, times>>
LookupStays(t) ==
  /\ Moves(t) /\ SameLocals(t) /\ pc[t] = "find" /\ pc'[t] \in {"create", "describe"}
  /\ pc'[t] = "create" => datas[loc[t].n] = Null
  /\ UNCHANGED <<locks, others, times>>
LookupLeaves(t) ==
  /\ Moves(t) /\ pc[t] \in InRegistry /\ pc'[t] \in {"idle", "finish"}
  /\ Released(t, Registry) /\ UNCHANGED <<others, times>>
Creates(t) ==
  /\ Moves(t) /\ pc[t] = "create" /\ pc'[t] \in {"idle", "finish"}
  /\ Released(t, Registry)
  /\ LET n == loc[t].n IN
     /\ datas' \in [Names -> {Null} \cup Objects] /\ value' \in [Names -> Values]
     /\ DOMAIN cbs' = Names
     /\ DOMAIN cbs'[n] = {}
     /\ \A m \in Names \ {n} : datas'[m] = datas[m] /\ value'[m] = value[m] /\ cbs'[m] = cbs[m]
  /\ UNCHANGED <<funId, handle, crossed, idRace, times>>

VisitTakes(t) ==
  /\ Moves(t) /\ pc[t] = "visit" /\ pc'[t] = "each"
  /\ Shared(t, Registry) /\ UNCHANGED <<others, times>>
VisitStays(t) ==
  /\ Moves(t) /\ pc[t] = "each" /\ pc'[t] = "each" /\ UNCHANGED <<locks, others, times>>
VisitLeaves(t) ==
  /\ Moves(t) /\ pc[t] = "each" /\ pc'[t] \in {"idle", "finish"}
  /\ Released(t, Registry) /\ UNCHANGED <<others, times>>

SetTakes(t) ==
  /\ Moves(t) /\ NewTodo(t) /\ pc[t] = "compare" /\ pc'[t] = "notify"
  /\ Shared(t, loc[t].n)
  /\ loc'[t].todo = DOMAIN cbs[loc[t].n]
  /\ crossed' = IF Setting(loc[t].n) = {} THEN crossed ELSE crossed \cup {loc[t].n}
  /\ UNCHANGED <<datas, value, cbs, funId, handle, idRace, times>>
SetCalls(t, id) ==
  /\ Moves(t) /\ NewTodo(t) /\ pc[t] = "notify" /\ pc'[t] \in {"callback", "callbackLookup"}
  /\ id \in loc[t].todo /\ loc'[t].todo = loc[t].todo \ {id}
  /\ DOMAIN cbs' = DOMAIN cbs
  /\ LET n == loc[t].n IN
     /\ \A m \in Names \ {n} : cbs'[m] = cbs[m]
     /\ DOMAIN cbs'[n] = DOMAIN cbs[n]
     /\ \A k \in DOMAIN cbs[n] : /\ k # id => cbs'[n][k] = cbs[n][k]
                                 /\ cbs'[n][k].who = cbs[n][k].who
     /\ id \in DOMAIN cbs[n] => cbs'[n][id] \in Listeners /\ cbs'[n][id].heard = loc[t].v
  /\ UNCHANGED <<locks, datas, value, funId, handle, crossed, idRace, times>>
SetStays(t) ==
  /\ Moves(t) /\ SameLocals(t) /\ pc[t] \in Notifying /\ pc'[t] = "notify"
  /\ UNCHANGED <<locks, others, times>>
SetLeaves(t) ==
  /\ Moves(t) /\ SameLocals(t) /\ pc[t] = "notify" /\ pc'[t] = "assign" /\ loc[t].todo = {}
  /\ Released(t, loc[t].n) /\ UNCHANGED <<others, times>>
Assigns(t) ==
  /\ Moves(t) /\ pc[t] = "assign" /\ pc'[t] \in {"idle", "finish"}
  /\ writer[loc[t].n] = NoOne /\ readers[loc[t].n] = {}
  /\ value' \in [Names -> Values] /\ value'[loc[t].n] = loc[t].v
  /\ \A m \in Names \ {loc[t].n} : value'[m] = value[m]
  /\ UNCHANGED <<locks, datas, cbs, funId, handle, crossed, idRace, times>>

AddTakes(t) ==
  /\ Moves(t) /\ pc[t] = "add" /\ pc'[t] = "bump"
  /\ loc'[t].n = loc[t].n /\ loc'[t].id = funId[TypeOf(loc[t].n)] + 1
  /\ Owned(t, loc[t].n)
  /\ LET ty == TypeOf(loc[t].n) IN
     idRace' = IF Adding(ty) = {} THEN idRace ELSE idRace \cup {ty}
  /\ UNCHANGED <<datas, value, cbs, funId, handle, crossed, times>>
Bumps(t) ==
  /\ Moves(t) /\ SameLocals(t) /\ pc[t] = "bump" /\ pc'[t] = "store"
  /\ LET ty == TypeOf(loc[t].n) IN
     /\ funId' \in [Types -> Nat] /\ funId'[ty] = loc[t].id
     /\ \A k \in Types \ {ty} : funId'[k] = funId[k]
  /\ UNCHANGED <<locks, datas, value, cbs, handle, crossed, idRace, times>>
Stores(t, id) ==
  /\ Moves(t) /\ SameLocals(t) /\ pc[t] = "store" /\ pc'[t] = "answer"
  /\ id \in {loc[t].id, funId[TypeOf(loc[t].n)]}
  /\ DOMAIN cbs' = DOMAIN cbs
  /\ LET n == loc[t].n IN
     /\ \A m \in Names \ {n} : cbs'[m] = cbs[m]
     /\ DOMAIN cbs'[n] = DOMAIN cbs[n] \cup {id}
     /\ \A k \in DOMAIN cbs[n] \ {id} : cbs'[n][k] = cbs[n][k]
     /\ cbs'[n][id] \in Listeners /\ cbs'[n][id].who = t /\ cbs'[n][id].heard = Null
  /\ UNCHANGED <<locks, datas, value, funId, handle, crossed, idRace, times>>
AddLeaves(t, id) ==
  /\ Moves(t) /\ pc[t] = "answer" /\ pc'[t] \in {"idle", "finish"}
  /\ id \in {loc[t].id, funId[TypeOf(loc[t].n)]}
  /\ handle' \in [Threads -> {Null} \cup (Names \X Nat)]
  /\ handle'[t] = <<loc[t].n, id>> /\ \A u \in Threads \ {t} : handle'[u] = handle[u]
  /\ Released(t, loc[t].n)
  /\ UNCHANGED <<datas, value, cbs, funId, crossed, idRace, times>>

Deletes(t) ==
  /\ Moves(t) /\ pc[t] = "del" /\ pc'[t] \in {"idle", "finish"}
  /\ writer[loc[t].n] = NoOne /\ readers[loc[t].n] = {}
  /\ DOMAIN cbs' = DOMAIN cbs
  /\ LET n == loc[t].n IN
     /\ \A m \in Names \ {n} : cbs'[m] = cbs[m]
     /\ DOMAIN cbs'[n] = DOMAIN cbs[n] \ {loc[t].id}
     /\ \A k \in DOMAIN cbs'[n] : cbs'[n][k] = cbs[n][k]
  /\ handle' \in [Threads -> {Null} \cup (Names \X Nat)]
  /\ handle'[t] = Null /\ \A u \in Threads \ {t} : handle'[u] = handle[u]
  /\ UNCHANGED <<locks, datas, value, funId, crossed, idRace, times>>
Clears(t) ==
  /\ Moves(t) /\ pc[t] = "clear" /\ pc'[t] \in {"idle", "finish"}
  /\ writer[loc[t].n] = NoOne /\ readers[loc[t].n] = {}
  /\ DOMAIN cbs' = DOMAIN cbs
  /\ LET n == loc[t].n IN
     /\ \A m \in Names \ {n} : cbs'[m] = cbs[m]
     /\ DOMAIN cbs'[n] = {}
     /\ handle' \in [Threads -> {Null} \cup (Names \X Nat)]
     /\ \A u \in Threads : handle'[u] = Null \/ (handle'[u] = handle[u] /\ handle[u][1] # n)
  /\ UNCHANGED <<locks, datas, value, funId, crossed, idRace, times>>

Checks(t) ==
  /\ Moves(t) /\ pc[t] = "check" /\ pc'[t] \in {"idle", "finish", "read"}
  /\ pc'[t] # "read" => recorded = loc[t].id
  /\ recorded' = loc[t].id
  /\ UNCHANGED <<locks, others, file, fresh, sameSecond>>
Reads(t) ==
  /\ Moves(t) /\ pc[t] = "read" /\ pc'[t] \in {"idle", "finish", "base"}
  /\ Carries(t)' /\ fresh'
  /\ UNCHANGED <<locks, others, file, recorded, sameSecond>>
Edits ==
  /\ UNCHANGED <<pc, loc, locks, others, recorded>>
  /\ ~fresh'
  /\ file' \in [content : Contents, mtime : 1 .. MaxTime]
  /\ \/ file'.mtime = file.mtime /\ sameSecond'
     \/ file'.mtime = file.mtime + 1

StepKinds ==
  \/ \E t \in Threads :
       \/ Walks(t)
       \/ LookupTakes(t) \/ LookupStays(t) \/ LookupLeaves(t) \/ Creates(t)
       \/ VisitTakes(t) \/ VisitStays(t) \/ VisitLeaves(t)
       \/ SetTakes(t) \/ SetStays(t) \/ SetLeaves(t) \/ Assigns(t)
       \/ (\E id : SetCalls(t, id))
       \/ AddTakes(t) \/ Bumps(t)
       \/ (\E id : Stores(t, id) \/ AddLeaves(t, id))
       \/ Deletes(t) \/ Clears(t) \/ Checks(t) \/ Reads(t)
  \/ Edits
  \/ UNCHANGED <<pc, loc, locks, others, times>>

(* Every action is a step of one of these kinds.                            *)
LEMMA StepsByKind ==
  ASSUME Typed, Carried, TimesPass, [Next]_vars
  PROVE  StepKinds
<1> USE DEF shared, locks, history, threads, others, times
<1>1. /\ Registry \in Locks /\ Names \subseteq Locks
      /\ Holding \cup OnVariable \cup {"idle", "lookup", "visit", "stat", "check", "read", "base",
                                       "finish"} \subseteq Labels
  BY DEF Locks, Labels, Notifying, InRegistry, InAdd, OnVariable, Holding
<1>2. ASSUME NEW t \in Threads, NEW label \in Labels
      PROVE  /\ \A l \in Locals : With(t, label, l) => Moves(t) /\ pc'[t] = label /\ loc'[t] = l
             /\ Goto(t, label) => Moves(t) /\ pc'[t] = label /\ SameLocals(t)
  <2>1. ASSUME NEW l \in Locals, With(t, label, l)
        PROVE  Moves(t) /\ pc'[t] = label /\ loc'[t] = l
    BY <2>1 DEF Typed, With, Moves
  <2>2. loc[t] \in Locals
    BY DEF Typed
  <2>. QED  BY <2>1, <2>2 DEF Goto, SameLocals
<1>3. ASSUME NEW t \in Threads, Return(t)
      PROVE  Moves(t) /\ pc'[t] \in {"idle", "finish"}
  <2>1. NoLocals \in Locals
    BY ConfigAssumption DEF NoLocals, Locals
  <2>2. {"idle", "finish"} \subseteq Labels
    BY <1>1
  <2>. QED  BY <1>2, <1>3, <2>1, <2>2 DEF Return
<1>4. ASSUME NEW t \in Threads
      PROVE  /\ loc[t] \in Locals
             /\ loc[t].n \in Names /\ loc[t].v \in Values \cup Types /\ loc[t].id \in Nat
             /\ \A S \in SUBSET (Names \cup Nat) :
                  LET l == [loc[t] EXCEPT !.todo = S]
                  IN l \in Locals /\ l.todo = S /\ l.n = loc[t].n /\ l.v = loc[t].v /\ l.id = loc[t].id
             /\ \A i \in Nat :
                  LET l == [loc[t] EXCEPT !.id = i]
                  IN l \in Locals /\ l.id = i /\ l.n = loc[t].n
  <2>1. loc[t] \in Locals
    BY DEF Typed
  <2>. DEFINE r == loc[t]
  <2>. HIDE DEF r
  <2>2. r \in Locals
    BY <2>1 DEF r
  <2>3. r.n \in Names /\ r.v \in Values \cup Types /\ r.id \in Nat
    BY ONLY <2>2 DEF Locals
  <2>4. ASSUME NEW S \in SUBSET (Names \cup Nat)
        PROVE  LET l == [r EXCEPT !.todo = S]
               IN l \in Locals /\ l.todo = S /\ l.n = r.n /\ l.v = r.v /\ l.id = r.id
    BY ONLY <2>2, S \in SUBSET (Names \cup Nat) DEF Locals
  <2>5. ASSUME NEW i \in Nat
        PROVE  LET l == [r EXCEPT !.id = i] IN l \in Locals /\ l.id = i /\ l.n = r.n
    BY ONLY <2>2, i \in Nat DEF Locals
  <2>. QED  BY ONLY <2>2, <2>3, <2>4, <2>5 DEF r
<1>5. ASSUME NEW t \in Threads, NEW l \in Locks
      PROVE  /\ Own(t, l) => Owned(t, l)
             /\ Share(t, l) => Shared(t, l)
             /\ Release(t, l) => Released(t, l)
  BY LocksDo
<1>6. ASSUME NEW t \in Threads
      PROVE  Carries(t) /\ (handle[t] # Null => datas[handle[t][1]] # Null)
  BY DEF Carried
<1>10. ASSUME NEW t \in Threads, Call(t) PROVE Walks(t)
  <2>1. NoLocals \in Locals /\ NoLocals.n = FileName
    BY ConfigAssumption DEF NoLocals, Locals
  <2>2. \A n \in Names, v \in Values \cup Types :
          LET l == [NoLocals EXCEPT !.n = n, !.v = v] IN l \in Locals /\ l.n = n /\ l.v = v
    BY <2>1 DEF Locals
  <2>3. \A n \in Names, i \in Nat :
          LET l == [NoLocals EXCEPT !.n = n, !.id = i] IN l \in Locals /\ l.n = n /\ l.id = i
    BY <2>1 DEF Locals
  <2>4. \A n \in Names : LET l == [NoLocals EXCEPT !.n = n] IN l \in Locals /\ l.n = n
    BY <2>1 DEF Locals
  <2>5. pc[t] = "idle" /\ UNCHANGED <<locks, others, times>>
    BY <1>10 DEF Call, At
  <2>6. \/ \E n \in Names, ty \in Types : With(t, "lookup", [NoLocals EXCEPT !.n = n, !.v = ty])
        \/ \E n \in Names, v \in Values :
             datas[n] # Null /\ With(t, "compare", [NoLocals EXCEPT !.n = n, !.v = v])
        \/ \E n \in Names, op \in {"add", "clear"} :
             /\ datas[n] # Null /\ (op = "add" => handle[t] = Null)
             /\ With(t, op, [NoLocals EXCEPT !.n = n])
        \/ /\ handle[t] # Null
           /\ With(t, "del", [NoLocals EXCEPT !.n = handle[t][1], !.id = handle[t][2]])
        \/ \E op \in {"visit", "stat"} : Goto(t, op)
    BY <1>10 DEF Call
  <2> USE DEF Walks, Carries, Holding, InRegistry, InAdd, Notifying, OnVariable
  <2>7. CASE \E n \in Names, ty \in Types : With(t, "lookup", [NoLocals EXCEPT !.n = n, !.v = ty])
    <3>1. PICK n \in Names, ty \in Types : With(t, "lookup", [NoLocals EXCEPT !.n = n, !.v = ty])
      BY <2>7
    <3> DEFINE l == [NoLocals EXCEPT !.n = n, !.v = ty]
    <3>2. l \in Locals /\ l.v = ty /\ With(t, "lookup", l)
      BY <2>2, <3>1
    <3> HIDE DEF l
    <3>3. Moves(t) /\ pc'[t] = "lookup" /\ loc'[t].v \in Types
      BY <1>1, <1>2, <3>2
    <3>. QED  BY <2>5, <3>3
  <2>8. CASE \E n \in Names, v \in Values :
               datas[n] # Null /\ With(t, "compare", [NoLocals EXCEPT !.n = n, !.v = v])
    <3>1. PICK n \in Names, v \in Values :
                 datas[n] # Null /\ With(t, "compare", [NoLocals EXCEPT !.n = n, !.v = v])
      BY <2>8
    <3> DEFINE l == [NoLocals EXCEPT !.n = n, !.v = v]
    <3>2. l \in Locals /\ l.v = v /\ l.n = n /\ With(t, "compare", l)
      BY <2>2, <3>1
    <3> HIDE DEF l
    <3>3. Moves(t) /\ pc'[t] = "compare" /\ loc'[t].v \in Values /\ loc'[t].n = n
      BY <1>1, <1>2, <3>2
    <3>. QED  BY <2>5, <3>1, <3>3
  <2>9. CASE \E n \in Names, op \in {"add", "clear"} :
               /\ datas[n] # Null /\ (op = "add" => handle[t] = Null)
               /\ With(t, op, [NoLocals EXCEPT !.n = n])
    <3>1. PICK n \in Names, op \in {"add", "clear"} :
                 /\ datas[n] # Null /\ (op = "add" => handle[t] = Null)
                 /\ With(t, op, [NoLocals EXCEPT !.n = n])
      BY <2>9
    <3> DEFINE l == [NoLocals EXCEPT !.n = n]
    <3>2. l \in Locals /\ l.n = n /\ With(t, op, l)
      BY <2>4, <3>1
    <3> HIDE DEF l
    <3>3. Moves(t) /\ pc'[t] = op /\ loc'[t].n = n
      BY <1>1, <1>2, <3>2
    <3>. QED  BY <2>5, <3>1, <3>3
  <2>10. CASE /\ handle[t] # Null
              /\ With(t, "del", [NoLocals EXCEPT !.n = handle[t][1], !.id = handle[t][2]])
    <3>1. handle[t] \in Names \X Nat
      BY <2>10 DEF Typed
    <3>2. PICK n \in Names, i \in Nat : handle[t] = <<n, i>>
      BY <3>1
    <3>3. handle[t][1] = n /\ handle[t][2] = i
      BY <3>2
    <3> DEFINE l == [NoLocals EXCEPT !.n = n, !.id = i]
    <3>4. l \in Locals /\ l.n = n /\ l.id = i
      BY <2>3
    <3>5. With(t, "del", l)
      BY <2>10, <3>3
    <3> HIDE DEF l
    <3>6. Moves(t) /\ pc'[t] = "del" /\ loc'[t].n = n /\ loc'[t].id = i
      BY <1>1, <1>2, <3>4, <3>5
    <3>7. handle[t] = <<loc'[t].n, loc'[t].id>> /\ datas[n] # Null
      BY <1>6, <2>10, <3>2, <3>3, <3>6
    <3>. QED  BY <2>5, <2>10, <3>6, <3>7
  <2>11. CASE \E op \in {"visit", "stat"} : Goto(t, op)
    <3>1. Moves(t) /\ pc'[t] \in {"visit", "stat"}
      BY <1>1, <1>2, <2>11
    <3>. QED  BY <2>5, <3>1
  <2>. QED  BY <2>6, <2>7, <2>8, <2>9, <2>10, <2>11
<1>11. ASSUME NEW t \in Threads, LookupLock(t) PROVE LookupTakes(t)
  BY <1>1, <1>2, <1>5, <1>11 DEF LookupLock, LookupTakes, At, Holding, InRegistry
<1>12. ASSUME NEW t \in Threads, LookupFind(t) PROVE LookupStays(t) \/ LookupLeaves(t)
  <2>1. {"create", "describe"} \subseteq Labels
    BY <1>1 DEF Holding, InRegistry
  <2>. QED
    BY <1>1, <1>2, <1>3, <1>5, <1>12, <2>1 DEF LookupFind, LookupStays, LookupLeaves, At, InRegistry
<1>13. ASSUME NEW t \in Threads, LookupDescribe(t) PROVE LookupLeaves(t)
  BY <1>1, <1>3, <1>5, <1>13 DEF LookupDescribe, LookupLeaves, At, InRegistry
<1>14. ASSUME NEW t \in Threads, LookupCreate(t) PROVE Creates(t)
  <2>1. Moves(t) /\ pc'[t] \in {"idle", "finish"} /\ Released(t, Registry) /\ pc[t] = "create"
    BY <1>1, <1>3, <1>5, <1>14 DEF LookupCreate, At
  <2>2. loc[t].n \in Names /\ [ty |-> loc[t].v, by |-> t] \in Objects /\ Default \in Values
    BY <1>4, <1>6, <2>1, ConfigAssumption DEF Carries, InRegistry, Objects
  <2>3. /\ datas' = [datas EXCEPT ![loc[t].n] = [ty |-> loc[t].v, by |-> t]]
        /\ value' = [value EXCEPT ![loc[t].n] = Default]
        /\ cbs' = [cbs EXCEPT ![loc[t].n] = <<>>]
        /\ UNCHANGED <<funId, handle, crossed, idRace, times>>
    BY <1>14 DEF LookupCreate
  <2>4. DOMAIN cbs' = Names /\ cbs'[loc[t].n] = <<>> /\ \A m \in Names \ {loc[t].n} : cbs'[m] = cbs[m]
    BY <2>2, <2>3 DEF Typed
  <2>5. DOMAIN <<>> = {}
    OBVIOUS
  <2>6. datas' \in [Names -> {Null} \cup Objects] /\ \A m \in Names \ {loc[t].n} : datas'[m] = datas[m]
    BY <2>2, <2>3 DEF Typed
  <2>7. value' \in [Names -> Values] /\ \A m \in Names \ {loc[t].n} : value'[m] = value[m]
    BY <2>2, <2>3 DEF Typed
  <2>8. DOMAIN cbs'[loc[t].n] = {}
    BY <2>4, <2>5
  <2>. QED  BY <2>1, <2>3, <2>4, <2>6, <2>7, <2>8 DEF Creates
<1>15. ASSUME NEW t \in Threads, VisitLock(t) PROVE VisitTakes(t)
  <2>1. {n \in Names : datas[n] # Null} \in SUBSET (Names \cup Nat) /\ "each" \in Labels
    BY <1>1 DEF Holding
  <2>2. Moves(t) /\ pc'[t] = "each"
    BY <1>2, <1>4, <1>15, <2>1 DEF VisitLock
  <2>. QED  BY <1>1, <1>5, <1>15, <2>2 DEF VisitLock, VisitTakes, At
<1>16. ASSUME NEW t \in Threads, VisitEach(t) PROVE VisitStays(t) \/ VisitLeaves(t)
  <2>1. CASE loc[t].todo = {} /\ Release(t, Registry) /\ Return(t)
    BY <1>1, <1>3, <1>5, <1>16, <2>1 DEF VisitEach, VisitLeaves, At
  <2>2. CASE \E n \in loc[t].todo : With(t, "each", [loc[t] EXCEPT !.todo = @ \ {n}]) /\ UNCHANGED locks
    <3>1. PICK n \in loc[t].todo : With(t, "each", [loc[t] EXCEPT !.todo = @ \ {n}])
      BY <2>2
    <3>2. [loc[t] EXCEPT !.todo = @ \ {n}] \in Locals /\ "each" \in Labels
      BY <1>1, <1>4 DEF Locals, Holding
    <3>3. Moves(t) /\ pc'[t] = "each"
      BY <1>2, <3>1, <3>2
    <3>. QED  BY <1>16, <2>2, <3>3 DEF VisitEach, VisitStays, At
  <2>. QED  BY <1>16, <2>1, <2>2 DEF VisitEach
<1>17. ASSUME NEW t \in Threads, SetCompare(t) PROVE Walks(t) \/ SetTakes(t)
  <2>1. pc[t] = "compare" /\ UNCHANGED <<datas, value, cbs, funId, handle, idRace, times>>
    BY <1>17 DEF SetCompare, At
  <2>2. CASE Return(t) /\ UNCHANGED <<locks, crossed>>
    BY <1>3, <2>1, <2>2 DEF Walks, Carries, Holding, InRegistry, Notifying, InAdd, OnVariable
  <2>3. CASE /\ Share(t, loc[t].n)
             /\ With(t, "notify", [loc[t] EXCEPT !.todo = DOMAIN cbs[loc[t].n]])
             /\ crossed' = IF Setting(loc[t].n) = {} THEN crossed ELSE crossed \cup {loc[t].n}
    <3>1. loc[t].n \in Names /\ DOMAIN cbs[loc[t].n] \in SUBSET (Names \cup Nat)
      BY <1>4 DEF Typed
    <3>2. "notify" \in Labels
      BY <1>1 DEF Holding, Notifying
    <3> DEFINE l == [loc[t] EXCEPT !.todo = DOMAIN cbs[loc[t].n]]
    <3>3. /\ l \in Locals /\ l.todo = DOMAIN cbs[loc[t].n] /\ With(t, "notify", l)
          /\ l.n = loc[t].n /\ l.v = loc[t].v /\ l.id = loc[t].id
      BY <1>4, <2>3, <3>1
    <3> HIDE DEF l
    <3>4. Moves(t) /\ NewTodo(t) /\ pc'[t] = "notify" /\ loc'[t].todo = DOMAIN cbs[loc[t].n]
      BY <1>2, <3>2, <3>3 DEF NewTodo
    <3>. QED  BY <1>1, <1>5, <2>1, <2>3, <3>1, <3>4 DEF SetTakes
  <2>. QED  BY <1>17, <2>2, <2>3 DEF SetCompare
<1>18. ASSUME NEW t \in Threads, SetNotify(t)
       PROVE  SetLeaves(t) \/ \E id : SetCalls(t, id)
  <2>1. pc[t] = "notify" /\ UNCHANGED <<datas, value, funId, handle, crossed, idRace, times>>
    BY <1>18 DEF SetNotify, At
  <2>2. {"assign", "callback", "callbackLookup"} \subseteq Labels /\ loc[t].n \in Locks
    BY <1>1, <1>4 DEF Holding, Notifying, OnVariable
  <2>3. CASE loc[t].todo = {} /\ Release(t, loc[t].n) /\ Goto(t, "assign") /\ UNCHANGED cbs
    BY <1>2, <1>5, <2>1, <2>2, <2>3 DEF SetLeaves
  <2>4. ASSUME NEW id \in loc[t].todo,
               cbs' = [cbs EXCEPT ![loc[t].n][id].heard = Announced(loc[t].n, loc[t].v)],
               NEW label \in {"callback", "callbackLookup"},
               With(t, label, [loc[t] EXCEPT !.todo = @ \ {id}]), UNCHANGED locks
        PROVE  SetCalls(t, id)
    <3>1. loc[t].todo \ {id} \in SUBSET (Names \cup Nat)
      BY <1>4 DEF Locals
    <3> DEFINE l == [loc[t] EXCEPT !.todo = @ \ {id}]
    <3>2. /\ l \in Locals /\ l.todo = loc[t].todo \ {id} /\ With(t, label, l)
          /\ l.n = loc[t].n /\ l.v = loc[t].v /\ l.id = loc[t].id
      BY <1>4, <2>4, <3>1
    <3> HIDE DEF l
    <3>3. /\ Moves(t) /\ pc'[t] \in {"callback", "callbackLookup"} /\ NewTodo(t)
          /\ loc'[t].todo = loc[t].todo \ {id}
      BY <1>2, <2>2, <3>2 DEF NewTodo
    <3>4. loc[t].n \in Names /\ loc[t].v \in Values
      BY <1>4, <1>6, <2>1 DEF Carries, Notifying
    <3>5. /\ DOMAIN cbs' = DOMAIN cbs /\ \A m \in Names \ {loc[t].n} : cbs'[m] = cbs[m]
          /\ cbs'[loc[t].n] = [cbs[loc[t].n] EXCEPT ![id] = [@ EXCEPT !.heard = loc[t].v]]
      BY <2>4, <3>4 DEF Announced, Typed
    <3>6. /\ DOMAIN cbs'[loc[t].n] = DOMAIN cbs[loc[t].n]
          /\ \A k \in DOMAIN cbs[loc[t].n] : k # id => cbs'[loc[t].n][k] = cbs[loc[t].n][k]
          /\ id \in DOMAIN cbs[loc[t].n] =>
               cbs'[loc[t].n][id] = [cbs[loc[t].n][id] EXCEPT !.heard = loc[t].v]
      BY <3>5
    <3>7. id \in DOMAIN cbs[loc[t].n] =>
            /\ cbs'[loc[t].n][id] \in Listeners /\ cbs'[loc[t].n][id].heard = loc[t].v
            /\ cbs'[loc[t].n][id].who = cbs[loc[t].n][id].who
      BY <3>4, <3>6 DEF Typed, Listeners
    <3>. QED  BY <2>1, <2>4, <3>3, <3>5, <3>6, <3>7 DEF SetCalls
  <2>. QED  BY <1>18, <2>3, <2>4 DEF SetNotify
<1>19. ASSUME NEW t \in Threads, ListenerReads(t) \/ ListenerLooksUp(t) PROVE SetStays(t)
  <2>1. "notify" \in Labels
    BY <1>1 DEF Holding, Notifying
  <2>. QED  BY <1>2, <1>19, <2>1 DEF ListenerReads, ListenerLooksUp, SetStays, At, Notifying
<1>20. ASSUME NEW t \in Threads, SetAssign(t) PROVE Assigns(t)
  <2>1. pc[t] = "assign" /\ value' = [value EXCEPT ![loc[t].n] = loc[t].v] /\ CanOwn(loc[t].n)
    BY <1>20 DEF SetAssign, At
  <2>2. loc[t].n \in Names /\ loc[t].v \in Values
    BY <1>4, <1>6, <2>1 DEF Carries
  <2>3. /\ value' \in [Names -> Values] /\ value'[loc[t].n] = loc[t].v
        /\ \A m \in Names \ {loc[t].n} : value'[m] = value[m]
    BY <2>1, <2>2 DEF Typed
  <2>. QED  BY <1>3, <1>20, <2>1, <2>3 DEF SetAssign, Assigns, CanOwn
<1>21. ASSUME NEW t \in Threads, AddLock(t) PROVE AddTakes(t)
  <2>1. pc[t] = "add"
    BY <1>21 DEF AddLock, At
  <2>2. loc[t].n \in Names /\ TypeOf(loc[t].n) \in Types /\ funId[TypeOf(loc[t].n)] + 1 \in Nat
    BY <1>4, <1>6, <2>1 DEF Carries, OnVariable, Typed, Objects, TypeOf
  <2>3. "bump" \in Labels
    BY <1>1 DEF Holding, InAdd
  <2>4. With(t, "bump", [loc[t] EXCEPT !.id = funId[TypeOf(loc[t].n)] + 1])
    BY <1>21 DEF AddLock
  <2> DEFINE l == [loc[t] EXCEPT !.id = funId[TypeOf(loc[t].n)] + 1]
  <2>5. /\ l \in Locals /\ l.n = loc[t].n /\ l.id = funId[TypeOf(loc[t].n)] + 1
        /\ With(t, "bump", l)
    BY <1>4, <2>2, <2>4
  <2> HIDE DEF l
  <2>6. /\ Moves(t) /\ pc'[t] = "bump" /\ loc'[t].n = loc[t].n
        /\ loc'[t].id = funId[TypeOf(loc[t].n)] + 1
    BY <1>2, <2>3, <2>5
  <2>7. Owned(t, loc[t].n)
    BY <1>1, <1>5, <1>21, <2>2 DEF AddLock
  <2>8. idRace' = IF Adding(TypeOf(loc[t].n)) = {} THEN idRace
                  ELSE idRace \cup {TypeOf(loc[t].n)}
    BY <1>21 DEF AddLock
  <2>9. UNCHANGED <<datas, value, cbs, funId, handle, crossed, times>>
    BY <1>21 DEF AddLock
  <2>. QED  BY <2>1, <2>6, <2>7, <2>8, <2>9 DEF AddTakes
<1>22. ASSUME NEW t \in Threads, AddBump(t) PROVE Bumps(t)
  <2>1. pc[t] = "bump" /\ "store" \in Labels
    BY <1>1, <1>22 DEF AddBump, At, Holding, InAdd
  <2>2. TypeOf(loc[t].n) \in Types /\ loc[t].id \in Nat
    BY <1>4, <1>6, <2>1 DEF Carries, OnVariable, InAdd, Typed, Objects, TypeOf
  <2>3. funId' = [funId EXCEPT ![TypeOf(loc[t].n)] = loc[t].id]
    BY <1>22 DEF AddBump
  <2>4. /\ funId' \in [Types -> Nat] /\ funId'[TypeOf(loc[t].n)] = loc[t].id
        /\ \A k \in Types \ {TypeOf(loc[t].n)} : funId'[k] = funId[k]
    BY <2>2, <2>3 DEF Typed
  <2>. QED  BY <1>2, <1>22, <2>1, <2>4 DEF AddBump, Bumps
<1>23. ASSUME NEW t \in Threads, AddStore(t) PROVE \E id : Stores(t, id)
  <2>1. pc[t] = "store" /\ "answer" \in Labels
    BY <1>1, <1>23 DEF AddStore, At, Holding, InAdd
  <2>2. PICK id \in {loc[t].id, funId[TypeOf(loc[t].n)]} :
          cbs' = [cbs EXCEPT ![loc[t].n] =
                    [k \in DOMAIN @ \cup {id} |-> IF k = id THEN [who |-> t, heard |-> Null] ELSE @[k]]]
    BY <1>23 DEF AddStore
  <2>3. loc[t].n \in Names /\ [who |-> t, heard |-> Null] \in Listeners
    BY <1>4 DEF Listeners
  <2>4. /\ DOMAIN cbs' = DOMAIN cbs /\ \A m \in Names \ {loc[t].n} : cbs'[m] = cbs[m]
        /\ cbs'[loc[t].n] = [k \in DOMAIN cbs[loc[t].n] \cup {id} |->
                               IF k = id THEN [who |-> t, heard |-> Null] ELSE cbs[loc[t].n][k]]
    BY <2>2, <2>3 DEF Typed
  <2>5. /\ DOMAIN cbs'[loc[t].n] = DOMAIN cbs[loc[t].n] \cup {id}
        /\ \A k \in DOMAIN cbs[loc[t].n] \ {id} : cbs'[loc[t].n][k] = cbs[loc[t].n][k]
        /\ cbs'[loc[t].n][id] = [who |-> t, heard |-> Null]
    BY <2>4
  <2>6. /\ Moves(t) /\ SameLocals(t) /\ pc'[t] = "answer"
        /\ UNCHANGED <<locks, datas, value, funId, handle, crossed, idRace, times>>
    BY <1>2, <1>23, <2>1 DEF AddStore
  <2>7. cbs'[loc[t].n][id] \in Listeners /\ cbs'[loc[t].n][id].who = t /\ cbs'[loc[t].n][id].heard = Null
    BY <2>3, <2>5
  <2>. QED  BY <2>1, <2>2, <2>4, <2>5, <2>6, <2>7 DEF Stores
<1>24. ASSUME NEW t \in Threads, AddAnswer(t) PROVE \E id : AddLeaves(t, id)
  <2>1. pc[t] = "answer"
    BY <1>24 DEF AddAnswer, At
  <2>2. PICK id \in {loc[t].id, funId[TypeOf(loc[t].n)]} :
          handle' = [handle EXCEPT ![t] = <<loc[t].n, id>>]
    BY <1>24 DEF AddAnswer
  <2>3. loc[t].n \in Names /\ id \in Nat
    BY <1>4, <1>6, <2>1, <2>2 DEF Carries, OnVariable, InAdd, Typed, Objects, TypeOf
  <2>4. /\ handle' \in [Threads -> {Null} \cup (Names \X Nat)]
        /\ handle'[t] = <<loc[t].n, id>> /\ \A u \in Threads \ {t} : handle'[u] = handle[u]
    BY <2>2, <2>3 DEF Typed
  <2>5. /\ Moves(t) /\ pc'[t] \in {"idle", "finish"} /\ Released(t, loc[t].n)
        /\ UNCHANGED <<datas, value, cbs, funId, crossed, idRace, times>>
    BY <1>1, <1>3, <1>5, <1>24, <2>3 DEF AddAnswer
  <2>. QED  BY <2>1, <2>2, <2>4, <2>5 DEF AddLeaves
<1>25. ASSUME NEW t \in Threads, DelListener(t) PROVE Deletes(t)
  <2>1. /\ pc[t] = "del" /\ writer[loc[t].n] = NoOne /\ readers[loc[t].n] = {}
        /\ Moves(t) /\ pc'[t] \in {"idle", "finish"}
        /\ UNCHANGED <<locks, datas, value, funId, crossed, idRace, times>>
    BY <1>3, <1>25 DEF DelListener, At, CanOwn
  <2>2. loc[t].n \in Names
    BY <1>4
  <2>3. cbs' = [cbs EXCEPT ![loc[t].n] = Restrict(@, DOMAIN @ \ {loc[t].id})]
    BY <1>25 DEF DelListener
  <2>4. /\ DOMAIN cbs' = DOMAIN cbs /\ \A m \in Names \ {loc[t].n} : cbs'[m] = cbs[m]
        /\ cbs'[loc[t].n] = [k \in DOMAIN cbs[loc[t].n] \ {loc[t].id} |-> cbs[loc[t].n][k]]
    BY <2>2, <2>3 DEF Typed, Restrict
  <2>5. handle' = [handle EXCEPT ![t] = Null]
    BY <1>25 DEF DelListener
  <2>6. /\ handle' \in [Threads -> {Null} \cup (Names \X Nat)]
        /\ handle'[t] = Null /\ \A u \in Threads \ {t} : handle'[u] = handle[u]
    BY <2>5 DEF Typed
  <2>. QED  BY <2>1, <2>4, <2>6 DEF Deletes
<1>26. ASSUME NEW t \in Threads, ClearListener(t) PROVE Clears(t)
  <2>1. /\ pc[t] = "clear" /\ writer[loc[t].n] = NoOne /\ readers[loc[t].n] = {}
        /\ Moves(t) /\ pc'[t] \in {"idle", "finish"}
        /\ UNCHANGED <<locks, datas, value, funId, crossed, idRace, times>>
    BY <1>3, <1>26 DEF ClearListener, At, CanOwn
  <2>2. loc[t].n \in Names
    BY <1>4
  <2>3. cbs' = [cbs EXCEPT ![loc[t].n] = <<>>] /\ DOMAIN <<>> = {}
    BY <1>26 DEF ClearListener
  <2>4. /\ DOMAIN cbs' = DOMAIN cbs /\ \A m \in Names \ {loc[t].n} : cbs'[m] = cbs[m]
        /\ DOMAIN cbs'[loc[t].n] = {}
    BY <2>2, <2>3 DEF Typed
  <2>5. handle' = [u \in Threads |-> IF handle[u] # Null /\ handle[u][1] = loc[t].n
                                       THEN Null ELSE handle[u]]
    BY <1>26 DEF ClearListener
  <2>6. /\ handle' \in [Threads -> {Null} \cup (Names \X Nat)]
        /\ \A u \in Threads : handle'[u] = Null \/ (handle'[u] = handle[u] /\ handle[u][1] # loc[t].n)
    BY <2>5 DEF Typed
  <2>. QED  BY <2>1, <2>4, <2>6 DEF Clears
<1>27. ASSUME NEW t \in Threads, LoadStat(t) PROVE Walks(t)
  <2>1. /\ pc[t] = "stat" /\ With(t, "check", [loc[t] EXCEPT !.id = file.mtime])
        /\ UNCHANGED <<locks, others, times>>
    BY <1>27 DEF LoadStat, At
  <2>2. file.mtime \in Nat /\ "check" \in Labels
    BY <1>1 DEF TimesPass
  <2> DEFINE l == [loc[t] EXCEPT !.id = file.mtime]
  <2>3. l \in Locals /\ l.id = file.mtime /\ With(t, "check", l)
    BY <1>4, <2>1, <2>2
  <2> HIDE DEF l
  <2>4. Moves(t) /\ pc'[t] = "check" /\ loc'[t].id = file.mtime
    BY <1>2, <2>2, <2>3
  <2>. QED  BY <2>1, <2>4 DEF Walks, Carries, Holding, InRegistry, Notifying, InAdd, OnVariable
<1>28. ASSUME NEW t \in Threads, LoadCheck(t) PROVE Checks(t)
  <2>1. pc[t] = "check" /\ recorded' = loc[t].id /\ UNCHANGED <<locks, others, file, fresh, sameSecond>>
    BY <1>28 DEF LoadCheck, At
  <2>2. \/ recorded = loc[t].id /\ Return(t)
        \/ Goto(t, "read")
    BY <1>28 DEF LoadCheck
  <2>3. "read" \in Labels
    BY <1>1
  <2>. QED  BY <1>2, <1>3, <2>1, <2>2, <2>3 DEF Checks
<1>29. ASSUME NEW t \in Threads, LoadRead(t) PROVE Reads(t)
  <2>1. pc[t] = "read" /\ fresh' /\ UNCHANGED <<locks, others, file, recorded, sameSecond>>
    BY <1>29 DEF LoadRead, At
  <2>2. CASE Return(t)
    BY <1>3, <2>1, <2>2 DEF Reads, Carries, InRegistry, Notifying, InAdd, OnVariable
  <2>3. CASE file.content # Malformed /\ With(t, "base", [NoLocals EXCEPT !.v = file.content])
    <3>1. file.content \in Values
      BY <2>3, ConfigAssumption DEF TimesPass
    <3> DEFINE l == [NoLocals EXCEPT !.v = file.content]
    <3>2. l \in Locals /\ l.v = file.content /\ l.n = FileName /\ With(t, "base", l)
      BY <2>3, <3>1, ConfigAssumption DEF NoLocals, Locals
    <3> HIDE DEF l
    <3>3. Moves(t) /\ pc'[t] = "base" /\ loc'[t].v \in Values /\ loc'[t].n = FileName
      BY <1>1, <1>2, <3>1, <3>2
    <3>. QED  BY <2>1, <3>3 DEF Reads, Carries, InRegistry, Notifying, InAdd, OnVariable
  <2>. QED  BY <1>29, <2>2, <2>3 DEF LoadRead
<1>30. ASSUME NEW t \in Threads, LoadFromYaml(t) PROVE Walks(t)
  <2>1. pc[t] = "base" /\ UNCHANGED <<locks, others, times>>
    BY <1>30 DEF LoadFromYaml, At
  <2>2. loc[t].v \in Values /\ loc[t].n = FileName
    BY <1>6, <2>1 DEF Carries
  <2>3. CASE Return(t)
    BY <1>3, <2>1, <2>3 DEF Walks, Carries, Holding, InRegistry, Notifying, InAdd, OnVariable
  <2>4. CASE datas[FileName] # Null /\ Goto(t, "compare")
    <3>1. Moves(t) /\ pc'[t] = "compare" /\ loc'[t] = loc[t]
      BY <1>1, <1>2, <2>4 DEF OnVariable, SameLocals
    <3>. QED
      BY <2>1, <2>2, <2>4, <3>1 DEF Walks, Carries, Holding, InRegistry, Notifying, InAdd, OnVariable
  <2>. QED  BY <1>30, <2>3, <2>4 DEF LoadFromYaml
<1>31. ASSUME NEW t \in Threads, LoadFinish(t) PROVE Walks(t)
  <2>1. pc[t] = "finish" /\ Goto(t, "idle") /\ UNCHANGED <<locks, others, times>>
    BY <1>31 DEF LoadFinish, At
  <2>2. Moves(t) /\ pc'[t] = "idle"
    BY <1>1, <1>2, <2>1
  <2>. QED  BY <2>1, <2>2 DEF Walks, Carries, Holding, InRegistry, Notifying, InAdd, OnVariable
<1>32. CASE EditFile
  <2>1. PICK c \in Contents, m \in {file.mtime, file.mtime + 1} :
          /\ m <= MaxTime /\ c # file.content
          /\ file' = [content |-> c, mtime |-> m]
          /\ sameSecond' = (m = file.mtime)
    BY <1>32 DEF EditFile
  <2>2. file.mtime \in 1 .. MaxTime /\ MaxTime \in Nat
    BY ConfigAssumption DEF TimesPass
  <2>3. file'.mtime = m /\ file' \in [content : Contents, mtime : 1 .. MaxTime]
    BY <2>1, <2>2
  <2>4. UNCHANGED <<pc, loc, locks, others, recorded>> /\ ~fresh'
    BY <1>32 DEF EditFile
  <2>5. m = file.mtime => sameSecond'
    BY <2>1, Zenon
  <2>6. (file'.mtime = file.mtime /\ sameSecond') \/ file'.mtime = file.mtime + 1
    <3>1. CASE m = file.mtime
      BY <2>3, <2>5, <3>1, Zenon
    <3>2. CASE m = file.mtime + 1
      BY <2>3, <3>2, Zenon
    <3>. QED  BY <3>1, <3>2
  <2>. QED  BY <2>3, <2>4, <2>6 DEF Edits, StepKinds
<1>33. CASE UNCHANGED vars
  BY <1>33 DEF vars, StepKinds
<1>. QED
  BY <1>10, <1>11, <1>12, <1>13, <1>14, <1>15, <1>16, <1>17, <1>18, <1>19, <1>20, <1>21, <1>22,
     <1>23, <1>24, <1>25, <1>26, <1>27, <1>28, <1>29, <1>30, <1>31, <1>32, <1>33
  DEF StepKinds, Next, Step

-----------------------------------------------------------------------------
(* Every step keeps each part *)

Kinds(t) ==
  \/ Walks(t) \/ LookupStays(t) \/ VisitStays(t) \/ SetStays(t)
  \/ LookupTakes(t) \/ LookupLeaves(t) \/ Creates(t) \/ VisitTakes(t) \/ VisitLeaves(t)
  \/ SetTakes(t) \/ SetLeaves(t) \/ Assigns(t) \/ (\E id : SetCalls(t, id))
  \/ AddTakes(t) \/ Bumps(t) \/ (\E id : Stores(t, id)) \/ (\E id : AddLeaves(t, id))
  \/ Deletes(t) \/ Clears(t) \/ Checks(t) \/ Reads(t)

(* The same, thread by thread.                                              *)
LEMMA OneKind ==
  ASSUME StepKinds
  PROVE  (\E t \in Threads : Kinds(t)) \/ Edits \/ UNCHANGED <<pc, loc, locks, others, times>>
BY Zenon DEF StepKinds, Kinds

(* Where threads work and where handles point there are objects.            *)
LEMMA Found ==
  ASSUME Typed, Carried
  PROVE  /\ \A n \in Names : datas[n] # Null => TypeOf(n) \in Types /\ funId[TypeOf(n)] \in Nat
         /\ \A t \in Threads :
              /\ loc[t].n \in Names /\ loc[t].id \in Nat
              /\ pc[t] \in OnVariable => datas[loc[t].n] # Null
              /\ handle[t] # Null => /\ handle[t] \in Names \X Nat
                                     /\ handle[t][1] \in Names /\ handle[t][2] \in Nat
                                     /\ datas[handle[t][1]] # Null
<1>1. \A n \in Names : datas[n] # Null => TypeOf(n) \in Types /\ funId[TypeOf(n)] \in Nat
  BY DEF Typed, Objects, TypeOf
<1>2. \A t \in Threads :
        /\ loc[t].n \in Names /\ loc[t].id \in Nat
        /\ handle[t] # Null => handle[t] \in Names \X Nat
  BY DEF Typed, Locals
<1>3. \A t \in Threads : /\ pc[t] \in OnVariable => datas[loc[t].n] # Null
                         /\ handle[t] # Null => datas[handle[t][1]] # Null
  BY DEF Carried, Carries
<1>. QED  BY <1>1, <1>2, <1>3

(* Types are kept.                                                          *)
LEMMA TypedStep ==
  ASSUME Typed, Carried, IdsGrow, StepKinds
  PROVE  Typed'
<1> USE DEF Typed, locks, others, times
<1>1. CASE Edits \/ UNCHANGED <<pc, loc, locks, others, times>>
  BY <1>1 DEF Edits
<1>2. ASSUME NEW t \in Threads, Walks(t) \/ LookupStays(t) \/ VisitStays(t) \/ SetStays(t)
      PROVE  Typed'
  BY <1>2 DEF Moves, Walks, LookupStays, VisitStays, SetStays
<1>3. ASSUME NEW t \in Threads, LookupTakes(t) \/ VisitTakes(t) \/ LookupLeaves(t) \/ VisitLeaves(t)
      PROVE  Typed'
  <2>1. Registry \in Locks
    BY DEF Locks
  <2>. QED  BY <1>3, <2>1 DEF Moves, LookupTakes, VisitTakes, LookupLeaves, VisitLeaves, Owned, Shared, Released
<1>4. ASSUME NEW t \in Threads, SetTakes(t) \/ SetLeaves(t) \/ AddTakes(t)
      PROVE  Typed'
  BY <1>4 DEF Moves, SetTakes, SetLeaves, AddTakes, Owned, Shared, Released
<1>5. ASSUME NEW t \in Threads, Assigns(t) \/ Checks(t) \/ Reads(t) \/ Bumps(t)
      PROVE  Typed'
  BY <1>5 DEF Moves, Assigns, Checks, Reads, Bumps
<1>6. ASSUME NEW t \in Threads, Creates(t)
      PROVE  Typed'
  BY <1>6 DEF Moves, Creates, Released
<1>7. ASSUME NEW t \in Threads, NEW id, SetCalls(t, id)
      PROVE  Typed'
  BY <1>7 DEF Moves, SetCalls
<1>8. ASSUME NEW t \in Threads, NEW id, Stores(t, id)
      PROVE  Typed'
  <2>1. id \in Nat \ {0}
    BY <1>8, Found DEF Stores, IdsGrow, Positive, NewId, InAdd, OnVariable
  <2>. QED  BY <1>8, <2>1 DEF Moves, Stores
<1>9. ASSUME NEW t \in Threads, NEW id, AddLeaves(t, id)
      PROVE  Typed'
  BY <1>9 DEF Moves, AddLeaves, Released
<1>10. ASSUME NEW t \in Threads, Deletes(t) \/ Clears(t)
       PROVE  Typed'
  BY <1>10 DEF Moves, Deletes, Clears
<1>. QED
  BY OneKind, <1>1, <1>2, <1>3, <1>4, <1>5, <1>6, <1>7, <1>8, <1>9, <1>10, Zenon DEF Kinds

(* One thread at a time is inside the registry, so the one that creates an  *)
(* object is the only one that found none; objects stay.                    *)
LEMMA CarriedStep ==
  ASSUME Typed, Carried, LocksAreExact, StepKinds
  PROVE  Carried'
<1> USE DEF others, InRegistry, OnVariable, Notifying, InAdd
<1>0. \A t \in Threads : /\ Carries(t)
                         /\ handle[t] # Null => datas[handle[t][1]] # Null /\ handle[t][1] \in Names
                         /\ loc[t].n \in Names
  BY Found DEF Carried
<1>1. CASE Edits \/ UNCHANGED <<pc, loc, locks, others, times>>
  BY <1>0, <1>1 DEF Edits, Carried, Carries
<1>2. ASSUME NEW t \in Threads, Moves(t), UNCHANGED datas, Carries(t)',
             handle'[t] # Null => datas[handle'[t][1]] # Null,
             \A u \in Threads \ {t} : handle'[u] \in {handle[u], Null}
      PROVE  Carried'
  BY <1>0, <1>2 DEF Moves, Carried, Carries
<1>3. ASSUME NEW t \in Threads, Walks(t)
      PROVE  Carried'
  BY <1>0, <1>2, <1>3 DEF Walks
<1>4. ASSUME NEW t \in Threads, 
             \/ LookupTakes(t) \/ VisitTakes(t) \/ LookupLeaves(t) \/ VisitLeaves(t)
             \/ LookupStays(t) \/ VisitStays(t) \/ SetStays(t) \/ Checks(t) \/ Reads(t)
             \/ SetTakes(t) \/ SetLeaves(t) \/ AddTakes(t) \/ Assigns(t) \/ Bumps(t)
             \/ \E id : SetCalls(t, id) \/ Stores(t, id)
      PROVE  Carried'
  <2>1. Moves(t) /\ UNCHANGED <<datas, handle>>
    BY <1>4 DEF LookupTakes, VisitTakes, LookupLeaves, VisitLeaves, LookupStays, VisitStays, SetStays,
                Checks, Reads, SetTakes, SetLeaves, AddTakes, Assigns, Bumps, SetCalls, Stores
  <2>2. Carries(t)'
    BY <1>0, <1>4 DEF Carries, LookupTakes, VisitTakes, LookupLeaves, VisitLeaves, LookupStays, VisitStays,
                SetStays, Checks, Reads, SetTakes, SetLeaves, AddTakes, Assigns, Bumps, SetCalls, Stores,
                SameLocals, NewTodo
  <2>. QED  BY <1>0, <1>2, <2>1, <2>2
<1>5. ASSUME NEW t \in Threads, (\E id : AddLeaves(t, id)) \/ Deletes(t) \/ Clears(t)
      PROVE  Carried'
  <2>1. Moves(t) /\ UNCHANGED datas /\ Carries(t)'
    BY <1>5 DEF AddLeaves, Deletes, Clears, Carries
  <2>2. /\ handle'[t] # Null => datas[handle'[t][1]] # Null
        /\ \A u \in Threads \ {t} : handle'[u] \in {handle[u], Null}
    BY <1>0, <1>5 DEF AddLeaves, Deletes, Clears, Carries
  <2>. QED  BY <1>2, <2>1, <2>2
<1>6. ASSUME NEW t \in Threads, Creates(t)
      PROVE  Carried'
  <2>1. /\ Moves(t) /\ pc[t] = "create" /\ pc'[t] \in {"idle", "finish"} /\ UNCHANGED handle
        /\ \A m \in Names \ {loc[t].n} : datas'[m] = datas[m]
    BY <1>6 DEF Creates
  <2>2. datas[loc[t].n] = Null
    BY <1>0, <2>1 DEF Carries
  <2>3. \A u \in Threads \ {t} : pc[u] # "create"
    BY <2>1 DEF LocksAreExact
  <2>. QED  BY <1>0, <2>1, <2>2, <2>3 DEF Moves, Carried, Carries
<1>. QED
  BY OneKind, <1>1, <1>3, <1>4, <1>5, <1>6, Zenon DEF Kinds

(* A lock is held by exactly those inside.                                  *)
LEMMA LocksStep ==
  ASSUME Typed, LocksAreExact, StepKinds
  PROVE  LocksAreExact'
<1> USE DEF locks, others, InRegistry, Notifying, InAdd, Holding
<1>0. /\ Registry \in Locks /\ Registry \notin Names /\ Names \subseteq Locks /\ NoOne \notin Threads
      /\ \A t \in Threads : loc[t].n \in Names
  BY ConfigAssumption DEF Locks, Typed, Locals
<1> DEFINE OfVariable == \A n \in Names, u \in Threads :
                  (u \in readers[n] <=> HoldsShared(u, n)) /\ (u = writer[n] <=> HoldsOwn(u, n))
           OfRegistry == \A u \in Threads : /\ u = writer[Registry] <=> pc[u] \in InRegistry
                                            /\ u \in readers[Registry] <=> pc[u] = "each"
           NotBoth == \A l \in Locks : writer[l] # NoOne => readers[l] = {}
<1>1. CASE Edits \/ UNCHANGED <<pc, loc, locks, others, times>>
  BY <1>1 DEF Edits, LocksAreExact, HoldsShared, HoldsOwn
<1>2. ASSUME NEW t \in Threads, UNCHANGED locks, Moves(t),
             \/ pc[t] \notin Holding /\ pc'[t] \notin Holding
             \/ SameLocals(t) \/ NewTodo(t),
             pc[t] \in InRegistry <=> pc'[t] \in InRegistry, pc[t] \in InAdd <=> pc'[t] \in InAdd,
             pc[t] \in Notifying <=> pc'[t] \in Notifying, pc[t] = "each" <=> pc'[t] = "each"
      PROVE  LocksAreExact'
  BY <1>2 DEF Moves, SameLocals, NewTodo, LocksAreExact, HoldsShared, HoldsOwn
<1>3. ASSUME NEW t \in Threads,
             \/ Walks(t) \/ LookupStays(t) \/ SetStays(t) \/ Checks(t) \/ Reads(t)
             \/ Assigns(t) \/ Bumps(t) \/ Deletes(t) \/ Clears(t)
             \/ \E id : SetCalls(t, id) \/ Stores(t, id)
      PROVE  LocksAreExact'
  <2>1. Moves(t) /\ UNCHANGED locks
    BY <1>3 DEF Walks, LookupStays, SetStays, Checks, Reads, Assigns, Bumps, Deletes, Clears, SetCalls, Stores
  <2>2. /\ \/ pc[t] \notin Holding /\ pc'[t] \notin Holding
           \/ SameLocals(t) \/ NewTodo(t)
        /\ pc[t] \in InRegistry <=> pc'[t] \in InRegistry
        /\ pc[t] \in InAdd <=> pc'[t] \in InAdd
        /\ pc[t] \in Notifying <=> pc'[t] \in Notifying
        /\ pc[t] = "each" <=> pc'[t] = "each"
    BY <1>3
    DEF Walks, LookupStays, SetStays, Checks, Reads, Assigns, Bumps, Deletes, Clears, SetCalls, Stores
  <2>. QED
    BY <1>2, <2>1, <2>2
<1>4. ASSUME NEW t \in Threads, VisitStays(t)
      PROVE  LocksAreExact'
  BY <1>4 DEF VisitStays, Moves, LocksAreExact, HoldsShared, HoldsOwn
<1>5. ASSUME NEW t \in Threads, LookupTakes(t) \/ VisitTakes(t) \/ LookupLeaves(t) \/ VisitLeaves(t)
                                \/ Creates(t)
      PROVE  LocksAreExact'
  <2> USE DEF LookupTakes, VisitTakes, LookupLeaves, VisitLeaves, Creates, Owned, Shared, Released
  <2>1. OfRegistry'
    BY <1>0, <1>5 DEF Moves, LocksAreExact
  <2>2. NotBoth'
    BY <1>0, <1>5 DEF LocksAreExact
  <2>3. OfVariable'
    BY <1>0, <1>5 DEF Moves, LocksAreExact, HoldsShared, HoldsOwn
  <2>. QED  BY <2>1, <2>2, <2>3 DEF LocksAreExact
<1>6. ASSUME NEW t \in Threads, SetTakes(t) \/ SetLeaves(t) \/ AddTakes(t) \/ \E id : AddLeaves(t, id)
      PROVE  LocksAreExact'
  <2> USE DEF SetTakes, SetLeaves, AddTakes, AddLeaves, Owned, Shared, Released, SameLocals, NewTodo
  <2>1. OfRegistry'
    BY <1>0, <1>6 DEF Moves, LocksAreExact
  <2>2. NotBoth'
    BY <1>0, <1>6 DEF LocksAreExact
  <2>3. OfVariable'
    BY <1>0, <1>6 DEF Moves, LocksAreExact, HoldsShared, HoldsOwn
  <2>. QED  BY <2>1, <2>2, <2>3 DEF LocksAreExact
<1>. QED
  BY OneKind, <1>1, <1>3, <1>4, <1>5, <1>6, Zenon DEF Kinds

(* Recorded and remembered times are never ahead of the file, and the one   *)
(* who records a time reads the file next.                                  *)
LEMMA TimesStep ==
  ASSUME Typed, TimesPass, FileIsLoaded, StepKinds
  PROVE  TimesPass' /\ FileIsLoaded'
<1> USE DEF times, others
<1>0. file.mtime \in Nat /\ recorded \in Nat /\ \A t \in Threads : loc[t].id \in Nat
  BY ConfigAssumption DEF TimesPass, Typed, Locals
<1>1. CASE Edits
  <2>1. /\ file' \in [content : Contents, mtime : 1 .. MaxTime] /\ ~fresh'
        /\ (file'.mtime = file.mtime /\ sameSecond') \/ file'.mtime = file.mtime + 1
        /\ UNCHANGED <<pc, loc, recorded>>
    BY <1>1 DEF Edits
  <2>2. recorded \in 0 .. file'.mtime
    BY <1>0, <2>1, ConfigAssumption DEF TimesPass
  <2>3. TimesPass'
    BY <1>0, <2>1, <2>2, ConfigAssumption DEF TimesPass
  <2>4. recorded' = file'.mtime => sameSecond'
    BY <1>0, <2>1 DEF TimesPass
  <2>. QED  BY <2>3, <2>4 DEF FileIsLoaded
<1>2. CASE UNCHANGED <<pc, loc, times>>
  BY <1>2 DEF TimesPass, FileIsLoaded, At
<1>3. ASSUME NEW t \in Threads, Moves(t), UNCHANGED times,
             pc[t] # "read", pc'[t] = "check" => loc'[t].id = file.mtime
      PROVE  TimesPass' /\ FileIsLoaded'
  <2>1. TimesPass'
    BY <1>0, <1>3 DEF Moves, TimesPass
  <2>2. FileIsLoaded'
    BY <1>3 DEF Moves, FileIsLoaded, At
  <2>. QED  BY <2>1, <2>2
<1>4. ASSUME NEW t \in Threads, Checks(t)
      PROVE  TimesPass' /\ FileIsLoaded'
  <2>1. TimesPass'
    BY <1>0, <1>4 DEF Checks, Moves, TimesPass
  <2>2. FileIsLoaded'
    BY <1>4 DEF Checks, Moves, FileIsLoaded, At
  <2>. QED  BY <2>1, <2>2
<1>5. ASSUME NEW t \in Threads, Reads(t)
      PROVE  TimesPass' /\ FileIsLoaded'
  BY <1>5 DEF Reads, Moves, TimesPass, FileIsLoaded
<1>6. ASSUME NEW t \in Threads, Kinds(t), ~Checks(t), ~Reads(t)
      PROVE  TimesPass' /\ FileIsLoaded'
  <2>1. Moves(t) /\ UNCHANGED times /\ pc[t] # "read" /\ (pc'[t] = "check" => loc'[t].id = file.mtime)
    BY <1>6
    DEF Kinds, Walks, LookupTakes, LookupStays, LookupLeaves, Creates, VisitTakes, VisitStays,
        VisitLeaves, SetTakes, SetCalls, SetStays, SetLeaves, Assigns, AddTakes, Bumps, Stores,
        AddLeaves, Deletes, Clears, InRegistry, Notifying
  <2>. QED  BY <1>3, <2>1
<1>. QED
  BY OneKind, <1>1, <1>2, <1>4, <1>5, <1>6

(* A variable that a step does not touch keeps what its listeners heard. *)
LEMMA HeardElsewhere ==
  ASSUME NEW n \in Names, cbs'[n] = cbs[n], value'[n] = value[n],
         \A u \in Threads :
           /\ (u \in Setting(n))' <=> u \in Setting(n)
           /\ u \in Setting(n) =>
                /\ loc'[u] = loc[u]
                /\ pc'[u] = pc[u] \/ {pc'[u], pc[u]} \subseteq Notifying,
         HeardAt(n), MirrorAt(n)
  PROVE  (HeardAt(n) /\ MirrorAt(n))'
<1>1. HeardAt(n)'
  BY DEF HeardAt, Notifying
<1>2. Setting(n)' = Setting(n)
  BY DEF Setting
<1>3. MirrorAt(n)'
  BY <1>2 DEF MirrorAt
<1>. QED  BY <1>1, <1>3

(* What listeners heard, while a variable is being set and when it is not.  *)
LEMMA HeardStep ==
  ASSUME Typed, Carried, LocksAreExact, HeardRight, MirrorFollows, StepKinds
  PROVE  HeardRight' /\ MirrorFollows'
<1> USE DEF others
<1>1. \A n \in Names \ crossed : HeardAt(n) /\ MirrorAt(n)
  BY DEF HeardRight, MirrorFollows, MirrorAt
<1>2. SUFFICES ASSUME NEW n \in Names \ crossed' PROVE (HeardAt(n) /\ MirrorAt(n))'
  BY DEF HeardRight, MirrorFollows, MirrorAt
<1>3. CASE Edits \/ UNCHANGED <<pc, loc, locks, others, times>>
  BY <1>1, <1>2, <1>3, HeardElsewhere DEF Edits, Setting
<1>4. ASSUME NEW t \in Threads, Moves(t), n \notin crossed,
             cbs'[n] = cbs[n], value'[n] = value[n],
             t \notin Setting(n), t \notin Setting(n)'
      PROVE  (HeardAt(n) /\ MirrorAt(n))'
  <2>1. \A u \in Threads :
           /\ (u \in Setting(n))' <=> u \in Setting(n)
           /\ u \in Setting(n) => loc'[u] = loc[u] /\ pc'[u] = pc[u]
    BY <1>4 DEF Moves, Setting
  <2>2. HeardAt(n) /\ MirrorAt(n)
    BY <1>1, <1>4
  <2>. QED  BY <1>4, <2>1, <2>2, HeardElsewhere
<1>5. ASSUME NEW t \in Threads,
             \/ Walks(t) \/ LookupTakes(t) \/ LookupStays(t) \/ LookupLeaves(t)
             \/ VisitTakes(t) \/ VisitStays(t) \/ VisitLeaves(t)
             \/ AddTakes(t) \/ Bumps(t) \/ Checks(t) \/ Reads(t) \/ \E id : AddLeaves(t, id)
      PROVE  (HeardAt(n) /\ MirrorAt(n))'
  <2>1. /\ Moves(t) /\ UNCHANGED <<cbs, value, crossed>>
        /\ pc[t] \notin Notifying \cup {"assign"} /\ pc'[t] \notin Notifying \cup {"assign"}
    BY <1>5 DEF Walks, LookupTakes, LookupStays, LookupLeaves, VisitTakes, VisitStays, VisitLeaves,
                AddTakes, Bumps, Checks, Reads, AddLeaves, Holding, Notifying, InRegistry
  <2>. QED  BY <1>2, <1>4, <2>1 DEF Setting
<1>6. ASSUME NEW t \in Threads, Creates(t)
      PROVE  (HeardAt(n) /\ MirrorAt(n))'
  <2>1. /\ Moves(t) /\ UNCHANGED crossed
        /\ pc[t] = "create" /\ pc'[t] \in {"idle", "finish"} /\ DOMAIN cbs'[loc[t].n] = {}
        /\ \A m \in Names \ {loc[t].n} : value'[m] = value[m] /\ cbs'[m] = cbs[m]
    BY <1>6 DEF Creates
  <2>2. t \notin Setting(n) /\ t \notin Setting(n)'
    BY <2>1 DEF Setting, Notifying
  <2>3. CASE n = loc[t].n
    <3>1. datas[n] = Null
      BY <2>1, <2>3 DEF Carried, Carries
    <3>2. Setting(n)' = {}
      BY <2>1, <2>2, <3>1 DEF Setting, Moves, Carried, Carries, OnVariable
    <3>. QED  BY <2>1, <2>3, <3>2 DEF HeardAt, MirrorAt
  <2>4. CASE n # loc[t].n
    BY <1>2, <1>4, <2>1, <2>2, <2>4
  <2>. QED  BY <2>3, <2>4
<1>7. ASSUME NEW t \in Threads, SetTakes(t)
      PROVE  (HeardAt(n) /\ MirrorAt(n))'
  <2>1. /\ Moves(t) /\ UNCHANGED <<value, cbs>> /\ pc[t] = "compare" /\ pc'[t] = "notify"
        /\ NewTodo(t) /\ loc'[t].todo = DOMAIN cbs[loc[t].n]
        /\ crossed' = IF Setting(loc[t].n) = {} THEN crossed ELSE crossed \cup {loc[t].n}
    BY <1>7 DEF SetTakes
  <2>2. n \notin crossed
    BY <1>2, <2>1
  <2>3. CASE n = loc[t].n
    <3>1. Setting(n) = {}
      BY <1>2, <2>1, <2>3
    <3>2. Setting(n)' = {t}
      BY <2>1, <2>3, <3>1 DEF Setting, Moves, NewTodo, Notifying
    <3>3. \A id \in DOMAIN cbs[n] : cbs[n][id].heard \in {Null, value[n]}
      BY <1>1, <2>2, <3>1 DEF MirrorAt
    <3>. QED  BY <2>1, <2>3, <3>2, <3>3 DEF HeardAt, MirrorAt
  <2>4. CASE n # loc[t].n
    <3>1. t \notin Setting(n) /\ t \notin Setting(n)'
      BY <2>1, <2>4 DEF Setting, NewTodo
    <3>. QED  BY <1>4, <2>1, <2>2, <3>1
  <2>. QED  BY <2>3, <2>4
<1>8. ASSUME NEW t \in Threads, NEW id, SetCalls(t, id)
      PROVE  (HeardAt(n) /\ MirrorAt(n))'
  <2>1. /\ Moves(t) /\ UNCHANGED <<value, crossed>> /\ pc[t] = "notify"
        /\ pc'[t] \in {"callback", "callbackLookup"} /\ NewTodo(t)
        /\ loc'[t].todo = loc[t].todo \ {id}
        /\ \A m \in Names \ {loc[t].n} : cbs'[m] = cbs[m]
        /\ DOMAIN cbs'[loc[t].n] = DOMAIN cbs[loc[t].n]
        /\ \A k \in DOMAIN cbs[loc[t].n] : k # id => cbs'[loc[t].n][k] = cbs[loc[t].n][k]
        /\ id \in DOMAIN cbs[loc[t].n] => cbs'[loc[t].n][id].heard = loc[t].v
    BY <1>8 DEF SetCalls
  <2>2. n \notin crossed
    BY <1>2, <2>1
  <2>3. CASE n = loc[t].n
    <3>1. t \in Setting(n) /\ t \in Setting(n)'
      BY <2>1, <2>3 DEF Setting, NewTodo, Notifying
    <3>2. \A u \in Threads : u \in Setting(n) => u = t
      BY <1>1, <2>2, <3>1 DEF HeardAt
    <3>3. \A u \in Threads : u \in Setting(n)' => u = t
      BY <2>1, <3>2 DEF Setting, Moves
    <3>4. \A k \in DOMAIN cbs[n] :
            cbs[n][k].heard \in IF k \in loc[t].todo THEN {Null, value[n]} ELSE {loc[t].v}
      BY <1>1, <2>1, <2>2, <3>1 DEF HeardAt, Notifying
    <3>5. \A k \in DOMAIN cbs'[n] :
            cbs'[n][k].heard \in IF k \in loc'[t].todo THEN {Null, value'[n]} ELSE {loc'[t].v}
      BY <2>1, <2>3, <3>4 DEF NewTodo
    <3>. QED  BY <2>1, <3>1, <3>3, <3>5 DEF HeardAt, MirrorAt
  <2>4. CASE n # loc[t].n
    <3>1. t \notin Setting(n) /\ t \notin Setting(n)'
      BY <2>1, <2>4 DEF Setting, NewTodo
    <3>. QED  BY <1>2, <1>4, <2>1, <2>2, <2>4, <3>1
  <2>. QED  BY <2>3, <2>4
<1>9. ASSUME NEW t \in Threads, SetStays(t)
      PROVE  (HeardAt(n) /\ MirrorAt(n))'
  <2>1. /\ Moves(t) /\ UNCHANGED <<value, cbs, crossed>> /\ loc'[t] = loc[t]
        /\ pc[t] \in Notifying /\ pc'[t] = "notify"
    BY <1>9 DEF SetStays, SameLocals
  <2>2. HeardAt(n) /\ MirrorAt(n)
    BY <1>1, <1>2, <2>1
  <2>. QED  BY <2>1, <2>2, HeardElsewhere DEF Moves, Setting, Notifying
<1>10. ASSUME NEW t \in Threads, SetLeaves(t)
       PROVE  (HeardAt(n) /\ MirrorAt(n))'
  <2>1. /\ Moves(t) /\ UNCHANGED <<value, cbs, crossed>> /\ loc'[t] = loc[t]
        /\ pc[t] = "notify" /\ pc'[t] = "assign" /\ loc[t].todo = {}
    BY <1>10 DEF SetLeaves, SameLocals
  <2>2. \A u \in Threads : (u \in Setting(n))' <=> u \in Setting(n)
    BY <2>1 DEF Moves, Setting, Notifying
  <2>3. HeardAt(n)'
    BY <1>1, <1>2, <2>1, <2>2, SMTT(30) DEF HeardAt, Moves, Notifying
  <2>4. Setting(n)' = Setting(n)
    BY <2>2 DEF Setting
  <2>5. MirrorAt(n)'
    BY <1>1, <1>2, <2>1, <2>4 DEF MirrorAt
  <2>. QED  BY <2>3, <2>5
<1>11. ASSUME NEW t \in Threads, Assigns(t)
       PROVE  (HeardAt(n) /\ MirrorAt(n))'
  <2>1. /\ Moves(t) /\ UNCHANGED <<cbs, crossed>> /\ pc[t] = "assign" /\ pc'[t] \in {"idle", "finish"}
        /\ value'[loc[t].n] = loc[t].v /\ \A m \in Names \ {loc[t].n} : value'[m] = value[m]
    BY <1>11 DEF Assigns
  <2>2. t \notin Setting(n)' /\ n \notin crossed
    BY <1>2, <2>1 DEF Setting, Notifying
  <2>3. CASE n = loc[t].n
    <3>1. t \in Setting(n)
      BY <2>1, <2>3 DEF Setting
    <3>2. /\ \A u \in Threads : u \in Setting(n) => u = t
          /\ \A id \in DOMAIN cbs[n] : cbs[n][id].heard \in {Null, loc[t].v}
      BY <1>1, <2>1, <2>2, <3>1 DEF HeardAt
    <3>3. \A u \in Threads : u \notin Setting(n)'
      BY <2>1, <2>2, <3>2 DEF Moves, Setting
    <3>. QED  BY <2>1, <2>3, <3>2, <3>3 DEF HeardAt, MirrorAt
  <2>4. CASE n # loc[t].n
    BY <1>2, <1>4, <2>1, <2>2, <2>4 DEF Setting
  <2>. QED  BY <2>3, <2>4
<1>12. ASSUME NEW t \in Threads, NEW id, Stores(t, id)
       PROVE  (HeardAt(n) /\ MirrorAt(n))'
  <2>1. /\ Moves(t) /\ UNCHANGED <<value, crossed>> /\ pc[t] = "store" /\ pc'[t] = "answer"
        /\ \A m \in Names \ {loc[t].n} : cbs'[m] = cbs[m]
        /\ DOMAIN cbs'[loc[t].n] = DOMAIN cbs[loc[t].n] \cup {id}
        /\ \A k \in DOMAIN cbs[loc[t].n] \ {id} : cbs'[loc[t].n][k] = cbs[loc[t].n][k]
        /\ cbs'[loc[t].n][id].heard = Null
    BY <1>12 DEF Stores
  <2>2. t \notin Setting(n) /\ t \notin Setting(n)'
    BY <2>1 DEF Setting, Notifying
  <2>3. CASE n = loc[t].n
    <3>1. \A u \in Threads : (u \in Setting(n))' <=> u \in Setting(n)
      BY <2>1, <2>2 DEF Moves, Setting
    <3>2. Setting(n)' = Setting(n)
      BY <3>1 DEF Setting
    <3>3. writer[n] = t /\ writer[n] # NoOne /\ n \in Locks
      BY <2>1, <2>3, ConfigAssumption DEF LocksAreExact, HoldsOwn, InAdd, Locks
    <3>4. \A u \in Threads : u \in Setting(n) => pc[u] = "assign"
      BY <3>3 DEF LocksAreExact, HoldsShared, Setting
    <3>5. ASSUME NEW u \in Threads, u \in Setting(n)
          PROVE  /\ \A w \in Threads : w \in Setting(n)' => w = u
                 /\ pc'[u] = "assign" /\ loc'[u] = loc[u]
                 /\ \A k \in DOMAIN cbs'[n] : cbs'[n][k].heard \in {Null, loc[u].v}
      <4>1. pc[u] = "assign" /\ pc'[u] = "assign" /\ loc'[u] = loc[u]
        BY <2>1, <2>2, <3>4, <3>5 DEF Moves
      <4>2. /\ \A w \in Threads : w \in Setting(n) => w = u
            /\ \A k \in DOMAIN cbs[n] : cbs[n][k].heard \in {Null, loc[u].v}
        BY <1>1, <1>2, <2>1, <3>5, <4>1 DEF HeardAt
      <4>. QED  BY <2>1, <2>3, <3>1, <4>1, <4>2
    <3>6. HeardAt(n)'
      BY <3>1, <3>5 DEF HeardAt, Notifying
    <3>7. MirrorAt(n)'
      BY <1>1, <1>2, <2>1, <2>3, <3>2 DEF MirrorAt
    <3>. QED  BY <3>6, <3>7
  <2>4. CASE n # loc[t].n
    BY <1>2, <1>4, <2>1, <2>2, <2>4
  <2>. QED  BY <2>3, <2>4
<1>13. ASSUME NEW t \in Threads, Deletes(t) \/ Clears(t)
       PROVE  (HeardAt(n) /\ MirrorAt(n))'
  <2>1. /\ Moves(t) /\ UNCHANGED <<value, crossed>> /\ pc[t] \in {"del", "clear"}
        /\ pc'[t] \in {"idle", "finish"}
        /\ \A m \in Names : /\ DOMAIN cbs'[m] \subseteq DOMAIN cbs[m]
                            /\ \A k \in DOMAIN cbs'[m] : cbs'[m][k] = cbs[m][k]
    BY <1>13 DEF Deletes, Clears
  <2>2. \A u \in Threads : (u \in Setting(n))' <=> u \in Setting(n)
    BY <2>1 DEF Moves, Setting, Notifying
  <2>3. Setting(n)' = Setting(n)
    BY <2>2 DEF Setting
  <2>4. t \notin Setting(n)
    BY <2>1 DEF Setting, Notifying
  <2>5. ASSUME NEW u \in Threads, u \in Setting(n)
        PROVE  /\ \A w \in Threads : w \in Setting(n)' => w = u
               /\ pc'[u] = "assign" =>
                    \A id \in DOMAIN cbs'[n] : cbs'[n][id].heard \in {Null, loc'[u].v}
               /\ pc'[u] \in Notifying =>
                    \A id \in DOMAIN cbs'[n] :
                      cbs'[n][id].heard \in IF id \in loc'[u].todo THEN {Null, value'[n]} ELSE {loc'[u].v}
    <3>1. pc'[u] = pc[u] /\ loc'[u] = loc[u]
      BY <2>1, <2>4, <2>5 DEF Moves
    <3>2. HeardAt(n)
      BY <1>1, <1>2, <2>1
    <3>3. \A w \in Threads : w \in Setting(n)' => w = u
      BY <2>2, <2>5, <3>2 DEF HeardAt
    <3>4. pc[u] = "assign" => \A id \in DOMAIN cbs[n] : cbs[n][id].heard \in {Null, loc[u].v}
      BY <2>5, <3>2 DEF HeardAt
    <3>5. pc[u] \in Notifying =>
            \A id \in DOMAIN cbs[n] :
              cbs[n][id].heard \in IF id \in loc[u].todo THEN {Null, value[n]} ELSE {loc[u].v}
      BY <2>5, <3>2 DEF HeardAt
    <3>. QED  BY <2>1, <3>1, <3>3, <3>4, <3>5
  <2>7. HeardAt(n)'
    BY <2>2, <2>5 DEF HeardAt
  <2>6. MirrorAt(n)'
    BY <1>1, <1>2, <2>1, <2>3 DEF MirrorAt
  <2>. QED  BY <2>6, <2>7
<1>. QED
  BY OneKind, <1>3, <1>5, <1>6, <1>7, <1>8, <1>9, <1>10, <1>11, <1>12, <1>13, Zenon DEF Kinds

(* A step that adds no id and removes none. *)
LEMMA IdsElsewhere ==
  ASSUME Typed, Carried, IdsGrow, HandleNamesListener,
         UNCHANGED <<idRace, funId, handle>>,
         \A n \in Names :
           \/ datas[n] = Null /\ DOMAIN cbs'[n] = {}
           \/ /\ datas'[n] = datas[n] /\ DOMAIN cbs'[n] = DOMAIN cbs[n]
              /\ \A id \in DOMAIN cbs[n] : cbs'[n][id].who = cbs[n][id].who,
         \A u \in Threads :
           /\ pc'[u] \in InAdd \cup {"del"} => pc'[u] = pc[u] /\ loc'[u] = loc[u]
           /\ pc'[u] = "add" => handle[u] = Null
  PROVE  IdsGrow' /\ HandleNamesListener'
<1> USE DEF InAdd
<1>1. \A u \in Threads : pc[u] \in InAdd \cup {"del"} => loc[u].n \in Names /\ datas[loc[u].n] # Null
  BY Found DEF OnVariable
<1>2. \A u \in Threads : handle[u] # Null => handle[u][1] \in Names /\ datas[handle[u][1]] # Null
  BY Found
<1>3. \A u \in Threads : pc'[u] \in InAdd \cup {"del"} =>
        /\ pc'[u] = pc[u] /\ loc'[u] = loc[u]
        /\ TypeOf(loc[u].n)' = TypeOf(loc[u].n)
        /\ DOMAIN cbs'[loc[u].n] = DOMAIN cbs[loc[u].n]
        /\ \A id \in DOMAIN cbs[loc[u].n] : cbs'[loc[u].n][id].who = cbs[loc[u].n][id].who
  BY <1>1 DEF TypeOf
<1>4. \A u \in Threads : handle[u] # Null =>
        /\ TypeOf(handle[u][1])' = TypeOf(handle[u][1])
        /\ DOMAIN cbs'[handle[u][1]] = DOMAIN cbs[handle[u][1]]
        /\ \A id \in DOMAIN cbs[handle[u][1]] :
             cbs'[handle[u][1]][id].who = cbs[handle[u][1]][id].who
        /\ datas'[handle[u][1]] = datas[handle[u][1]]
  BY <1>2 DEF TypeOf
<1>5. ASSUME NEW t \in Threads PROVE (Positive(t) /\ Uses(t))'
  BY <1>3 DEF IdsGrow, Positive, Uses, NewId
<1>6. ASSUME NEW t \in Threads, (NewId(t) /\ Safe(t))' PROVE NewIsAbove(t)'
  <2>1. /\ NewId(t) /\ pc'[t] = pc[t] /\ loc'[t] = loc[t]
        /\ TypeOf(loc[t].n)' = TypeOf(loc[t].n) /\ NewIsAbove(t)
    BY <1>3, <1>6 DEF NewId, Safe, IdsGrow
  <2>2. \A u \in Threads : (NewId(u) /\ TypeOf(loc[u].n) = TypeOf(loc[t].n))' => u = t
    BY <1>3, <2>1 DEF NewIsAbove, NewId
  <2>3. \A n \in Names : datas'[n] # Null =>
          \A id \in DOMAIN cbs'[n] :
            Before(n, id, t)' \/ (/\ pc[t] = "answer" /\ n = loc[t].n /\ id = loc[t].id)
    BY <2>1 DEF NewIsAbove, Before, TypeOf
  <2>4. \A u \in Threads : handle[u] # Null => Before(handle[u][1], handle[u][2], t)'
    BY <1>4, <2>1 DEF NewIsAbove, Before
  <2>5. \A u \in Threads : pc'[u] = "del" => Before(loc[u].n, loc[u].id, t)'
    BY <1>3, <2>1 DEF NewIsAbove, Before
  <2>6. pc[t] = "answer" => /\ loc[t].id \in DOMAIN cbs'[loc[t].n]
                            /\ cbs'[loc[t].n][loc[t].id].who = t
    BY <1>3, <1>6, <2>1 DEF NewIsAbove, NewId
  <2>7. loc[t].id = IF pc[t] = "bump" THEN funId[TypeOf(loc[t].n)] + 1
                                      ELSE funId[TypeOf(loc[t].n)]
    BY <2>1 DEF NewIsAbove
  <2>8. \A u \in Threads : pc'[u] = "del" => loc'[u] = loc[u]
    BY <1>3
  <2>. QED  BY <2>1, <2>2, <2>3, <2>4, <2>5, <2>6, <2>7, <2>8 DEF NewIsAbove, Before
<1>7. ASSUME NEW n \in Names, NEW id \in DOMAIN cbs'[n] PROVE Counted(n, id)'
  BY <1>7 DEF IdsGrow, Counted, TypeOf
<1>8. ASSUME NEW t \in Threads, handle[t] # Null PROVE Counted(handle[t][1], handle[t][2])'
  BY <1>4, <1>8 DEF IdsGrow, Counted
<1>9. ASSUME NEW t \in Threads, (pc[t] = "del" /\ Safe(t))'
      PROVE  /\ Counted(loc[t].n, loc[t].id)'
             /\ \A u \in Threads \ {t} : handle[u] # Null => handle[u] # <<loc'[t].n, loc'[t].id>>
  <2>1. pc[t] = "del" /\ Safe(t) /\ loc'[t] = loc[t] /\ datas[loc[t].n] # Null
    BY <1>1, <1>3, <1>9 DEF Safe
  <2>. QED  BY <1>3, <1>9, <2>1 DEF IdsGrow, Counted
<1>10. HandleNamesListener'
  <2>1. handle' = handle /\ idRace' = idRace
    OBVIOUS
  <2>2. ASSUME NEW u \in Threads, handle[u] # Null, TypeOf(handle[u][1])' \notin idRace
        PROVE  /\ handle[u][2] \in DOMAIN cbs'[handle[u][1]]
               /\ cbs'[handle[u][1]][handle[u][2]].who = u
    <3>1. TypeOf(handle[u][1]) \notin idRace
      BY <1>4, <2>2
    <3>2. /\ handle[u][2] \in DOMAIN cbs[handle[u][1]]
          /\ cbs[handle[u][1]][handle[u][2]].who = u
      BY <2>2, <3>1 DEF HandleNamesListener
    <3>. QED  BY <1>4, <2>2, <3>2
  <2>. QED  BY ONLY <2>1, <2>2 DEF HandleNamesListener
<1>11. \A t \in Threads : handle'[t] # Null => Counted(handle[t][1], handle[t][2])'
  BY <1>8
<1>. QED  BY <1>5, <1>6, <1>7, <1>9, <1>10, <1>11 DEF IdsGrow

(* A thread that begins to add a listener while nobody adds one of its type *)
(* takes an id above all that are kept.                                     *)
LEMMA AddTakesKeepsIds ==
  ASSUME Typed, Carried, IdsGrow, HandleNamesListener, NEW t \in Threads, AddTakes(t)
  PROVE  IdsGrow' /\ HandleNamesListener'
<1> DEFINE ty == TypeOf(loc[t].n)
<1>1. /\ Moves(t) /\ pc[t] = "add" /\ pc'[t] = "bump"
      /\ loc'[t].n = loc[t].n /\ loc'[t].id = funId[ty] + 1
      /\ idRace' = IF Adding(ty) = {} THEN idRace ELSE idRace \cup {ty}
      /\ UNCHANGED <<datas, cbs, funId, handle>>
  BY DEF AddTakes, others
<1>2. /\ \A u \in Threads : pc[u] \in OnVariable => TypeOf(loc[u].n) \in Types
      /\ \A n \in Names : datas[n] # Null => funId[TypeOf(n)] \in Nat
      /\ loc[t].n \in Names /\ datas[loc[t].n] # Null /\ ty \in Types /\ funId[ty] \in Nat
      /\ \A u \in Threads : handle[u] # Null =>
           handle[u][1] \in Names /\ handle[u][2] \in Nat /\ datas[handle[u][1]] # Null
      /\ \A u \in Threads : loc[u].n \in Names /\ loc[u].id \in Nat
      /\ \A u \in Threads : pc[u] \in OnVariable => datas[loc[u].n] # Null
  BY <1>1, Found DEF OnVariable
<1>3. /\ \A u \in Threads \ {t} : pc'[u] = pc[u] /\ loc'[u] = loc[u]
      /\ TypeOf(loc[t].n)' = ty
      /\ \A n : n \notin idRace' => n \notin idRace
  BY <1>1 DEF Moves, TypeOf
<1>4. \A n : TypeOf(n)' = TypeOf(n)
  BY <1>1 DEF TypeOf
<1>5. ASSUME NEW u \in Threads PROVE (Positive(u) /\ Uses(u))'
  BY <1>1, <1>2, <1>3, <1>4 DEF IdsGrow, Positive, Uses, NewId, InAdd
<1>6. ASSUME NEW u \in Threads, (NewId(u) /\ Safe(u))' PROVE NewIsAbove(u)'
  <2>1. CASE u = t
    <3>1. Adding(ty) = {} /\ ty \notin idRace
      BY <1>1, <1>3, <1>4, <1>6, <2>1 DEF Safe
    <3>2. \A w \in Threads : (NewId(w) /\ TypeOf(loc[w].n) = TypeOf(loc[t].n))' => w = t
      BY <1>3, <1>4, <3>1 DEF Adding, NewId, InAdd
    <3>3. \A n \in Names : datas[n] # Null => \A id \in DOMAIN cbs[n] : Before(n, id, t)'
      BY <1>1, <1>2, <1>4, <3>1 DEF IdsGrow, Counted, Before, Typed
    <3>4. \A w \in Threads : handle[w] # Null => Before(handle[w][1], handle[w][2], t)'
      BY <1>1, <1>2, <1>4, <3>1 DEF IdsGrow, Counted, Before
    <3>5. \A w \in Threads : (pc[w] = "del" => Before(loc[w].n, loc[w].id, t))'
      <4>1. ASSUME NEW w \in Threads, pc'[w] = "del", (TypeOf(loc[w].n) = TypeOf(loc[t].n))'
            PROVE  loc'[w].id < loc'[t].id
        <5>1. pc[w] = "del" /\ loc'[w] = loc[w] /\ TypeOf(loc[w].n) = ty
          BY <1>1, <1>3, <1>4, <4>1
        <5>2. Safe(w) /\ datas[loc[w].n] # Null
          BY <1>2, <3>1, <5>1 DEF Safe, OnVariable
        <5>3. loc[w].id <= funId[ty]
          BY <3>1, <5>1, <5>2 DEF IdsGrow, Counted
        <5>. QED  BY <1>1, <1>2, <5>1, <5>3
      <4>. QED  BY <4>1 DEF Before
    <3>6. loc'[t].id = funId'[TypeOf(loc[t].n)'] + 1
      BY <1>1, <1>3
    <3>. QED  BY <1>1, <1>3, <2>1, <3>2, <3>3, <3>4, <3>5, <3>6 DEF NewIsAbove, Before
  <2>2. CASE u # t
    <3>1. /\ NewId(u) /\ Safe(u) /\ pc'[u] = pc[u] /\ loc'[u] = loc[u] /\ NewIsAbove(u)
          /\ TypeOf(loc[u].n)' = TypeOf(loc[u].n)
      BY <1>3, <1>4, <1>6, <2>2 DEF NewId, Safe, IdsGrow
    <3>2. TypeOf(loc[u].n) # ty
      BY <1>1, <1>4, <1>6, <3>1 DEF Adding, NewId, InAdd, Safe
    <3>3. \A w \in Threads : (NewId(w) /\ TypeOf(loc[w].n) = TypeOf(loc[u].n))' => w = u
      BY <1>3, <1>4, <3>1, <3>2 DEF NewIsAbove, NewId
    <3>4. \A w \in Threads : pc'[w] = "del" => pc[w] = "del" /\ loc'[w] = loc[w]
      BY <1>1, <1>3
    <3>. QED  BY <1>1, <1>4, <3>1, <3>3, <3>4 DEF NewIsAbove, Before
  <2>. QED  BY <2>1, <2>2
<1>7. /\ \A n \in Names : \A id \in DOMAIN cbs'[n] : Counted(n, id)'
      /\ \A u \in Threads : handle'[u] # Null => Counted(handle[u][1], handle[u][2])'
  BY <1>1, <1>3, <1>4 DEF IdsGrow, Counted
<1>8. ASSUME NEW u \in Threads, (pc[u] = "del" /\ Safe(u))'
      PROVE  /\ Counted(loc[u].n, loc[u].id)'
             /\ \A w \in Threads \ {u} : handle'[w] # Null => handle'[w] # <<loc'[u].n, loc'[u].id>>
  <2>1. pc[u] = "del" /\ loc'[u] = loc[u] /\ Safe(u)
    BY <1>1, <1>3, <1>4, <1>8 DEF Safe
  <2>. QED  BY <1>1, <1>3, <1>4, <2>1 DEF IdsGrow, Counted
<1>9. HandleNamesListener'
  BY <1>1, <1>3, <1>4 DEF HandleNamesListener
<1>. QED  BY <1>5, <1>6, <1>7, <1>8, <1>9 DEF IdsGrow

(* The counter of a type is raised to the id that was taken from it. *)
LEMMA BumpsKeepsIds ==
  ASSUME Typed, Carried, IdsGrow, HandleNamesListener, NEW t \in Threads, Bumps(t)
  PROVE  IdsGrow' /\ HandleNamesListener'
<1> DEFINE ty == TypeOf(loc[t].n)
<1>1. /\ Moves(t) /\ pc[t] = "bump" /\ pc'[t] = "store" /\ loc'[t] = loc[t]
      /\ funId'[ty] = loc[t].id /\ \A k \in Types \ {ty} : funId'[k] = funId[k]
      /\ UNCHANGED <<datas, cbs, handle, idRace>>
  BY DEF Bumps, SameLocals
<1>2. /\ \A u \in Threads : pc[u] \in OnVariable =>
           TypeOf(loc[u].n) \in Types /\ datas[loc[u].n] # Null
      /\ \A n \in Names : datas[n] # Null => TypeOf(n) \in Types /\ funId[TypeOf(n)] \in Nat
      /\ loc[t].n \in Names /\ ty \in Types /\ funId[ty] \in Nat /\ loc[t].id \in Nat
      /\ \A u \in Threads : handle[u] # Null =>
           handle[u][1] \in Names /\ handle[u][2] \in Nat /\ datas[handle[u][1]] # Null
      /\ \A u \in Threads : loc[u].n \in Names /\ loc[u].id \in Nat
  BY <1>1, Found DEF OnVariable, InAdd
<1>3. /\ \A u \in Threads : loc'[u] = loc[u]
      /\ \A u \in Threads \ {t} : pc'[u] = pc[u]
      /\ \A n : TypeOf(n)' = TypeOf(n)
      /\ \A u \in Threads : Safe(u)' <=> Safe(u)
      /\ \A u \in Threads : NewId(u)' <=> NewId(u)
  BY <1>1 DEF Moves, TypeOf, Safe, NewId, InAdd
<1>4. loc[t].id > 0
  BY <1>1 DEF IdsGrow, Positive, NewId, InAdd
<1>5. ASSUME NEW u \in Threads PROVE (Positive(u) /\ Uses(u))'
  <2>1. Positive(u)'
    BY <1>1, <1>2, <1>3, <1>4 DEF IdsGrow, Positive, NewId, InAdd, OnVariable
  <2>2. Uses(u)'
    BY <1>1, <1>3 DEF IdsGrow, Uses, NewId, InAdd
  <2>. QED  BY <2>1, <2>2
<1>6. ASSUME NEW u \in Threads, (NewId(u) /\ Safe(u))' PROVE NewIsAbove(u)'
  <2>1. NewId(u) /\ Safe(u) /\ NewIsAbove(u) /\ loc'[u] = loc[u]
    BY <1>3, <1>6 DEF IdsGrow
  <2>2. u # t => TypeOf(loc[u].n) # ty
    BY <1>1, <1>3, <2>1 DEF NewIsAbove, NewId, InAdd
  <2>3. loc'[u].id = IF pc'[u] = "bump" THEN funId'[TypeOf(loc[u].n)] + 1
                                        ELSE funId'[TypeOf(loc[u].n)]
    BY <1>1, <1>2, <1>3, <2>1, <2>2 DEF NewIsAbove, NewId, InAdd, OnVariable
  <2>4. \A w \in Threads : (NewId(w) /\ TypeOf(loc[w].n) = TypeOf(loc[u].n))' => w = u
    BY <1>3, <2>1 DEF NewIsAbove
  <2>5. \A n, id : Before(n, id, u)' <=> Before(n, id, u)
    BY <1>3, <2>1 DEF Before
  <2>6. /\ \A w \in Threads : pc'[w] = "del" => pc[w] = "del"
        /\ pc'[u] = "answer" => pc[u] = "answer"
        /\ pc[u] = "answer" => pc'[u] = "answer"
    BY <1>1, <1>3
  <2>7. \A n \in Names : datas'[n] # Null =>
          \A id \in DOMAIN cbs'[n] :
            Before(n, id, u)' \/ (/\ pc'[u] = "answer" /\ n = loc'[u].n /\ id = loc'[u].id)
    BY <1>1, <2>1, <2>5, <2>6 DEF NewIsAbove
  <2>8. \A w \in Threads : (handle[w] # Null => Before(handle[w][1], handle[w][2], u))'
    BY <1>1, <1>3, <2>1 DEF NewIsAbove, Before
  <2>9. \A w \in Threads : (pc[w] = "del" => Before(loc[w].n, loc[w].id, u))'
    BY <1>3, <2>1, <2>6 DEF NewIsAbove, Before
  <2>10. pc'[u] = "answer" => /\ loc'[u].id \in DOMAIN cbs'[loc'[u].n]
                              /\ cbs'[loc'[u].n][loc'[u].id].who = u
    BY <1>1, <2>1, <2>6 DEF NewIsAbove
  <2>. QED  BY <1>3, <2>1, <2>3, <2>4, <2>7, <2>8, <2>9, <2>10, Zenon DEF NewIsAbove
<1>7. Safe(t) => NewIsAbove(t)
  BY <1>1 DEF IdsGrow, NewId, InAdd
<1>8. ASSUME NEW n \in Names, NEW id \in Nat, datas[n] # Null, Counted(n, id),
             Safe(t) => Before(n, id, t)
      PROVE  Counted(n, id)'
  <2>1. CASE TypeOf(n) = ty
    BY <1>1, <1>2, <1>3, <1>8, <2>1 DEF Counted, Safe, Before
  <2>2. CASE TypeOf(n) # ty
    BY <1>1, <1>2, <1>3, <1>8, <2>2 DEF Counted
  <2>. QED  BY <2>1, <2>2
<1>9. ASSUME NEW n \in Names, NEW id \in DOMAIN cbs'[n] PROVE Counted(n, id)'
  <2>1. CASE datas[n] = Null
    BY <1>1, <2>1 DEF Counted
  <2>2. CASE datas[n] # Null
    <3>1. id \in DOMAIN cbs[n] /\ id \in Nat /\ Counted(n, id)
      BY <1>1, <1>9 DEF Typed, IdsGrow
    <3>2. Safe(t) => Before(n, id, t)
      BY <1>1, <1>7, <2>2, <3>1 DEF NewIsAbove
    <3>. QED  BY <1>8, <2>2, <3>1, <3>2
  <2>. QED  BY <2>1, <2>2
<1>10. ASSUME NEW u \in Threads, handle'[u] # Null PROVE Counted(handle[u][1], handle[u][2])'
  <2>1. handle[u] # Null /\ Counted(handle[u][1], handle[u][2])
    BY <1>1, <1>10 DEF IdsGrow
  <2>2. Safe(t) => Before(handle[u][1], handle[u][2], t)
    BY <1>7, <2>1 DEF NewIsAbove
  <2>3. Counted(handle[u][1], handle[u][2]) => (Counted(handle[u][1], handle[u][2]))'
    <3> DEFINE n == handle[u][1]  id == handle[u][2]
    <3>1. n \in Names /\ id \in Nat /\ datas[n] # Null /\ n' = n /\ id' = id
      BY <1>1, <1>2, <2>1
    <3>. QED  BY <1>8, <2>2, <3>1 DEF Counted
  <2>. QED  BY <2>1, <2>3
<1>11. ASSUME NEW u \in Threads, (pc[u] = "del" /\ Safe(u))'
       PROVE  /\ Counted(loc[u].n, loc[u].id)'
              /\ \A w \in Threads \ {u} : handle'[w] # Null => handle'[w] # <<loc'[u].n, loc'[u].id>>
  <2>1. pc[u] = "del" /\ loc'[u] = loc[u] /\ Safe(u) /\ datas[loc[u].n] # Null
    BY <1>1, <1>2, <1>3, <1>11 DEF OnVariable
  <2>2. Counted(loc[u].n, loc[u].id) /\ (Safe(t) => Before(loc[u].n, loc[u].id, t))
    BY <1>7, <2>1 DEF IdsGrow, NewIsAbove
  <2>3. Counted(loc[u].n, loc[u].id)'
    <3> DEFINE n == loc[u].n  id == loc[u].id
    <3>1. n \in Names /\ id \in Nat /\ n' = n /\ id' = id
      BY <1>2, <2>1
    <3>. QED  BY <1>8, <2>1, <2>2, <3>1 DEF Counted
  <2>. QED  BY <1>1, <2>1, <2>3 DEF IdsGrow
<1>12. HandleNamesListener'
  BY <1>1, <1>3 DEF HandleNamesListener
<1>. QED  BY <1>5, <1>6, <1>9, <1>10, <1>11, <1>12 DEF IdsGrow

(* The new id is entered in its variable; it replaces no other, since all   *)
(* that were kept are below it.                                             *)
LEMMA StoresKeepsIds ==
  ASSUME Typed, Carried, LocksAreExact, IdsGrow, HandleNamesListener,
         NEW t \in Threads, NEW id, Stores(t, id)
  PROVE  IdsGrow' /\ HandleNamesListener'
<1> DEFINE m == loc[t].n
<1>1. /\ Moves(t) /\ pc[t] = "store" /\ pc'[t] = "answer" /\ loc'[t] = loc[t]
      /\ id \in {loc[t].id, funId[TypeOf(m)]}
      /\ \A n \in Names \ {m} : cbs'[n] = cbs[n]
      /\ DOMAIN cbs'[m] = DOMAIN cbs[m] \cup {id}
      /\ \A k \in DOMAIN cbs[m] \ {id} : cbs'[m][k] = cbs[m][k]
      /\ cbs'[m][id].who = t
      /\ UNCHANGED <<datas, funId, handle, idRace>>
  BY DEF Stores, SameLocals
<1>2. /\ \A u \in Threads : pc[u] \in OnVariable => datas[loc[u].n] # Null
      /\ \A n \in Names : datas[n] # Null => TypeOf(n) \in Types /\ funId[TypeOf(n)] \in Nat
      /\ \A u \in Threads : handle[u] # Null =>
           handle[u][1] \in Names /\ handle[u][2] \in Nat /\ datas[handle[u][1]] # Null
      /\ \A u \in Threads : loc[u].n \in Names /\ loc[u].id \in Nat
  BY Found
<1>3. /\ \A u \in Threads : loc'[u] = loc[u]
      /\ \A u \in Threads \ {t} : pc'[u] = pc[u]
      /\ \A n : TypeOf(n)' = TypeOf(n)
      /\ \A u \in Threads : Safe(u)' <=> Safe(u)
      /\ \A u \in Threads : NewId(u)' <=> NewId(u)
      /\ \A n, k : Counted(n, k)' <=> Counted(n, k)
  BY <1>1 DEF Moves, TypeOf, Safe, NewId, InAdd, Counted
<1>4. Safe(t) => NewIsAbove(t) /\ id = loc[t].id /\ id = funId[TypeOf(m)]
  BY <1>1 DEF IdsGrow, NewId, InAdd, NewIsAbove
<1>5. ASSUME NEW u \in Threads PROVE (Positive(u) /\ Uses(u))'
  BY <1>1, <1>3 DEF IdsGrow, Positive, Uses, NewId, InAdd
<1>6. ASSUME NEW u \in Threads, (NewId(u) /\ Safe(u))' PROVE NewIsAbove(u)'
  <2>1. NewId(u) /\ Safe(u) /\ NewIsAbove(u) /\ loc'[u] = loc[u]
    BY <1>3, <1>6 DEF IdsGrow
  <2>2. loc'[u].id = IF pc'[u] = "bump" THEN funId'[TypeOf(loc[u].n)] + 1
                                        ELSE funId'[TypeOf(loc[u].n)]
    BY <1>1, <1>3, <2>1 DEF NewIsAbove
  <2>3. \A w \in Threads : (NewId(w) /\ TypeOf(loc[w].n) = TypeOf(loc[u].n))' => w = u
    BY <1>3, <2>1 DEF NewIsAbove
  <2>4. \A n, k : Before(n, k, u)' <=> Before(n, k, u)
    BY <1>3, <2>1 DEF Before
  <2>5. pc[u] = "answer" => u # t /\ pc'[u] = "answer"
    BY <1>1, <1>3
  <2>6. ASSUME NEW n \in Names, datas'[n] # Null, NEW k \in DOMAIN cbs'[n]
        PROVE  Before(n, k, u)' \/ (/\ pc'[u] = "answer" /\ n = loc'[u].n /\ k = loc'[u].id)
    <3>1. CASE k \in DOMAIN cbs[n]
      BY <1>1, <2>1, <2>4, <2>5, <2>6, <3>1 DEF NewIsAbove
    <3>2. CASE k \notin DOMAIN cbs[n]
      <4>1. n = m /\ k = id
        BY <1>1, <2>6, <3>2
      <4>2. CASE u = t
        BY <1>1, <1>4, <2>1, <4>1, <4>2
      <4>3. CASE u # t
        <5>1. TypeOf(loc[u].n) # TypeOf(n)
          BY <1>1, <2>1, <4>1, <4>3 DEF NewIsAbove, NewId, InAdd
        <5>. QED  BY <2>4, <5>1 DEF Before
      <4>. QED  BY <4>2, <4>3
    <3>. QED  BY <3>1, <3>2
  <2>7. \A w \in Threads : (handle[w] # Null => Before(handle[w][1], handle[w][2], u))'
    BY <1>1, <1>3, <2>1 DEF NewIsAbove, Before
  <2>8. \A w \in Threads : (pc[w] = "del" => Before(loc[w].n, loc[w].id, u))'
    BY <1>1, <1>3, <2>1 DEF NewIsAbove, Before
  <2>9. pc'[u] = "answer" => /\ loc'[u].id \in DOMAIN cbs'[loc'[u].n]
                             /\ cbs'[loc'[u].n][loc'[u].id].who = u
    <3>1. CASE u = t
      BY <1>1, <1>4, <2>1, <3>1
    <3>2. CASE u # t /\ pc'[u] = "answer"
      <4>1. pc[u] = "answer" /\ loc[u].n # m
        BY <1>1, <1>2, <1>3, <3>2 DEF LocksAreExact, HoldsOwn, InAdd
      <4>. QED  BY <1>1, <1>2, <2>1, <4>1 DEF NewIsAbove
    <3>. QED  BY <3>1, <3>2
  <2>. QED  BY <1>3, <2>1, <2>2, <2>3, <2>6, <2>7, <2>8, <2>9, Zenon DEF NewIsAbove
<1>7. ASSUME NEW n \in Names, NEW k \in DOMAIN cbs'[n] PROVE Counted(n, k)'
  <2>1. CASE k \in DOMAIN cbs[n]
    BY <1>3, <2>1 DEF IdsGrow
  <2>2. CASE k \notin DOMAIN cbs[n]
    <3>1. n = m /\ k = id
      BY <1>1, <1>7, <2>2
    <3>2. Counted(n, k)
      BY <1>2, <1>4, <3>1 DEF Counted, Safe
    <3>. QED  BY <1>3, <3>2
  <2>. QED  BY <2>1, <2>2
<1>8. \A u \in Threads : (handle[u] # Null => Counted(handle[u][1], handle[u][2]))'
  BY <1>1, <1>3 DEF IdsGrow, Counted
<1>9. ASSUME NEW u \in Threads, (pc[u] = "del" /\ Safe(u))'
      PROVE  /\ Counted(loc[u].n, loc[u].id)'
             /\ \A w \in Threads \ {u} : handle'[w] # Null => handle'[w] # <<loc'[u].n, loc'[u].id>>
  <2>1. pc[u] = "del" /\ loc'[u] = loc[u] /\ Safe(u)
    BY <1>1, <1>3, <1>9
  <2>. QED  BY <1>1, <1>3, <2>1 DEF IdsGrow, Counted
<1>10. HandleNamesListener'
  <2>1. SUFFICES ASSUME NEW u \in Threads, handle[u] # Null, TypeOf(handle[u][1]) \notin idRace
                 PROVE  handle[u][2] \in DOMAIN cbs'[handle[u][1]] /\ cbs'[handle[u][1]][handle[u][2]].who = u
    BY <1>1, <1>3 DEF HandleNamesListener
  <2>2. handle[u][2] \in DOMAIN cbs[handle[u][1]] /\ cbs[handle[u][1]][handle[u][2]].who = u
    BY <2>1 DEF HandleNamesListener
  <2>3. CASE handle[u][1] # m
    BY <1>1, <1>2, <2>1, <2>2, <2>3
  <2>4. CASE handle[u][1] = m
    <3>1. handle[u][2] < loc[t].id /\ id = loc[t].id
      BY <1>4, <2>1, <2>4 DEF NewIsAbove, Before, Safe
    <3>2. handle[u][2] # id
      BY <1>2, <2>1, <3>1
    <3>. QED  BY <1>1, <2>2, <2>4, <3>2
  <2>. QED  BY <2>3, <2>4
<1>. QED  BY <1>5, <1>6, <1>7, <1>8, <1>9, <1>10 DEF IdsGrow

(* The caller of AddListener gets the id of the listener it added. *)
LEMMA AddLeavesKeepsIds ==
  ASSUME Typed, Carried, IdsGrow, HandleNamesListener,
         NEW t \in Threads, NEW id, AddLeaves(t, id)
  PROVE  IdsGrow' /\ HandleNamesListener'
<1> DEFINE m == loc[t].n
<1>1. /\ Moves(t) /\ pc[t] = "answer" /\ pc'[t] \in {"idle", "finish"}
      /\ id \in {loc[t].id, funId[TypeOf(m)]}
      /\ handle'[t] = <<m, id>> /\ \A u \in Threads \ {t} : handle'[u] = handle[u]
      /\ UNCHANGED <<datas, cbs, funId, idRace>>
  BY DEF AddLeaves
<1>2. /\ \A u \in Threads : loc[u].n \in Names /\ loc[u].id \in Nat
      /\ datas[m] # Null /\ funId[TypeOf(m)] \in Nat
  BY <1>1, Found DEF OnVariable, InAdd
<1>3. /\ \A u \in Threads \ {t} : pc'[u] = pc[u] /\ loc'[u] = loc[u]
      /\ \A n : TypeOf(n)' = TypeOf(n)
      /\ \A u \in Threads \ {t} : (Safe(u)' <=> Safe(u)) /\ (NewId(u)' <=> NewId(u))
      /\ \A n, k : Counted(n, k)' <=> Counted(n, k)
      /\ ~NewId(t)'
  BY <1>1 DEF Moves, TypeOf, Safe, NewId, InAdd, Counted
<1>4. Safe(t) => NewIsAbove(t) /\ id = loc[t].id /\ id = funId[TypeOf(m)]
  BY <1>1 DEF IdsGrow, NewId, InAdd, NewIsAbove
<1>5. ASSUME NEW u \in Threads PROVE (Positive(u) /\ Uses(u))'
  BY <1>1, <1>3 DEF IdsGrow, Positive, Uses, NewId, InAdd
<1>6. ASSUME NEW u \in Threads, (NewId(u) /\ Safe(u))' PROVE NewIsAbove(u)'
  <2>1. u # t /\ NewId(u) /\ Safe(u) /\ NewIsAbove(u) /\ loc'[u] = loc[u] /\ pc'[u] = pc[u]
    BY <1>3, <1>6 DEF IdsGrow
  <2>2. \A w \in Threads : (NewId(w) /\ TypeOf(loc[w].n) = TypeOf(loc[u].n))' => w = u
    BY <1>3, <2>1 DEF NewIsAbove
  <2>3. \A n, k : Before(n, k, u)' <=> Before(n, k, u)
    BY <1>3, <2>1 DEF Before
  <2>4. TypeOf(loc[u].n) # TypeOf(m)
    BY <1>1, <2>1 DEF NewIsAbove, NewId, InAdd
  <2>5. ASSUME NEW w \in Threads, handle'[w] # Null PROVE Before(handle[w][1], handle[w][2], u)'
    <3>1. CASE w = t
      BY <1>1, <1>3, <2>1, <2>4, <3>1 DEF Before
    <3>2. CASE w # t
      BY <1>1, <1>3, <2>1, <2>5, <3>2 DEF Before, NewIsAbove
    <3>. QED  BY <3>1, <3>2
  <2>6. ASSUME NEW w \in Threads, pc'[w] = "del" PROVE Before(loc[w].n, loc[w].id, u)'
    <3>1. w # t /\ pc[w] = "del" /\ loc'[w] = loc[w]
      BY <1>1, <1>3, <2>6
    <3>. QED  BY <1>3, <2>1, <3>1 DEF Before, NewIsAbove
  <2>7. \A n \in Names : datas'[n] # Null =>
          \A k \in DOMAIN cbs'[n] :
            Before(n, k, u)' \/ (/\ pc'[u] = "answer" /\ n = loc'[u].n /\ k = loc'[u].id)
    BY <1>1, <2>1, <2>3 DEF NewIsAbove
  <2>8. /\ loc'[u].id = IF pc'[u] = "bump" THEN funId'[TypeOf(loc[u].n)] + 1
                                           ELSE funId'[TypeOf(loc[u].n)]
        /\ pc'[u] = "answer" => /\ loc'[u].id \in DOMAIN cbs'[loc'[u].n]
                                /\ cbs'[loc'[u].n][loc'[u].id].who = u
    BY <1>1, <2>1 DEF NewIsAbove
  <2>. QED  BY <1>3, <2>1, <2>2, <2>5, <2>6, <2>7, <2>8, Zenon DEF NewIsAbove
<1>7. \A n \in Names : \A k \in DOMAIN cbs'[n] : Counted(n, k)'
  BY <1>1, <1>3 DEF IdsGrow
<1>8. ASSUME NEW u \in Threads, handle'[u] # Null PROVE Counted(handle[u][1], handle[u][2])'
  <2>1. CASE u = t
    BY <1>1, <1>2, <1>3, <1>4, <2>1 DEF Counted, Safe
  <2>2. CASE u # t
    BY <1>1, <1>3, <1>8, <2>2 DEF IdsGrow, Counted
  <2>. QED  BY <2>1, <2>2
<1>9. ASSUME NEW u \in Threads, (pc[u] = "del" /\ Safe(u))'
      PROVE  /\ Counted(loc[u].n, loc[u].id)'
             /\ \A w \in Threads \ {u} : handle'[w] # Null => handle'[w] # <<loc'[u].n, loc'[u].id>>
  <2>1. u # t /\ pc[u] = "del" /\ loc'[u] = loc[u] /\ Safe(u)
    BY <1>1, <1>3, <1>9
  <2>2. /\ Counted(loc[u].n, loc[u].id)
        /\ \A w \in Threads \ {u} : handle[w] # Null => handle[w] # <<loc[u].n, loc[u].id>>
    BY <2>1 DEF IdsGrow
  <2>3. <<m, id>> # <<loc[u].n, loc[u].id>>
    <3>1. SUFFICES ASSUME m = loc[u].n, id = loc[u].id PROVE FALSE
      OBVIOUS
    <3>2. Safe(t)
      BY <2>1, <3>1 DEF Safe
    <3>3. loc[u].id < loc[t].id /\ loc[t].id = loc[u].id
      BY <1>4, <2>1, <3>1, <3>2 DEF NewIsAbove, Before
    <3>. QED  BY <1>2, <3>3
  <2>. QED  BY <1>1, <1>3, <2>1, <2>2, <2>3 DEF Counted
<1>10. HandleNamesListener'
  <2>1. SUFFICES ASSUME NEW u \in Threads, handle'[u] # Null, TypeOf(handle'[u][1]) \notin idRace
                 PROVE  handle'[u][2] \in DOMAIN cbs[handle'[u][1]] /\ cbs[handle'[u][1]][handle'[u][2]].who = u
    BY <1>1 DEF HandleNamesListener, TypeOf
  <2>2. CASE u = t
    <3>1. Safe(t) /\ handle'[t][1] = m /\ handle'[t][2] = id
      BY <1>1, <2>1, <2>2 DEF Safe
    <3>. QED  BY <1>1, <1>4, <2>2, <3>1 DEF NewIsAbove
  <2>3. CASE u # t
    BY <1>1, <2>1, <2>3 DEF HandleNamesListener
  <2>. QED  BY <2>2, <2>3
<1>. QED  BY <1>5, <1>6, <1>7, <1>8, <1>9, <1>10 DEF IdsGrow

(* What is removed is named by no handle that is left. *)
LEMMA RemovesKeepsIds ==
  ASSUME Typed, Carried, LocksAreExact, IdsGrow, HandleNamesListener,
         NEW t \in Threads, Deletes(t) \/ Clears(t)
  PROVE  IdsGrow' /\ HandleNamesListener'
<1> DEFINE m == loc[t].n
<1>1. /\ Moves(t) /\ pc[t] \in {"del", "clear"} /\ pc'[t] \in {"idle", "finish"}
      /\ writer[m] = NoOne
      /\ \A n \in Names \ {m} : cbs'[n] = cbs[n]
      /\ DOMAIN cbs'[m] \subseteq DOMAIN cbs[m]
      /\ \A k \in DOMAIN cbs'[m] : cbs'[m][k] = cbs[m][k]
      /\ \A u \in Threads : handle'[u] \in {handle[u], Null}
      /\ UNCHANGED <<datas, funId, idRace>>
  BY DEF Deletes, Clears
<1>2. /\ \A u \in Threads : handle[u] # Null =>
           handle[u] \in Names \X Nat /\ handle[u][1] \in Names /\ datas[handle[u][1]] # Null
      /\ \A u \in Threads : loc[u].n \in Names /\ loc[u].id \in Nat
      /\ \A u \in Threads : pc[u] \in InAdd => loc[u].n # m
  BY <1>1, Found, ConfigAssumption DEF LocksAreExact, HoldsOwn
<1>3. /\ \A u \in Threads \ {t} : pc'[u] = pc[u] /\ loc'[u] = loc[u]
      /\ \A n : TypeOf(n)' = TypeOf(n)
      /\ \A u \in Threads \ {t} : (Safe(u)' <=> Safe(u)) /\ (NewId(u)' <=> NewId(u))
      /\ \A n, k : Counted(n, k)' <=> Counted(n, k)
      /\ ~NewId(t)'
  BY <1>1 DEF Moves, TypeOf, Safe, NewId, InAdd, Counted
<1>4. ASSUME NEW u \in Threads, handle'[u] # Null, TypeOf(handle[u][1]) \notin idRace
      PROVE  handle[u][1] = m => handle[u][2] \in DOMAIN cbs'[m]
  <2>1. handle[u] # Null /\ handle'[u] = handle[u]
    BY <1>1, <1>4
  <2>2. handle[u][2] \in DOMAIN cbs[handle[u][1]]
    BY <1>4, <2>1 DEF HandleNamesListener
  <2>3. CASE Clears(t)
    BY <1>4, <2>1, <2>3 DEF Clears
  <2>4. CASE Deletes(t)
    <3>1. /\ pc[t] = "del" /\ DOMAIN cbs'[m] = DOMAIN cbs[m] \ {loc[t].id} /\ handle'[t] = Null
      BY <2>4 DEF Deletes
    <3>2. u # t
      BY <1>4, <3>1
    <3>3. handle[u][1] = m => handle[u] # <<m, loc[t].id>>
      BY <1>4, <2>1, <3>1, <3>2 DEF IdsGrow, Safe
    <3>4. handle[u] = <<handle[u][1], handle[u][2]>>
      BY <1>2, <2>1
    <3>. QED  BY <2>2, <3>1, <3>3, <3>4
  <2>. QED  BY <2>3, <2>4
<1>5. ASSUME NEW u \in Threads PROVE (Positive(u) /\ Uses(u))'
  BY <1>1, <1>3 DEF IdsGrow, Positive, Uses, NewId, InAdd
<1>6. ASSUME NEW u \in Threads, (NewId(u) /\ Safe(u))' PROVE NewIsAbove(u)'
  <2>1. u # t /\ NewId(u) /\ Safe(u) /\ NewIsAbove(u) /\ loc'[u] = loc[u] /\ pc'[u] = pc[u]
    BY <1>3, <1>6 DEF IdsGrow
  <2>2. \A w \in Threads : (NewId(w) /\ TypeOf(loc[w].n) = TypeOf(loc[u].n))' => w = u
    BY <1>3, <2>1 DEF NewIsAbove
  <2>3. \A n, k : Before(n, k, u)' <=> Before(n, k, u)
    BY <1>3, <2>1 DEF Before
  <2>4. \A w \in Threads : (handle[w] # Null => Before(handle[w][1], handle[w][2], u))'
    BY <1>1, <1>3, <2>1 DEF Before, NewIsAbove
  <2>5. ASSUME NEW w \in Threads, pc'[w] = "del" PROVE Before(loc[w].n, loc[w].id, u)'
    <3>1. w # t /\ pc[w] = "del" /\ loc'[w] = loc[w]
      BY <1>1, <1>3, <2>5
    <3>. QED  BY <1>3, <2>1, <3>1 DEF Before, NewIsAbove
  <2>6. \A n \in Names : datas'[n] # Null =>
          \A k \in DOMAIN cbs'[n] :
            Before(n, k, u)' \/ (/\ pc'[u] = "answer" /\ n = loc'[u].n /\ k = loc'[u].id)
    BY <1>1, <2>1, <2>3 DEF NewIsAbove
  <2>7. /\ loc'[u].id = IF pc'[u] = "bump" THEN funId'[TypeOf(loc[u].n)] + 1
                                           ELSE funId'[TypeOf(loc[u].n)]
        /\ pc'[u] = "answer" => /\ loc'[u].id \in DOMAIN cbs'[loc'[u].n]
                                /\ cbs'[loc'[u].n][loc'[u].id].who = u
    BY <1>1, <1>2, <2>1 DEF NewIsAbove, NewId
  <2>. QED  BY <1>3, <2>1, <2>2, <2>4, <2>5, <2>6, <2>7, Zenon DEF NewIsAbove
<1>7. \A n \in Names : \A k \in DOMAIN cbs'[n] : Counted(n, k)'
  BY <1>1, <1>3 DEF IdsGrow
<1>8. \A u \in Threads : (handle[u] # Null => Counted(handle[u][1], handle[u][2]))'
  BY <1>1, <1>3 DEF IdsGrow, Counted
<1>9. ASSUME NEW u \in Threads, (pc[u] = "del" /\ Safe(u))'
      PROVE  /\ Counted(loc[u].n, loc[u].id)'
             /\ \A w \in Threads \ {u} : handle'[w] # Null => handle'[w] # <<loc'[u].n, loc'[u].id>>
  <2>1. u # t /\ pc[u] = "del" /\ loc'[u] = loc[u] /\ Safe(u)
    BY <1>1, <1>3, <1>9
  <2>. QED  BY <1>1, <1>3, <2>1 DEF IdsGrow, Counted
<1>10. HandleNamesListener'
  <2>1. SUFFICES ASSUME NEW u \in Threads, handle'[u] # Null, TypeOf(handle[u][1]) \notin idRace
                 PROVE  handle[u][2] \in DOMAIN cbs'[handle[u][1]] /\ cbs'[handle[u][1]][handle[u][2]].who = u
    BY <1>1 DEF HandleNamesListener, TypeOf
  <2>2. handle[u] # Null /\ handle[u][2] \in DOMAIN cbs[handle[u][1]] /\ cbs[handle[u][1]][handle[u][2]].who = u
    BY <1>1, <2>1 DEF HandleNamesListener
  <2>3. CASE handle[u][1] # m
    BY <1>1, <1>2, <2>2, <2>3
  <2>4. CASE handle[u][1] = m
    BY <1>1, <1>4, <2>1, <2>2, <2>4
  <2>. QED  BY <2>3, <2>4
<1>. QED  BY <1>5, <1>6, <1>7, <1>8, <1>9, <1>10 DEF IdsGrow

(* A thread begins to delete the listener that its handle names. *)
LEMMA DelBeginsKeepsIds ==
  ASSUME Typed, Carried, IdsGrow, HandleNamesListener, NEW t \in Threads, Walks(t), pc'[t] = "del"
  PROVE  IdsGrow' /\ HandleNamesListener'
<1>1. /\ Moves(t) /\ pc[t] \notin InAdd /\ pc'[t] = "del"
      /\ handle[t] # Null /\ handle[t] = <<loc'[t].n, loc'[t].id>>
      /\ UNCHANGED <<datas, cbs, funId, handle, idRace>>
  BY DEF Walks, Holding, others
<1>2. handle[t][1] = loc'[t].n /\ handle[t][2] = loc'[t].id
  BY <1>1
<1>3. /\ \A u \in Threads \ {t} : pc'[u] = pc[u] /\ loc'[u] = loc[u]
      /\ \A n : TypeOf(n)' = TypeOf(n)
      /\ \A u \in Threads \ {t} : (Safe(u)' <=> Safe(u)) /\ (NewId(u)' <=> NewId(u))
      /\ \A n, k : Counted(n, k)' <=> Counted(n, k)
      /\ ~NewId(t)'
  BY <1>1 DEF Moves, TypeOf, Safe, NewId, InAdd, Counted
<1>4. ASSUME NEW u \in Threads PROVE (Positive(u) /\ Uses(u))'
  BY <1>1, <1>3 DEF IdsGrow, Positive, Uses, NewId, InAdd
<1>5. ASSUME NEW u \in Threads, (NewId(u) /\ Safe(u))' PROVE NewIsAbove(u)'
  <2>1. u # t /\ NewId(u) /\ Safe(u) /\ NewIsAbove(u) /\ loc'[u] = loc[u] /\ pc'[u] = pc[u]
    BY <1>3, <1>5 DEF IdsGrow
  <2>2. \A w \in Threads : (NewId(w) /\ TypeOf(loc[w].n) = TypeOf(loc[u].n))' => w = u
    BY <1>3, <2>1 DEF NewIsAbove
  <2>3. \A n, k : Before(n, k, u)' <=> Before(n, k, u)
    BY <1>3, <2>1 DEF Before
  <2>4. \A w \in Threads : (handle[w] # Null => Before(handle[w][1], handle[w][2], u))'
    BY <1>1, <1>3, <2>1 DEF Before, NewIsAbove
  <2>5. ASSUME NEW w \in Threads, pc'[w] = "del" PROVE Before(loc[w].n, loc[w].id, u)'
    <3>1. CASE w = t
      <4>1. Before(handle[t][1], handle[t][2], u)
        BY <1>1, <2>1 DEF NewIsAbove
      <4>. QED  BY <1>2, <1>3, <2>1, <3>1, <4>1 DEF Before
    <3>2. CASE w # t
      BY <1>3, <2>1, <2>5, <3>2 DEF Before, NewIsAbove
    <3>. QED  BY <3>1, <3>2
  <2>6. \A n \in Names : datas'[n] # Null =>
          \A k \in DOMAIN cbs'[n] :
            Before(n, k, u)' \/ (/\ pc'[u] = "answer" /\ n = loc'[u].n /\ k = loc'[u].id)
    BY <1>1, <2>1, <2>3 DEF NewIsAbove
  <2>7. /\ loc'[u].id = IF pc'[u] = "bump" THEN funId'[TypeOf(loc[u].n)] + 1
                                           ELSE funId'[TypeOf(loc[u].n)]
        /\ pc'[u] = "answer" => /\ loc'[u].id \in DOMAIN cbs'[loc'[u].n]
                                /\ cbs'[loc'[u].n][loc'[u].id].who = u
    BY <1>1, <2>1 DEF NewIsAbove
  <2>. QED  BY <1>3, <2>1, <2>2, <2>4, <2>5, <2>6, <2>7, Zenon DEF NewIsAbove
<1>6. /\ \A n \in Names : \A k \in DOMAIN cbs'[n] : Counted(n, k)'
      /\ \A u \in Threads : (handle[u] # Null => Counted(handle[u][1], handle[u][2]))'
  BY <1>1, <1>3 DEF IdsGrow, Counted
<1>7. ASSUME NEW u \in Threads, (pc[u] = "del" /\ Safe(u))'
      PROVE  /\ Counted(loc[u].n, loc[u].id)'
             /\ \A w \in Threads \ {u} : handle'[w] # Null => handle'[w] # <<loc'[u].n, loc'[u].id>>
  <2>1. CASE u = t
    <3>1. Counted(handle[t][1], handle[t][2]) /\ TypeOf(handle[t][1]) \notin idRace
      BY <1>1, <1>2, <1>3, <1>7, <2>1 DEF IdsGrow, Safe
    <3>2. Counted(loc[u].n, loc[u].id)'
      BY <1>1, <1>2, <1>3, <2>1, <3>1 DEF Counted
    <3>3. \A w \in Threads \ {t} : handle[w] # Null => handle[w] # handle[t]
      BY <1>1, <3>1 DEF HandleNamesListener
    <3>. QED  BY <1>1, <2>1, <3>2, <3>3
  <2>2. CASE u # t
    BY <1>1, <1>3, <1>7, <2>2 DEF IdsGrow, Counted
  <2>. QED  BY <2>1, <2>2
<1>8. HandleNamesListener'
  BY <1>1, <1>3 DEF HandleNamesListener
<1>. QED  BY <1>4, <1>5, <1>6, <1>7, <1>8 DEF IdsGrow

(* Ids and handles, for every step.                                         *)
LEMMA IdsStep ==
  ASSUME Typed, Carried, LocksAreExact, IdsGrow, HandleNamesListener, StepKinds
  PROVE  IdsGrow' /\ HandleNamesListener'
<1> USE DEF others
<1>1. CASE Edits \/ UNCHANGED <<pc, loc, locks, others, times>>
  <2>1. UNCHANGED <<pc, loc, datas, cbs, funId, handle, idRace>>
    BY <1>1 DEF Edits
  <2>. QED  BY <2>1, IdsElsewhere DEF IdsGrow, Uses
<1>2. ASSUME NEW t \in Threads, Moves(t), UNCHANGED <<idRace, funId, handle>>,
             pc'[t] \notin InAdd \cup {"del"}, pc'[t] = "add" => handle[t] = Null,
             \A n \in Names :
               \/ datas[n] = Null /\ DOMAIN cbs'[n] = {}
               \/ /\ datas'[n] = datas[n] /\ DOMAIN cbs'[n] = DOMAIN cbs[n]
                  /\ \A id \in DOMAIN cbs[n] : cbs'[n][id].who = cbs[n][id].who
      PROVE  IdsGrow' /\ HandleNamesListener'
  <2>1. \A u \in Threads :
          /\ pc'[u] \in InAdd \cup {"del"} => pc'[u] = pc[u] /\ loc'[u] = loc[u]
          /\ pc'[u] = "add" => handle[u] = Null
    BY <1>2 DEF Moves, IdsGrow, Uses
  <2>. QED  BY <1>2, <2>1, IdsElsewhere
<1>3. ASSUME NEW t \in Threads,
             \/ Walks(t) /\ pc'[t] # "del"
             \/ LookupTakes(t) \/ LookupStays(t) \/ LookupLeaves(t)
             \/ VisitTakes(t) \/ VisitStays(t) \/ VisitLeaves(t)
             \/ SetTakes(t) \/ SetStays(t) \/ SetLeaves(t) \/ Assigns(t) \/ Checks(t) \/ Reads(t)
      PROVE  IdsGrow' /\ HandleNamesListener'
  <2>1. /\ Moves(t) /\ UNCHANGED <<datas, cbs, idRace, funId, handle>>
        /\ pc'[t] \notin InAdd \cup {"del"} /\ (pc'[t] = "add" => handle[t] = Null)
    BY <1>3 DEF Walks, LookupTakes, LookupStays, LookupLeaves, VisitTakes, VisitStays, VisitLeaves,
                SetTakes, SetStays, SetLeaves, Assigns, Checks, Reads, Holding, InAdd
  <2>. QED  BY <1>2, <2>1
<1>4. ASSUME NEW t \in Threads, Creates(t)
      PROVE  IdsGrow' /\ HandleNamesListener'
  <2>1. datas[loc[t].n] = Null
    BY <1>4 DEF Creates, Carried, Carries
  <2>. QED  BY <1>2, <1>4, <2>1 DEF Creates, InAdd
<1>5. ASSUME NEW t \in Threads, NEW id, SetCalls(t, id)
      PROVE  IdsGrow' /\ HandleNamesListener'
  <2>1. loc[t].n \in Names
    BY Found
  <2>. QED  BY <1>2, <1>5, <2>1 DEF SetCalls, InAdd
<1>. QED
  BY OneKind, <1>1, <1>3, <1>4, <1>5, DelBeginsKeepsIds, AddTakesKeepsIds, BumpsKeepsIds,
     StoresKeepsIds, AddLeavesKeepsIds, RemovesKeepsIds
  DEF Kinds

-----------------------------------------------------------------------------
(* The theorems *)

(* The invariant holds at the start,                                        *)
LEMMA IInvInit == Init => IInv
<1> SUFFICES ASSUME Init PROVE IInv
  OBVIOUS
<1>1. /\ NoLocals \in Locals /\ DOMAIN <<>> = {}
      /\ \A n \in Names : DOMAIN cbs[n] = {}
      /\ \A t \in Threads : pc[t] = "idle" /\ loc[t] = NoLocals /\ handle[t] = Null
      /\ \A l \in Locks : readers[l] = {} /\ writer[l] = NoOne
      /\ Registry \in Locks /\ Names \subseteq Locks
      /\ NoOne \notin Threads
  BY ConfigAssumption DEF Init, NoLocals, Locals, Locks
<1>2. datas \in [Names -> {Null} \cup Objects]
  BY ConfigAssumption DEF Init, Objects
<1>3. Typed
  BY <1>1, <1>2, ConfigAssumption DEF Init, Typed, Labels, InRegistry
<1>4. Carried
  BY <1>1 DEF Carried, Carries, InRegistry, OnVariable, Notifying, InAdd
<1>5. LocksAreExact
  BY <1>1 DEF LocksAreExact, HoldsShared, HoldsOwn, InRegistry, Notifying, InAdd
<1>6. IdsGrow /\ HandleNamesListener
  BY <1>1 DEF IdsGrow, Positive, Uses, NewId, InAdd, HandleNamesListener
<1>7. HeardRight /\ MirrorFollows
  BY <1>1 DEF HeardRight, HeardAt, MirrorFollows, Setting, Notifying
<1>8. file \in [content : Contents, mtime : {1}] /\ recorded = 0 /\ MaxTime \in Nat \ {0}
  BY ConfigAssumption DEF Init
<1>9. TimesPass /\ FileIsLoaded
  BY <1>1, <1>8 DEF TimesPass, FileIsLoaded
<1>. QED  BY <1>3, <1>4, <1>5, <1>6, <1>7, <1>9 DEF IInv

(* is kept by every step,                                                   *)
LEMMA IInvStep == IInv /\ [Next]_vars => IInv'
<1> SUFFICES ASSUME IInv, [Next]_vars PROVE IInv'
  OBVIOUS
<1>1. StepKinds
  BY StepsByKind DEF IInv
<1>2. Typed' /\ Carried' /\ LocksAreExact'
  BY <1>1, TypedStep, CarriedStep, LocksStep DEF IInv
<1>3. IdsGrow' /\ HandleNamesListener'
  BY <1>1, IdsStep DEF IInv
<1>4. HeardRight' /\ MirrorFollows'
  BY <1>1, HeardStep DEF IInv
<1>5. TimesPass' /\ FileIsLoaded'
  BY <1>1, TimesStep DEF IInv
<1>. QED  BY <1>2, <1>3, <1>4, <1>5 DEF IInv

(* implies the properties,                                                  *)
LEMMA IInvImplies == IInv => ConfigInv /\ FileIsLoaded
<1> SUFFICES ASSUME IInv PROVE TypeOK
  BY DEF IInv, ConfigInv
<1> USE DEF IInv
<1>1. ASSUME NEW n \in Names
      PROVE  /\ datas[n] = Null \/ datas[n] \in [ty : Types, by : Threads \cup {NoOne}]
             /\ value[n] \in Values
             /\ \A id \in DOMAIN cbs[n] :
                  id \in Nat \ {0} /\ cbs[n][id] \in [who : Threads, heard : Values \cup {Null}]
  BY DEF Typed, Objects, Listeners
<1>2. ASSUME NEW n \in Names
      PROVE  /\ readers[n] = {t \in Threads : pc[t] \in Notifying /\ loc[t].n = n}
             /\ {writer[n]} \ {NoOne} =
                  {t \in Threads : pc[t] \in {"bump", "store", "answer"} /\ loc[t].n = n}
  <2>1. readers[n] \subseteq Threads /\ writer[n] \in Threads \cup {NoOne} /\ NoOne \notin Threads
    BY ConfigAssumption DEF Typed, Locks
  <2>. QED  BY <2>1 DEF LocksAreExact, HoldsShared, HoldsOwn, InAdd
<1>3. /\ {writer[Registry]} \ {NoOne} = {t \in Threads : pc[t] \in {"find", "describe", "create"}}
      /\ readers[Registry] = {t \in Threads : pc[t] = "each"}
  <2>1. /\ readers[Registry] \subseteq Threads /\ writer[Registry] \in Threads \cup {NoOne}
        /\ NoOne \notin Threads
    BY ConfigAssumption DEF Typed, Locks
  <2>. QED  BY <2>1 DEF LocksAreExact, InRegistry
<1>4. \A l \in Locks : writer[l] # NoOne => readers[l] = {}
  BY DEF LocksAreExact
<1>5. /\ funId \in [Types -> Nat] /\ recorded \in 0 .. MaxTime
      /\ file \in [content : Contents, mtime : 1 .. MaxTime]
  BY ConfigAssumption DEF Typed, TimesPass
<1>. QED  BY <1>1, <1>2, <1>3, <1>4, <1>5 DEF TypeOK

(* and so holds at every state.                                             *)
LEMMA InvariantHolds == Spec => []IInv
BY IInvInit, IInvStep, PTL DEF Spec

(* Of any number of threads that look up, set, listen and load, every state *)
(* is well typed, the locks are held by exactly those inside; a handle      *)
(* names its owner's listener unless the id counter of its type was raced   *)
(* for; and a listener's copy is the value unless two set_value calls of    *)
(* its variable overlapped.                                                 *)
THEOREM ConfigIsKept == Spec => []ConfigInv
BY InvariantHolds, IInvImplies, PTL

(* A file whose time is recorded as loaded, and which nobody is about to    *)
(* read, has been read as it is, unless it was edited twice in a second.    *)
THEOREM RecordedFileIsLoaded == Spec => []FileIsLoaded
BY InvariantHolds, IInvImplies, PTL

(* Lookup creates an object only where there is none and never replaces it: *)
(* search and creation are under one exclusive lock.                        *)
THEOREM ObjectsStay == Spec => CreatedOnce
<1>1. IInv /\ [Next]_vars => [\A n \in Names : datas[n] # Null => datas'[n] = datas[n]]_vars
  <2>1. SUFFICES ASSUME IInv, [Next]_vars, NEW n \in Names, datas[n] # Null
                 PROVE  datas'[n] = datas[n]
    OBVIOUS
  <2>2. StepKinds
    BY <2>1, StepsByKind DEF IInv
  <2>3. CASE UNCHANGED datas
    BY <2>3
  <2>4. ASSUME NEW t \in Threads, Creates(t)
        PROVE  datas'[n] = datas[n]
    <3>1. datas[loc[t].n] = Null
      BY <2>1, <2>4 DEF Creates, IInv, Carried, Carries
    <3>. QED  BY <2>1, <2>4, <3>1 DEF Creates
  <2>5. ASSUME NEW t \in Threads, Kinds(t), ~Creates(t)
        PROVE  UNCHANGED datas
    BY <2>5
    DEF Kinds, others, Walks, LookupTakes, LookupStays, LookupLeaves, VisitTakes, VisitStays,
        VisitLeaves, SetTakes, SetCalls, SetStays, SetLeaves, Assigns, AddTakes, Bumps, Stores,
        AddLeaves, Deletes, Clears, Checks, Reads
  <2>6. CASE Edits \/ UNCHANGED <<pc, loc, locks, others, times>>
    BY <2>6 DEF Edits, others
  <2>. QED  BY <2>2, <2>3, <2>4, <2>5, <2>6, OneKind
<1>. QED  BY <1>1, InvariantHolds, PTL DEF Spec, CreatedOnce
=============================================================================
