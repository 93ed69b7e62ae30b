----------------------------- MODULE ConfigVars -----------------------------
(***************************************************************************)
(* Config and ConfigVar: a registry of variables by name under one         *)
(* shared_mutex, a shared_mutex per variable over its value and its        *)
(* listeners, and the loader that applies a file to them.  Threads call    *)
(* these operations at will; a step is what happens between two accesses   *)
(* to what other threads can touch.                                        *)
(*                                                                         *)
(* The conversions between values and YAML text are left out: a text is    *)
(* the value it denotes, or Malformed.                                     *)
(***************************************************************************)
EXTENDS Integers, FiniteSets, Functions

CONSTANTS Threads,
          Names,        \* of configuration variables
          FileName,     \* the one the file assigns
          Types,        \* the T of ConfigVar<T>
          Values, Default, Malformed,
          Contents,     \* of the file: what it assigns, or Malformed
          Registry,     \* stands for Config::get_mutex() among the locks
          NoOne, Null,
          Predefined,   \* names looked up by static initialisers, and types
          MayCall,      \* bound: the operations each thread calls
          MaxCalls,     \* bound: and how many
          MaxTime       \* bound: seconds in which the file is edited

Operations == {"lookup", "compare", "add", "del", "clear", "visit", "stat"}

ASSUME ConfigAssumption ==
  /\ FileName \in Names /\ Default \in Values /\ Malformed \notin Values
  /\ Contents \subseteq Values \cup {Malformed}
  /\ Registry \notin Names /\ NoOne \notin Threads
  /\ \A n \in DOMAIN Predefined : n \in Names /\ Predefined[n] \in Types
  /\ MayCall \in [Threads -> SUBSET Operations] /\ MaxCalls \in [Threads -> Nat]
  /\ MaxTime \in Nat \ {0}

VARIABLES
  datas,                \* Null or the type of the object, and who made it
  value, cbs,           \* per variable; a listener keeps what it last heard
  funId,                \* s_fun_id, a static per type
  readers, writer,      \* holders of each lock
  file, recorded,       \* content and mtime; s_file2modifytime
  pc, loc, calls,       \* of each thread: step, arguments, calls so far
  loading,              \* threads inside LoadFromConfDir
  handle,               \* variable and id that AddListener returned
  crossed, idRace, sameSecond,   \* history
  fresh                 \* the file was read since it was last edited

shared == <<datas, value, cbs, funId, file, recorded>>
locks == <<readers, writer>>
history == <<crossed, idRace, fresh, sameSecond>>
threads == <<pc, loc, calls, loading, handle>>
vars == <<shared, locks, threads, history>>

Locks == Names \cup {Registry}
NoLocals == [n |-> FileName, v |-> Default, id |-> 0, todo |-> {}]

Init ==
  /\ datas = [n \in Names |-> IF n \in DOMAIN Predefined
                               THEN [ty |-> Predefined[n], by |-> NoOne] ELSE Null]
  /\ value = [n \in Names |-> Default]
  /\ cbs = [n \in Names |-> <<>>]
  /\ funId = [ty \in Types |-> 0]
  /\ readers = [l \in Locks |-> {}]
  /\ writer = [l \in Locks |-> NoOne]
  /\ file \in [content : Contents, mtime : {1}]
  /\ recorded = 0
  /\ pc = [t \in Threads |-> "idle"]
  /\ loc = [t \in Threads |-> NoLocals]
  /\ calls = [t \in Threads |-> 0]
  /\ loading = {}
  /\ handle = [t \in Threads |-> Null]
  /\ crossed = {} /\ idRace = {} /\ fresh = FALSE /\ sameSecond = FALSE

-----------------------------------------------------------------------------
(* std::shared_mutex on glibc prefers readers: a thread that holds it       *)
(* shared may take it shared again while a writer waits.                    *)
CanShare(l) == writer[l] = NoOne
CanOwn(l) == writer[l] = NoOne /\ readers[l] = {}

Own(t, l) == CanOwn(l) /\ writer' = [writer EXCEPT ![l] = t] /\ UNCHANGED readers
Share(t, l) ==
  CanShare(l) /\ readers' = [readers EXCEPT ![l] = @ \cup {t}] /\ UNCHANGED writer
Release(t, l) ==
  /\ writer' = [writer EXCEPT ![l] = IF @ = t THEN NoOne ELSE @]
  /\ readers' = [readers EXCEPT ![l] = @ \ {t}]

(* A thread goes on with other locals, with the same ones, or returns.      *)
With(t, label, l) ==
  pc' = [pc EXCEPT ![t] = label] /\ loc' = [loc EXCEPT ![t] = l]
Goto(t, label) == With(t, label, loc[t])
Return(t) == With(t, IF t \in loading THEN "finish" ELSE "idle", NoLocals)
At(t, label) == pc[t] = label
TypeOf(n) == datas[n].ty
Notifying == {"notify", "callback", "callbackLookup"}
Setting(n) == {t \in Threads : pc[t] \in Notifying \cup {"assign"} /\ loc[t].n = n}
Adding(ty) == {t \in Threads : pc[t] \in {"bump", "store", "answer"} /\ TypeOf(loc[t].n) = ty}

(* A thread calls an operation.  It has the objects that Lookup returned.   *)
Call(t) ==
  /\ At(t, "idle") /\ calls[t] < MaxCalls[t]
  /\ calls' = [calls EXCEPT ![t] = @ + 1]
  /\ \/ \E n \in Names, ty \in Types :
          With(t, "lookup", [NoLocals EXCEPT !.n = n, !.v = ty])
     \/ \E n \in {m \in Names : datas[m] # Null}, v \in Values :
          With(t, "compare", [NoLocals EXCEPT !.n = n, !.v = v])
     \/ \E n \in {m \in Names : datas[m] # Null}, op \in {"add", "clear"} :
          /\ op = "add" => handle[t] = Null
          /\ With(t, op, [NoLocals EXCEPT !.n = n])
     \/ /\ handle[t] # Null
        /\ With(t, "del", [NoLocals EXCEPT !.n = handle[t][1], !.id = handle[t][2]])
     \/ \E op \in {"visit", "stat"} : Goto(t, op)
  /\ pc'[t] \in MayCall[t]
  /\ loading' = IF pc'[t] = "stat" THEN loading \cup {t} ELSE loading
  /\ UNCHANGED <<shared, locks, handle, history>>

-----------------------------------------------------------------------------
(* Config::Lookup<T>(name, default): search and creation under one          *)
(* exclusive lock.                                                          *)
LookupLock_Shared(t) ==
  /\ At(t, "lookup") /\ Share(t, Registry) /\ Goto(t, "find")
  /\ UNCHANGED <<shared, calls, loading, handle, history>>
LookupLock(t) ==
  /\ At(t, "lookup") /\ Own(t, Registry) /\ Goto(t, "find")
  /\ UNCHANGED <<shared, calls, loading, handle, history>>

(* An object of another type is described in the log first.                 *)
LookupFind(t) ==
  /\ At(t, "find")
  /\ LET n == loc[t].n IN
     \/ datas[n] = Null /\ Goto(t, "create") /\ UNCHANGED locks
     \/ datas[n] # Null /\ TypeOf(n) = loc[t].v /\ Release(t, Registry) /\ Return(t)
     \/ datas[n] # Null /\ TypeOf(n) # loc[t].v /\ Goto(t, "describe") /\ UNCHANGED locks
  /\ UNCHANGED <<shared, calls, loading, handle, history>>

(* ToString, under the variable's own lock.                                 *)
LookupDescribe(t) ==
  /\ At(t, "describe") /\ CanShare(loc[t].n)
  /\ Release(t, Registry) /\ Return(t)
  /\ UNCHANGED <<shared, calls, loading, handle, history>>

LookupCreate(t) ==
  /\ At(t, "create")
  /\ datas' = [datas EXCEPT ![loc[t].n] = [ty |-> loc[t].v, by |-> t]]
  /\ value' = [value EXCEPT ![loc[t].n] = Default]
  /\ cbs' = [cbs EXCEPT ![loc[t].n] = <<>>]
  /\ Release(t, Registry) /\ Return(t)
  /\ UNCHANGED <<funId, file, recorded, calls, loading, handle, history>>

(* Config::Visit holds the registry while it calls back; the callback here  *)
(* reads each variable, as the tests do.                                    *)
VisitLock(t) ==
  /\ At(t, "visit") /\ Share(t, Registry)
  /\ With(t, "each", [loc[t] EXCEPT !.todo = {n \in Names : datas[n] # Null}])
  /\ UNCHANGED <<shared, calls, loading, handle, history>>
VisitEach(t) ==
  /\ At(t, "each")
  /\ \/ \E n \in loc[t].todo :
          CanShare(n) /\ With(t, "each", [loc[t] EXCEPT !.todo = @ \ {n}]) /\ UNCHANGED locks
     \/ loc[t].todo = {} /\ Release(t, Registry) /\ Return(t)
  /\ UNCHANGED <<shared, calls, loading, handle, history>>

-----------------------------------------------------------------------------
(* ConfigVar::set_value.  The comparison and the listeners run under the    *)
(* shared lock, which is dropped before the exclusive one is taken.         *)
Announced(n, v) == v

SetCompare_Exclusive(t) ==
  /\ At(t, "compare")
  /\ LET n == loc[t].n IN
     \/ CanOwn(n) /\ loc[t].v = value[n] /\ Return(t) /\ UNCHANGED <<locks, crossed>>
     \/ /\ loc[t].v # value[n] /\ Own(t, n)
        /\ With(t, "notify", [loc[t] EXCEPT !.todo = DOMAIN cbs[n]])
        /\ UNCHANGED crossed
  /\ UNCHANGED <<shared, calls, loading, handle, idRace, fresh, sameSecond>>
SetCompare(t) ==
  /\ At(t, "compare")
  /\ LET n == loc[t].n IN
     \/ CanShare(n) /\ loc[t].v = value[n] /\ Return(t) /\ UNCHANGED <<locks, crossed>>
     \/ /\ loc[t].v # value[n] /\ Share(t, n)
        /\ With(t, "notify", [loc[t] EXCEPT !.todo = DOMAIN cbs[n]])
        /\ crossed' = IF Setting(n) = {} THEN crossed ELSE crossed \cup {n}
  /\ UNCHANGED <<shared, calls, loading, handle, idRace, fresh, sameSecond>>

(* Listeners are called in the order of their ids; one may read variables   *)
(* and look others up itself.                                               *)
SetNotify(t) ==
  /\ At(t, "notify")
  /\ LET n == loc[t].n IN
     \/ /\ loc[t].todo = {} /\ Release(t, n) /\ Goto(t, "assign")
        /\ UNCHANGED cbs
     \/ \E id \in loc[t].todo :
          /\ \A k \in loc[t].todo : id <= k
          /\ cbs' = [cbs EXCEPT ![n][id].heard = Announced(n, loc[t].v)]
          /\ \E label \in {"callback", "callbackLookup"} :
               With(t, label, [loc[t] EXCEPT !.todo = @ \ {id}])
          /\ UNCHANGED locks
  /\ UNCHANGED <<datas, value, funId, file, recorded, calls, loading, handle, history>>
ListenerReads(t) ==
  /\ At(t, "callback")
  /\ CanShare(loc[t].n)
  /\ Goto(t, "notify")
  /\ UNCHANGED <<shared, locks, calls, loading, handle, history>>
ListenerLooksUp(t) ==
  /\ At(t, "callbackLookup")
  /\ CanShare(Registry)
  /\ Goto(t, "notify")
  /\ UNCHANGED <<shared, locks, calls, loading, handle, history>>
SetAssign(t) ==
  /\ At(t, "assign") /\ CanOwn(loc[t].n)
  /\ value' = [value EXCEPT ![loc[t].n] = loc[t].v]
  /\ Return(t)
  /\ UNCHANGED <<datas, cbs, funId, file, recorded, locks, calls, loading, handle, history>>

-----------------------------------------------------------------------------
(* ConfigVar::AddListener.  The counter is shared by all variables of one   *)
(* type and each takes its own lock only: the increment is a load and a     *)
(* store, and each later use may read it again or not.                      *)
AddLock_Shared(t) ==
  /\ At(t, "add") /\ Share(t, loc[t].n)
  /\ LET ty == TypeOf(loc[t].n) IN
     /\ With(t, "bump", [loc[t] EXCEPT !.id = funId[ty] + 1])
     /\ idRace' = IF \E u \in Adding(ty) : loc[u].n # loc[t].n
                    THEN idRace \cup {ty} ELSE idRace
  /\ UNCHANGED <<shared, calls, loading, handle, crossed, fresh, sameSecond>>
AddLock(t) ==
  /\ At(t, "add") /\ Own(t, loc[t].n)
  /\ LET ty == TypeOf(loc[t].n) IN
     /\ With(t, "bump", [loc[t] EXCEPT !.id = funId[ty] + 1])
     /\ idRace' = IF Adding(ty) = {} THEN idRace ELSE idRace \cup {ty}
  /\ UNCHANGED <<shared, calls, loading, handle, crossed, fresh, sameSecond>>
AddBump(t) ==
  /\ At(t, "bump") /\ Goto(t, "store")
  /\ funId' = [funId EXCEPT ![TypeOf(loc[t].n)] = loc[t].id]
  /\ UNCHANGED <<datas, value, cbs, file, recorded, locks, calls, loading, handle, history>>
AddStore(t) ==
  /\ At(t, "store") /\ Goto(t, "answer")
  /\ \E id \in {loc[t].id, funId[TypeOf(loc[t].n)]} :
       cbs' = [cbs EXCEPT ![loc[t].n] =
                 [k \in DOMAIN @ \cup {id} |-> IF k = id THEN [who |-> t, heard |-> Null] ELSE @[k]]]
  /\ UNCHANGED <<datas, value, funId, file, recorded, locks, calls, loading, handle, history>>
AddAnswer(t) ==
  /\ At(t, "answer")
  /\ \E id \in {loc[t].id, funId[TypeOf(loc[t].n)]} :
       handle' = [handle EXCEPT ![t] = <<loc[t].n, id>>]
  /\ Release(t, loc[t].n) /\ Return(t)
  /\ UNCHANGED <<shared, calls, loading, history>>

DelListener(t) ==
  /\ At(t, "del") /\ CanOwn(loc[t].n)
  /\ cbs' = [cbs EXCEPT ![loc[t].n] = Restrict(@, DOMAIN @ \ {loc[t].id})]
  /\ handle' = [handle EXCEPT ![t] = Null]
  /\ Return(t)
  /\ UNCHANGED <<datas, value, funId, file, recorded, locks, calls, loading, history>>
ClearListener(t) ==
  /\ At(t, "clear") /\ CanOwn(loc[t].n)
  /\ cbs' = [cbs EXCEPT ![loc[t].n] = <<>>]
  /\ handle' = [u \in Threads |-> IF handle[u] # Null /\ handle[u][1] = loc[t].n
                                    THEN Null ELSE handle[u]]
  /\ Return(t)
  /\ UNCHANGED <<datas, value, funId, file, recorded, locks, calls, loading, history>>

-----------------------------------------------------------------------------
(* Config::LoadFromConfDir: lstat, compare and record the time under        *)
(* s_mutex, and only then read the file.                                    *)
LoadStat(t) ==
  /\ At(t, "stat") /\ With(t, "check", [loc[t] EXCEPT !.id = file.mtime])
  /\ UNCHANGED <<shared, locks, calls, loading, handle, history>>
LoadCheck(t) ==
  /\ At(t, "check")
  /\ \E force \in BOOLEAN :
       IF ~force /\ recorded = loc[t].id THEN Return(t) ELSE Goto(t, "read")
  /\ recorded' = loc[t].id
  /\ UNCHANGED <<datas, value, cbs, funId, file, locks, calls, loading, handle, history>>

(* LoadFile throws for a malformed file and the loop goes on.               *)
LoadRead(t) ==
  /\ At(t, "read")
  /\ fresh' = TRUE
  /\ IF file.content = Malformed THEN Return(t)
     ELSE With(t, "base", [NoLocals EXCEPT !.v = file.content])
  /\ UNCHANGED <<shared, locks, calls, loading, handle, crossed, idRace, sameSecond>>

(* LoadFromYaml: a name that nobody has looked up yet is ignored, else      *)
(* FromString sets the variable.                                            *)
LoadFromYaml(t) ==
  /\ At(t, "base") /\ CanShare(Registry)
  /\ IF datas[FileName] = Null THEN Return(t) ELSE Goto(t, "compare")
  /\ UNCHANGED <<shared, locks, calls, loading, handle, history>>

LoadFinish_RecordsHere(t) ==
  /\ At(t, "finish") /\ Goto(t, "idle")
  /\ recorded' = file.mtime
  /\ loading' = loading \ {t}
  /\ UNCHANGED <<datas, value, cbs, funId, file, locks, calls, handle, history>>
LoadFinish(t) ==
  /\ At(t, "finish") /\ Goto(t, "idle")
  /\ loading' = loading \ {t}
  /\ UNCHANGED <<shared, locks, calls, handle, history>>

(* Someone edits the file; its time has a resolution of one second.  Bound: *)
(* not once all loads of a run are over.                                    *)
EditFile ==
  /\ \E t \in Threads :
       "stat" \in MayCall[t] /\ (t \in loading \/ calls[t] < MaxCalls[t])
  /\ \E c \in Contents, m \in {file.mtime, file.mtime + 1} :
       /\ m <= MaxTime /\ c # file.content
       /\ file' = [content |-> c, mtime |-> m]
       /\ sameSecond' = (m = file.mtime)
  /\ fresh' = FALSE
  /\ UNCHANGED <<datas, value, cbs, funId, recorded, locks, threads, crossed, idRace>>

Step(t) ==
  \/ LookupLock(t) \/ LookupFind(t) \/ LookupDescribe(t) \/ LookupCreate(t)
  \/ VisitLock(t) \/ VisitEach(t)
  \/ SetCompare(t) \/ SetNotify(t) \/ ListenerReads(t) \/ ListenerLooksUp(t)
  \/ SetAssign(t)
  \/ AddLock(t) \/ AddBump(t) \/ AddStore(t) \/ AddAnswer(t)
  \/ DelListener(t) \/ ClearListener(t)
  \/ LoadStat(t) \/ LoadCheck(t) \/ LoadRead(t) \/ LoadFromYaml(t) \/ LoadFinish(t)

Next == (\E t \in Threads : Call(t) \/ Step(t)) \/ EditFile

(* Threads are scheduled; user code in listeners returns.                   *)
Spec == Init /\ [][Next]_vars /\ \A t \in Threads : WF_vars(Step(t))

-----------------------------------------------------------------------------
(* Types, and who holds which lock: the registry is owned between the       *)
(* search and the creation, a variable is shared by those who notify and    *)
(* owned by the one who adds a listener, and no lock is owned and shared.   *)
TypeOK ==
  /\ \A n \in Names :
       /\ datas[n] = Null \/ datas[n] \in [ty : Types, by : Threads \cup {NoOne}]
       /\ value[n] \in Values
       /\ \A id \in DOMAIN cbs[n] :
            id \in Nat \ {0} /\ cbs[n][id] \in [who : Threads, heard : Values \cup {Null}]
       /\ readers[n] = {t \in Threads : pc[t] \in Notifying /\ loc[t].n = n}
       /\ {writer[n]} \ {NoOne} =
            {t \in Threads : pc[t] \in {"bump", "store", "answer"} /\ loc[t].n = n}
  /\ {writer[Registry]} \ {NoOne} = {t \in Threads : pc[t] \in {"find", "describe", "create"}}
  /\ readers[Registry] = {t \in Threads : pc[t] = "each"}
  /\ \A l \in Locks : writer[l] # NoOne => readers[l] = {}
  /\ funId \in [Types -> Nat] /\ recorded \in 0 .. MaxTime
  /\ file \in [content : Contents, mtime : 1 .. MaxTime]

(* The id that AddListener returned names the caller's listener until it is *)
(* removed, whatever other threads add, delete and clear; except when two   *)
(* variables of one type were inside AddListener at once, because their     *)
(* counter is not protected (config.h:425).                                 *)
HandleNamesListener ==
  \A t \in Threads :
    (handle[t] # Null /\ TypeOf(handle[t][1]) \notin idRace) =>
      LET n == handle[t][1]  id == handle[t][2]
      IN id \in DOMAIN cbs[n] /\ cbs[n][id].who = t

(* A listener that was called keeps a true copy: when no set_value of the   *)
(* variable is under way, what it last heard is the value.  It can only be  *)
(* wrong if two set_value calls overlapped (config.h:401).                  *)
MirrorFollows ==
  \A n \in Names \ crossed :
    Setting(n) = {} =>
      \A id \in DOMAIN cbs[n] : cbs[n][id].heard \in {Null, value[n]}

(* What the variables keep at every step: types and locks, handles, and     *)
(* what the listeners heard.                                                *)
ConfigInv == TypeOK /\ HandleNamesListener /\ MirrorFollows

(* A file whose time is the recorded one has been read as it is, unless it  *)
(* was edited twice in one second.  (What was read may have been malformed  *)
(* or name a variable nobody had created: it is not tried again.)           *)
FileIsLoaded ==
  (/\ recorded = file.mtime /\ ~sameSecond
   /\ \A t \in Threads : ~At(t, "read"))
     => fresh

(* A name keeps its object: two threads that look a new name up at once get *)
(* the same one, and its value and listeners are never replaced.            *)
CreatedOnce == [][\A n \in Names : datas[n] # Null => datas'[n] = datas[n]]_vars

(* Every call returns: listeners that read variables under set_value's      *)
(* lock, Visit, and a Lookup that describes an object, never wait for one   *)
(* another.                                                                 *)
OperationsReturn == \A t \in Threads : ~At(t, "idle") ~> At(t, "idle")
=============================================================================
