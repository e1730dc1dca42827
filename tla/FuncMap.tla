------------------------------ MODULE FuncMap -------------------------------
(***************************************************************************)
(* The function registry of the server, src/pkg/server/function.go, one    *)
(* action per access to shared memory.  fm.Funcs is a sync.Map of *Func;   *)
(* fm.mutex covers the two counters one increment at a time, and           *)
(* function.Workers is read and written without it.  The goroutines are    *)
(* the DoIO goroutine of each worker connection (AddFunc, DelWorkerFunc,   *)
(* the close paths of connect.go) and the goroutines of the dispatch pool  *)
(* (GetBestWorker).                                                        *)
(***************************************************************************)
EXTENDS Integers, Sequences, FiniteSets, SequencesExt

CONSTANTS
  Workers,   \* worker connections, each with its SWorker
  Callers,   \* goroutines of the dispatch pool
  Names,     \* function names
  MaxObjs,   \* bound: *Func objects stored or held at a time, never too few
  MaxListed, \* bound: entries of Workers when a worker is appended
  MaxBusy,   \* goroutines inside the registry at a time
  None       \* no name, no worker

ASSUME FuncMapAssumption ==
  /\ MaxBusy \in Nat \ {0} /\ MaxListed \in Nat /\ IsFiniteSet(Names)
  /\ MaxObjs \in Nat \ {0} /\ MaxObjs >= Cardinality(Names) + MaxBusy - 1
  /\ Workers \cap Callers = {} /\ Callers # {} /\ None \notin Workers \cup Callers \cup Names

VARIABLES
  funcs,     \* fm.Funcs: the object stored under a name, 0 for none
  funcNum,   \* fm.FuncNum
  num,       \* Func.WorkerNum of each object
  list,      \* Func.Workers of each object
  conn,      \* "open", "closing" while DoIO cleans up, "gone" once RunWorker = nil
  added,     \* history: how often a worker has announced a function and not withdrawn it
             \* on its open connection
  panicked,  \* a goroutine panicked: the process is gone
  pc,        \* where a goroutine stands
  loc        \* its local variables

registryVars == <<funcs, funcNum, num, list, conn, added, panicked, pc, loc>>
Goroutines == Workers \cup Callers
Objs == 1..MaxObjs

Locals == [name : Names \cup {None}, \* the function asked for or announced
           fn   : Names \cup {None}, \* the function a removal is at
           obj  : 0..MaxObjs,        \* the *Func at hand
           k    : Nat,               \* an index into Workers
           new  : Seq(Workers),      \* the slice about to be stored
           who  : Workers \cup {None}, \* the worker being removed or picked
           todo : SUBSET Names,      \* names sync.Map.Range has still to visit
           mode : {"none", "func", "clean", "eof"}] \* DelWorkerFunc, CleanWorkerFunc, DelWorker

NoLocals == [name |-> None, fn |-> None, obj |-> 0, k |-> 0, new |-> <<>>,
             who |-> None, todo |-> {}, mode |-> "none"]

NoneAdded == [n \in Names |-> 0]

RegistryTypeOK ==
  /\ funcs \in [Names -> 0..MaxObjs] /\ funcNum \in Int
  /\ num \in [Objs -> Int] /\ list \in [Objs -> Seq(Workers)]
  /\ conn \in [Workers -> {"open", "closing", "gone"}]
  /\ added \in [Workers -> [Names -> Nat]] /\ panicked \in BOOLEAN
  /\ loc \in [Goroutines -> Locals]

RegistryInit ==
  /\ funcs = [n \in Names |-> 0] /\ funcNum = 0
  /\ num = [o \in Objs |-> 0] /\ list = [o \in Objs |-> <<>>]
  /\ conn = [w \in Workers |-> "open"] /\ panicked = FALSE
  /\ added = [w \in Workers |-> NoneAdded]
  /\ pc = [g \in Goroutines |-> "idle"]
  /\ loc = [g \in Goroutines |-> NoLocals]

-----------------------------------------------------------------------------
Busy == {g \in Goroutines : pc[g] # "idle"}
MayEnter(g) == ~panicked /\ pc[g] = "idle" /\ Cardinality(Busy) < MaxBusy

At(g, place) == ~panicked /\ pc[g] = place
Goto(g, place) == pc' = [pc EXCEPT ![g] = place]
Move(g, from, to) == At(g, from) /\ Goto(g, to)
Return(g) == Goto(g, "idle") /\ loc' = [loc EXCEPT ![g] = NoLocals]

\* An index or a division that the Go runtime refuses.
Panic ==
  /\ panicked' = TRUE
  /\ UNCHANGED <<funcs, funcNum, num, list, conn, added, pc, loc>>

-----------------------------------------------------------------------------
(* AddFunc *)

\* An object that is stored nowhere and held by nobody.
Fresh == CHOOSE o \in Objs : (\A n \in Names : funcs[n] # o) /\ \A g \in Goroutines : loc[g].obj # o

\* A worker sends PDT_W_ADD_FUNC, for a function it may have announced before.
AddFunc(w, n) ==
  /\ MayEnter(w) /\ conn[w] = "open" /\ (funcs[n] # 0 => Len(list[funcs[n]]) < MaxListed)
  /\ added' = [added EXCEPT ![w][n] = @ + 1]
  /\ IF funcs[n] # 0
     THEN /\ loc' = [loc EXCEPT ![w].name = n, ![w].obj = funcs[n]]
          /\ Goto(w, "inc") /\ UNCHANGED <<num, list>>
     ELSE /\ loc' = [loc EXCEPT ![w].name = n, ![w].obj = Fresh]
          /\ num' = [num EXCEPT ![Fresh] = 0] /\ list' = [list EXCEPT ![Fresh] = <<>>]
          /\ Goto(w, "count")
  /\ UNCHANGED <<funcs, funcNum, conn, panicked>>

CountFunc(w) ==
  /\ Move(w, "count", "store") /\ funcNum' = funcNum + 1
  /\ UNCHANGED <<funcs, num, list, conn, added, panicked, loc>>

StoreFunc(w) ==
  /\ Move(w, "store", "inc") /\ funcs' = [funcs EXCEPT ![loc[w].name] = loc[w].obj]
  /\ UNCHANGED <<funcNum, num, list, conn, added, panicked, loc>>

IncWorkerNum(w) ==
  /\ Move(w, "inc", "read") /\ num' = [num EXCEPT ![loc[w].obj] = @ + 1]
  /\ UNCHANGED <<funcs, funcNum, list, conn, added, panicked, loc>>

ReadWorkers(w) ==
  /\ Move(w, "read", "append")
  /\ loc' = [loc EXCEPT ![w].new = Append(list[loc[w].obj], w)]
  /\ UNCHANGED <<funcs, funcNum, num, list, conn, added, panicked>>

AppendWorker(w) ==
  /\ At(w, "append") /\ Return(w) /\ list' = [list EXCEPT ![loc[w].obj] = loc[w].new]
  /\ UNCHANGED <<funcs, funcNum, num, conn, added, panicked>>

-----------------------------------------------------------------------------
(* DelWorkerFunc, CleanWorkerFunc, DelWorker: take a worker out of functions *)

\* A worker sends PDT_W_DEL_FUNC, which may overtake the announcement.
DelWorkerFunc(w, n) ==
  /\ MayEnter(w) /\ conn[w] = "open"
  /\ added' = [added EXCEPT ![w][n] = IF @ = 0 THEN 0 ELSE @ - 1]
  /\ loc' = [loc EXCEPT ![w].todo = {n}, ![w].who = w, ![w].mode = "func"]
  /\ pc' = [pc EXCEPT ![w] = "next"]
  /\ UNCHANGED <<funcs, funcNum, num, list, conn, panicked>>

\* DoIO ends with EOF (DelWorker, then CloseAll) or with a net.OpError
\* (CloseWorkerConnect at once).  DelWorker returns at once when FuncNum = 0.
CloseWorker(w) ==
  /\ MayEnter(w) /\ conn[w] = "open"
  /\ conn' = [conn EXCEPT ![w] = "closing"]
  /\ \E m \in {"clean"} \cup (IF funcNum = 0 THEN {} ELSE {"eof"}) :
       loc' = [loc EXCEPT ![w].todo = Names, ![w].who = w, ![w].mode = m]
  /\ pc' = [pc EXCEPT ![w] = "next"] /\ added' = [added EXCEPT ![w] = NoneAdded]
  /\ UNCHANGED <<funcs, funcNum, num, list, panicked>>

\* DoIO ends with another error: CloseConnect only forgets RunWorker.
CloseConnect(w) ==
  /\ MayEnter(w) /\ conn[w] = "open"
  /\ conn' = [conn EXCEPT ![w] = "gone"] /\ added' = [added EXCEPT ![w] = NoneAdded]
  /\ UNCHANGED <<funcs, funcNum, num, list, panicked, pc, loc>>

\* Range visits the next name that is stored; DelWorkerFunc goes no further
\* when WorkerNum = 0.
Visit(g) ==
  /\ At(g, "next")
  /\ \E n \in loc[g].todo :
       IF funcs[n] # 0 /\ (loc[g].mode = "eof" \/ num[funcs[n]] # 0)
       THEN /\ Goto(g, "scan")
            /\ loc' = [loc EXCEPT ![g].obj = funcs[n], ![g].todo = @ \ {n}, ![g].fn = n]
       ELSE /\ UNCHANGED pc
            /\ loc' = [loc EXCEPT ![g].todo = @ \ {n}]
  /\ UNCHANGED <<funcs, funcNum, num, list, conn, added, panicked>>

\* Nothing left to visit: DelWorker is followed by CloseAll's CleanWorkerFunc, the
\* close paths forget RunWorker, and GetBestWorker starts again.
EndVisit(g) ==
  /\ At(g, "next") /\ loc[g].todo = {}
  /\ \/ /\ loc[g].mode = "eof"
        /\ loc' = [loc EXCEPT ![g].mode = "clean", ![g].todo = Names]
        /\ UNCHANGED <<pc, conn>>
     \/ /\ loc[g].mode = "func" /\ Return(g) /\ UNCHANGED conn
     \/ /\ loc[g].mode = "clean" /\ g \in Workers
        /\ conn' = [conn EXCEPT ![g] = "gone"] /\ Return(g)
     \/ /\ g \in Callers /\ Goto(g, "load")
        /\ loc' = [loc EXCEPT ![g] = [NoLocals EXCEPT !.name = loc[g].name, !.mode = "clean"]]
        /\ UNCHANGED conn
  /\ UNCHANGED <<funcs, funcNum, num, list, added, panicked>>

\* Mutant of Scan: the index of the last worker instead of the one found.
ScanLast(g) ==
  /\ At(g, "scan")
  /\ LET s == list[loc[g].obj] IN
       IF Contains(s, loc[g].who)
       THEN Goto(g, "cut") /\ loc' = [loc EXCEPT ![g].k = Len(s)]
       ELSE Goto(g, "next") /\ UNCHANGED loc
  /\ UNCHANGED <<funcs, funcNum, num, list, conn, added, panicked>>

\* The range loop over Workers stops at the first entry of the worker.
Scan(g) ==
  /\ At(g, "scan")
  /\ LET s == list[loc[g].obj]
         v == loc[g].who IN
       \/ \E k \in DOMAIN s : /\ s[k] = v /\ \A i \in 1..(k - 1) : s[i] # v
                              /\ Goto(g, "cut") /\ loc' = [loc EXCEPT ![g].k = k]
       \/ ~Contains(s, v) /\ Goto(g, "next") /\ UNCHANGED loc
  /\ UNCHANGED <<funcs, funcNum, num, list, conn, added, panicked>>

\* append(Workers[:k], Workers[k+1:]...) on the slice as it is by now: the tail
\* moves down in place and the old last entry stays until the header is stored.
Cut(g) ==
  /\ At(g, "cut") /\ loc[g].k <= Len(list[loc[g].obj]) /\ Goto(g, "shrink")
  /\ LET s   == list[loc[g].obj]
         cut == RemoveAt(s, loc[g].k) IN
       /\ list' = [list EXCEPT ![loc[g].obj] = Append(cut, Last(s))]
       /\ loc' = [loc EXCEPT ![g].new = cut]
  /\ UNCHANGED <<funcs, funcNum, num, conn, added, panicked>>

CutPanics(g) == At(g, "cut") /\ loc[g].k > Len(list[loc[g].obj]) /\ Panic

Shrink(g) ==
  /\ Move(g, "shrink", "dec") /\ list' = [list EXCEPT ![loc[g].obj] = loc[g].new]
  /\ UNCHANGED <<funcs, funcNum, num, conn, added, panicked, loc>>

\* Mutant of DecWorkerNum: DelWorker forgets the counter.
DecWorkerNumNotEof(g) ==
  /\ Move(g, "dec", IF loc[g].mode = "eof" THEN "next" ELSE "zero")
  /\ num' = IF loc[g].mode = "eof" THEN num ELSE [num EXCEPT ![loc[g].obj] = @ - 1]
  /\ UNCHANGED <<funcs, funcNum, list, conn, added, panicked, loc>>

DecWorkerNum(g) ==
  /\ Move(g, "dec", IF loc[g].mode = "eof" THEN "next" ELSE "zero")
  /\ num' = [num EXCEPT ![loc[g].obj] = @ - 1]
  /\ UNCHANGED <<funcs, funcNum, list, conn, added, panicked, loc>>

\* DelWorkerFunc calls DelAllFunc for a function without workers.
TestZero(g) ==
  /\ At(g, "zero")
  /\ Goto(g, IF num[loc[g].obj] = 0 /\ funcs[loc[g].fn] # 0 THEN "delete" ELSE "next")
  /\ UNCHANGED <<funcs, funcNum, num, list, conn, added, panicked, loc>>

DeleteFunc(g) ==
  /\ Move(g, "delete", "uncount") /\ funcs' = [funcs EXCEPT ![loc[g].fn] = 0]
  /\ UNCHANGED <<funcNum, num, list, conn, added, panicked, loc>>

UncountFunc(g) ==
  /\ Move(g, "uncount", "next") /\ funcNum' = funcNum - 1
  /\ UNCHANGED <<funcs, num, list, conn, added, panicked, loc>>

-----------------------------------------------------------------------------
(* GetBestWorker; every function uses LOADBLANCE_HASH *)

GetBestWorker(c, n) ==
  /\ MayEnter(c)
  /\ loc' = [loc EXCEPT ![c].name = n, ![c].mode = "clean"]
  /\ pc' = [pc EXCEPT ![c] = "load"]
  /\ UNCHANGED <<funcs, funcNum, num, list, conn, added, panicked>>

\* Load, and the test WorkerNum > 0.
LoadFunc(c) ==
  /\ At(c, "load")
  /\ LET o == funcs[loc[c].name] IN
       IF o # 0 /\ num[o] > 0
       THEN Goto(c, "rand") /\ loc' = [loc EXCEPT ![c].obj = o]
       ELSE Return(c)
  /\ UNCHANGED <<funcs, funcNum, num, list, conn, added, panicked>>

\* rand.Int() % WorkerNum, with WorkerNum read again; k counts from 1 here.
PickKey(c) ==
  /\ Move(c, "rand", "index")
  /\ LET n == num[loc[c].obj] IN
       \E i \in 1..(IF n < 0 THEN -n ELSE n) : loc' = [loc EXCEPT ![c].k = i]
  /\ UNCHANGED <<funcs, funcNum, num, list, conn, added, panicked>>

RandPanics(c) == At(c, "rand") /\ num[loc[c].obj] = 0 /\ Panic

\* Workers[rkey].
IndexWorker(c) ==
  /\ At(c, "index") /\ loc[c].k <= Len(list[loc[c].obj]) /\ Goto(c, "check")
  /\ loc' = [loc EXCEPT ![c].who = list[loc[c].obj][loc[c].k]]
  /\ UNCHANGED <<funcs, funcNum, num, list, conn, added, panicked>>

IndexPanics(c) == At(c, "index") /\ loc[c].k > Len(list[loc[c].obj]) /\ Panic

\* Mutant of CheckConnect: the connection is not looked at.
CheckNothing(c) ==
  /\ At(c, "check") /\ Return(c)
  /\ UNCHANGED <<funcs, funcNum, num, list, conn, added, panicked>>

\* Mutant of CheckConnect: again without taking the dead worker out.
CheckWithoutClean(c) ==
  /\ At(c, "check")
  /\ IF conn[loc[c].who] = "gone" THEN Goto(c, "load") /\ UNCHANGED loc ELSE Return(c)
  /\ UNCHANGED <<funcs, funcNum, num, list, conn, added, panicked>>

\* RunWorker = nil: CloseSelfWorker and again; else the worker is returned.
CheckConnect(c) ==
  /\ At(c, "check")
  /\ IF conn[loc[c].who] = "gone"
     THEN Goto(c, "next") /\ loc' = [loc EXCEPT ![c].todo = Names]
     ELSE Return(c)
  /\ UNCHANGED <<funcs, funcNum, num, list, conn, added, panicked>>

-----------------------------------------------------------------------------
RemoveStep(g) ==
  \/ Visit(g) \/ EndVisit(g) \/ Scan(g) \/ Cut(g) \/ CutPanics(g) \/ Shrink(g)
  \/ DecWorkerNum(g) \/ TestZero(g) \/ DeleteFunc(g) \/ UncountFunc(g)

AddStep(w) == CountFunc(w) \/ StoreFunc(w) \/ IncWorkerNum(w) \/ ReadWorkers(w) \/ AppendWorker(w)

PickStep(c) ==
  LoadFunc(c) \/ PickKey(c) \/ RandPanics(c) \/ IndexWorker(c) \/ IndexPanics(c) \/ CheckConnect(c)

Step(g) == RemoveStep(g) \/ (g \in Workers /\ AddStep(g)) \/ (g \in Callers /\ PickStep(g))

RegistryNext ==
  \/ \E g \in Goroutines : Step(g)
  \/ \E w \in Workers : CloseWorker(w) \/ CloseConnect(w)
  \/ \E w \in Workers, n \in Names : AddFunc(w, n) \/ DelWorkerFunc(w, n)
  \/ \E c \in Callers, n \in Names : GetBestWorker(c, n)

RegistrySpec == RegistryInit /\ [][RegistryNext]_registryVars

-----------------------------------------------------------------------------
(* Properties *)

Stored == {funcs[n] : n \in Names} \ {0}

\* The types, and: whenever no goroutine is inside the registry, WorkerNum is the length of
\* Workers and FuncNum the number of functions stored.
CountersAgree ==
  /\ RegistryTypeOK
  /\ Busy = {} => /\ \A o \in Stored : num[o] = Len(list[o])
                  /\ funcNum = Cardinality({n \in Names : funcs[n] # 0})

\* How often a sequence has x.
Times(s, x) == Cardinality({i \in DOMAIN s : s[i] = x})

\* Whenever no goroutine is inside the registry, a live worker is listed under every
\* function as often as it announced it and did not withdraw it.
RegistryExact ==
  Busy = {} => \A w \in Workers, n \in Names : conn[w] = "open" =>
    Times(IF funcs[n] = 0 THEN <<>> ELSE list[funcs[n]], w) = added[w][n]

\* A step of GetBestWorker that returns hands out a worker that is connected
\* and announced the function more often than it withdrew it.
PickServed ==
  \A c \in Callers : pc[c] = "check" /\ pc'[c] = "idle" =>
    conn[loc[c].who] = "open" /\ added[loc[c].who][loc[c].name] > 0

\* GetBestWorker always comes to an end, also when it meets dead workers.
SelectionEnds == \A c \in Callers : At(c, "load") ~> (pc[c] = "idle" \/ panicked)
=============================================================================
