--------------------------- MODULE TaskPoolProofs ---------------------------
(***************************************************************************)
(* Proofs about the worker pool, for any number of workers, calls and any  *)
(* plane size.                                                             *)
(***************************************************************************)
EXTENDS TaskPool, FiniteSetTheorems, TLAPS

(* The workers, hence any set of them, are finitely many.                  *)
LEMMA WorkersFinite ==
  /\ IsFiniteSet(Workers)
  /\ Cardinality(Workers) = N
  /\ \A S \in SUBSET Workers : IsFiniteSet(S) /\ Cardinality(S) \in Nat
<1>1. IsFiniteSet(Workers) /\ Cardinality(Workers) = N
  <2>1. N \in Nat /\ N >= 2  BY NAssumption
  <2>2. 0 \in Int /\ N - 1 \in Int  BY <2>1
  <2>3. /\ IsFiniteSet(0 .. N - 1)
        /\ Cardinality(0 .. N - 1) = IF 0 > N - 1 THEN 0 ELSE (N - 1) - 0 + 1
    BY <2>2, FS_Interval
  <2> QED  BY <2>1, <2>3 DEF Workers
<1>2. ASSUME NEW S \in SUBSET Workers PROVE IsFiniteSet(S) /\ Cardinality(S) \in Nat
  <2>1. IsFiniteSet(S)  BY <1>1, FS_Subset
  <2> QED  BY <2>1, FS_CardinalityType
<1> QED  BY <1>1, <1>2

(* The type invariant is inductive.                                        *)
LEMMA TypingInit == Init => TypeOK
  BY NAssumption, CallsAssumption
  DEF Init, TypeOK, PStates, WStates, Workers, Tasks

(* And every step keeps it.                                                *)
LEMMA TypingNext == TypeOK /\ [Next]_vars => TypeOK'
<1> SUFFICES ASSUME TypeOK, [Next]_vars PROVE TypeOK'  OBVIOUS
<1> USE NAssumption, CallsAssumption DEF TypeOK, PStates, WStates
<1>1. CASE Starting
  <2>1. CASE StartThread
    <3>1. created' \in 0 .. N  BY <2>1 DEF StartThread
    <3>2. wpc' \in [Workers -> WStates]  BY <2>1 DEF StartThread
    <3> QED  BY <3>1, <3>2, <2>1 DEF StartThread
  <2>2. CASE StartDone  BY <2>2 DEF StartDone
  <2>3. CASE StartFail  BY <2>3 DEF StartFail
  <2> QED  BY <1>1, <2>1, <2>2, <2>3 DEF Starting
<1>2. CASE Prepare \/ Unavailable \/ Clear
  BY <1>2 DEF Prepare, Unavailable, Clear
<1>3. CASE Submit
  <2>1. queue' \in Seq(Tasks)
    <3>1. [i \in 1 .. N |-> i - 1] \in Seq(Tasks)  BY DEF Tasks
    <3> QED  BY <3>1, <1>3 DEF Submit
  <2>2. wpc' \in [Workers -> WStates]  BY <1>3 DEF Submit, SignalWorker
  <2>3. /\ tasks_done' \in [Workers -> Nat]
        /\ tasks_todo' \in 0 .. N
        /\ ppc' \in PStates
    BY <1>3 DEF Submit
  <2> QED  BY <2>1, <2>2, <2>3, <1>3 DEF Submit
<1>4. CASE Check \/ Recheck \/ Return \/ SpuriousCaller
  <2>1. ppc' \in PStates  BY <1>4 DEF Check, Recheck, Return, SpuriousCaller
  <2> QED  BY <2>1, <1>4 DEF Check, Recheck, Return, SpuriousCaller
<1>5. CASE Stopping
  <2>1. CASE Stop  BY <2>1 DEF Stop
  <2>2. CASE StopNothing  BY <2>2 DEF StopNothing
  <2>3. CASE Joined
    <3>1. args' \in [Tasks -> 0 .. MaxCalls]  BY <2>3 DEF Joined
    <3>2. numThreads' \in {0, N} /\ ppc' \in PStates  BY <2>3 DEF Joined
    <3> QED  BY <3>1, <3>2, <2>3 DEF Joined
  <2> QED  BY <1>5, <2>1, <2>2, <2>3 DEF Stopping
<1>6. ASSUME NEW w \in Workers, Get(w) PROVE TypeOK'
  <2>1. Head(queue) \in Tasks /\ Tail(queue) \in Seq(Tasks)  BY <1>6 DEF Get
  <2> QED  BY <2>1, <1>6 DEF Get, performer
<1>7. ASSUME NEW w \in Workers, Sleep(w) \/ Exit(w) \/ SpuriousWorker(w)
      PROVE TypeOK'
  BY <1>7 DEF Sleep, Exit, SpuriousWorker, performer
<1>8. ASSUME NEW w \in Workers, Handle(w) PROVE TypeOK'
  BY <1>8 DEF Handle, performer
<1>9. ASSUME NEW w \in Workers, Report(w) PROVE TypeOK'
  BY <1>9 DEF Report
<1>10. CASE UNCHANGED vars  BY <1>10 DEF vars
<1> QED
  BY <1>1, <1>2, <1>3, <1>4, <1>5, <1>6, <1>7, <1>8, <1>9, <1>10
  DEF Next, Calling, Worker

(* Every variable keeps its type.                                          *)
THEOREM TypeCorrect == Spec => []TypeOK
<1> QED  BY TypingInit, TypingNext, PTL DEF Spec
-----------------------------------------------------------------------------

(* The sum of tasks_done reaches tasks_todo only when no task is queued,   *)
(* no worker has one, and every handler has run.                           *)
LEMMA AllDone ==
  ASSUME TypeOK, PlaceInv, CountInv, ppc \in InCall, Done = tasks_todo
  PROVE  /\ queue = << >>
         /\ \A w \in Workers : ~Busy(w)
         /\ \A t \in Tasks : runs[t] = 1
<1>1. Cardinality(Completions(N)) = N  BY DEF CountInv, Done
<1>2. BusyWorkers \in SUBSET Workers  BY DEF BusyWorkers
<1>3. Cardinality(BusyWorkers) \in Nat /\ IsFiniteSet(BusyWorkers)
  BY <1>2, WorkersFinite
<1>4. Len(queue) \in Nat  BY DEF TypeOK
<1>5. Cardinality(BusyWorkers) = 0 /\ Len(queue) = 0
  BY <1>1, <1>3, <1>4, NAssumption DEF CountInv
<1>6. BusyWorkers = {}  BY <1>3, <1>5, FS_EmptySet
<1>7. queue = << >>  BY <1>5 DEF TypeOK
<1>8. \A w \in Workers : ~Busy(w)  BY <1>6 DEF BusyWorkers
<1>9. Queued \cup Handling = {}
  BY <1>5, <1>8 DEF Queued, Handling, Busy
<1> QED  BY <1>7, <1>8, <1>9 DEF PlaceInv

(* The invariant about the life of the pool is preserved by every step.    *)
LEMMA LifeStep ==
  ASSUME TypeOK, LifeInv, QuietInv, PlaceInv, CountInv, [Next]_vars
  PROVE  LifeInv'
<1> USE NAssumption DEF TypeOK, LifeInv, InCall, PStates
<1>1. CASE Starting
  <2>1. CASE StartThread  BY <2>1 DEF StartThread, Workers
  <2>2. CASE StartDone  BY <2>2 DEF StartDone, Workers
  <2>3. CASE StartFail  BY <2>3 DEF StartFail
  <2> QED  BY <1>1, <2>1, <2>2, <2>3 DEF Starting
<1>2. CASE Calling
  <2>1. CASE Prepare \/ Unavailable  BY <2>1 DEF Prepare, Unavailable
  <2>2. CASE Submit  BY <2>2 DEF Submit, SignalWorker
  <2>3. CASE Check \/ Recheck
    <3>1. /\ ppc \in InCall
          /\ ppc' \in {"wait", "clear", "check"}
          /\ UNCHANGED <<created, numThreads, exitFlag, wpc>>
      BY <2>3 DEF Check, Recheck
    <3> QED  BY <3>1
  <2>4. CASE Clear \/ Return \/ SpuriousCaller
    BY <2>4 DEF Clear, Return, SpuriousCaller
  <2> QED  BY <1>2, <2>1, <2>2, <2>3, <2>4 DEF Calling
<1>3. CASE Stopping
  <2>1. CASE Stop  BY <2>1 DEF Stop
  <2>2. CASE StopNothing  BY <2>2 DEF StopNothing
  <2>3. CASE Joined  BY <2>3 DEF Joined
  <2> QED  BY <1>3, <2>1, <2>2, <2>3 DEF Stopping
<1>4. ASSUME NEW w \in Workers, Worker(w) \/ SpuriousWorker(w) PROVE LifeInv'
  <2>1. CASE Get(w) \/ Sleep(w) \/ Handle(w) \/ SpuriousWorker(w)
    <3>1. /\ UNCHANGED performer
          /\ wpc[w] \notin {"none", "exit"}
          /\ wpc' = [wpc EXCEPT ![w] = wpc'[w]]
          /\ wpc'[w] \notin {"none", "exit"}
      BY <2>1 DEF Get, Sleep, Handle, SpuriousWorker
    <3> QED  BY <3>1 DEF performer
  <2>2. CASE Exit(w)  BY <2>2 DEF Exit, performer
  <2>3. CASE Report(w)  BY <2>3 DEF Report
  <2> QED  BY <1>4, <2>1, <2>2, <2>3 DEF Worker
<1>5. CASE UNCHANGED vars  BY <1>5 DEF vars
<1> QED  BY <1>1, <1>2, <1>3, <1>4, <1>5 DEF Next

(* Without a pool no handler ever runs.                                    *)
LEMMA NoPoolStep ==
  ASSUME TypeOK, LifeInv, QuietInv, NoPoolInv, [Next]_vars
  PROVE  NoPoolInv'
<1> USE NAssumption DEF TypeOK, NoPoolInv
<1>1. CASE Starting
  BY <1>1 DEF Starting, StartThread, StartDone, StartFail
<1>2. CASE Prepare \/ Submit \/ Check \/ Recheck \/ Clear \/ SpuriousCaller
  BY <1>2 DEF Prepare, Submit, Check, Recheck, Clear, SpuriousCaller, LifeInv,
     InCall
<1>3. CASE Unavailable \/ Return
  BY <1>3 DEF Unavailable, Return
<1>4. CASE Stopping
  BY <1>4 DEF Stopping, Stop, StopNothing, Joined
<1>5. ASSUME NEW w \in Workers, Worker(w) \/ SpuriousWorker(w) PROVE NoPoolInv'
  <2>1. CASE Handle(w)
    <3>1. ppc \in InCall /\ ppc' = ppc
      BY <2>1 DEF Handle, QuietInv, Busy, performer
    <3> QED  BY <3>1 DEF InCall
  <2>2. CASE Get(w) \/ Sleep(w) \/ Exit(w) \/ SpuriousWorker(w)
    BY <2>2 DEF Get, Sleep, Exit, SpuriousWorker, performer
  <2>3. CASE Report(w)
    BY <2>3 DEF Report
  <2> QED  BY <1>5, <2>1, <2>2, <2>3 DEF Worker
<1>6. CASE UNCHANGED vars  BY <1>6 DEF vars
<1> QED  BY <1>1, <1>2, <1>3, <1>4, <1>5, <1>6 DEF Next, Calling

(* Outside the waiting loop nothing is queued and no worker is busy.       *)
LEMMA QuietStep ==
  ASSUME TypeOK, LifeInv, QuietInv, PlaceInv, CountInv, [Next]_vars
  PROVE  QuietInv'
<1> USE DEF TypeOK, QuietInv, InCall, Busy
<1>1. CASE Starting
  BY <1>1 DEF Starting, StartThread, StartDone, StartFail
<1>2. CASE Calling
  <2>1. CASE Prepare \/ Unavailable \/ Clear \/ Return
    BY <2>1 DEF Prepare, Unavailable, Clear, Return
  <2>2. CASE Submit  BY <2>2 DEF Submit
  <2>3. CASE (Check \/ Recheck) /\ ppc' = "clear"
    <3>1. ppc \in InCall /\ Done = tasks_todo /\ UNCHANGED <<queue, wpc>>
      BY <2>3 DEF Check, Recheck
    <3> QED  BY <3>1, AllDone
  <2>4. CASE (Check \/ Recheck) /\ ppc' # "clear"
    BY <2>4 DEF Check, Recheck
  <2>5. CASE SpuriousCaller  BY <2>5 DEF SpuriousCaller
  <2> QED  BY <1>2, <2>1, <2>2, <2>3, <2>4, <2>5 DEF Calling
<1>3. CASE Stopping
  BY <1>3 DEF Stopping, Stop, StopNothing, Joined
<1>4. ASSUME NEW w \in Workers, Worker(w) \/ SpuriousWorker(w) PROVE QuietInv'
  <2>1. CASE Get(w)  BY <2>1 DEF Get, performer
  <2>2. CASE Sleep(w) \/ Exit(w) \/ SpuriousWorker(w)
    BY <2>2 DEF Sleep, Exit, SpuriousWorker, performer
  <2>3. CASE Handle(w)  BY <2>3 DEF Handle, performer
  <2>4. CASE Report(w)  BY <2>4 DEF Report
  <2> QED  BY <1>4, <2>1, <2>2, <2>3, <2>4 DEF Worker
<1>5. CASE UNCHANGED vars  BY <1>5 DEF vars
<1> QED  BY <1>1, <1>2, <1>3, <1>4, <1>5 DEF Next

(* A task stays in one place: the queue, one worker, or among those run.   *)
LEMMA PlaceStep ==
  ASSUME TypeOK, LifeInv, QuietInv, PlaceInv, CountInv, [Next]_vars
  PROVE  PlaceInv'
<1> USE NAssumption DEF TypeOK
<1>1. CASE Starting
  BY <1>1 DEF Starting, StartThread, StartDone, StartFail, PlaceInv, LifeInv,
     QuietInv, InCall, Queued, Busy
<1>2. CASE Prepare \/ Unavailable
  BY <1>2 DEF Prepare, Unavailable, PlaceInv, QuietInv, InCall, Queued, Busy
<1>3. CASE Submit
  <2>1. queue = << >> /\ \A w \in Workers : ~Busy(w)
    BY <1>3 DEF Submit, QuietInv, InCall
  <2>2. \A w \in Workers : ~Busy(w)'
    BY <1>3, <2>1 DEF Submit, SignalWorker, Busy
  <2>3. Len(queue') = N /\ \A i \in 1 .. N : queue'[i] = i - 1
    BY <1>3, <2>1 DEF Submit, LifeInv
  <2>4. Queued' = Tasks
    <3>1. \A i \in 1 .. N : queue'[i] \in Tasks  BY <2>3 DEF Tasks
    <3>2. \A t \in Tasks : t + 1 \in 1 .. N /\ queue'[t + 1] = t
      BY <2>3 DEF Tasks
    <3> QED  BY <2>3, <3>1, <3>2 DEF Queued
  <2>5. ppc' \in InCall /\ \A t \in Tasks : runs'[t] = 0 /\ args'[t] = call'
    BY <1>3 DEF Submit, PlaceInv, InCall
  <2>6. \A i, j \in 1 .. Len(queue') : i # j => queue'[i] # queue'[j]
    BY <2>3
  <2> QED  BY <2>2, <2>4, <2>5, <2>6 DEF PlaceInv, InCall
<1>4. CASE Check \/ Recheck
  <2>1. /\ UNCHANGED <<queue, wpc, held, runs, args, call, numThreads>>
        /\ ppc \in InCall
        /\ ppc' \in InCall \cup {"clear"}
        /\ ppc' = "clear" => Done = tasks_todo
    BY <1>4 DEF Check, Recheck, InCall
  <2>2. ppc' = "clear" => \A t \in Tasks : runs[t] = 1
    BY <2>1, AllDone
  <2> QED  BY <2>1, <2>2 DEF PlaceInv, InCall, Queued, Handling, Busy
<1>5. CASE Clear \/ Return \/ SpuriousCaller
  <2>1. CASE Clear  BY <2>1 DEF Clear, PlaceInv, InCall, Queued, Busy
  <2>2. CASE Return  BY <2>2 DEF Return, PlaceInv, InCall, Queued, Busy
  <2>3. CASE SpuriousCaller
    BY <2>3 DEF SpuriousCaller, PlaceInv, InCall, Queued, Handling, Busy
  <2> QED  BY <1>5, <2>1, <2>2, <2>3
<1>6. CASE Stopping
  BY <1>6 DEF Stopping, Stop, StopNothing, Joined, PlaceInv, QuietInv, InCall,
     Queued, Busy
<1>7. ASSUME NEW w \in Workers, Get(w) PROVE PlaceInv'
  <2>1. /\ ppc \in InCall
        /\ UNCHANGED <<ppc, runs, args, call, numThreads>>
    BY <1>7 DEF Get, QuietInv, performer
  <2>2. /\ Head(queue) = queue[1]
        /\ Len(queue') = Len(queue) - 1
        /\ Len(queue) \in Nat \ {0}
        /\ \A i \in 1 .. Len(queue) - 1 : queue'[i] = queue[i + 1]
    BY <1>7 DEF Get
  <2>3. Queued = Queued' \cup {Head(queue)} /\ Head(queue) \notin Queued'
    <3>1. \A i \in 1 .. Len(queue) :
            i = 1 \/ (i - 1 \in 1 .. Len(queue') /\ queue[i] = queue'[i - 1])
      BY <2>2
    <3>2. \A i \in 1 .. Len(queue') : i + 1 \in 1 .. Len(queue) /\ i + 1 # 1
      BY <2>2
    <3>3. 1 \in 1 .. Len(queue)  BY <2>2
    <3>4. \A i \in 1 .. Len(queue') : queue'[i] = queue[i + 1]  BY <2>2
    <3>5. \A i \in 1 .. Len(queue') : queue'[i] # Head(queue)
      BY <2>2, <3>2, <3>3, <3>4 DEF PlaceInv
    <3>6. Queued \subseteq Queued' \cup {Head(queue)}
      <4> SUFFICES ASSUME NEW i \in 1 .. Len(queue)
                   PROVE  queue[i] \in Queued' \cup {Head(queue)}
        BY DEF Queued
      <4>1. CASE i = 1  BY <4>1, <2>2
      <4>2. CASE i # 1
        <5>1. i - 1 \in 1 .. Len(queue') /\ queue[i] = queue'[i - 1]
          BY <4>2, <3>1
        <5> QED  BY <5>1 DEF Queued
      <4> QED  BY <4>1, <4>2
    <3>7. Queued' \cup {Head(queue)} \subseteq Queued
      <4>1. Queued' \subseteq Queued
        BY <2>2, <3>2, <3>3, <3>4 DEF Queued
      <4>2. Head(queue) \in Queued
        BY <2>2, <3>2, <3>3, <3>4 DEF Queued
      <4> QED  BY <4>1, <4>2
    <3>8. Head(queue) \notin Queued'  BY <3>5 DEF Queued
    <3> QED  BY <3>6, <3>7, <3>8
  <2>4. \A v \in Workers :
          /\ Busy(v)' <=> Busy(v) \/ v = w
          /\ held'[v] = IF v = w THEN Head(queue) ELSE held[v]
          /\ (wpc'[v] = "got") <=> (wpc[v] = "got" \/ v = w)
    BY <1>7 DEF Get, Busy
  <2>5. ~Busy(w)  BY <1>7 DEF Get, Busy
  <2>6. Handling' = Handling \cup {Head(queue)}
    BY <2>4, <2>5 DEF Handling, Busy
  <2>7. \A i, j \in 1 .. Len(queue') : i # j => queue'[i] # queue'[j]
    <3> SUFFICES ASSUME NEW i \in 1 .. Len(queue'), NEW j \in 1 .. Len(queue'),
                        i # j
                 PROVE  queue'[i] # queue'[j]
      OBVIOUS
    <3>1. i + 1 \in 1 .. Len(queue) /\ j + 1 \in 1 .. Len(queue) /\ i + 1 # j + 1
      BY <2>2
    <3>2. queue[i + 1] # queue[j + 1]  BY <3>1 DEF PlaceInv
    <3>3. queue'[i] = queue[i + 1] /\ queue'[j] = queue[j + 1]  BY <2>2
    <3> QED  BY <3>2, <3>3
  <2>8. \A u, v \in Workers :
          u # v /\ Busy(u)' /\ Busy(v)' => held'[u] # held'[v]
    BY <2>3, <2>4 DEF PlaceInv
  <2>9. \A v \in Workers : Busy(v)' => held'[v] \notin Queued'
    BY <2>3, <2>4 DEF PlaceInv
  <2>10. \A t \in Tasks : runs[t] = IF t \in Queued' \cup Handling' THEN 0 ELSE 1
    BY <2>1, <2>3, <2>6 DEF PlaceInv
  <2> QED  BY <2>1, <2>7, <2>8, <2>9, <2>10 DEF PlaceInv, InCall
<1>8. ASSUME NEW w \in Workers, Sleep(w) \/ Exit(w) \/ SpuriousWorker(w)
      PROVE PlaceInv'
  <2>1. /\ UNCHANGED <<ppc, queue, held, runs, args, call, numThreads>>
        /\ \A v \in Workers : Busy(v)' = Busy(v)
        /\ \A v \in Workers : (wpc'[v] = "got") = (wpc[v] = "got")
    BY <1>8 DEF Sleep, Exit, SpuriousWorker, performer, Busy
  <2>2. Queued' = Queued /\ Handling' = Handling
    BY <2>1 DEF Queued, Handling
  <2> QED  BY <2>1, <2>2 DEF PlaceInv, InCall
<1>9. ASSUME NEW w \in Workers, Handle(w) PROVE PlaceInv'
  <2>1. /\ UNCHANGED <<ppc, queue, held, args, call, numThreads>>
        /\ ppc \in InCall
        /\ \A v \in Workers : Busy(v)' = Busy(v)
        /\ \A v \in Workers : (wpc'[v] = "got") <=> (wpc[v] = "got" /\ v # w)
        /\ \A t \in Tasks : runs'[t] = IF t = held[w] THEN runs[t] + 1 ELSE runs[t]
    BY <1>9 DEF Handle, performer, Busy, QuietInv
  <2>2. Queued' = Queued  BY <2>1 DEF Queued
  <2>3. /\ Handling = Handling' \cup {held[w]}
        /\ held[w] \notin Handling' \cup Queued
    BY <1>9, <2>1 DEF Handle, Handling, PlaceInv, Busy
  <2>4. runs[held[w]] = 0  BY <2>1, <2>3 DEF PlaceInv
  <2>5. \A t \in Tasks :
          runs'[t] = IF t \in Queued' \cup Handling' THEN 0 ELSE 1
    BY <2>1, <2>2, <2>3, <2>4 DEF PlaceInv
  <2>6. \A t \in Tasks : runs'[t] <= 1
    <3>1. \A t \in Tasks : runs[t] \in Nat /\ runs[t] <= 1  BY DEF PlaceInv
    <3> SUFFICES ASSUME NEW t \in Tasks PROVE runs'[t] <= 1  OBVIOUS
    <3>2. CASE t = held[w]
      <4>1. runs'[t] = runs[t] + 1 /\ runs[t] = 0  BY <3>2, <2>1, <2>4
      <4> QED  BY <4>1
    <3>3. CASE t # held[w]
      <4>1. runs'[t] = runs[t]  BY <3>3, <2>1
      <4> QED  BY <4>1, <3>1
    <3> QED  BY <3>2, <3>3
  <2> QED  BY <2>1, <2>2, <2>5, <2>6 DEF PlaceInv, InCall
<1>10. ASSUME NEW w \in Workers, Report(w) PROVE PlaceInv'
  <2>1. /\ UNCHANGED <<queue, held, runs, args, call, numThreads>>
        /\ ppc \in InCall /\ ppc' \in InCall
        /\ \A v \in Workers : Busy(v)' => Busy(v)
        /\ \A v \in Workers : (wpc'[v] = "got") <=> (wpc[v] = "got")
    BY <1>10 DEF Report, Busy, QuietInv, InCall
  <2>2. Queued' = Queued /\ Handling' = Handling
    BY <2>1 DEF Queued, Handling
  <2> QED  BY <2>1, <2>2 DEF PlaceInv, InCall
<1>11. CASE UNCHANGED vars
  BY <1>11 DEF vars, PlaceInv, InCall, Queued, Handling, Busy
<1> QED
  BY <1>1, <1>2, <1>3, <1>4, <1>5, <1>6, <1>7, <1>8, <1>9, <1>10, <1>11
  DEF Next, Calling, Worker

(* The completions counted are finitely many.                              *)
LEMMA DoneIsNat ==
  ASSUME IsFiniteSet(Completions(N)), tasks_todo = N
  PROVE  Done \in Nat /\ Cardinality(Completions(N)) = Done
BY FS_CardinalityType DEF Done

(* Every step keeps the account of queued, busy and counted tasks.         *)
LEMMA CountStep ==
  ASSUME TypeOK, LifeInv, QuietInv, PlaceInv, CountInv, [Next]_vars
  PROVE  CountInv'
<1> USE NAssumption DEF TypeOK
<1>1. ASSUME ppc' \in InCall => ppc \in InCall,
             UNCHANGED <<queue, tasks_done, tasks_todo>>,
             \A w \in Workers : Busy(w)' <=> Busy(w)
      PROVE  CountInv'
  <2>1. BusyWorkers' = BusyWorkers  BY <1>1 DEF BusyWorkers
  <2>2. Completions(N)' = Completions(N)  BY <1>1 DEF Completions
  <2> QED  BY <1>1, <2>1, <2>2 DEF CountInv, InCall
<1>2. CASE Starting
  <2>1. ppc' \notin InCall
    BY <1>2 DEF Starting, StartThread, StartDone, StartFail, InCall
  <2> QED  BY <2>1 DEF CountInv, InCall
<1>3. CASE Prepare \/ Unavailable \/ Clear \/ Return \/ Stopping
  <2>1. ppc' \notin InCall
    BY <1>3 DEF Prepare, Unavailable, Clear, Return, Stopping, Stop,
       StopNothing, Joined, InCall
  <2> QED  BY <2>1 DEF CountInv, InCall
<1>4. CASE Submit
  <2>1. queue = << >> /\ \A w \in Workers : ~Busy(w)
    BY <1>4 DEF Submit, QuietInv, InCall
  <2>2. \A w \in Workers : ~Busy(w)'
    BY <1>4, <2>1 DEF Submit, SignalWorker, Busy
  <2>3. Len(queue') = N  BY <1>4, <2>1 DEF Submit, LifeInv
  <2>4. BusyWorkers' = {}  BY <2>2 DEF BusyWorkers
  <2>5. \A w \in Workers : tasks_done'[w] = 0  BY <1>4 DEF Submit
  <2>6. Completions(N)' = {}
    <3>1. \A w \in Workers : 1 .. tasks_done'[w] = {}  BY <2>5
    <3> QED  BY <3>1 DEF Completions
  <2>7. tasks_todo' = N  BY <1>4 DEF Submit, LifeInv
  <2>8. IsFiniteSet({}) /\ Cardinality({}) = 0  BY FS_EmptySet
  <2> QED  BY <2>3, <2>4, <2>6, <2>7, <2>8 DEF CountInv
<1>5. CASE Check \/ Recheck \/ SpuriousCaller
  <2>1. ppc \in InCall
    BY <1>5 DEF Check, Recheck, SpuriousCaller, InCall
  <2>2. UNCHANGED <<queue, tasks_done, tasks_todo, wpc>>
    BY <1>5 DEF Check, Recheck, SpuriousCaller
  <2> QED  BY <1>1, <2>1, <2>2 DEF Busy
<1>6. ASSUME NEW w \in Workers, Get(w) PROVE CountInv'
  <2>1. ppc \in InCall  BY <1>6 DEF Get, QuietInv
  <2>2. Len(queue') = Len(queue) - 1 /\ Len(queue) \in Nat
    BY <1>6 DEF Get
  <2>3. /\ \A v \in Workers : Busy(v)' <=> Busy(v) \/ v = w
        /\ ~Busy(w)
        /\ UNCHANGED <<tasks_done, tasks_todo>>
    BY <1>6 DEF Get, Busy, performer
  <2>4. BusyWorkers' = BusyWorkers \cup {w} /\ w \notin BusyWorkers
    BY <2>3 DEF BusyWorkers
  <2>5. IsFiniteSet(BusyWorkers) /\ Cardinality(BusyWorkers) \in Nat
    BY WorkersFinite DEF BusyWorkers
  <2>6. Cardinality(BusyWorkers') = Cardinality(BusyWorkers) + 1
    BY <2>4, <2>5, FS_AddElement
  <2>7. Completions(N)' = Completions(N)  BY <2>3 DEF Completions
  <2>8. /\ tasks_todo = N
        /\ IsFiniteSet(Completions(N))
        /\ Cardinality(Completions(N)) + Cardinality(BusyWorkers) + Len(queue) = N
    BY <2>1 DEF CountInv
  <2>9. Cardinality(Completions(N)) \in Nat  BY <2>8, FS_CardinalityType
  <2>10. Cardinality(Completions(N)) + Cardinality(BusyWorkers') + Len(queue') = N
    BY <2>2, <2>5, <2>6, <2>8, <2>9
  <2> QED  BY <2>3, <2>7, <2>8, <2>10 DEF CountInv
<1>7. ASSUME NEW w \in Workers,
             Sleep(w) \/ Exit(w) \/ Handle(w) \/ SpuriousWorker(w)
      PROVE  CountInv'
  <2>1. /\ UNCHANGED <<ppc, queue, tasks_done, tasks_todo>>
        /\ \A v \in Workers : Busy(v)' <=> Busy(v)
    BY <1>7 DEF Sleep, Exit, Handle, SpuriousWorker, performer, Busy
  <2> QED  BY <1>1, <2>1
<1>8. ASSUME NEW w \in Workers, Report(w) PROVE CountInv'
  <2>1. ppc \in InCall  BY <1>8 DEF Report, QuietInv, Busy
  <2>2. /\ tasks_todo = N
        /\ IsFiniteSet(Completions(N))
        /\ Cardinality(Completions(N)) + Cardinality(BusyWorkers) + Len(queue) = N
    BY <2>1 DEF CountInv
  <2>3. /\ \A v \in Workers : Busy(v)' <=> Busy(v) /\ v # w
        /\ Busy(w)
        /\ UNCHANGED <<queue, tasks_todo>>
    BY <1>8 DEF Report, Busy
  <2>4. BusyWorkers' = BusyWorkers \ {w} /\ w \in BusyWorkers
    BY <2>3 DEF BusyWorkers
  <2>5. IsFiniteSet(BusyWorkers) /\ Cardinality(BusyWorkers) \in Nat
    BY WorkersFinite DEF BusyWorkers
  <2>6. Cardinality(BusyWorkers') = Cardinality(BusyWorkers) - 1
    BY <2>4, <2>5, FS_RemoveElement
  <2> DEFINE new == <<w, tasks_done[w] + 1>>
  <2>7. Completions(N)' = Completions(N) \cup {new} /\ new \notin Completions(N)
    <3>1. \A v \in Workers :
            tasks_done'[v] = IF v = w THEN tasks_done[w] + 1 ELSE tasks_done[v]
      BY <1>8 DEF Report
    <3>2. {v \in Workers : v < N} = Workers  BY DEF Workers
    <3>3. \A v \in Workers :
            {v} \X (1 .. tasks_done'[v]) =
              IF v = w THEN ({v} \X (1 .. tasks_done[v])) \cup {new}
                       ELSE {v} \X (1 .. tasks_done[v])
      <4> SUFFICES ASSUME NEW v \in Workers
                   PROVE {v} \X (1 .. tasks_done'[v]) =
                           IF v = w THEN ({v} \X (1 .. tasks_done[v])) \cup {new}
                                    ELSE {v} \X (1 .. tasks_done[v])
        OBVIOUS
      <4>1. CASE v # w  BY <4>1, <3>1
      <4>2. CASE v = w
        <5>1. 1 .. tasks_done'[v] = (1 .. tasks_done[v]) \cup {tasks_done[v] + 1}
          BY <4>2, <3>1
        <5> QED  BY <4>2, <5>1
      <4> QED  BY <4>1, <4>2
    <3>4. new \notin {w} \X (1 .. tasks_done[w])  OBVIOUS
    <3>5. new \notin Completions(N)  BY <3>4 DEF Completions
    <3>6. Completions(N)' = Completions(N) \cup {new}
      BY <3>2, <3>3 DEF Completions
    <3> QED  BY <3>5, <3>6
  <2>8. /\ IsFiniteSet(Completions(N)')
        /\ Cardinality(Completions(N)') = Cardinality(Completions(N)) + 1
    <3> HIDE DEF new
    <3>1. /\ IsFiniteSet(Completions(N) \cup {new})
          /\ Cardinality(Completions(N) \cup {new}) =
               IF new \in Completions(N) THEN Cardinality(Completions(N))
               ELSE Cardinality(Completions(N)) + 1
      BY <2>2, FS_AddElement
    <3> QED  BY <2>7, <3>1
  <2>9. Cardinality(Completions(N)) \in Nat /\ Len(queue) \in Nat
    BY <2>2, FS_CardinalityType
  <2>10. Cardinality(Completions(N)') + Cardinality(BusyWorkers') + Len(queue') = N
    BY <2>2, <2>3, <2>5, <2>6, <2>8, <2>9
  <2> QED  BY <2>2, <2>3, <2>8, <2>10 DEF CountInv
<1>9. CASE UNCHANGED vars
  BY <1>1, <1>9 DEF vars, Busy
<1> QED
  BY <1>2, <1>3, <1>4, <1>5, <1>6, <1>7, <1>8, <1>9 DEF Next, Calling, Worker

(* No step loses a wakeup.                                                 *)
LEMMA WakeStep ==
  ASSUME IInv, [Next]_vars
  PROVE  NoLostWakeup'
<1> DEFINE Awake(w) == wpc[w] \in {"top", "got", "report"}
<1>a. TypeOK /\ LifeInv /\ QuietInv /\ PlaceInv /\ CountInv /\ NoLostWakeup
  BY DEF IInv
<1>1. ASSUME queue' # << >> => queue # << >>,
             \A w \in Workers : Awake(w) => Awake(w)',
             ppc' # "wait"
      PROVE  NoLostWakeup'
  BY <1>a, <1>1 DEF NoLostWakeup
<1>2. CASE Starting
  BY <1>a, <1>2 DEF Starting, StartThread, StartDone, StartFail, NoLostWakeup,
     QuietInv, InCall
<1>3. CASE Prepare \/ Unavailable \/ Clear \/ Return \/ Stopping
  <2>1. queue' = << >> /\ ppc' # "wait"
    BY <1>a, <1>3 DEF Prepare, Unavailable, Clear, Return, Stopping, Stop,
       StopNothing, Joined, QuietInv, InCall
  <2> QED  BY <2>1 DEF NoLostWakeup
<1>4. CASE Submit
  <2>1. \A w \in Workers : wpc[w] \in {"top", "wait"}
    BY <1>a, <1>4 DEF Submit, TypeOK, WStates, LifeInv, QuietInv, InCall, Busy
  <2>2. 0 \in Workers  BY NAssumption DEF Workers
  <2>3. \E w \in Workers : wpc'[w] = "top"
    BY <1>a, <1>4, <2>1, <2>2 DEF Submit, SignalWorker, TypeOK
  <2>4. ppc' # "wait"  BY <1>4 DEF Submit
  <2> QED  BY <2>3, <2>4 DEF NoLostWakeup
<1>5. CASE Check \/ Recheck
  <2>1. /\ UNCHANGED <<queue, wpc, tasks_done, tasks_todo>>
        /\ ppc' = "wait" => Done < tasks_todo
    BY <1>5 DEF Check, Recheck
  <2>2. Done' = Done  BY <2>1 DEF Done, Completions
  <2> QED  BY <1>a, <2>1, <2>2 DEF NoLostWakeup
<1>6. CASE SpuriousCaller
  BY <1>a, <1>1, <1>6 DEF SpuriousCaller
<1>7. ASSUME NEW w \in Workers, Get(w) \/ Sleep(w) \/ Exit(w) \/ Handle(w)
                                \/ SpuriousWorker(w)
      PROVE  NoLostWakeup'
  <2>1. UNCHANGED <<ppc, tasks_done, tasks_todo>>
    BY <1>7 DEF Get, Sleep, Exit, Handle, SpuriousWorker, performer
  <2>2. Done' = Done  BY <2>1 DEF Done, Completions
  <2>3. queue' # << >> => \E v \in Workers : Awake(v)'
    <3>1. CASE Get(w)  BY <1>a, <3>1 DEF Get, TypeOK
    <3>2. CASE Sleep(w) \/ Exit(w)  BY <3>2 DEF Sleep, Exit
    <3>3. CASE Handle(w)  BY <1>a, <3>3 DEF Handle, TypeOK
    <3>4. CASE SpuriousWorker(w)  BY <1>a, <3>4 DEF SpuriousWorker, TypeOK
    <3> QED  BY <1>7, <3>1, <3>2, <3>3, <3>4
  <2> QED  BY <1>a, <2>1, <2>2, <2>3 DEF NoLostWakeup
<1>8. ASSUME NEW w \in Workers, Report(w) PROVE NoLostWakeup'
  <2>1. ppc' # "wait" /\ wpc'[w] = "top"
    BY <1>a, <1>8 DEF Report, TypeOK
  <2> QED  BY <2>1 DEF NoLostWakeup
<1>9. CASE UNCHANGED vars
  <2>1. Done' = Done  BY <1>9 DEF vars, Done, Completions
  <2> QED  BY <1>a, <1>9, <2>1 DEF vars, NoLostWakeup
<1> QED
  BY <1>2, <1>3, <1>4, <1>5, <1>6, <1>7, <1>8, <1>9 DEF Next, Calling, Worker
-----------------------------------------------------------------------------
(* The inductive invariant holds initially.                                *)
LEMMA InvariantInit == Init => IInv
<1> SUFFICES ASSUME Init PROVE IInv  OBVIOUS
<1>1. TypeOK  BY TypingInit
<1>2. LifeInv  BY NAssumption DEF Init, LifeInv, InCall, Workers
<1>3. QuietInv /\ NoPoolInv /\ CountInv /\ NoLostWakeup
  BY DEF Init, QuietInv, NoPoolInv, CountInv, NoLostWakeup, InCall, Busy
<1>4. PlaceInv
  BY NAssumption DEF Init, PlaceInv, InCall, Busy
<1> QED  BY <1>1, <1>2, <1>3, <1>4 DEF IInv

(* The invariant about the place of every task, the account of the         *)
(* completions and the wakeups holds in every reachable state.             *)
THEOREM Invariant == Spec => []IInv
<1>1. IInv /\ [Next]_vars => IInv'
  BY TypingNext, LifeStep, QuietStep, NoPoolStep, PlaceStep, CountStep, WakeStep DEF IInv
<1> QED  BY InvariantInit, <1>1, PTL DEF Spec

(* vj_task_run on a pool returns only after every handler has run once and *)
(* no worker has a task any more.                                          *)
THEOREM WaitsForAll == Spec => []RunWaitsForAll
<1>1. IInv => RunWaitsForAll
  BY DEF IInv, PlaceInv, QuietInv, InCall, RunWaitsForAll
<1> QED  BY <1>1, Invariant, PTL

(* No slice is handled by two workers or twice in a call, and no worker's  *)
(* arguments change under it.                                              *)
THEOREM SlicesSafe == Spec => [](NoSliceTwice /\ ArgsStable)
<1>1. IInv => NoSliceTwice
  BY DEF IInv, PlaceInv, NoSliceTwice
<1>2. IInv => ArgsStable
  BY DEF IInv, TypeOK, PlaceInv, QuietInv, ArgsStable, Busy
<1> QED  BY <1>1, <1>2, Invariant, PTL

(* Queued tasks never lie with all workers asleep, although a call signals *)
(* the pool only once, and the caller never sleeps on finished work.       *)
THEOREM WakeupsKept == Spec => []NoLostWakeup
<1>1. IInv => NoLostWakeup  BY DEF IInv
<1> QED  BY <1>1, Invariant, PTL

(* The slices of n workers that take k bytes each follow one another.      *)
LEMMA SliceOf ==
  ASSUME NEW n \in Nat, NEW k \in Nat, NEW b \in 0 .. n * k - 1
  PROVE  \E t \in 0 .. n - 1 : t * k <= b /\ b < (t + 1) * k
<1> DEFINE t == b \div k
<1>1. b \in Nat /\ n * k \in Nat /\ b < n * k
  OBVIOUS
<1>2. k # 0
  BY <1>1
<1>3. t \in Nat /\ t * k <= b /\ b < (t + 1) * k
  BY <1>1, <1>2
<1> HIDE DEF t
<1>4. t < n
  <2>1. n <= t => n * k <= t * k
    BY <1>3
  <2>2. n * k \in Nat /\ t * k \in Nat
    BY <1>3
  <2> QED BY <1>1, <1>3, <2>1, <2>2
<1>5. t \in 0 .. n - 1
  BY <1>3, <1>4
<1> QED BY <1>3, <1>5

(* Together they are the plane without what the division leaves over.      *)
LEMMA SlicesMeet ==
  UNION {Slice(t) : t \in Tasks} = 0 .. N * (PlaneLen \div N) - 1
<1> DEFINE k == PlaneLen \div N
<1>1. N \in Nat /\ k \in Nat /\ PlaneLen \in Nat /\ N * k <= PlaneLen /\ N * k \in Nat
  BY NAssumption, PlaneAssumption
<1>2. \A t \in Tasks : Slice(t) = {b \in 0 .. PlaneLen - 1 : b >= t * k /\ b < (t + 1) * k}
  BY DEF Slice
<1> HIDE DEF k
<1>3. ASSUME NEW t \in Tasks, NEW b \in Slice(t)
      PROVE  b \in 0 .. N * k - 1
  <2>1. (t + 1) * k <= N * k /\ (t + 1) * k \in Nat
    BY <1>1 DEF Tasks
  <2>2. b \in 0 .. PlaneLen - 1 /\ b < (t + 1) * k
    BY <1>2
  <2> QED BY <1>1, <2>1, <2>2
<1>4. ASSUME NEW b \in 0 .. N * k - 1
      PROVE  \E t \in Tasks : b \in Slice(t)
  <2>1. PICK t \in 0 .. N - 1 : t * k <= b /\ b < (t + 1) * k
    BY <1>1, SliceOf
  <2>2. b \in 0 .. PlaneLen - 1 /\ b >= t * k
    BY <1>1, <2>1
  <2> QED BY <1>2, <2>1, <2>2 DEF Tasks
<1> QED BY <1>3, <1>4 DEF k

(* PlaneProcessed: a call on a pool works on every byte of a plane but the *)
(* PlaneLen % N last ones, whatever the length of the plane.               *)
THEOREM WhatACallCopies == Spec => []PlaneProcessed
<1>1. N * (PlaneLen \div N) = PlaneLen - (PlaneLen % N)
  BY NAssumption, PlaneAssumption
<1>2. ASSUME IInv, ppc = "return", numThreads = N
      PROVE  Worked = 0 .. PlaneLen - (PlaneLen % N) - 1
  <2>1. {u \in Tasks : runs[u] > 0} = Tasks
    BY <1>2 DEF IInv, PlaceInv
  <2> QED BY <1>1, <2>1, SlicesMeet DEF Worked
<1>3. IInv => PlaneProcessed
  BY <1>2 DEF PlaneProcessed
<1> QED BY <1>3, Invariant, PTL

(* Once task_stop has stopped the pool, no worker is alive.                *)
THEOREM Joining == Spec => []StoppedMeansJoined
<1>1. IInv => StoppedMeansJoined
  BY DEF IInv, LifeInv, StoppedMeansJoined
<1> QED  BY <1>1, Invariant, PTL

(* The pool implements ForkJoin: every call runs every task exactly once   *)
(* between its begin and its return.                                       *)
THEOREM Refinement == Spec => Implements
<1>1. Init => FJ!Init
  BY DEF Init, FJ!Init, phase, InCall
<1>2. IInv /\ [Next]_vars => [FJ!Next]_<<phase, runs>>
  <2> SUFFICES ASSUME IInv, [Next]_vars PROVE [FJ!Next]_<<phase, runs>>
    OBVIOUS
  <2>a. TypeOK /\ LifeInv /\ QuietInv /\ NoPoolInv /\ PlaceInv /\ CountInv
    BY DEF IInv
  <2> USE DEF phase, InCall
  <2>1. CASE Starting
    BY <2>1 DEF Starting, StartThread, StartDone, StartFail
  <2>2. CASE Prepare  BY <2>2 DEF Prepare, FJ!Next, FJ!Fork
  <2>3. CASE Unavailable
    <3>1. numThreads = 0
      BY <2>a, <2>3, NAssumption DEF Unavailable, TypeOK
    <3>2. \A t \in Tasks : runs[t] = 0
      BY <2>a, <2>3, <3>1 DEF Unavailable, NoPoolInv
    <3>3. runs' = runs
      BY <2>a, <2>3, <3>2 DEF Unavailable, TypeOK
    <3> QED  BY <2>3, <3>3 DEF Unavailable
  <2>4. CASE Submit \/ Check \/ Recheck \/ Return \/ SpuriousCaller
    <3>1. UNCHANGED runs
      BY <2>4 DEF Submit, Check, Recheck, Return, SpuriousCaller
    <3>2. CASE Submit  BY <3>1, <3>2 DEF Submit
    <3>3. CASE Check  BY <3>1, <3>3 DEF Check
    <3>4. CASE Recheck  BY <3>1, <3>4 DEF Recheck
    <3>5. CASE Return  BY <3>1, <3>5 DEF Return
    <3>6. CASE SpuriousCaller  BY <3>1, <3>6 DEF SpuriousCaller
    <3> QED  BY <2>4, <3>2, <3>3, <3>4, <3>5, <3>6
  <2>5. CASE Clear
    <3>1. \A t \in Tasks : runs[t] = 1
      BY <2>a, <2>5 DEF Clear, LifeInv, PlaceInv
    <3> QED  BY <2>5, <3>1 DEF Clear, FJ!Next, FJ!Join
  <2>6. CASE Stop  BY <2>6 DEF Stop, FJ!Next, FJ!Close
  <2>7. CASE StopNothing
    BY <2>7 DEF StopNothing, FJ!Next, FJ!Close
  <2>8. CASE Joined  BY <2>8 DEF Joined
  <2>9. ASSUME NEW w \in Workers,
               Get(w) \/ Sleep(w) \/ Exit(w) \/ SpuriousWorker(w)
        PROVE  UNCHANGED <<phase, runs>>
    BY <2>9 DEF Get, Sleep, Exit, SpuriousWorker, performer
  <2>10. ASSUME NEW w \in Workers, Handle(w) PROVE FJ!Next
    <3>1. ppc \in InCall /\ ppc' = ppc
      BY <2>a, <2>10 DEF Handle, QuietInv, Busy, performer
    <3>2. held[w] \in Tasks  BY <2>a DEF TypeOK
    <3>3. runs[held[w]] = 0
      BY <2>a, <2>10, <3>1, <3>2 DEF Handle, PlaceInv, Handling
    <3>4. runs' = [runs EXCEPT ![held[w]] = 1]
      BY <2>a, <2>10, <3>2, <3>3 DEF Handle, TypeOK
    <3>5. FJ!RunTask(held[w])
      BY <3>1, <3>3, <3>4 DEF FJ!RunTask
    <3> QED  BY <3>2, <3>5 DEF FJ!Next
  <2>11. ASSUME NEW w \in Workers, Report(w) PROVE UNCHANGED <<phase, runs>>
    <3>1. ppc \in InCall
      BY <2>a, <2>11 DEF Report, QuietInv, Busy
    <3> QED  BY <2>11, <3>1 DEF Report
  <2>12. CASE UNCHANGED vars  BY <2>12 DEF vars
  <2> QED
    BY <2>1, <2>2, <2>3, <2>4, <2>5, <2>6, <2>7, <2>8, <2>9, <2>10, <2>11, <2>12
    DEF Next, Calling, Stopping, Worker
<1> QED  BY <1>1, <1>2, Invariant, PTL DEF Spec, Implements, FJ!Spec
=============================================================================
