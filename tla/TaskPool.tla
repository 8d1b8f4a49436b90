------------------------------ MODULE TaskPool ------------------------------
(***************************************************************************)
(* The worker pool of veejay/vj-task.c, on which libvjmem/memcpy.c copies  *)
(* and clears frames: vj_task_run cuts a plane into one slice per worker,  *)
(* queues one task per slice, and waits until every task is done.          *)
(*                                                                         *)
(* A critical section of queue_mutex is one action, and pthread_cond_wait  *)
(* splits it: a thread that waits is in state "wait", and a signal moves   *)
(* it back to the state in which it competes for the mutex.  The handler   *)
(* runs outside the mutex, between "got" and "report".                     *)
(***************************************************************************)
EXTENDS Naturals, Sequences, FiniteSets

CONSTANTS
  N,             \* workers the pool is started with (max_workers)
  MaxCalls,      \* bound: calls of vj_task_run
  PlaneLen,      \* bytes of the plane that a call divides
  StartMayFail   \* whether pthread_create may fail

ASSUME NAssumption == N \in Nat /\ N >= 2
ASSUME CallsAssumption == MaxCalls \in Nat
ASSUME PlaneAssumption == PlaneLen \in Nat
ASSUME FailAssumption == StartMayFail \in BOOLEAN

Workers == 0 .. N - 1
Tasks == 0 .. N - 1     \* as many as workers: performer_job(task_get_workers())

VARIABLES
  ppc,         \* control state of the thread that starts, uses, stops the pool
  created,     \* threads task_start has created
  numThreads,  \* as in the code: N once task_start succeeded, 0 otherwise
  exitFlag,
  wpc,         \* control state of each worker
  held,        \* the task a worker took off the queue
  queue,       \* the list tasks_ .. tail_task_; total_tasks is its length
  args,        \* the call whose arguments are in vj_task_args[t], 0: zeroed
  tasks_done,  \* counted per worker id, as in the code
  tasks_todo,
  call,        \* number of the current call of vj_task_run
  runs         \* how often each task's handler ran to its end in this call

vars == <<ppc, created, numThreads, exitFlag, wpc, held, queue, args,
          tasks_done, tasks_todo, call, runs>>
performer == <<ppc, created, numThreads, exitFlag, args, tasks_todo, call>>

PStates == {"start", "idle", "prepared", "check", "wait", "recheck", "clear",
            "return", "join", "stopped"}
WStates == {"none", "top", "wait", "got", "report", "exit"}

TypeOK ==
  /\ ppc \in PStates
  /\ created \in 0 .. N
  /\ numThreads \in {0, N}
  /\ exitFlag \in BOOLEAN
  /\ wpc \in [Workers -> WStates]
  /\ held \in [Workers -> Tasks]
  /\ queue \in Seq(Tasks)
  /\ args \in [Tasks -> 0 .. MaxCalls]
  /\ tasks_done \in [Workers -> Nat]
  /\ tasks_todo \in 0 .. N
  /\ call \in 0 .. MaxCalls
  /\ runs \in [Tasks -> Nat]

(***************************************************************************)
(* The sum of tasks_done[0 .. tasks_todo-1], as the size of the set that   *)
(* has one element per counted completion.                                 *)
(***************************************************************************)
Completions(todo) ==
  UNION {{i} \X (1 .. tasks_done[i]) : i \in {w \in Workers : w < todo}}
Done == Cardinality(Completions(tasks_todo))

(* Wrong: the last byte of every slice is left out.                        *)
ShortSlice(t) ==
  {b \in 0 .. PlaneLen - 1 :
     /\ b >= t * (PlaneLen \div N)
     /\ b < (t + 1) * (PlaneLen \div N) - 1}

(* The bytes of the plane that task t works on: strides[i] / n of them.    *)
Slice(t) ==
  {b \in 0 .. PlaneLen - 1 :
     /\ b >= t * (PlaneLen \div N)
     /\ b < (t + 1) * (PlaneLen \div N)}

Init ==
  /\ ppc = "start"
  /\ created = 0
  /\ numThreads = 0
  /\ exitFlag = FALSE
  /\ wpc = [w \in Workers |-> "none"]
  /\ held = [w \in Workers |-> 0]
  /\ queue = << >>
  /\ args = [t \in Tasks |-> 0]
  /\ tasks_done = [w \in Workers |-> 0]
  /\ tasks_todo = 0
  /\ call = 0
  /\ runs = [t \in Tasks |-> 0]
-----------------------------------------------------------------------------
(* task_start: one pthread_create after the other.                         *)
StartThread ==
  /\ ppc = "start"
  /\ created < N
  /\ wpc' = [wpc EXCEPT ![created] = "top"]
  /\ created' = created + 1
  /\ UNCHANGED <<ppc, numThreads, exitFlag, held, queue, args, tasks_done,
                 tasks_todo, call, runs>>

StartDone ==
  /\ ppc = "start"
  /\ created = N
  /\ numThreads' = N
  /\ ppc' = "idle"
  /\ UNCHANGED <<created, exitFlag, wpc, held, queue, args, tasks_done,
                 tasks_todo, call, runs>>

(* pthread_create failed: -1 is returned, numThreads stays 0, the threads  *)
(* created so far live on, and veejay goes on without a pool.              *)
StartFail ==
  /\ StartMayFail
  /\ ppc = "start"
  /\ created < N
  /\ ppc' = "idle"
  /\ UNCHANGED <<created, numThreads, exitFlag, wpc, held, queue, args,
                 tasks_done, tasks_todo, call, runs>>
-----------------------------------------------------------------------------
(* vj_task_run on a pool: the arguments of every slice are filled in.      *)
Prepare ==
  /\ ppc = "idle"
  /\ numThreads > 1
  /\ call < MaxCalls
  /\ call' = call + 1
  /\ args' = [t \in Tasks |-> call + 1]
  /\ runs' = [t \in Tasks |-> 0]
  /\ ppc' = "prepared"
  /\ UNCHANGED <<created, numThreads, exitFlag, wpc, held, queue, tasks_done,
                 tasks_todo>>

(* vj_task_run without one: return 0; vj_frame_copyN ignores the result.   *)
Unavailable ==
  /\ ppc = "idle"
  /\ numThreads <= 1
  /\ call < MaxCalls
  /\ call' = call + 1
  /\ runs' = [t \in Tasks |-> 0]
  /\ ppc' = "return"
  /\ UNCHANGED <<created, numThreads, exitFlag, wpc, held, queue, args,
                 tasks_done, tasks_todo>>

(* pthread_cond_signal(&current_task): one waiting worker, if there is one *)
SignalWorker ==
  \/ \E w \in Workers :
       /\ wpc[w] = "wait"
       /\ wpc' = [wpc EXCEPT ![w] = "top"]
  \/ /\ \A w \in Workers : wpc[w] # "wait"
     /\ wpc' = wpc

(* Wrong: tasks_done keeps the counts of the previous call.                *)
SubmitNoReset ==
  /\ ppc = "prepared"
  /\ tasks_todo' = numThreads
  /\ queue' = queue \o [i \in 1 .. N |-> i - 1]
  /\ SignalWorker
  /\ ppc' = "check"
  /\ UNCHANGED <<created, numThreads, exitFlag, held, args, tasks_done, call,
                 runs>>

(* Wrong: the tasks are queued and nobody is signalled.                    *)
SubmitSilently ==
  /\ ppc = "prepared"
  /\ tasks_todo' = numThreads
  /\ tasks_done' = [w \in Workers |-> 0]
  /\ queue' = queue \o [i \in 1 .. N |-> i - 1]
  /\ ppc' = "check"
  /\ UNCHANGED <<created, numThreads, exitFlag, wpc, held, args, call, runs>>

(* performer_job, the first critical section: all tasks, a single signal.  *)
Submit ==
  /\ ppc = "prepared"
  /\ tasks_todo' = numThreads
  /\ tasks_done' = [w \in Workers |-> 0]
  /\ queue' = queue \o [i \in 1 .. N |-> i - 1]
  /\ SignalWorker
  /\ ppc' = "check"
  /\ UNCHANGED <<created, numThreads, exitFlag, held, args, call, runs>>

(* performer_job, the loop: wait on tasks_completed unless all are done.   *)
Check ==
  /\ ppc = "check"
  /\ ppc' = CASE Done < tasks_todo -> "wait"
              [] Done = tasks_todo -> "clear"
              [] OTHER -> "check"
  /\ UNCHANGED <<created, numThreads, exitFlag, wpc, held, queue, args,
                 tasks_done, tasks_todo, call, runs>>

(* Wrong: one completion is taken for all of them.                         *)
RecheckOnce ==
  /\ ppc = "recheck"
  /\ ppc' = "clear"
  /\ UNCHANGED <<created, numThreads, exitFlag, wpc, held, queue, args,
                 tasks_done, tasks_todo, call, runs>>

(* The sum taken again after the wait, in the same critical section.       *)
Recheck ==
  /\ ppc = "recheck"
  /\ ppc' = IF Done = tasks_todo THEN "clear" ELSE "check"
  /\ UNCHANGED <<created, numThreads, exitFlag, wpc, held, queue, args,
                 tasks_done, tasks_todo, call, runs>>

(* Back in vj_task_run: memset of every vj_task_args[i], return 1.         *)
Clear ==
  /\ ppc = "clear"
  /\ args' = [t \in Tasks |-> 0]
  /\ ppc' = "return"
  /\ UNCHANGED <<created, numThreads, exitFlag, wpc, held, queue, tasks_done,
                 tasks_todo, call, runs>>

Return ==
  /\ ppc = "return"
  /\ ppc' = "idle"
  /\ UNCHANGED <<created, numThreads, exitFlag, wpc, held, queue, args,
                 tasks_done, tasks_todo, call, runs>>
-----------------------------------------------------------------------------
(* Wrong: one worker is woken, not all of them.                            *)
StopOne ==
  /\ ppc = "idle"
  /\ numThreads > 0
  /\ exitFlag' = TRUE
  /\ SignalWorker
  /\ ppc' = "join"
  /\ UNCHANGED <<created, numThreads, held, queue, args, tasks_done,
                 tasks_todo, call, runs>>

(* vj_mem_threaded_stop and the critical section of task_stop, which wakes *)
(* every waiting worker.                                                   *)
Stop ==
  /\ ppc = "idle"
  /\ numThreads > 0
  /\ exitFlag' = TRUE
  /\ wpc' = [w \in Workers |-> IF wpc[w] = "wait" THEN "top" ELSE wpc[w]]
  /\ ppc' = "join"
  /\ UNCHANGED <<created, numThreads, held, queue, args, tasks_done,
                 tasks_todo, call, runs>>

(* vj_mem_threaded_stop with numThreads 0 stops nothing.                   *)
StopNothing ==
  /\ ppc = "idle"
  /\ numThreads = 0
  /\ ppc' = "stopped"
  /\ UNCHANGED <<created, numThreads, exitFlag, wpc, held, queue, args,
                 tasks_done, tasks_todo, call, runs>>

(* task_stop after the last pthread_join: task_reset.                      *)
Joined ==
  /\ ppc = "join"
  /\ \A w \in Workers : wpc[w] = "exit"
  /\ numThreads' = 0
  /\ args' = [t \in Tasks |-> 0]
  /\ ppc' = "stopped"
  /\ UNCHANGED <<created, exitFlag, wpc, held, queue, tasks_done, tasks_todo,
                 call, runs>>
-----------------------------------------------------------------------------
(* task_thread, the critical section: take a task, wait, or exit.          *)
Get(w) ==
  /\ wpc[w] = "top"
  /\ queue # << >>
  /\ held' = [held EXCEPT ![w] = Head(queue)]
  /\ queue' = Tail(queue)
  /\ wpc' = [wpc EXCEPT ![w] = "got"]
  /\ UNCHANGED <<performer, tasks_done, runs>>

Sleep(w) ==
  /\ wpc[w] = "top"
  /\ queue = << >>
  /\ ~exitFlag
  /\ wpc' = [wpc EXCEPT ![w] = "wait"]
  /\ UNCHANGED <<performer, held, queue, tasks_done, runs>>

Exit(w) ==
  /\ wpc[w] = "top"
  /\ queue = << >>
  /\ exitFlag
  /\ wpc' = [wpc EXCEPT ![w] = "exit"]
  /\ UNCHANGED <<performer, held, queue, tasks_done, runs>>

(* task_run: the handler, outside the mutex.                               *)
Handle(w) ==
  /\ wpc[w] = "got"
  /\ runs' = [runs EXCEPT ![held[w]] = @ + 1]
  /\ wpc' = [wpc EXCEPT ![w] = "report"]
  /\ UNCHANGED <<performer, held, queue, tasks_done>>

(* Wrong: the completion is counted and the caller is not signalled.       *)
ReportSilently(w) ==
  /\ wpc[w] = "report"
  /\ tasks_done' = [tasks_done EXCEPT ![w] = @ + 1]
  /\ wpc' = [wpc EXCEPT ![w] = "top"]
  /\ UNCHANGED <<performer, held, queue, runs>>

(* task_run: the critical section that counts it and signals the caller.   *)
Report(w) ==
  /\ wpc[w] = "report"
  /\ tasks_done' = [tasks_done EXCEPT ![w] = @ + 1]
  /\ wpc' = [wpc EXCEPT ![w] = "top"]
  /\ ppc' = IF ppc = "wait" THEN "recheck" ELSE ppc
  /\ UNCHANGED <<created, numThreads, exitFlag, held, queue, args,
                 tasks_todo, call, runs>>

(* POSIX lets pthread_cond_wait return without a signal.                   *)
SpuriousWorker(w) ==
  /\ wpc[w] = "wait"
  /\ wpc' = [wpc EXCEPT ![w] = "top"]
  /\ UNCHANGED <<performer, held, queue, tasks_done, runs>>

SpuriousCaller ==
  /\ ppc = "wait"
  /\ ppc' = "recheck"
  /\ UNCHANGED <<created, numThreads, exitFlag, wpc, held, queue, args,
                 tasks_done, tasks_todo, call, runs>>

Starting == StartThread \/ StartDone \/ StartFail
Calling == Prepare \/ Unavailable \/ Submit \/ Check \/ Recheck \/ Clear
           \/ Return \/ SpuriousCaller
Stopping == Stop \/ StopNothing \/ Joined
Worker(w) == Get(w) \/ Sleep(w) \/ Exit(w) \/ Handle(w) \/ Report(w)

Next == Starting \/ Calling \/ Stopping
        \/ \E w \in Workers : Worker(w) \/ SpuriousWorker(w)

Spec == Init /\ [][Next]_vars

(***************************************************************************)
(* Every thread that can take a step outside pthread_cond_wait takes it:   *)
(* the scheduler is fair to the caller inside a call, and to each worker.  *)
(* Nothing forces a call, a stop, a failure or a spurious wakeup.          *)
(***************************************************************************)
Progress == Submit \/ Check \/ Recheck \/ Clear \/ Return \/ Joined
            \/ StartThread \/ StartDone
FairSpec == /\ Spec
            /\ WF_vars(Progress)
            /\ \A w \in Workers : WF_vars(Worker(w))
-----------------------------------------------------------------------------
Busy(w) == wpc[w] \in {"got", "report"}

(* While a handler runs, its arguments are those of the current call: they *)
(* are neither rewritten by the next call nor zeroed by the end of this.   *)
ArgsStable == \A w \in Workers : wpc[w] = "got" => args[held[w]] = call

(* No slice is worked on by two workers, and none twice in one call.       *)
NoSliceTwice ==
  /\ \A v, w \in Workers : v # w /\ Busy(v) /\ Busy(w) => held[v] # held[w]
  /\ \A t \in Tasks : runs[t] <= 1

(* "The run method will wait until all tasks are done": vj_task_run on a   *)
(* pool returns after every handler has run, and no worker still has one.  *)
RunWaitsForAll ==
  ppc \in {"clear", "return"} /\ numThreads = N =>
    /\ \A t \in Tasks : runs[t] = 1
    /\ \A w \in Workers : ~Busy(w)

(* performer_job signals current_task once for N tasks, and a worker that  *)
(* finds the queue empty sleeps.  Queued work is nevertheless never left   *)
(* to sleeping workers, and the caller never sleeps on finished work.      *)
NoLostWakeup ==
  /\ queue # << >> => \E w \in Workers : wpc[w] \in {"top", "got", "report"}
  /\ ppc = "wait" => Done < tasks_todo

(* After task_stop no worker is alive, whatever it was doing before.       *)
StoppedMeansJoined ==
  ppc = "stopped" /\ exitFlag => \A w \in Workers : wpc[w] = "exit"

(* vj_task_run divides the length of a plane by the number of workers and  *)
(* gives nobody the rest: a finished call on a pool has worked on every    *)
(* byte of the plane but the PlaneLen % N last ones, and on no other.      *)
Worked == UNION {Slice(t) : t \in {u \in Tasks : runs[u] > 0}}
PlaneProcessed ==
  ppc = "return" /\ numThreads = N =>
    Worked = 0 .. PlaneLen - (PlaneLen % N) - 1

(***************************************************************************)
(* The inductive invariant: where every task of a call is at any moment.   *)
(***************************************************************************)
InCall == {"check", "wait", "recheck"}
Queued == {queue[i] : i \in 1 .. Len(queue)}
Handling == {held[w] : w \in {v \in Workers : wpc[v] = "got"}}
BusyWorkers == {w \in Workers : Busy(w)}

(* The life of the pool: which threads exist, and when they may exit.      *)
LifeInv ==
  /\ ppc = "start" => numThreads = 0
  /\ ppc \in {"prepared", "clear", "join"} \cup InCall => numThreads = N
  /\ numThreads = N => \A w \in Workers : wpc[w] # "none"
  /\ ppc = "start" => \A w \in Workers : wpc[w] = "none" <=> w >= created
  /\ exitFlag => ppc \in {"join", "stopped"}
  /\ \A w \in Workers : wpc[w] = "exit" => exitFlag
  /\ ppc = "stopped" /\ exitFlag => \A w \in Workers : wpc[w] = "exit"

(* Without a pool nothing is ever done.                                    *)
NoPoolInv ==
  numThreads = 0 /\ ppc \in {"start", "idle", "return"} =>
    \A t \in Tasks : runs[t] = 0

(* Between the calls no task is anywhere.                                  *)
QuietInv == ppc \notin InCall => queue = << >> /\ \A w \in Workers : ~Busy(w)

(* Within one, a task is queued once, or held by one worker, or it has run *)
PlaceInv ==
  /\ \A i, j \in 1 .. Len(queue) : i # j => queue[i] # queue[j]
  /\ \A v, w \in Workers : v # w /\ Busy(v) /\ Busy(w) => held[v] # held[w]
  /\ \A w \in Workers : Busy(w) => held[w] \notin Queued
  /\ \A t \in Tasks : runs[t] <= 1
  /\ ppc = "prepared" => \A t \in Tasks : runs[t] = 0
  /\ ppc \in InCall =>
       \A t \in Tasks : runs[t] = IF t \in Queued \cup Handling THEN 0 ELSE 1
  /\ ppc \in {"clear", "return"} /\ numThreads = N => \A t \in Tasks : runs[t] = 1
  /\ ppc \in {"prepared", "clear"} \cup InCall => \A t \in Tasks : args[t] = call

(* ... and every task is queued, at a worker, or counted.                  *)
CountInv ==
  ppc \in InCall =>
    /\ tasks_todo = N
    /\ IsFiniteSet(Completions(N))
    /\ Cardinality(Completions(N)) + Cardinality(BusyWorkers) + Len(queue) = N

IInv == /\ TypeOK /\ LifeInv /\ QuietInv /\ NoPoolInv
        /\ PlaceInv /\ CountInv /\ NoLostWakeup

(***************************************************************************)
(* The pool implements the fork-join that its users see.                   *)
(***************************************************************************)
phase ==
  CASE ppc \in {"prepared", "clear"} \cup InCall -> "busy"
    [] ppc \in {"join", "stopped"} -> "closed"
    [] OTHER -> "idle"

FJ == INSTANCE ForkJoin WITH Tasks <- Tasks, phase <- phase, runs <- runs

(* Every behaviour is one of ForkJoin: handlers run between the beginning  *)
(* and the end of a call, each once.  Calls without a pool do nothing and  *)
(* are no calls of ForkJoin.                                               *)
Implements == FJ!Spec

(* A call that got its tasks queued returns, and a stop joins all workers. *)
CallReturns == ppc = "prepared" ~> ppc = "return"
StopReturns == ppc = "join" ~> ppc = "stopped"
=============================================================================
