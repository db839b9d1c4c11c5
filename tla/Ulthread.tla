------------------------------ MODULE Ulthread ------------------------------
(***************************************************************************)
(* The user-level threading library of Project 3 (user/ulthread.c): one    *)
(* process, a table of threads, a scheduler that main() runs on slot 0 and *)
(* threads that yield and destroy themselves.  Switching is cooperative,   *)
(* so a call of the library is one action; an iteration of the scheduler's *)
(* loop, from the top to its context switch or its return, is one too.     *)
(*                                                                         *)
(* A thread is named by its creation number.  A context is the thread it   *)
(* belongs to and the point it resumes at; a thread passes from point 0    *)
(* (its entry) to 1 to 0 ... at its yields.  Thread 0 is main().           *)
(***************************************************************************)
EXTENDS Integers, FiniteSets

CONSTANTS
  MAXULTHREADS,  \* slots of the table, slot 0 being the scheduler's
  Priorities,    \* priorities a thread may be created with
  Algorithms,    \* the algorithms main() may pass to ulthread_init
  MaxCreate,     \* bound: threads created
  MaxInit        \* bound: calls of ulthread_init

Thr     == 1 .. MAXULTHREADS - 1
Slots   == 0 .. MAXULTHREADS - 1
Threads == 1 .. MaxCreate
Context == [who : 0 .. MaxCreate, pt : {0, 1}]

ASSUME UlthreadAssumption ==
  /\ MAXULTHREADS \in Nat /\ MAXULTHREADS > 1
  /\ Priorities \subseteq Int /\ Priorities # {}
  /\ Algorithms \subseteq {"ROUNDROBIN", "PRIORITY", "FCFS"} /\ Algorithms # {}
  /\ MaxCreate \in Nat /\ MaxInit \in Nat

VARIABLES
  algorithm,     \* the scheduling algorithm
  tid,           \* ul_thread[i].tid, -1 for an unused slot
  state,         \* ul_thread[i].state
  priority,      \* ul_thread[i].priority
  context,       \* ul_thread[i].context
  current_tid, prev_tid,
  cpu,           \* the context the processor is executing
  scheduling,    \* main() is inside ulthread_schedule()
  created,       \* threads created so far
  inits,         \* calls of ulthread_init so far
  unfinished,    \* history: threads created and not destroyed
  stop,          \* history: the point each thread last stopped at
  misused        \* history: create met a full table, or init a used one

table == <<tid, state, priority, context>>
vars == <<algorithm, tid, state, priority, context, current_tid, prev_tid, cpu,
          scheduling, created, inits, unfinished, stop, misused>>

InMain == cpu.who = 0 /\ ~scheduling
InLoop == cpu.who = 0 /\ scheduling

Runnable == {i \in Thr : state[i] = "RUNNABLE"}
Yielded  == {i \in Thr : state[i] = "YIELD"}

Lowest(S)  == CHOOSE i \in S : \A j \in S : i <= j
Highest(S) == CHOOSE i \in S : \A j \in S : j <= i

(* Slot 0 is the scheduler's, the others are unused.                       *)
FreshTids == [i \in Slots |-> IF i = 0 THEN 0 ELSE -1]

(* A new table: the static array is zeroed (every state FREE) and then     *)
(* ulthread_init has run.                                                  *)
Init ==
  /\ algorithm \in Algorithms
  /\ tid = FreshTids
  /\ state = [i \in Slots |-> IF i = 0 THEN "RUNNABLE" ELSE "FREE"]
  /\ priority = [i \in Slots |-> 0]
  /\ context = [i \in Slots |-> [who |-> 0, pt |-> 0]]
  /\ current_tid = 0 /\ prev_tid = 0
  /\ cpu = [who |-> 0, pt |-> 0]
  /\ scheduling = FALSE
  /\ created = 0 /\ inits = 1
  /\ unfinished = {}
  /\ stop = [k \in Threads |-> 0]
  /\ misused = FALSE

(* main() initialises the library again, for another round of threads.     *)
(* Only the tids are reset: states, current_tid and prev_tid stay.         *)
ulthread_init(a) ==
  /\ InMain /\ inits < MaxInit
  /\ tid' = FreshTids
  /\ state' = [state EXCEPT ![0] = "RUNNABLE"]
  /\ algorithm' = a
  /\ inits' = inits + 1
  /\ misused' = (misused \/ unfinished # {})
  /\ UNCHANGED <<priority, context, current_tid, prev_tid, cpu, scheduling,
                 created, unfinished, stop>>

(* main() or the running thread creates a thread in the first unused slot; *)
(* with none left the search's initial value, slot 0, is used.             *)
NotRunnable == LET F == {i \in Thr : state[i] # "RUNNABLE"} IN   \* slip:
               IF F = {} THEN 0 ELSE Lowest(F)     \* tests the state
UnusedSlot == LET F == {i \in Thr : tid[i] = -1} IN
              IF F = {} THEN 0 ELSE Lowest(F)

ulthread_create(pri) ==
  LET i == UnusedSlot
      k == created + 1
  IN
  /\ cpu.who # 0 \/ InMain
  /\ created < MaxCreate
  /\ tid' = [tid EXCEPT ![i] = i]
  /\ state' = [state EXCEPT ![i] = "RUNNABLE"]
  /\ priority' = [priority EXCEPT ![i] = pri]
  /\ context' = [context EXCEPT ![i] = [who |-> k, pt |-> 0]]
  /\ created' = k
  /\ unfinished' = unfinished \cup {k}
  /\ misused' = (misused \/ i = 0)
  /\ UNCHANGED <<algorithm, current_tid, prev_tid, cpu, scheduling, inits, stop>>

-----------------------------------------------------------------------------
(* main() calls ulthread_schedule().                                       *)
ulthread_schedule ==
  /\ InMain
  /\ scheduling' = TRUE
  /\ UNCHANGED <<algorithm, table, current_tid, prev_tid, cpu, created, inits,
                 unfinished, stop, misused>>

(* The loop returns to main().                                             *)
Return ==
  /\ scheduling' = FALSE
  /\ UNCHANGED <<algorithm, table, current_tid, cpu, created, inits,
                 unfinished, stop, misused>>

(* The end of an iteration: `next' becomes the current thread, the one     *)
(* that ran before is runnable again if it yielded, and the processor      *)
(* switches from slot 0's context to next's.  `st' is the table's states   *)
(* as the search for `next' left them.                                     *)
Renew(st, i) == IF i # 0 /\ st[i] = "YIELD"
                THEN [st EXCEPT ![i] = "RUNNABLE"] ELSE st

SwitchTo(next, st) ==
  /\ prev_tid' = current_tid
  /\ current_tid' = next
  /\ state' = Renew(st, current_tid)
  /\ context' = [context EXCEPT ![0] = cpu]
  /\ cpu' = context[next]
  /\ UNCHANGED <<algorithm, tid, priority, scheduling, created, inits,
                 unfinished, stop, misused>>

(* `for i: if priority[i] > priority[best] && RUNNABLE, best = i', started *)
(* from best: the lowest slot of the highest priority, or best itself when *)
(* none is higher.                                                         *)
FirstAnyway(best, S) == best    \* slip: the priorities are not compared
Climb(best, S) ==
  LET H == {i \in S : priority[i] > priority[best]} IN
  IF H = {} THEN best
  ELSE Lowest({i \in H : \A j \in H : priority[j] <= priority[i]})

(* FCFS and PRIORITY look for a RUNNABLE thread first; without one every   *)
(* thread that yielded becomes RUNNABLE and the last of them, or one of a  *)
(* higher priority, is next.                                               *)
NothingRevived == {}            \* slip: a lone thread that yielded is lost
Revivable == Yielded
Revived == [i \in Slots |-> IF i \in Revivable THEN "RUNNABLE" ELSE state[i]]

(* FCFS: the loop over time_created changes nothing, as no code sets that  *)
(* field: the thread in the lowest slot is next.                           *)
ScheduleFCFS ==
  /\ InLoop /\ algorithm = "FCFS"
  /\ \/ /\ Runnable # {}
        /\ SwitchTo(Lowest(Runnable), state)
     \/ /\ Runnable = {} /\ Revivable # {}
        /\ SwitchTo(Climb(Highest(Revivable), Revivable), Revived)
     \/ /\ Runnable = {} /\ Revivable = {}
        /\ Return /\ UNCHANGED prev_tid

SchedulePRIORITY ==
  /\ InLoop /\ algorithm = "PRIORITY"
  /\ \/ /\ Runnable # {}
        /\ SwitchTo(Climb(Lowest(Runnable), Runnable), state)
     \/ /\ Runnable = {} /\ Revivable # {}
        /\ SwitchTo(Climb(Highest(Revivable), Revivable), Revived)
     \/ /\ Runnable = {} /\ Revivable = {}
        /\ Return /\ UNCHANGED prev_tid

(* Round robin: the first RUNNABLE slot from current_tid on, cyclically;   *)
(* current_tid itself comes first, and being next again ends the loop.     *)
FromTop(i) == i                 \* slip: the search starts at slot 0
Distance(i) == (i + MAXULTHREADS - current_tid) % MAXULTHREADS
Following == CHOOSE i \in Runnable :
               \A j \in Runnable : Distance(i) <= Distance(j)

ScheduleROUNDROBIN ==
  /\ InLoop /\ algorithm = "ROUNDROBIN"
  /\ \/ /\ Runnable # {} /\ Following # current_tid
        /\ SwitchTo(Following, state)
     \/ /\ Runnable # {} /\ Following = current_tid
        /\ prev_tid' = current_tid
        /\ Return
     \/ /\ Runnable = {}
        /\ Return /\ UNCHANGED prev_tid

-----------------------------------------------------------------------------
(* The running thread saves its context in current_tid's slot and resumes  *)
(* slot 0's.  `here' is the point after the call.                          *)
PrevSlot == prev_tid            \* slip: the wrong one of the two variables
SaveSlot == current_tid

SwitchToScheduler ==
  LET here == 1 - cpu.pt IN
  /\ context' = [context EXCEPT ![SaveSlot] = [who |-> cpu.who, pt |-> here]]
  /\ stop' = [stop EXCEPT ![cpu.who] = here]
  /\ cpu' = context[0]

ulthread_yield ==
  /\ cpu.who # 0
  /\ state' = [state EXCEPT ![current_tid] = "YIELD"]
  /\ SwitchToScheduler
  /\ UNCHANGED <<algorithm, tid, priority, current_tid, prev_tid, scheduling,
                 created, inits, unfinished, misused>>

ulthread_destroy ==
  /\ cpu.who # 0 /\ current_tid # 0
  /\ state' = [state EXCEPT ![current_tid] = "FREE"]
  /\ tid' = [tid EXCEPT ![current_tid] = -1]
  /\ prev_tid' = current_tid
  /\ SwitchToScheduler
  /\ unfinished' = unfinished \ {cpu.who}
  /\ UNCHANGED <<algorithm, priority, current_tid, scheduling, created, inits,
                 misused>>

Scheduler == ScheduleFCFS \/ SchedulePRIORITY \/ ScheduleROUNDROBIN

Next ==
  \/ \E a \in Algorithms : ulthread_init(a)
  \/ \E pri \in Priorities : ulthread_create(pri)
  \/ ulthread_schedule
  \/ ScheduleFCFS \/ SchedulePRIORITY \/ ScheduleROUNDROBIN
  \/ ulthread_yield \/ ulthread_destroy

(* The kernel runs the process, so the scheduler's loop goes on; a running *)
(* thread yields or destroys itself sooner or later, the contract of       *)
(* cooperative threads that every test program keeps.                      *)
Fairness == WF_vars(Scheduler) /\ WF_vars(ulthread_yield \/ ulthread_destroy)

Spec == Init /\ [][Next]_vars /\ Fairness

-----------------------------------------------------------------------------
(* Properties.                                                             *)

(* The table and the library's variables have their types: current_tid is  *)
(* always an index of the table and slot 0 always the scheduler's, even    *)
(* when a create in a full table falls back to it.                         *)
TypeOK ==
  /\ algorithm \in Algorithms
  /\ tid \in [Slots -> Slots \cup {-1}] /\ tid[0] = 0
  /\ state \in [Slots -> {"FREE", "RUNNABLE", "YIELD"}] /\ state[0] = "RUNNABLE"
  /\ priority \in [Slots -> Int]
  /\ context \in [Slots -> Context]
  /\ current_tid \in Slots /\ prev_tid \in Slots
  /\ cpu \in Context
  /\ scheduling \in BOOLEAN
  /\ created \in 0 .. MaxCreate /\ inits \in Nat
  /\ unfinished \subseteq Threads
  /\ stop \in [Threads -> {0, 1}]
  /\ misused \in BOOLEAN

InUse(i) == state[i] # "FREE"

(* As long as no thread was created in a full table and the library was    *)
(* not initialised over unfinished threads, every unfinished thread is in  *)
(* exactly one slot, however slots were freed and reused; a slot is handed *)
(* out again only after its thread is gone; and while a thread runs,       *)
(* get_current_tid() names its own slot.                                   *)
OneSlotEach ==
  ~misused =>
    /\ \A k \in unfinished : \E i \in Thr : InUse(i) /\ context[i].who = k
    /\ \A i \in Thr : InUse(i) => context[i].who \in unfinished /\ tid[i] = i
    /\ \A i, j \in Thr :
         InUse(i) /\ InUse(j) /\ context[i].who = context[j].who => i = j
    /\ cpu.who # 0 => /\ current_tid # 0 /\ InUse(current_tid)
                      /\ context[current_tid].who = cpu.who

(* Under the same condition a thread resumes where it last stopped, and    *)
(* main() finds its own frame in slot 0 whenever a thread gives up the     *)
(* processor: no context is overwritten by another thread's.               *)
ResumesInPlace ==
  ~misused =>
    /\ cpu.who # 0 => cpu.pt = stop[cpu.who] /\ context[0].who = 0 /\ scheduling
    /\ \A i \in Thr : InUse(i) => context[i].pt = stop[context[i].who]

(* A thread that PRIORITY scheduling starts has the highest priority of    *)
(* all unfinished threads, except perhaps the one that has just yielded.   *)
PriorityRespected ==
  [][SchedulePRIORITY /\ cpu'.who # 0 =>
       \A i \in Thr : InUse(i) /\ i # current_tid =>
                        priority[i] <= priority[current_tid']]_vars

(* FCFS and PRIORITY give the processor back to main() only when every     *)
(* thread has destroyed itself.                                            *)
ReturnsWhenDone ==
  [][algorithm # "ROUNDROBIN" /\ ~misused /\ scheduling /\ ~scheduling'
       => unfinished = {}]_vars

(* Round robin starves nobody: a thread waiting in its slot runs, or       *)
(* ulthread_schedule() returns, even if the others yield for ever and new  *)
(* threads take over freed slots.                                          *)
RoundRobinServes ==
  \A k \in Threads :
    (algorithm = "ROUNDROBIN" /\ ~misused /\ scheduling /\ k \in unfinished)
      ~> (cpu.who = k \/ ~scheduling \/ misused)

=============================================================================
