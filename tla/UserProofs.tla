----------------------------- MODULE UserProofs -----------------------------
(* Proofs about the two parts that a user drives: Ulthread, for a table of  *)
(* any size, any number of threads and any priorities; and Console, with    *)
(* the buffers of console.c and uart.c, for any processes, characters and   *)
(* width of the indices.                                                    *)
EXTENDS Ulthread, Console, FiniteSetTheorems, WellFoundedInduction, TLAPS

USE DEF Thr, Slots, Threads, Context

(* A thread runs only while current_tid names a thread's slot, also after   *)
(* a misuse; and only current_tid's slot holds a thread that yielded.       *)
RunsInSlot == cpu.who # 0 => current_tid # 0
OneYielded == \A i \in Thr : state[i] = "YIELD" => i = current_tid

(* The threads that exist have the first creation numbers; one that does    *)
(* not yet exist has not stopped anywhere but at its entry.                 *)
Numbered == /\ unfinished \subseteq 1 .. created
            /\ \A k \in Threads : k > created => stop[k] = 0

(* The inductive invariant.                                                 *)
Placed ==
  /\ \A k \in unfinished : \E i \in Thr : InUse(i) /\ context[i].who = k
  /\ \A i \in Thr : InUse(i) => /\ context[i].who \in unfinished /\ tid[i] = i
                                /\ context[i].pt = stop[context[i].who]
  /\ \A i, j \in Thr :
       InUse(i) /\ InUse(j) /\ context[i].who = context[j].who => i = j

Running ==
  cpu.who # 0 => /\ InUse(current_tid) /\ context[current_tid].who = cpu.who
                 /\ cpu.pt = stop[cpu.who] /\ context[0].who = 0 /\ scheduling

Library == TypeOK /\ RunsInSlot /\ OneYielded

Kept == ~misused => Numbered /\ Placed /\ Running

IInv == Library /\ Kept


-----------------------------------------------------------------------------
(* The searches.                                                            *)

(* An integer function on a finite set has a maximum: an element above      *)
(* which fewest others lie has none above it.                               *)
LEMMA Maximum ==
  ASSUME NEW S, IsFiniteSet(S), S # {}, NEW f \in [S -> Int]
  PROVE  \E i \in S : \A j \in S : f[j] <= f[i]
<1> DEFINE Above(i) == {j \in S : f[j] > f[i]}
           All == {Above(i) : i \in S}
           R == StrictSubsetOrdering(S)
<1>1. \A i \in S : Above(i) \in FiniteSubsetsOf(S)
  <2> TAKE i \in S
  <2>1. Above(i) \in SUBSET S /\ IsFiniteSet(Above(i))
    BY FS_Subset
  <2> QED BY <2>1 DEF FiniteSubsetsOf
<1>2. All \subseteq FiniteSubsetsOf(S) /\ All # {}
  <2> HIDE DEF Above
  <2> QED BY <1>1
<1>3. IsWellFoundedOn(R, FiniteSubsetsOf(S))
  BY FS_StrictSubsetOrderingWellFounded
<1>4. \E X \in All : \A Y \in All : <<Y, X>> \notin R
  <2> HIDE DEF All, R
  <2> QED BY <1>2, <1>3, WFMin
<1>5. PICK i \in S : \A j \in S : <<Above(j), Above(i)>> \notin R
  BY <1>4
<1>6. ASSUME NEW j \in S, ~(f[j] <= f[i]) PROVE FALSE
  <2>1. f \in [S -> Int] /\ f[i] \in Int /\ f[j] \in Int
    OBVIOUS
  <2>2. j \in Above(i) /\ j \notin Above(j)
    BY <1>6, <2>1
  <2>3. \A k \in S : f[k] > f[j] => f[k] > f[i]
    BY <1>6, <2>1
  <2>4. /\ Above(j) \subseteq Above(i)
        /\ Above(j) \in SUBSET S /\ Above(i) \in SUBSET S
    BY <2>3
  <2> HIDE DEF Above
  <2>5. <<Above(j), Above(i)>> \in R
    BY <2>2, <2>4 DEF StrictSubsetOrdering
  <2> QED BY <1>5, <2>5
<1> QED BY <1>6

(* A set of slots is finite.                                                *)
LEMMA SlotsFinite ==
  ASSUME NEW S \in SUBSET Slots
  PROVE  IsFiniteSet(S)
<1>1. IsFiniteSet(Slots)
  BY FS_Interval, UlthreadAssumption
<1> QED BY <1>1, FS_Subset

(* The first and the last slot of a set.                                    *)
LEMMA LowestFacts ==
  ASSUME NEW S \in SUBSET Slots, S # {}
  PROVE  Lowest(S) \in S /\ \A j \in S : Lowest(S) <= j
<1> DEFINE f == [i \in S |-> -i]
<1>1. f \in [S -> Int] /\ IsFiniteSet(S)
  BY SlotsFinite
<1>2. PICK i \in S : \A j \in S : f[j] <= f[i]
  BY <1>1, Maximum
<1>3. \A j \in S : i <= j
  BY <1>2
<1> QED BY <1>3 DEF Lowest

(* The last slot of some is one of them.                                    *)
LEMMA HighestFacts ==
  ASSUME NEW S \in SUBSET Slots, S # {}
  PROVE  Highest(S) \in S
<1> DEFINE f == [i \in S |-> i]
<1>1. f \in [S -> Int] /\ IsFiniteSet(S)
  BY SlotsFinite
<1>2. PICK i \in S : \A j \in S : f[j] <= f[i]
  BY <1>1, Maximum
<1>3. \A j \in S : j <= i
  BY <1>2
<1> QED BY <1>3 DEF Highest

(* The climb ends at a slot of the set that none exceeds in priority.       *)
LEMMA ClimbFacts ==
  ASSUME TypeOK, NEW S \in SUBSET Slots, NEW best \in S
  PROVE  /\ Climb(best, S) \in S
         /\ \A j \in S : priority[j] <= priority[Climb(best, S)]
<1> DEFINE H == {i \in S : priority[i] > priority[best]}
           M == {i \in H : \A j \in H : priority[j] <= priority[i]}
<1>1. \A i \in S : priority[i] \in Int
  BY DEF TypeOK
<1>2. CASE H = {}
  <2>1. Climb(best, S) = best
    BY <1>2 DEF Climb
  <2>2. \A j \in S : ~(priority[j] > priority[best])
    BY <1>2
  <2> QED BY <1>1, <2>1, <2>2
<1>3. CASE H # {}
  <2> DEFINE f == [i \in H |-> priority[i]]
  <2>1. H \in SUBSET Slots /\ f \in [H -> Int]
    BY <1>1
  <2>2. PICK i \in H : \A j \in H : f[j] <= f[i]
    <3> HIDE DEF H, f
    <3> QED BY <1>3, <2>1, SlotsFinite, Maximum
  <2>3. i \in M
    BY <2>2
  <2>4. M \in SUBSET Slots /\ M # {}
    BY <2>3
  <2>5. Lowest(M) \in M
    <3> HIDE DEF M
    <3> QED BY <2>4, LowestFacts
  <2>6. Climb(best, S) = Lowest(M)
    BY <1>3 DEF Climb
  <2>7. Climb(best, S) \in H /\ \A j \in H : priority[j] <= priority[Climb(best, S)]
    BY <2>5, <2>6
  <2>8. \A j \in S : j \notin H => priority[j] <= priority[best]
    BY <1>1
  <2>9. \A c \in H : c \in S /\ priority[c] > priority[best]
    OBVIOUS
  <2> HIDE DEF H
  <2>10. PICK c \in H : c = Climb(best, S)
    BY <2>7
  <2>11. /\ c \in S /\ priority[c] > priority[best]
         /\ priority[c] \in Int /\ priority[best] \in Int
    BY <1>1, <2>9
  <2>12. ASSUME NEW j \in S PROVE priority[j] <= priority[c]
    <3>1. CASE j \in H
      BY <2>7, <2>10, <3>1
    <3>2. CASE j \notin H
      BY <1>1, <2>8, <2>11, <3>2
    <3> QED BY <3>1, <3>2
  <2> QED BY <2>10, <2>11, <2>12
<1> QED BY <1>2, <1>3

(* Round robin finds a RUNNABLE slot if there is one.                       *)
LEMMA FollowingFacts ==
  ASSUME TypeOK, Runnable # {}
  PROVE  Following \in Runnable
<1> DEFINE f == [i \in Runnable |-> -Distance(i)]
<1>1. Runnable \in SUBSET Slots
  BY DEF Runnable
<1>2. \A i \in Runnable : Distance(i) \in Int
  <2> TAKE i \in Runnable
  <2>1. i \in Int /\ current_tid \in Int /\ MAXULTHREADS \in Nat \ {0}
    BY <1>1, UlthreadAssumption DEF TypeOK
  <2> QED BY <2>1 DEF Distance
<1>3. f \in [Runnable -> Int] /\ IsFiniteSet(Runnable)
  BY <1>1, <1>2, SlotsFinite
<1>4. PICK i \in Runnable : \A j \in Runnable : f[j] <= f[i]
  <2> HIDE DEF f
  <2> QED BY <1>3, Maximum
<1>5. \A j \in Runnable : Distance(i) <= Distance(j)
  BY <1>2, <1>4
<1> QED BY <1>5 DEF Following


-----------------------------------------------------------------------------
(* Type correctness, and where threads run.                                 *)

(* A switch to a thread's slot keeps the library's part of the invariant    *)
(* if the search left at most the current thread yielding.                  *)
Searched(nx, st) ==
  /\ nx \in Runnable \cup Yielded
  /\ st \in [Slots -> {"FREE", "RUNNABLE", "YIELD"}] /\ st[0] = "RUNNABLE"
  /\ st[nx] = "RUNNABLE"
  /\ \A i \in Slots : st[i] = "FREE" <=> state[i] = "FREE"
  /\ \A i \in Thr : st[i] = "YIELD" => i = current_tid

(* What the switch does with the states: nobody is left yielding.           *)
LEMMA RenewFacts ==
  ASSUME TypeOK, NEW nx, NEW st, Searched(nx, st)
  PROVE  LET g == Renew(st, current_tid) IN
         /\ g \in [Slots -> {"FREE", "RUNNABLE", "YIELD"}] /\ g[0] = "RUNNABLE"
         /\ \A i \in Slots : g[i] = "FREE" <=> state[i] = "FREE"
         /\ \A i \in Thr : g[i] # "YIELD"
<1>1. 0 \in Slots /\ Thr \subseteq Slots /\ current_tid \in Slots
  BY UlthreadAssumption DEF TypeOK
<1>2. CASE current_tid # 0 /\ st[current_tid] = "YIELD"
  <2>1. Renew(st, current_tid) = [st EXCEPT ![current_tid] = "RUNNABLE"]
    BY <1>2 DEF Renew
  <2> QED BY <1>1, <1>2, <2>1 DEF Searched
<1>3. CASE ~(current_tid # 0 /\ st[current_tid] = "YIELD")
  <2>1. Renew(st, current_tid) = st
    BY <1>3 DEF Renew
  <2> QED BY <1>1, <1>3, <2>1 DEF Searched
<1> QED BY <1>2, <1>3

(* After a search with a RUNNABLE thread the table is as it was.            *)
LEMMA FoundRunnable ==
  ASSUME Library, NEW nx \in Runnable
  PROVE  Searched(nx, state)
BY DEF Searched, Library, TypeOK, OneYielded, Runnable

(* Without one every thread that yielded is RUNNABLE again.                 *)
LEMMA FoundRevived ==
  ASSUME Library, NEW nx \in Revivable
  PROVE  Searched(nx, Revived)
<1>1. /\ Revived \in [Slots -> {"FREE", "RUNNABLE", "YIELD"}]
      /\ \A i \in Slots : Revived[i] = IF i \in Yielded THEN "RUNNABLE" ELSE state[i]
  BY DEF Revived, Revivable, Library, TypeOK
<1>2. 0 \in Slots /\ 0 \notin Thr /\ nx \in Yielded /\ nx \in Slots
  BY UlthreadAssumption DEF Revivable, Yielded
<1>3. Thr \subseteq Slots /\ state[0] = "RUNNABLE"
      /\ \A i \in Thr : i \in Yielded <=> state[i] = "YIELD"
  BY DEF Yielded, Library, TypeOK
<1>4. Yielded \subseteq Thr
  BY DEF Yielded
<1>5. /\ Revived[0] = "RUNNABLE" /\ Revived[nx] = "RUNNABLE"
      /\ \A i \in Slots : Revived[i] = "FREE" <=> state[i] = "FREE"
      /\ \A i \in Thr : Revived[i] # "YIELD"
  <2> USE <1>1, <1>2, <1>3, <1>4
  <2>1. Revived[0] = "RUNNABLE" /\ Revived[nx] = "RUNNABLE"
    OBVIOUS
  <2>2. \A i \in Slots : i \in Yielded => i \in Thr /\ state[i] = "YIELD"
    OBVIOUS
  <2>3. \A i \in Slots : Revived[i] = "FREE" <=> state[i] = "FREE"
    BY <2>2
  <2>4. \A i \in Thr : Revived[i] # "YIELD"
    OBVIOUS
  <2> QED BY <2>1, <2>3, <2>4
<1> QED BY <1>1, <1>2, <1>5 DEF Searched

(* The turn of the loop that starts a thread, whatever the algorithm.       *)
Turn(nx, st) == InLoop /\ Searched(nx, st) /\ SwitchTo(nx, st)

(* The turn that returns to main().                                         *)
TurnBack == InLoop /\ Return /\ prev_tid' \in Slots

(* Every turn of the three loops is one or the other.                       *)
LEMMA SchedulerTurns ==
  ASSUME Library, ScheduleFCFS \/ SchedulePRIORITY \/ ScheduleROUNDROBIN
  PROVE  (\E nx, st : Turn(nx, st)) \/ TurnBack
<1>1. /\ Runnable \in SUBSET Slots /\ Revivable \in SUBSET Slots
      /\ prev_tid \in Slots /\ current_tid \in Slots /\ TypeOK
  BY DEF Runnable, Revivable, Yielded, Library, TypeOK
<1>2. CASE ScheduleFCFS
  <2>1. CASE Runnable # {} /\ SwitchTo(Lowest(Runnable), state)
    <3>1. Lowest(Runnable) \in Runnable
      BY <1>1, <2>1, LowestFacts
    <3>2. Searched(Lowest(Runnable), state)
      BY <3>1, FoundRunnable
    <3> QED BY <1>2, <2>1, <3>2 DEF Turn, ScheduleFCFS
  <2>2. CASE Revivable # {} /\ SwitchTo(Climb(Highest(Revivable), Revivable), Revived)
    <3>1. Climb(Highest(Revivable), Revivable) \in Revivable
      BY <1>1, <2>2, HighestFacts, ClimbFacts
    <3>2. Searched(Climb(Highest(Revivable), Revivable), Revived)
      BY <3>1, FoundRevived
    <3> QED BY <1>2, <2>2, <3>2 DEF Turn, ScheduleFCFS
  <2>3. CASE Return /\ UNCHANGED prev_tid
    BY <1>1, <1>2, <2>3 DEF TurnBack, ScheduleFCFS
  <2> QED BY <1>2, <2>1, <2>2, <2>3 DEF ScheduleFCFS
<1>3. CASE SchedulePRIORITY
  <2>1. CASE Runnable # {} /\ SwitchTo(Climb(Lowest(Runnable), Runnable), state)
    <3>1. Climb(Lowest(Runnable), Runnable) \in Runnable
      BY <1>1, <2>1, LowestFacts, ClimbFacts
    <3>2. Searched(Climb(Lowest(Runnable), Runnable), state)
      BY <3>1, FoundRunnable
    <3> QED BY <1>3, <2>1, <3>2 DEF Turn, SchedulePRIORITY
  <2>2. CASE Revivable # {} /\ SwitchTo(Climb(Highest(Revivable), Revivable), Revived)
    <3>1. Climb(Highest(Revivable), Revivable) \in Revivable
      BY <1>1, <2>2, HighestFacts, ClimbFacts
    <3>2. Searched(Climb(Highest(Revivable), Revivable), Revived)
      BY <3>1, FoundRevived
    <3> QED BY <1>3, <2>2, <3>2 DEF Turn, SchedulePRIORITY
  <2>3. CASE Return /\ UNCHANGED prev_tid
    BY <1>1, <1>3, <2>3 DEF TurnBack, SchedulePRIORITY
  <2> QED BY <1>3, <2>1, <2>2, <2>3 DEF SchedulePRIORITY
<1>4. CASE ScheduleROUNDROBIN
  <2>1. CASE Runnable # {} /\ SwitchTo(Following, state)
    <3>1. Following \in Runnable
      BY <1>1, <2>1, FollowingFacts
    <3>2. Searched(Following, state)
      BY <3>1, FoundRunnable
    <3> QED BY <1>4, <2>1, <3>2 DEF Turn, ScheduleROUNDROBIN
  <2>2. CASE prev_tid' = current_tid /\ Return
    BY <1>1, <1>4, <2>2 DEF TurnBack, ScheduleROUNDROBIN
  <2>3. CASE Return /\ UNCHANGED prev_tid
    BY <1>1, <1>4, <2>3 DEF TurnBack, ScheduleROUNDROBIN
  <2> QED BY <1>4, <2>1, <2>2, <2>3 DEF ScheduleROUNDROBIN
<1> QED BY <1>2, <1>3, <1>4


(* Initially the table is empty and main() runs.                            *)
LEMMA InitLibrary ==
  ASSUME Init
  PROVE  Library
<1>1. 0 \in Slots /\ Priorities \subseteq Int /\ MaxCreate \in Nat
  BY UlthreadAssumption
<1>2. TypeOK
  <2>1. FreshTids \in [Slots -> Slots \cup {-1}] /\ FreshTids[0] = 0
    BY <1>1 DEF FreshTids
  <2>2. context \in [Slots -> Context]
    BY <1>1 DEF Init
  <2>3. cpu \in Context
    BY <1>1 DEF Init
  <2>4. created \in 0 .. MaxCreate /\ unfinished \subseteq Threads
    BY <1>1 DEF Init
  <2>5. state \in [Slots -> {"FREE", "RUNNABLE", "YIELD"}] /\ state[0] = "RUNNABLE"
    BY <1>1 DEF Init
  <2>6. priority \in [Slots -> Int] /\ stop \in [Threads -> {0, 1}]
    BY DEF Init
  <2>7. /\ algorithm \in Algorithms /\ current_tid \in Slots /\ prev_tid \in Slots
        /\ scheduling \in BOOLEAN /\ inits \in Nat /\ misused \in BOOLEAN /\ tid = FreshTids
    BY <1>1 DEF Init
  <2> QED BY <2>1, <2>2, <2>3, <2>4, <2>5, <2>6, <2>7 DEF TypeOK
<1> QED BY <1>2 DEF Init, Library, RunsInSlot, OneYielded

(* A create changes one slot, the scheduler's only in its tid and context.  *)
LEMMA UnusedFacts ==
  UnusedSlot \in Slots /\ (UnusedSlot # 0 => UnusedSlot \in Thr /\ tid[UnusedSlot] = -1)
<1> DEFINE F == {i \in Thr : tid[i] = -1}
<1>1. CASE F = {}
  <2>1. UnusedSlot = 0
    BY <1>1 DEF UnusedSlot
  <2> QED BY <2>1, UlthreadAssumption
<1>2. CASE F # {}
  <2>1. Lowest(F) \in F
    <3>1. F \in SUBSET Slots
      OBVIOUS
    <3> HIDE DEF F
    <3> QED BY <1>2, <3>1, LowestFacts
  <2>2. UnusedSlot = Lowest(F)
    BY <1>2 DEF UnusedSlot
  <2> QED BY <2>1, <2>2
<1> QED BY <1>1, <1>2

(* ulthread_init() starts with a table of free slots.                       *)
LEMMA InitStepLibrary ==
  ASSUME Library, NEW a \in Algorithms, ulthread_init(a)
  PROVE  Library'
<1>1. TypeOK'
  <2>1. FreshTids \in [Slots -> Slots \cup {-1}] /\ FreshTids[0] = 0
    BY UlthreadAssumption DEF FreshTids
  <2>2. tid' = FreshTids
    BY DEF ulthread_init
  <2>3. state' = state
    BY DEF ulthread_init, Library, TypeOK
  <2>4. inits' \in Nat /\ misused' \in BOOLEAN /\ algorithm' \in Algorithms
    BY DEF ulthread_init, Library, TypeOK
  <2> QED BY <2>1, <2>2, <2>3, <2>4 DEF ulthread_init, Library, TypeOK
<1>2. OneYielded' /\ RunsInSlot'
  BY DEF ulthread_init, Library, TypeOK, OneYielded, RunsInSlot
<1> QED BY <1>1, <1>2 DEF Library

(* ulthread_create() makes the unused slot it found a thread.               *)
LEMMA CreateLibrary ==
  ASSUME Library, NEW pri \in Priorities, ulthread_create(pri)
  PROVE  Library'
<1> DEFINE i == UnusedSlot
<1>1. i \in Slots /\ pri \in Int /\ 0 \in Slots
  BY UnusedFacts, UlthreadAssumption
<1>2. created + 1 \in Threads /\ created + 1 \in 0 .. MaxCreate
  BY UlthreadAssumption DEF ulthread_create, Library, TypeOK
<1>3. /\ tid' = [tid EXCEPT ![i] = i] /\ state' = [state EXCEPT ![i] = "RUNNABLE"]
      /\ priority' = [priority EXCEPT ![i] = pri]
      /\ context' = [context EXCEPT ![i] = [who |-> created + 1, pt |-> 0]]
      /\ created' = created + 1 /\ unfinished' = unfinished \cup {created + 1}
      /\ misused' = (misused \/ i = 0)
      /\ UNCHANGED <<algorithm, current_tid, prev_tid, cpu, scheduling, inits, stop>>
  BY DEF ulthread_create
<1> HIDE DEF i
<1>4. TypeOK'
  <2>1. tid' \in [Slots -> Slots \cup {-1}] /\ tid'[0] = 0
    BY <1>1, <1>3 DEF Library, TypeOK
  <2>2. state' \in [Slots -> {"FREE", "RUNNABLE", "YIELD"}] /\ state'[0] = "RUNNABLE"
    BY <1>1, <1>3 DEF Library, TypeOK
  <2>3. priority' \in [Slots -> Int]
    BY <1>1, <1>3 DEF Library, TypeOK
  <2>4. context' \in [Slots -> Context]
    <3>1. [who |-> created + 1, pt |-> 0] \in Context
      BY <1>2
    <3> HIDE DEF Context
    <3> QED BY <1>1, <1>3, <3>1 DEF Library, TypeOK
  <2>5. created' \in 0 .. MaxCreate /\ unfinished' \subseteq Threads /\ misused' \in BOOLEAN
    BY <1>2, <1>3 DEF Library, TypeOK
  <2> QED BY <1>3, <2>1, <2>2, <2>3, <2>4, <2>5 DEF Library, TypeOK
<1>5. OneYielded'
  BY <1>1, <1>3 DEF Library, TypeOK, OneYielded
<1>6. RunsInSlot'
  BY <1>3 DEF Library, RunsInSlot
<1> QED BY <1>4, <1>5, <1>6 DEF Library

(* ulthread_schedule() switches to a thread of the table.                   *)
LEMMA TurnLibrary ==
  ASSUME Library, NEW nx, NEW st, Turn(nx, st)
  PROVE  Library'
<1> DEFINE g == Renew(st, current_tid)
<1>1. /\ g \in [Slots -> {"FREE", "RUNNABLE", "YIELD"}] /\ g[0] = "RUNNABLE"
      /\ \A i \in Thr : g[i] # "YIELD"
  BY RenewFacts DEF Library, Turn
<1>2. nx \in Thr /\ nx \in Slots /\ nx # 0 /\ 0 \in Slots
  BY UlthreadAssumption DEF Turn, Searched, Runnable, Yielded
<1>3. /\ prev_tid' = current_tid /\ current_tid' = nx /\ state' = g
      /\ context' = [context EXCEPT ![0] = cpu] /\ cpu' = context[nx]
      /\ UNCHANGED <<algorithm, tid, priority, scheduling, created, inits,
                     unfinished, stop, misused>>
  BY DEF Turn, SwitchTo
<1> HIDE DEF g
<1>4. TypeOK'
  <2>1. context' \in [Slots -> Context] /\ cpu' \in Context
    <3> HIDE DEF Context
    <3> QED BY <1>2, <1>3 DEF Library, TypeOK
  <2> QED BY <1>1, <1>2, <1>3, <2>1 DEF Library, TypeOK
<1>5. OneYielded' /\ RunsInSlot'
  BY <1>1, <1>2, <1>3 DEF OneYielded, RunsInSlot
<1> QED BY <1>4, <1>5 DEF Library

(* It returns to the first thread when it found none.                       *)
LEMMA TurnBackLibrary ==
  ASSUME Library, TurnBack
  PROVE  Library'
BY DEF TurnBack, Return, table, Library, TypeOK, RunsInSlot, OneYielded

(* A thread gives up the processor.                                         *)
LEMMA GiveUpLibrary ==
  ASSUME Library, ulthread_yield \/ ulthread_destroy
  PROVE  Library'
<1> DEFINE here == 1 - cpu.pt
<1>0. cpu.who \in 0 .. MaxCreate /\ cpu.pt \in {0, 1} /\ current_tid \in 0 .. MAXULTHREADS - 1
  BY DEF Library, TypeOK
<1>1. /\ cpu.who # 0 /\ cpu.who \in Threads /\ here \in {0, 1}
      /\ current_tid \in Thr /\ current_tid \in Slots /\ current_tid # 0
      /\ 0 \in Slots
  BY <1>0, UlthreadAssumption DEF ulthread_yield, ulthread_destroy, Library, RunsInSlot
<1>2. /\ context' = [context EXCEPT ![current_tid] = [who |-> cpu.who, pt |-> here]]
      /\ stop' = [stop EXCEPT ![cpu.who] = here] /\ cpu' = context[0]
  BY DEF ulthread_yield, ulthread_destroy, SwitchToScheduler, SaveSlot
<1>3. [who |-> cpu.who, pt |-> here] \in Context
  BY <1>1
<1> HIDE DEF here
<1>4. /\ context' \in [Slots -> Context] /\ cpu' \in Context
      /\ stop' \in [Threads -> {0, 1}]
  <2>1. stop' \in [Threads -> {0, 1}]
    BY <1>1, <1>2 DEF Library, TypeOK
  <2> HIDE DEF Context
  <2> QED BY <1>1, <1>2, <1>3, <2>1 DEF Library, TypeOK
<1>5. CASE ulthread_yield
  <2>1. TypeOK'
    BY <1>1, <1>4, <1>5 DEF ulthread_yield, Library, TypeOK
  <2>2. OneYielded' /\ RunsInSlot'
    BY <1>1, <1>5 DEF ulthread_yield, Library, TypeOK, OneYielded, RunsInSlot
  <2> QED BY <2>1, <2>2 DEF Library
<1>6. CASE ulthread_destroy
  <2>1. /\ state' \in [Slots -> {"FREE", "RUNNABLE", "YIELD"}] /\ state'[0] = "RUNNABLE"
        /\ tid' \in [Slots -> Slots \cup {-1}] /\ tid'[0] = 0
    BY <1>1, <1>6 DEF ulthread_destroy, Library, TypeOK
  <2>2. TypeOK'
    BY <1>1, <1>4, <1>6, <2>1 DEF ulthread_destroy, Library, TypeOK
  <2>3. OneYielded' /\ RunsInSlot'
    BY <1>1, <1>6 DEF ulthread_destroy, Library, TypeOK, OneYielded, RunsInSlot
  <2> QED BY <2>2, <2>3 DEF Library
<1> QED BY <1>5, <1>6

(* One step of the library.                                                 *)
LEMMA StepLibrary ==
  ASSUME Library, [Next]_vars
  PROVE  Library'
<1>1. CASE UNCHANGED vars
  BY <1>1 DEF vars, Library, TypeOK, RunsInSlot, OneYielded
<1>2. CASE ulthread_schedule
  BY <1>2 DEF ulthread_schedule, table, Library, TypeOK, RunsInSlot, OneYielded
<1>3. CASE ScheduleFCFS \/ SchedulePRIORITY \/ ScheduleROUNDROBIN
  BY <1>3, SchedulerTurns, TurnLibrary, TurnBackLibrary
<1> QED BY <1>1, <1>2, <1>3, InitStepLibrary, CreateLibrary, GiveUpLibrary DEF Next


-----------------------------------------------------------------------------
(* Where threads are kept.                                                  *)

(* Before the first create there is nothing to keep.                        *)
LEMMA InitKept ==
  ASSUME Init
  PROVE  Kept
BY UlthreadAssumption DEF Init, Kept, Numbered, Placed, Running, InUse

(* Without unfinished threads no slot is in use, so that a second           *)
(* ulthread_init forgets no thread.                                         *)
LEMMA InitStepKept ==
  ASSUME Library, Kept, NEW a, ulthread_init(a)
  PROVE  Kept'
<1> SUFFICES ASSUME ~misused' PROVE (Numbered /\ Placed /\ Running)'
  BY DEF Kept
<1>1. ~misused /\ unfinished = {} /\ state' = state /\ cpu.who = 0
  BY DEF ulthread_init, InMain, Library, TypeOK
<1>2. Numbered /\ Placed
  BY <1>1 DEF Kept
<1>3. \A i \in Thr : ~InUse(i)
  BY <1>1, <1>2 DEF Placed
<1>4. UNCHANGED <<context, cpu, created, unfinished, stop>>
  BY DEF ulthread_init
<1>5. Numbered'
  BY <1>2, <1>4 DEF Numbered
<1>6. Placed' /\ Running'
  BY <1>1, <1>3, <1>4 DEF Placed, Running, InUse
<1> QED BY <1>5, <1>6

(* A new thread gets a slot that no thread is in, and a number of its own.  *)
LEMMA CreateKept ==
  ASSUME Library, Kept, NEW pri \in Priorities, ulthread_create(pri)
  PROVE  Kept'
<1> DEFINE k == created + 1
<1> SUFFICES ASSUME ~misused' PROVE (Numbered /\ Placed /\ Running)'
  BY DEF Kept
<1>0. PICK s \in Slots : s = UnusedSlot
  BY UnusedFacts
<1>1. /\ state' = [state EXCEPT ![s] = "RUNNABLE"] /\ tid' = [tid EXCEPT ![s] = s]
      /\ context' = [context EXCEPT ![s] = [who |-> k, pt |-> 0]]
      /\ created' = k /\ unfinished' = unfinished \cup {k}
      /\ misused' = (misused \/ s = 0)
      /\ UNCHANGED <<current_tid, cpu, scheduling, stop>>
  BY <1>0 DEF ulthread_create
<1>2. ~misused /\ s # 0 /\ s \in Thr /\ tid[s] = -1 /\ Numbered /\ Placed /\ Running
  BY <1>0, <1>1, UnusedFacts DEF Kept
<1>3. /\ created \in Nat /\ k \in Threads /\ k \in Nat /\ k > created
      /\ unfinished \subseteq 1 .. created /\ k \notin unfinished /\ stop[k] = 0
  <2>1. created \in Nat /\ created < MaxCreate /\ MaxCreate \in Nat
    BY UlthreadAssumption DEF Library, TypeOK, ulthread_create
  <2>2. k \in Threads /\ k > created /\ k \in Nat /\ k \notin 1 .. created
    BY <2>1
  <2> QED BY <1>2, <2>1, <2>2 DEF Numbered
<1> HIDE DEF k
<1>4. 0 \notin Thr /\ Thr \subseteq Slots /\ current_tid \in Slots
  BY DEF Library, TypeOK
<1>5. ~InUse(s)
  BY <1>2, <1>4 DEF Placed
<1>6. \A i \in Thr : i # s => /\ InUse(i)' <=> InUse(i)
                              /\ context'[i] = context[i] /\ tid'[i] = tid[i]
  BY <1>1, <1>4 DEF InUse, Library, TypeOK
<1>7. InUse(s)' /\ context'[s].who = k /\ context'[s].pt = 0 /\ tid'[s] = s
  BY <1>1, <1>2, <1>4 DEF InUse, Library, TypeOK
<1>8. Numbered'
  <2>1. unfinished' \subseteq 1 .. created'
    BY <1>1, <1>3 DEF k
  <2>2. \A m \in Threads : m > created' => stop'[m] = 0
    <3> TAKE m \in Threads
    <3>1. m > k => m > created
      BY <1>3, UlthreadAssumption
    <3> QED BY <1>1, <1>2, <3>1 DEF Numbered
  <2> QED BY <2>1, <2>2 DEF Numbered
<1>9. Placed'
  <2>1. ASSUME NEW m \in unfinished' PROVE \E i \in Thr : InUse(i)' /\ context'[i].who = m
    <3>1. CASE m = k
      BY <1>2, <1>7, <3>1
    <3>2. CASE m \in unfinished
      <4>1. PICK i \in Thr : InUse(i) /\ context[i].who = m
        BY <1>2, <3>2 DEF Placed
      <4> QED BY <1>5, <1>6, <4>1
    <3> QED BY <1>1, <3>1, <3>2
  <2>2. ASSUME NEW i \in Thr, InUse(i)'
        PROVE  /\ context'[i].who \in unfinished' /\ tid'[i] = i
               /\ context'[i].pt = stop'[context'[i].who]
    <3>1. CASE i = s
      BY <1>1, <1>3, <1>7, <3>1
    <3>2. CASE i # s
      BY <1>1, <1>2, <1>6, <2>2, <3>2 DEF Placed
    <3> QED BY <3>1, <3>2
  <2>3. ASSUME NEW i \in Thr, NEW j \in Thr, InUse(i)', InUse(j)',
               context'[i].who = context'[j].who
        PROVE  i = j
    <3>1. \A h \in Thr : h # s /\ InUse(h)' => context'[h].who # k
      BY <1>2, <1>3, <1>6 DEF Placed
    <3>2. CASE i # s /\ j # s
      BY <1>2, <1>6, <2>3, <3>2 DEF Placed
    <3> QED BY <1>7, <2>3, <3>1, <3>2
  <2> QED BY <2>1, <2>2, <2>3 DEF Placed
<1>10. Running'
  <2>1. CASE cpu.who # 0
    <3>1. InUse(current_tid) /\ current_tid # s /\ current_tid \in Thr
      BY <1>2, <1>4, <1>5, <2>1 DEF Running, Library, RunsInSlot
    <3>2. context'[0] = context[0]
      BY <1>1, <1>2, <1>4, UlthreadAssumption DEF Library, TypeOK
    <3> QED BY <1>1, <1>2, <1>6, <2>1, <3>1, <3>2 DEF Running, InUse
  <2> QED BY <1>1, <2>1 DEF Running
<1> QED BY <1>8, <1>9, <1>10

(* The thread that a turn starts resumes from its own slot.                 *)
LEMMA TurnKept ==
  ASSUME Library, Kept, NEW nx, NEW st, Turn(nx, st)
  PROVE  Kept'
<1> SUFFICES ASSUME ~misused' PROVE (Numbered /\ Placed /\ Running)'
  BY DEF Kept
<1> DEFINE g == Renew(st, current_tid)
<1>1. \A i \in Slots : g[i] = "FREE" <=> state[i] = "FREE"
  BY RenewFacts DEF Library, Turn
<1>2. nx \in Thr /\ nx \in Slots /\ 0 \in Slots /\ InUse(nx) /\ Thr \subseteq Slots /\ 0 \notin Thr
  BY UlthreadAssumption DEF Turn, Searched, Runnable, Yielded, InUse
<1>3. /\ current_tid' = nx /\ state' = g /\ cpu.who = 0 /\ scheduling
      /\ context' = [context EXCEPT ![0] = cpu] /\ cpu' = context[nx]
      /\ UNCHANGED <<tid, scheduling, created, unfinished, stop, misused>>
  BY DEF Turn, SwitchTo, InLoop
<1> HIDE DEF g
<1>4. Numbered /\ Placed
  BY <1>3 DEF Kept
<1>5. \A i \in Thr : (InUse(i)' <=> InUse(i)) /\ context'[i] = context[i]
  BY <1>1, <1>2, <1>3 DEF InUse, Library, TypeOK
<1>6. Numbered'
  BY <1>3, <1>4 DEF Numbered
<1>7. Placed'
  BY <1>3, <1>4, <1>5 DEF Placed
<1>8. Running'
  <2>1. context'[0] = cpu
    BY <1>2, <1>3 DEF Library, TypeOK
  <2> QED BY <1>2, <1>3, <1>4, <1>5, <2>1 DEF Running, Placed, InUse
<1> QED BY <1>6, <1>7, <1>8

(* A thread that gives up the processor saves its context in its own slot,  *)
(* and main() resumes.                                                      *)
LEMMA GiveUpKept ==
  ASSUME Library, Kept, ulthread_yield \/ ulthread_destroy
  PROVE  Kept'
<1> SUFFICES ASSUME ~misused' PROVE (Numbered /\ Placed /\ Running)'
  BY DEF Kept
<1> DEFINE here == 1 - cpu.pt
<1> DEFINE c == current_tid
<1> DEFINE k == cpu.who
<1>1. /\ cpu.who # 0 /\ ~misused
      /\ context' = [context EXCEPT ![c] = [who |-> k, pt |-> here]]
      /\ stop' = [stop EXCEPT ![k] = here] /\ cpu' = context[0]
      /\ UNCHANGED <<current_tid, created>>
  BY DEF ulthread_yield, ulthread_destroy, SwitchToScheduler, SaveSlot
<1>2. /\ Numbered /\ Placed /\ InUse(c) /\ context[c].who = k /\ context[0].who = 0
      /\ c \in Thr /\ c \in Slots /\ Thr \subseteq Slots
  BY <1>1 DEF Kept, Running, Library, TypeOK, RunsInSlot
<1>3. k \in unfinished /\ k \in 1 .. created /\ k \in Threads /\ cpu'.who = 0
  <2>1. k \in unfinished
    BY <1>2 DEF Placed
  <2> QED BY <1>1, <1>2, <2>1 DEF Numbered, Library, TypeOK
<1> HIDE DEF here, c, k
<1>4. \A i \in Thr : i # c => context'[i] = context[i]
  BY <1>1, <1>2 DEF Library, TypeOK
<1>5. context'[c].who = k /\ context'[c].pt = here
  BY <1>1, <1>2 DEF Library, TypeOK
<1>6. stop'[k] = here /\ \A m \in Threads : m # k => stop'[m] = stop[m]
  BY <1>1, <1>3 DEF Library, TypeOK
<1>7. \A i \in Thr : i # c /\ InUse(i) =>
        /\ context[i].who \in Threads /\ context[i].who # k
        /\ context'[i].pt = stop'[context'[i].who]
  <2> SUFFICES ASSUME NEW i \in Thr, i # c, InUse(i)
               PROVE  /\ context[i].who \in Threads /\ context[i].who # k
                      /\ context'[i].pt = stop'[context'[i].who]
    OBVIOUS
  <2>1. context[i].who \in Threads /\ context[i].who # k
    BY <1>2 DEF Placed, Library, TypeOK
  <2> QED BY <1>2, <1>4, <1>6, <2>1 DEF Placed
<1>8. Running'
  BY <1>3 DEF Running
<1>9. unfinished' \subseteq unfinished
  BY DEF ulthread_yield, ulthread_destroy
<1>10. Numbered'
  <2>1. \A m \in Threads : m > created => m # k
    BY <1>3 DEF Library, TypeOK
  <2> QED BY <1>1, <1>2, <1>6, <1>9, <2>1 DEF Numbered
<1>11. CASE ulthread_yield
  <2>1. state' = [state EXCEPT ![c] = "YIELD"] /\ UNCHANGED <<tid, unfinished>>
    BY <1>11 DEF ulthread_yield, c
  <2>2. \A i \in Thr : InUse(i)' <=> InUse(i)
    BY <1>2, <2>1 DEF InUse, Library, TypeOK
  <2>3. \A i \in Thr : context'[i].who = context[i].who
    BY <1>2, <1>4, <1>5
  <2>4. \A i \in Thr : InUse(i) => context'[i].pt = stop'[context'[i].who]
    BY <1>5, <1>6, <1>7
  <2>5. Placed'
    BY <1>2, <2>1, <2>2, <2>3, <2>4 DEF Placed
  <2> QED BY <1>8, <1>10, <2>5
<1>12. CASE ulthread_destroy
  <2>1. /\ state' = [state EXCEPT ![c] = "FREE"] /\ tid' = [tid EXCEPT ![c] = -1]
        /\ unfinished' = unfinished \ {k}
    BY <1>12 DEF ulthread_destroy, c, k
  <2>2. \A i \in Thr : InUse(i)' <=> i # c /\ InUse(i)
    BY <1>2, <2>1 DEF InUse, Library, TypeOK
  <2>3. \A i \in Thr : i # c => tid'[i] = tid[i]
    BY <1>2, <2>1 DEF Library, TypeOK
  <2>4. ASSUME NEW m \in unfinished' PROVE \E i \in Thr : InUse(i)' /\ context'[i].who = m
    <3>1. PICK i \in Thr : InUse(i) /\ context[i].who = m
      BY <1>2, <2>1 DEF Placed
    <3>2. i # c
      BY <1>2, <2>1, <3>1
    <3> QED BY <1>4, <2>2, <3>1, <3>2
  <2>5. \A i \in Thr : InUse(i)' => /\ context'[i].who \in unfinished' /\ tid'[i] = i
                                    /\ context'[i].pt = stop'[context'[i].who]
    BY <1>2, <1>4, <1>7, <2>1, <2>2, <2>3 DEF Placed
  <2>6. \A i, j \in Thr : InUse(i)' /\ InUse(j)' /\ context'[i].who = context'[j].who => i = j
    BY <1>2, <1>4, <2>2 DEF Placed
  <2>7. Placed'
    BY <2>4, <2>5, <2>6 DEF Placed
  <2> QED BY <1>8, <1>10, <2>7
<1> QED BY <1>11, <1>12

(* One step keeps every thread in its place.                                *)
LEMMA StepKept ==
  ASSUME Library, Kept, [Next]_vars
  PROVE  Kept'
<1>1. CASE UNCHANGED vars
  BY <1>1 DEF vars, Kept, Numbered, Placed, Running, InUse
<1>2. CASE ulthread_schedule
  BY <1>2 DEF ulthread_schedule, InMain, table, Kept, Numbered, Placed, Running, InUse
<1>3. CASE TurnBack
  BY <1>3 DEF TurnBack, InLoop, Return, table, Kept, Numbered, Placed, Running, InUse
<1>4. CASE ScheduleFCFS \/ SchedulePRIORITY \/ ScheduleROUNDROBIN
  BY <1>3, <1>4, SchedulerTurns, TurnKept
<1> QED BY <1>1, <1>2, <1>4, InitStepKept, CreateKept, GiveUpKept DEF Next

-----------------------------------------------------------------------------
(* The library's promises.                                                  *)

(* Types: current_tid is always an index of the table, slot 0 is always the *)
(* scheduler's (ulthread.c:28-41), even after a create in a full table.     *)
THEOREM TypeCorrect == Spec => []TypeOK
<1>1. Library => TypeOK
  BY DEF Library
<1> QED BY <1>1, InitLibrary, StepLibrary, PTL DEF Spec

(* The inductive invariant.                                                 *)
LEMMA Inductive == Spec => []IInv
<1>1. Init => IInv
  BY InitLibrary, InitKept DEF IInv
<1>2. IInv /\ [Next]_vars => IInv'
  BY StepLibrary, StepKept DEF IInv
<1> QED BY <1>1, <1>2, PTL DEF Spec

(* Every unfinished thread is in exactly one slot, and a running thread is  *)
(* in the slot that get_current_tid() names.                                *)
THEOREM EveryThreadInItsSlot == Spec => []OneSlotEach
<1>1. IInv => OneSlotEach
  BY DEF IInv, Kept, Placed, Running, OneSlotEach, Library, RunsInSlot
<1> QED BY <1>1, Inductive, PTL

(* A thread resumes where it stopped, and main() finds its own frame.       *)
THEOREM ContextsKept == Spec => []ResumesInPlace
<1>1. IInv => ResumesInPlace
  BY DEF IInv, Kept, Placed, Running, ResumesInPlace
<1> QED BY <1>1, Inductive, PTL

(* With FCFS and PRIORITY the loop ends only after the last thread.         *)
THEOREM SchedulesToTheEnd == Spec => ReturnsWhenDone
<1> DEFINE P == algorithm # "ROUNDROBIN" /\ ~misused /\ scheduling /\ ~scheduling'
                => unfinished = {}
<1>1. IInv /\ [Next]_vars => [P]_vars
  <2> SUFFICES ASSUME IInv, Next, algorithm # "ROUNDROBIN", ~misused, scheduling, ~scheduling'
               PROVE  unfinished = {}
    BY DEF vars
  <2>1. (ScheduleFCFS \/ SchedulePRIORITY) /\ Runnable = {} /\ Revivable = {}
    BY DEF Next, ulthread_init, ulthread_create, ulthread_schedule, ScheduleFCFS,
           SchedulePRIORITY, ScheduleROUNDROBIN, SwitchTo, ulthread_yield,
           ulthread_destroy
  <2>2. \A i \in Thr : ~InUse(i)
    BY <2>1 DEF Runnable, Revivable, Yielded, InUse, IInv, Library, TypeOK
  <2> QED BY <2>2 DEF IInv, Kept, Placed
<1> QED BY <1>1, Inductive, PTL DEF Spec, ReturnsWhenDone

(* PRIORITY starts a thread that no other one exceeds, except perhaps the   *)
(* one that has just yielded; also after a misuse.                          *)
THEOREM HighestPriorityFirst == Spec => PriorityRespected
<1> DEFINE P == SchedulePRIORITY /\ cpu'.who # 0 =>
                  \A i \in Thr : InUse(i) /\ i # current_tid =>
                                   priority[i] <= priority[current_tid']
<1>1. Library /\ [Next]_vars => [P]_vars
  <2> SUFFICES ASSUME Library, SchedulePRIORITY, cpu'.who # 0,
                      NEW i \in Thr, InUse(i), i # current_tid
               PROVE  priority[i] <= priority[current_tid']
    OBVIOUS
  <2>1. /\ TypeOK /\ i \in Runnable /\ Runnable \in SUBSET Slots
    BY DEF Library, TypeOK, OneYielded, InUse, Runnable
  <2>2. SwitchTo(Climb(Lowest(Runnable), Runnable), state)
    BY <2>1 DEF SchedulePRIORITY
  <2>3. current_tid' = Climb(Lowest(Runnable), Runnable)
    BY <2>2 DEF SwitchTo
  <2> QED BY <2>1, <2>3, LowestFacts, ClimbFacts
<1>2. Spec => []Library
  BY InitLibrary, StepLibrary, PTL DEF Spec
<1> QED BY <1>1, <1>2, PTL DEF Spec, PriorityRespected


-----------------------------------------------------------------------------
(* The console.                                                             *)

\* #define INPUT_BUF_SIZE 128 and UART_TX_BUF_SIZE 32; 2^32 is one of the widths of an index.
CodeSizes ==
  /\ INPUT_BUF_SIZE = 128 /\ UART_TX_BUF_SIZE = 32
  /\ UintSize \in Nat /\ UintSize > 128 /\ UintSize % 128 = 0

Uint == 0..UintSize - 1
State == {"user", "acquire", "loop", "sleep", "put", "full"}

TypeInv ==
  /\ r \in Uint /\ w \in Uint /\ e \in Uint
  /\ buf \in [0..INPUT_BUF_SIZE - 1 -> Char]
  /\ txr \in Nat /\ txw \in Nat /\ txbuf \in [0..UART_TX_BUF_SIZE - 1 -> Char]
  /\ pc \in [Proc -> State]

\* r, w and e lie in this order on the circle of the uints.
RingInv == /\ Dist(r, w) + Dist(w, e) = Dist(r, e)
           /\ NeverStuck

TxInv == txr <= txw /\ txw <= txr + UART_TX_BUF_SIZE

ConsoleInv == TypeInv /\ RingInv /\ TxInv /\ SleepersJustified

----------------------------------------------------------------------------
(* Arithmetic of uints *)

\* Wrapping once.
LEMMA Wraps ==
  ASSUME CodeSizes, NEW x \in Int
  PROVE  /\ x \in 0..UintSize - 1 => x % UintSize = x
         /\ x \in UintSize..2 * UintSize - 1 => x % UintSize = x - UintSize
         /\ x \in -UintSize..-1 => x % UintSize = x + UintSize
BY DEF CodeSizes

\* Distances on the circle.
LEMMA DistIs ==
  ASSUME CodeSizes, NEW a \in Uint, NEW b \in Uint
  PROVE  Dist(a, b) = IF a <= b THEN b - a ELSE b - a + UintSize
<1>1. b - a \in Int /\ UintSize \in Nat
  BY DEF Uint, CodeSizes
<1> QED BY <1>1, Wraps DEF Dist, Uint

\* The next uint.
LEMMA SuccIs ==
  ASSUME CodeSizes, NEW a \in Uint
  PROVE  (a + 1) % UintSize = IF a = UintSize - 1 THEN 0 ELSE a + 1
<1>1. a + 1 \in Int /\ UintSize \in Nat /\ UintSize > 128
  BY DEF Uint, CodeSizes
<1> QED BY <1>1, Wraps DEF Uint

\* Some uints back.
LEMMA BackIs ==
  ASSUME CodeSizes, NEW a \in Uint, NEW k \in Uint
  PROVE  (a - k) % UintSize = IF k <= a THEN a - k ELSE a - k + UintSize
<1>1. a - k \in Int /\ UintSize \in Nat
  BY DEF Uint, CodeSizes
<1> QED BY <1>1, Wraps DEF Uint

\* Numbers less than 128 apart, up to a multiple of 128, differ modulo 128.
LEMMA ModDiffer ==
  ASSUME NEW x \in Int, NEW y \in Int, NEW u \in Int, u % 128 = 0,
         x - y \in 1..127 \/ x - y + u \in 1..127
  PROVE  x % 128 # y % 128
OBVIOUS

\* Fewer than INPUT_BUF_SIZE apart, two indices have different places in the ring, also when the
\* uint wraps between them, because its range is a multiple of INPUT_BUF_SIZE.
LEMMA PlacesDiffer ==
  ASSUME CodeSizes, NEW a \in Uint, NEW b \in Uint, NEW i \in Nat,
         i < Dist(a, b), Dist(a, b) < 128
  PROVE  At((a + i) % UintSize) # At(b)
<1>1. UintSize \in Nat /\ UintSize > 128 /\ UintSize % 128 = 0
  BY DEF CodeSizes
<1> DEFINE x == a + i
           c == x % UintSize
           d == Dist(a, b)
<1>2. /\ x \in Int /\ x = a + i /\ a \in Int /\ b \in Int
      /\ d \in Int /\ d = IF a <= b THEN b - a ELSE b - a + UintSize
  BY <1>1, DistIs DEF Uint
<1>3. x \in 0..2 * UintSize - 1
  BY <1>1, <1>2 DEF Uint
<1> HIDE DEF x, d
<1>4. c = IF x < UintSize THEN x ELSE x - UintSize
  <2>1. CASE x \in 0..UintSize - 1
    BY <1>1, <1>2, <2>1, Wraps
  <2>2. CASE x \in UintSize..2 * UintSize - 1
    BY <1>1, <1>2, <2>2, Wraps
  <2> QED BY <1>1, <1>2, <1>3, <2>1, <2>2
<1> HIDE DEF c
<1>5. i < d /\ d < 128
  BY DEF d
<1>6. c \in Int /\ (b - c \in 1..127 \/ b - c + UintSize \in 1..127)
  BY <1>1, <1>2, <1>4, <1>5 DEF Uint
<1>7. b % 128 # c % 128
  BY <1>1, <1>2, <1>6, ModDiffer
<1> QED BY <1>7 DEF CodeSizes, At, c, x

----------------------------------------------------------------------------
(* The input ring *)

\* What a step may do to the input ring: nothing, take a byte, erase some bytes, or append one.
TakesByte == /\ r # w /\ r' = (r + 1) % UintSize
             /\ UNCHANGED <<w, e, buf>>
Erases == /\ \E k \in 0..Dist(w, e) : e' = (e - k) % UintSize
          /\ UNCHANGED <<r, w, buf>>
Appends == /\ Dist(r, e) < INPUT_BUF_SIZE
           /\ \E c \in Char : buf' = [buf EXCEPT ![At(e)] = c]
           /\ e' = (e + 1) % UintSize
           /\ r' = r
           /\ \/ w' = e'
              \/ w' = w /\ Dist(r, e') # INPUT_BUF_SIZE

\* Every step does one of these (erasing nothing is the first).
LEMMA InputSteps ==
  ASSUME CodeSizes, ConsoleInv, [ConsoleNext]_consoleVars
  PROVE  UNCHANGED input \/ TakesByte \/ Erases \/ Appends
<1>1. CASE Erase
  <2>1. e # w /\ e' = (e - 1) % UintSize /\ UNCHANGED <<r, w, buf>>
    BY <1>1 DEF Erase, Before
  <2>2. 1 \in 0..Dist(w, e)
    BY <2>1, DistIs DEF ConsoleInv, TypeInv, CodeSizes, Uint
  <2> QED BY <2>1, <2>2 DEF Erases
<1>2. CASE KillLine
  BY <1>2 DEF KillLine, Erases
<1>3. ASSUME NEW c \in Char, Type(c) PROVE Appends
  BY <1>3 DEF Type, Appends
<1>4. ASSUME NEW p \in Proc, EndOfFile(p) \/ TakeByte(p)
      PROVE  UNCHANGED input \/ TakesByte
  BY <1>4 DEF EndOfFile, TakeByte, TakesByte, input
<1>5. ASSUME NEW p \in Proc, \/ Acquire(p) \/ NoInput(p) \/ ReadDone(p) \/ Kill(p)
                             \/ Write(p) \/ PutSleep(p)
                             \/ \E k \in Nat : Read(p, k)
                             \/ \E c \in Char : Put(p, c)
      PROVE  UNCHANGED input
  BY <1>5 DEF Acquire, NoInput, ReadDone, Kill, Write, PutSleep, Read, Put
<1>6. CASE TxReady \/ TxIntr
  BY <1>6 DEF TxReady, TxIntr
<1>7. CASE UNCHANGED consoleVars
  BY <1>7 DEF consoleVars
<1> QED BY <1>1, <1>2, <1>3, <1>4, <1>5, <1>6, <1>7 DEF ConsoleNext

\* The indices stay uints, and the ring stays an array of characters.
LEMMA InputTyped ==
  ASSUME CodeSizes, ConsoleInv, [ConsoleNext]_consoleVars
  PROVE  r' \in Uint /\ w' \in Uint /\ e' \in Uint /\ buf' \in [0..INPUT_BUF_SIZE - 1 -> Char]
<1>1. /\ r \in Uint /\ w \in Uint /\ e \in Uint /\ buf \in [0..INPUT_BUF_SIZE - 1 -> Char]
      /\ UintSize \in Nat /\ UintSize > 128
  BY DEF ConsoleInv, TypeInv, CodeSizes
<1>2. \A a \in Int : a % UintSize \in Uint
  BY <1>1 DEF Uint
<1>3. CASE UNCHANGED input
  BY <1>1, <1>3 DEF input
<1>4. CASE TakesByte
  <2>1. r + 1 \in Int
    BY <1>1 DEF Uint
  <2> QED BY <1>1, <1>2, <1>4, <2>1 DEF TakesByte
<1>5. CASE Erases
  <2>1. PICK k \in 0..Dist(w, e) : e' = (e - k) % UintSize
    BY <1>5 DEF Erases
  <2>2. k \in Int
    OBVIOUS
  <2>3. e - k \in Int
    BY <1>1, <2>2 DEF Uint
  <2> QED BY <1>1, <1>2, <1>5, <2>1, <2>3 DEF Erases
<1>6. CASE Appends
  <2>1. e + 1 \in Int
    BY <1>1 DEF Uint
  <2>2. e' \in Uint /\ w' \in Uint /\ r' \in Uint
    BY <1>1, <1>2, <1>6, <2>1 DEF Appends
  <2> QED BY <1>1, <1>6, <2>2 DEF Appends
<1> QED BY <1>3, <1>4, <1>5, <1>6, InputSteps

\* The order of the indices is kept, and a full ring can be read.
LEMMA RingStep ==
  ASSUME CodeSizes, ConsoleInv, [ConsoleNext]_consoleVars
  PROVE  RingInv'
<1> DEFINE D(a, b) == IF a <= b THEN b - a ELSE b - a + UintSize
<1>1. /\ r \in Uint /\ w \in Uint /\ e \in Uint /\ r' \in Uint /\ w' \in Uint /\ e' \in Uint
      /\ UintSize \in Nat /\ UintSize > 128
  BY InputTyped DEF ConsoleInv, TypeInv, CodeSizes
<1>2. /\ Dist(r, w) = D(r, w) /\ Dist(w, e) = D(w, e) /\ Dist(r, e) = D(r, e)
      /\ Dist(r', w') = D(r', w') /\ Dist(w', e') = D(w', e') /\ Dist(r', e') = D(r', e')
      /\ Dist(r, e') = D(r, e')
  BY <1>1, DistIs
<1>3. D(r, w) + D(w, e) = D(r, e) /\ D(r, e) <= 128 /\ (D(r, e) = 128 => w = e)
  BY <1>2 DEF ConsoleInv, RingInv, NeverStuck, CodeSizes
<1>4. SUFFICES /\ D(r', w') + D(w', e') = D(r', e')
               /\ D(r', e') <= 128 /\ (D(r', e') = 128 => w' = e')
  BY <1>2 DEF RingInv, NeverStuck, CodeSizes, Dist
<1>5. CASE UNCHANGED input
  BY <1>3, <1>5 DEF input
<1>6. CASE TakesByte
  <2>1. /\ r # w /\ w' = w /\ e' = e
        /\ r' = IF r = UintSize - 1 THEN 0 ELSE r + 1
    BY <1>1, <1>6, SuccIs DEF TakesByte
  <2> QED BY <1>1, <1>3, <2>1 DEF Uint
<1>7. CASE Erases
  <2>1. PICK k \in 0..Dist(w, e) : e' = (e - k) % UintSize
    BY <1>7 DEF Erases
  <2>2. r' = r /\ w' = w /\ k \in 0..D(w, e)
    BY <1>2, <1>7, <2>1 DEF Erases
  <2>3. k \in Uint
    BY <1>1, <2>2 DEF Uint
  <2>4. e' = IF k <= e THEN e - k ELSE e - k + UintSize
    BY <1>1, <2>1, <2>3, BackIs
  <2> QED BY <1>1, <1>3, <2>2, <2>3, <2>4 DEF Uint
<1>8. CASE Appends
  <2>1. /\ D(r, e) < 128 /\ r' = r
        /\ e' = IF e = UintSize - 1 THEN 0 ELSE e + 1
        /\ w' = e' \/ (w' = w /\ D(r, e') # 128)
    BY <1>1, <1>2, <1>8, SuccIs DEF Appends, CodeSizes
  <2>2. D(r, e') = D(r, e) + 1
    BY <1>1, <2>1 DEF Uint
  <2>3. CASE w' = e'
    BY <1>1, <2>1, <2>2, <2>3 DEF Uint
  <2>4. CASE w' = w /\ D(r, e') # 128
    <3>1. D(w, e) < 128
      BY <1>1, <1>3, <2>1 DEF Uint
    <3>2. D(w, e') = D(w, e) + 1
      BY <1>1, <2>1, <3>1 DEF Uint
    <3> QED BY <1>1, <1>3, <2>1, <2>2, <2>4, <3>2 DEF Uint
  <2> QED BY <2>1, <2>3, <2>4
<1> QED BY <1>5, <1>6, <1>7, <1>8, InputSteps

----------------------------------------------------------------------------
(* The transmit ring and the sleepers *)

\* What a step may do to the transmit ring: nothing, let the first byte go, append a byte, or both.
AppendsByte == /\ ~TxFull /\ txw' = txw + 1
               /\ \E c \in Char : txbuf' = [txbuf EXCEPT ![txw % UART_TX_BUF_SIZE] = c]
               /\ txr' \in {txr, txr + 1}
SendsByte == txr # txw /\ txr' = txr + 1 /\ UNCHANGED <<txw, txbuf>>

\* Every step does one of these.
LEMMA OutputSteps ==
  ASSUME [ConsoleNext]_consoleVars
  PROVE  UNCHANGED <<txr, txw, txbuf>> \/ AppendsByte \/ SendsByte
<1>1. CASE Erase \/ KillLine
  BY <1>1 DEF Erase, KillLine, Echo, output
<1>2. ASSUME NEW c \in Char, Type(c) PROVE UNCHANGED <<txr, txw, txbuf>>
  BY <1>2 DEF Type, Echo
<1>3. ASSUME NEW p \in Proc, \/ Acquire(p) \/ NoInput(p) \/ EndOfFile(p) \/ TakeByte(p)
                             \/ ReadDone(p) \/ Kill(p) \/ Write(p) \/ PutSleep(p)
                             \/ \E k \in Nat : Read(p, k)
      PROVE  UNCHANGED <<txr, txw, txbuf>>
  BY <1>3 DEF Acquire, NoInput, EndOfFile, TakeByte, ReadDone, Kill, Write, PutSleep, Read, output
<1>4. ASSUME NEW p \in Proc, NEW c \in Char, Put(p, c) PROVE AppendsByte
  BY <1>4 DEF Put, Start, AppendsByte
<1>5. CASE TxReady
  BY <1>5 DEF TxReady
<1>6. CASE TxIntr
  BY <1>6 DEF TxIntr, Start, SendsByte
<1>7. CASE UNCHANGED consoleVars
  BY <1>7 DEF consoleVars, output
<1> QED BY <1>1, <1>2, <1>3, <1>4, <1>5, <1>6, <1>7 DEF ConsoleNext

\* The transmit ring stays an array of characters and holds at most its size.
LEMMA OutputStep ==
  ASSUME CodeSizes, ConsoleInv, [ConsoleNext]_consoleVars
  PROVE  /\ txr' \in Nat /\ txw' \in Nat /\ txbuf' \in [0..UART_TX_BUF_SIZE - 1 -> Char]
         /\ TxInv'
<1>1. /\ txr \in Nat /\ txw \in Nat /\ txbuf \in [0..UART_TX_BUF_SIZE - 1 -> Char]
      /\ txr <= txw /\ txw <= txr + 32 /\ UART_TX_BUF_SIZE = 32
  BY DEF ConsoleInv, TypeInv, TxInv, CodeSizes
<1>2. CASE UNCHANGED <<txr, txw, txbuf>>
  BY <1>1, <1>2 DEF TxInv
<1>3. CASE AppendsByte
  <2>1. txr' \in Nat /\ txw' \in Nat /\ TxInv'
    <3>1. txw # txr + 32 /\ txw' = txw + 1 /\ (txr' = txr \/ txr' = txr + 1)
      BY <1>1, <1>3 DEF AppendsByte, TxFull
    <3>2. txr' \in Nat /\ txw' \in Nat /\ txr' <= txw' /\ txw' <= txr' + 32
      BY <1>1, <3>1
    <3> QED BY <1>1, <3>2 DEF TxInv
  <2>2. txbuf' \in [0..UART_TX_BUF_SIZE - 1 -> Char]
    BY <1>1, <1>3 DEF AppendsByte
  <2> QED BY <2>1, <2>2
<1>4. CASE SendsByte
  BY <1>1, <1>4 DEF SendsByte, TxInv
<1> QED BY <1>2, <1>3, <1>4, OutputSteps

\* A step leaves every process in a state of the model, asleep only for a reason.
LEMMA SleepStep ==
  ASSUME CodeSizes, ConsoleInv, [ConsoleNext]_consoleVars
  PROVE  pc' \in [Proc -> State] /\ SleepersJustified'
<1>1. /\ pc \in [Proc -> State]
      /\ \A q \in Proc : (pc[q] = "sleep" => r = w) /\ (pc[q] = "full" => TxFull)
  BY DEF ConsoleInv, TypeInv, SleepersJustified
<1>2. ASSUME pc' \in [Proc -> State],
             \A q \in Proc : (pc'[q] = "sleep" => r' = w') /\ (pc'[q] = "full" => TxFull')
      PROVE  pc' \in [Proc -> State] /\ SleepersJustified'
  BY <1>2 DEF SleepersJustified, TxFull
<1> USE DEF State
<1>3. CASE (Erase \/ KillLine) \/ TxReady \/ UNCHANGED consoleVars
  <2>1. UNCHANGED <<pc, r, w, txr, txw>>
    BY <1>3 DEF Erase, KillLine, TxReady, consoleVars, input, output, Echo
  <2> QED BY <1>1, <1>2, <2>1 DEF TxFull
<1>4. ASSUME NEW c \in Char, Type(c)
      PROVE  pc' \in [Proc -> State] /\ SleepersJustified'
  <2>1. /\ UNCHANGED <<r, txr, txw>>
        /\ pc' = Woken(pc, "sleep", "acquire") \/ UNCHANGED <<w, pc>>
    BY <1>4 DEF Type, Echo
  <2> QED BY <1>1, <1>2, <2>1 DEF Woken, TxFull
<1>5. ASSUME NEW p \in Proc, EndOfFile(p) \/ TakeByte(p)
      PROVE  pc' \in [Proc -> State] /\ SleepersJustified'
  <2>1. /\ r # w /\ UNCHANGED <<w, txr, txw>>
        /\ pc' = pc \/ pc' = [pc EXCEPT ![p] = "user"]
    BY <1>5 DEF EndOfFile, TakeByte, ReadReturns, Goto, output
  <2> QED BY <1>1, <1>2, <2>1 DEF TxFull
<1>6. ASSUME NEW p \in Proc, \/ Acquire(p) \/ ReadDone(p) \/ Kill(p) \/ Write(p)
                             \/ \E k \in Nat : Read(p, k)
      PROVE  pc' \in [Proc -> State] /\ SleepersJustified'
  <2>1. /\ UNCHANGED <<r, w, txr, txw>>
        /\ \E s \in State : pc' = [pc EXCEPT ![p] = s] /\ (s \in {"sleep", "full"} => pc[p] = s)
    BY <1>1, <1>6 DEF Acquire, ReadDone, Kill, Write, Read, ReadReturns, Goto, input, output
  <2> QED BY <1>1, <1>2, <2>1 DEF TxFull
<1>7. ASSUME NEW p \in Proc, NoInput(p)
      PROVE  pc' \in [Proc -> State] /\ SleepersJustified'
  BY <1>1, <1>2, <1>7 DEF NoInput, Goto, input, output, TxFull
<1>8. ASSUME NEW p \in Proc, PutSleep(p)
      PROVE  pc' \in [Proc -> State] /\ SleepersJustified'
  BY <1>1, <1>2, <1>8 DEF PutSleep, Goto, input, output, TxFull
<1>9. ASSUME NEW p \in Proc, NEW c \in Char, Put(p, c)
      PROVE  pc' \in [Proc -> State] /\ SleepersJustified'
  <2>1. ~TxFull /\ UNCHANGED <<r, w>>
    BY <1>9 DEF Put, input
  <2>2. PICK s \in {"put", "user"} : LET f == [pc EXCEPT ![p] = s]
                                    IN  pc' = f \/ pc' = Woken(f, "full", "put")
    BY <1>9 DEF Put, Start
  <2> QED BY <1>1, <1>2, <2>1, <2>2 DEF Woken
<1>10. CASE TxIntr
  <2>1. /\ UNCHANGED <<r, w, txw>>
        /\ pc' = Woken(pc, "full", "put") \/ UNCHANGED <<pc, txr>>
    BY <1>10 DEF TxIntr, Start, input
  <2> QED BY <1>1, <1>2, <2>1 DEF Woken, TxFull
<1> QED BY <1>3, <1>4, <1>5, <1>6, <1>7, <1>8, <1>9, <1>10 DEF ConsoleNext

----------------------------------------------------------------------------
(* Theorems *)

\* The invariant holds initially.
LEMMA ConsoleInitInv ==
  ASSUME CodeSizes, ConsoleInit
  PROVE  ConsoleInv
<1>1. TypeInv
  BY DEF ConsoleInit, TypeInv, CodeSizes, Uint, State
<1>2. Dist(0, 0) = 0
  BY DistIs DEF CodeSizes, Uint
<1>3. RingInv /\ TxInv
  BY <1>2 DEF ConsoleInit, RingInv, NeverStuck, TxInv, CodeSizes
<1>4. SleepersJustified
  BY DEF ConsoleInit, SleepersJustified
<1> QED BY <1>1, <1>3, <1>4 DEF ConsoleInv

\* Every step preserves the invariant.
LEMMA ConsoleStepInv ==
  ASSUME CodeSizes, ConsoleInv, [ConsoleNext]_consoleVars
  PROVE  ConsoleInv'
<1>1. TypeInv'
  BY InputTyped, OutputStep, SleepStep DEF TypeInv, Uint
<1> QED BY <1>1, RingStep, OutputStep, SleepStep DEF ConsoleInv

\* It holds in every reachable state.
LEMMA ConsoleInvariance == ASSUME CodeSizes PROVE ConsoleSpec => []ConsoleInv
BY ConsoleInitInv, ConsoleStepInv, PTL DEF ConsoleSpec

\* With the code's buffers the input ring never overflows, and a full ring can always be read, so
\* typing that stops at a full ring goes on after a read (consoleintr(), console.c:159-173).
THEOREM ConsoleNeverStuck == ASSUME CodeSizes PROVE ConsoleSpec => []NeverStuck
<1>1. ConsoleInv => NeverStuck
  BY DEF ConsoleInv, RingInv
<1> QED BY <1>1, ConsoleInvariance, PTL

\* Readers sleep only when nothing can be read, writers only when the transmit ring is full: no
\* wakeup of consoleintr() or uartstart() is lost (console.c:171-172, uart.c:150-153).
THEOREM ConsoleSleepers == ASSUME CodeSizes PROVE ConsoleSpec => []SleepersJustified
<1>1. ConsoleInv => SleepersJustified
  BY DEF ConsoleInv
<1> QED BY <1>1, ConsoleInvariance, PTL

\* A step from a good state keeps the lines that can be read.
LEMMA LinesKeptStep ==
  ASSUME CodeSizes, ConsoleInv, [ConsoleNext]_consoleVars
  PROVE  LinesKept
<1> DEFINE D(a, b) == IF a <= b THEN b - a ELSE b - a + UintSize
<1>1. /\ r \in Uint /\ w \in Uint /\ e \in Uint /\ r' \in Uint /\ w' \in Uint /\ e' \in Uint
      /\ UintSize \in Nat /\ UintSize > 128
      /\ buf \in [0..127 -> Char]
  BY InputTyped DEF ConsoleInv, TypeInv, CodeSizes
<1>2. /\ Dist(r, w) = D(r, w) /\ Dist(w, e) = D(w, e) /\ Dist(r, e) = D(r, e)
      /\ Dist(r, r') = D(r, r') /\ Dist(r, w') = D(r, w') /\ Dist(r, e') = D(r, e')
  BY <1>1, DistIs
<1>3. D(r, w) + D(w, e) = D(r, e) /\ D(r, e) <= 128
  BY <1>2 DEF ConsoleInv, RingInv, NeverStuck, CodeSizes
<1>4. SUFFICES ASSUME NEW i \in 0..Dist(r, w) - 1
               PROVE  \/ i < Dist(r, r')
                      \/ /\ i < Dist(r, w')
                         /\ buf'[At((r + i) % UintSize)] = buf[At((r + i) % UintSize)]
  BY DEF LinesKept
<1>5. i \in Nat /\ i < D(r, w)
  BY <1>1, <1>2 DEF Uint
<1>6. CASE UNCHANGED input \/ TakesByte \/ Erases
  <2>1. w' = w /\ buf' = buf
    BY <1>6 DEF input, TakesByte, Erases
  <2> QED BY <1>2, <1>5, <2>1
<1>7. CASE Appends
  <2>1. /\ D(r, e) < 128 /\ r' = r
        /\ e' = IF e = UintSize - 1 THEN 0 ELSE e + 1
        /\ w' = e' \/ w' = w
    BY <1>1, <1>2, <1>7, SuccIs DEF Appends, CodeSizes
  <2>2. D(r, e') = D(r, e) + 1 /\ D(r, w) <= D(r, e)
    BY <1>1, <1>3, <2>1 DEF Uint
  <2>3. i < D(r, w') /\ i < D(r, e)
    <3>1. D(r, w) \in Int /\ D(r, e) \in Int
      BY <1>1 DEF Uint
    <3>2. D(r, w') = D(r, w) \/ D(r, w') = D(r, e) + 1
      BY <2>1, <2>2
    <3> HIDE DEF D
    <3> QED BY <1>5, <2>2, <3>1, <3>2
  <2>4. At((r + i) % UintSize) # At(e)
    <3>1. i < Dist(r, e) /\ Dist(r, e) < 128
      BY <1>2, <2>1, <2>3
    <3>2. r \in Uint /\ e \in Uint /\ i \in Nat
      BY <1>1, <1>5
    <3> HIDE DEF D
    <3> QED BY <3>1, <3>2, PlacesDiffer
  <2>5. buf'[At((r + i) % UintSize)] = buf[At((r + i) % UintSize)]
    <3>1. PICK c \in Char : buf' = [buf EXCEPT ![At(e)] = c]
      BY <1>7 DEF Appends
    <3>2. At((r + i) % UintSize) \in 0..127
      <4>1. (r + i) % UintSize \in Int
        BY <1>1, <1>5 DEF Uint
      <4> QED BY <4>1 DEF At, CodeSizes
    <3> QED BY <1>1, <2>4, <3>1, <3>2
  <2> QED BY <1>2, <2>3, <2>5
<1> QED BY <1>6, <1>7, InputSteps

\* Bytes that can be read are not edited, overwritten or taken back before they are read, also when
\* the 32-bit indices wrap (consoleintr(), console.c:144-172).
THEOREM ConsoleLinesKept == ASSUME CodeSizes PROVE ConsoleSpec => LinesNeverChange
<1>1. ConsoleInv /\ [ConsoleNext]_consoleVars => [LinesKept]_consoleVars
  BY LinesKeptStep
<1> QED BY <1>1, ConsoleInvariance, PTL DEF ConsoleSpec, LinesNeverChange

\* A step from a good state keeps the bytes that wait for the UART.
LEMMA BytesKeptStep ==
  ASSUME CodeSizes, ConsoleInv, [ConsoleNext]_consoleVars
  PROVE  BytesKept
<1>1. /\ txr \in Nat /\ txw \in Nat /\ txbuf \in [0..31 -> Char]
      /\ txr <= txw /\ txw <= txr + 32 /\ UART_TX_BUF_SIZE = 32
  BY DEF ConsoleInv, TypeInv, TxInv, CodeSizes
<1>2. CASE UNCHANGED <<txr, txw, txbuf>> \/ SendsByte
  BY <1>1, <1>2 DEF SendsByte, BytesKept
<1>3. CASE AppendsByte
  <2>1. SUFFICES ASSUME NEW i \in txr..txw - 1
                 PROVE  i < txw' /\ txbuf'[i % 32] = txbuf[i % 32]
    BY <1>1 DEF BytesKept
  <2>2. i \in Int /\ txw' = txw + 1 /\ txw # txr + 32
    BY <1>1, <1>3 DEF AppendsByte, TxFull
  <2>3. PICK c \in Char : txbuf' = [txbuf EXCEPT ![txw % 32] = c]
    BY <1>1, <1>3 DEF AppendsByte
  <2>4. i % 32 # txw % 32 /\ i % 32 \in 0..31
    BY <1>1, <2>1, <2>2
  <2>5. i < txw'
    BY <1>1, <2>1, <2>2
  <2> QED BY <1>1, <2>3, <2>4, <2>5
<1> QED BY <1>2, <1>3, OutputSteps

\* Bytes written to the console reach the UART in order, each once: none is overwritten in the
\* transmit ring (uartputc(), uartstart(), uart.c:95-156).
THEOREM ConsoleBytesKept == ASSUME CodeSizes PROVE ConsoleSpec => BytesNeverChange
<1>1. ConsoleInv /\ [ConsoleNext]_consoleVars => [BytesKept]_consoleVars
  BY BytesKeptStep
<1> QED BY <1>1, ConsoleInvariance, PTL DEF ConsoleSpec, BytesNeverChange
=============================================================================
