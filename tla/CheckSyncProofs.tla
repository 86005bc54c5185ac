--------------------------- MODULE CheckSyncProofs ---------------------------
(***************************************************************************)
(* Proofs about CheckSync for any number of philosophers and meals: one    *)
(* thread inside the monitor, forks never shared, nobody hungry without a  *)
(* cause.  The invariant says on which queue a thread in each position can *)
(* be, that every semaphore has the tokens the positions account for, that *)
(* next_count and count are what they are meant to count, and that the one *)
(* thread inside while somebody sleeps on next is the one he woke.         *)
(***************************************************************************)
EXTENDS CheckSync, TLAPS
(* A semaphore. *)
Semaphore == [value : Nat, queue : Seq(Phil)]
(* No queue names a thread twice. *)
Distinct(m) ==
  \A s \in Sems : \A k, l \in DOMAIN m[s].queue :
    m[s].queue[k] = m[s].queue[l] => k = l

(* Taking the first waiter off a queue without repetitions. *)
LEMMA TailElems ==
  ASSUME NEW S, NEW q \in Seq(S), q # <<>>,
         \A k, l \in DOMAIN q : q[k] = q[l] => k = l
  PROVE  /\ Tail(q) \in Seq(S) /\ Head(q) \in {q[k] : k \in DOMAIN q}
         /\ {Tail(q)[k] : k \in DOMAIN Tail(q)} = {q[k] : k \in DOMAIN q} \ {Head(q)}
         /\ \A k, l \in DOMAIN Tail(q) : Tail(q)[k] = Tail(q)[l] => k = l
<1>1. /\ DOMAIN q = 1..Len(q) /\ Len(q) \in Nat \ {0} /\ Head(q) = q[1]
  OBVIOUS
<1>2. /\ Tail(q) \in Seq(S) /\ DOMAIN Tail(q) = 1..(Len(q) - 1)
      /\ \A k \in DOMAIN Tail(q) : Tail(q)[k] = q[k + 1] /\ k + 1 \in DOMAIN q /\ k + 1 # 1
  BY <1>1
<1>3. Head(q) \in {q[k] : k \in DOMAIN q}
  BY <1>1
<1>4. ASSUME NEW x \in {Tail(q)[k] : k \in DOMAIN Tail(q)}
      PROVE  x \in {q[k] : k \in DOMAIN q} \ {Head(q)}
  <2>1. PICK k \in DOMAIN Tail(q) : x = Tail(q)[k]
    OBVIOUS
  <2>2. x = q[k + 1] /\ k + 1 \in DOMAIN q /\ 1 \in DOMAIN q /\ k + 1 # 1
    BY <2>1, <1>2, <1>1
  <2>. QED
    BY <2>2, <1>1
<1>5. ASSUME NEW x \in {q[k] : k \in DOMAIN q} \ {Head(q)}
      PROVE  x \in {Tail(q)[k] : k \in DOMAIN Tail(q)}
  <2>1. PICK k \in DOMAIN q : x = q[k]
    OBVIOUS
  <2>2. k - 1 \in DOMAIN Tail(q) /\ (k - 1) + 1 = k
    BY <2>1, <1>1, <1>2
  <2>3. x = Tail(q)[k - 1]
    BY <2>1, <2>2, <1>2
  <2>. QED
    BY <2>2, <2>3
<1>6. ASSUME NEW k \in DOMAIN Tail(q), NEW l \in DOMAIN Tail(q), Tail(q)[k] = Tail(q)[l]
      PROVE  k = l
  <2>1. k + 1 = l + 1
    BY <1>2, <1>6
  <2>. QED
    BY <2>1, <1>2, <1>1
<1>. QED
  BY <1>2, <1>3, <1>4, <1>5, <1>6

(* Adding a waiter to a queue he is not on. *)
LEMMA AppendElems ==
  ASSUME NEW S, NEW q \in Seq(S), NEW t \in S, t \notin {q[k] : k \in DOMAIN q},
         \A k, l \in DOMAIN q : q[k] = q[l] => k = l
  PROVE  /\ Append(q, t) \in Seq(S)
         /\ {Append(q, t)[k] : k \in DOMAIN Append(q, t)} = {q[k] : k \in DOMAIN q} \cup {t}
         /\ \A k, l \in DOMAIN Append(q, t) : Append(q, t)[k] = Append(q, t)[l] => k = l
<1> DEFINE a == Append(q, t)
<1>1. /\ a \in Seq(S) /\ Len(q) \in Nat
      /\ DOMAIN q = 1..Len(q) /\ DOMAIN a = 1..(Len(q) + 1)
      /\ a[Len(q) + 1] = t
      /\ \A k \in DOMAIN q : a[k] = q[k]
  OBVIOUS
<1>2. \A k \in DOMAIN a : k \in DOMAIN q \/ k = Len(q) + 1
  BY <1>1
<1>3. {a[k] : k \in DOMAIN a} = {q[k] : k \in DOMAIN q} \cup {t}
  <2>1. ASSUME NEW x \in {a[k] : k \in DOMAIN a} PROVE x \in {q[k] : k \in DOMAIN q} \cup {t}
    BY <1>1, <1>2
  <2>2. ASSUME NEW x \in {q[k] : k \in DOMAIN q} \cup {t} PROVE x \in {a[k] : k \in DOMAIN a}
    <3>1. CASE x = t
      BY <3>1, <1>1
    <3>2. CASE x # t
      <4>1. PICK k \in DOMAIN q : x = q[k]
        BY <3>2
      <4>. QED
        BY <4>1, <1>1
    <3>. QED
      BY <3>1, <3>2
  <2>. HIDE DEF a
  <2>. QED
    BY <2>1, <2>2
<1>4. ASSUME NEW k \in DOMAIN a, NEW l \in DOMAIN a, a[k] = a[l] PROVE k = l
  <2>1. \A j \in DOMAIN q : q[j] # t
    OBVIOUS
  <2>. HIDE DEF a
  <2>. QED
    BY <1>1, <1>2, <1>4, <2>1
<1>. QED
  BY <1>1, <1>3, <1>4

(* up() adds a token, or lets exactly one waiter go. *)
LEMMA UpFacts ==
  ASSUME NEW m \in [Sems -> Semaphore], NEW s \in Sems, Distinct(m)
  PROVE  /\ Up(m, s) \in [Sems -> Semaphore] /\ Distinct(Up(m, s))
         /\ \A r \in Sems : r # s => Up(m, s)[r].value = m[r].value
                                     /\ Waiters(Up(m, s), r) = Waiters(m, r)
         /\ \/ /\ Waiters(m, s) = {} /\ Waiters(Up(m, s), s) = {}
               /\ Up(m, s)[s].value = m[s].value + 1
            \/ \E h \in Waiters(m, s) :
                 /\ Waiters(Up(m, s), s) = Waiters(m, s) \ {h}
                 /\ Up(m, s)[s].value = m[s].value
<1> DEFINE q == m[s].queue
<1>1. q \in Seq(Phil) /\ m[s].value \in Nat /\ m[s] \in Semaphore
  BY DEF Semaphore
<1>2. CASE q = <<>>
  <2>1. /\ Up(m, s) = [m EXCEPT ![s].value = @ + 1]
    BY <1>2 DEF Up
  <2>2. /\ Up(m, s)[s].queue = q /\ Up(m, s)[s].value = m[s].value + 1
        /\ \A r \in Sems \ {s} : Up(m, s)[r] = m[r]
        /\ Up(m, s) \in [Sems -> Semaphore]
    BY <1>1, <2>1 DEF Semaphore
  <2>. QED
    BY <2>2, <1>2 DEF Waiters, Distinct
<1>3. CASE q # <<>>
  <2>1. /\ Up(m, s) = [m EXCEPT ![s].queue = Tail(@)]
    BY <1>3 DEF Up
  <2>2. \A k, l \in DOMAIN q : q[k] = q[l] => k = l
    BY DEF Distinct
  <2>3. /\ Tail(q) \in Seq(Phil) /\ Head(q) \in {q[k] : k \in DOMAIN q}
        /\ {Tail(q)[k] : k \in DOMAIN Tail(q)} = {q[k] : k \in DOMAIN q} \ {Head(q)}
        /\ \A k, l \in DOMAIN Tail(q) : Tail(q)[k] = Tail(q)[l] => k = l
    BY <1>1, <1>3, <2>2, TailElems
  <2>4. /\ Up(m, s)[s].queue = Tail(q) /\ Up(m, s)[s].value = m[s].value
        /\ \A r \in Sems \ {s} : Up(m, s)[r] = m[r]
        /\ Up(m, s) \in [Sems -> Semaphore]
    BY <1>1, <2>1, <2>3 DEF Semaphore
  <2>5. Distinct(Up(m, s))
    BY <2>3, <2>4 DEF Distinct
  <2>6. \A r \in Sems : r # s => Up(m, s)[r].value = m[r].value /\ Waiters(Up(m, s), r) = Waiters(m, r)
    BY <2>4 DEF Waiters
  <2>7. Waiters(m, s) = {q[k] : k \in DOMAIN q}
    BY DEF Waiters
  <2>8. Waiters(Up(m, s), s) = {Tail(q)[k] : k \in DOMAIN Tail(q)}
    BY <2>4 DEF Waiters
  <2>9. Head(q) \in Waiters(m, s) /\ Waiters(Up(m, s), s) = Waiters(m, s) \ {Head(q)}
    BY <2>3, <2>7, <2>8
  <2>. QED
    BY <2>4, <2>5, <2>6, <2>9
<1>. QED
  BY <1>2, <1>3

(* down() takes a token, or adds exactly the caller to the queue. *)
LEMMA DownFacts ==
  ASSUME NEW m \in [Sems -> Semaphore], NEW s \in Sems, Distinct(m),
         NEW t \in Phil, t \notin Waiters(m, s)
  PROVE  /\ Down(m, s, t) \in [Sems -> Semaphore] /\ Distinct(Down(m, s, t))
         /\ \A r \in Sems : r # s => Down(m, s, t)[r].value = m[r].value
                                     /\ Waiters(Down(m, s, t), r) = Waiters(m, r)
         /\ Blocks(m, s) => /\ Waiters(Down(m, s, t), s) = Waiters(m, s) \cup {t}
                            /\ Down(m, s, t)[s].value = 0 /\ m[s].value = 0
         /\ ~ Blocks(m, s) => /\ Waiters(Down(m, s, t), s) = Waiters(m, s)
                              /\ Down(m, s, t)[s].value = m[s].value - 1 /\ m[s].value > 0
<1> DEFINE q == m[s].queue
<1>1. q \in Seq(Phil) /\ m[s].value \in Nat /\ m[s] \in Semaphore
  BY DEF Semaphore
<1>2. CASE m[s].value > 0
  <2>1. Down(m, s, t) = [m EXCEPT ![s].value = @ - 1]
    BY <1>2 DEF Down
  <2>2. /\ Down(m, s, t)[s].queue = q /\ Down(m, s, t)[s].value = m[s].value - 1
        /\ \A r \in Sems \ {s} : Down(m, s, t)[r] = m[r]
        /\ Down(m, s, t) \in [Sems -> Semaphore]
    BY <1>1, <1>2, <2>1 DEF Semaphore
  <2>. QED
    BY <1>1, <2>2, <1>2 DEF Waiters, Distinct, Blocks
<1>3. CASE ~ (m[s].value > 0)
  <2>1. Down(m, s, t) = [m EXCEPT ![s].queue = Append(@, t)]
    BY <1>3 DEF Down
  <2>2. (\A k, l \in DOMAIN q : q[k] = q[l] => k = l) /\ t \notin {q[k] : k \in DOMAIN q}
    BY DEF Distinct, Waiters
  <2>3. /\ Append(q, t) \in Seq(Phil)
        /\ {Append(q, t)[k] : k \in DOMAIN Append(q, t)} = {q[k] : k \in DOMAIN q} \cup {t}
        /\ \A k, l \in DOMAIN Append(q, t) : Append(q, t)[k] = Append(q, t)[l] => k = l
    BY <1>1, <2>2, AppendElems
  <2>4. /\ Down(m, s, t)[s].queue = Append(q, t) /\ Down(m, s, t)[s].value = m[s].value
        /\ \A r \in Sems \ {s} : Down(m, s, t)[r] = m[r]
        /\ Down(m, s, t) \in [Sems -> Semaphore]
    BY <1>1, <2>1, <2>3 DEF Semaphore
  <2>5. Distinct(Down(m, s, t))
    BY <2>3, <2>4 DEF Distinct
  <2>6. /\ \A r \in Sems : r # s => Down(m, s, t)[r].value = m[r].value
                                    /\ Waiters(Down(m, s, t), r) = Waiters(m, r)
        /\ Waiters(Down(m, s, t), s) = Waiters(m, s) \cup {t}
    BY <2>3, <2>4 DEF Waiters
  <2>. QED
    BY <1>1, <1>3, <2>4, <2>5, <2>6 DEF Blocks
<1>. QED
  BY <1>2, <1>3

(* i sleeps on a semaphore; by QueuePlaces, the same as Queued(i).           *)
Waiting(i) ==
  i \in Waiters(sem, Mutex) \/ i \in Waiters(sem, NextSem) \/ i \in Waiters(sem, i)
(* i is inside, or has been let in. *)
In(i) == pc[i] \in InMonitor /\ ~ Waiting(i)

(* Who waits on which semaphore. *)
QueuePlaces ==
  /\ \A i \in Waiters(sem, Mutex) : pc[i] \in {"hungry", "left"}
  /\ \A i \in Waiters(sem, NextSem) : pc[i] \in {"sig_left", "sig_right"}
  /\ \A j \in Phil : \A i \in Waiters(sem, j) : i = j /\ pc[i] \in {"fed", "waited"}
(* Positions of the two kinds of philosophers. *)
PhasePlaces ==
  /\ \A i \in Phil : pc[i] # "sig_self"
  /\ phase = "sema" => \A i \in Phil : pc[i] \notin {"waited", "leave_take", "sig_left", "sig_right"}
  /\ phase = "condvar" => \A i \in Phil : pc[i] # "fed"
  /\ phase = "done" => \A i \in Phil : pc[i] = "quit"
(* The running thread can run. *)
Runner == current # NULL => ~ Waiting(current) /\ ~ Asleep(current) /\ pc[current] # "quit"
(* A token is on s[i] only between the test by i itself and its down(). *)
Tokens ==
  /\ sem[NextSem].value = 0
  /\ \A j \in Phil :
       sem[j].value = IF phase = "sema" /\ pc[j] = "tested" /\ state[j] = "EATING" THEN 1 ELSE 0
(* count[i] is 1 exactly while i is in cond_wait. *)
Counts == \A i \in Phil : count[i] = IF pc[i] = "waited" THEN 1 ELSE 0
(* At most one thread is in cond_signal; meanwhile only the thread it woke, or it itself, is inside. *)
Signallers ==
  \/ next_count = 0 /\ \A i \in Phil : pc[i] \notin {"sig_left", "sig_right"}
  \/ /\ next_count = 1 /\ sem[Mutex].value = 0
     /\ \E t \in Phil : /\ pc[t] \in {"sig_left", "sig_right"}
                       /\ \A i \in Phil : pc[i] \in {"sig_left", "sig_right"} => i = t
     /\ \A i \in Phil : In(i) => pc[i] \in {"waited", "leave_take", "sig_left", "sig_right"}
(* OneInMonitor, without sets. *)
OneIn ==
  \/ sem[Mutex].value = 1 /\ \A i \in Phil : ~ In(i)
  \/ sem[Mutex].value = 0 /\ \E i \in Phil : In(i) /\ \A k \in Phil : In(k) => k = i
(* What state[i] is at each position of i. *)
Moods ==
  \A i \in Phil :
    /\ pc[i] \in {"leave_take", "dining", "put", "left"} => state[i] = "EATING"
    /\ pc[i] = "tested" => state[i] \in {"HUNGRY", "EATING"}
    /\ pc[i] \in {"waited", "fed"} => state[i] = IF Waiting(i) THEN "HUNGRY" ELSE "EATING"
    /\ pc[i] \in {"start", "thinking", "take", "hungry", "sig_left", "right", "sig_right", "leave_put", "quit"}
         => state[i] = "THINKING"
(* Neighbours do not eat together. *)
Apart ==
  N > 1 => \A i \in Phil : state[i] = "EATING" =>
             state[Left(i)] # "EATING" /\ state[Right(i)] # "EATING"
(* A hungry philosopher has a neighbour who eats, or will be tested next. *)
Causes ==
  \A i \in Phil : state[i] = "HUNGRY" =>
    \/ "EATING" \in {state[Left(i)], state[Right(i)]}
    \/ \E t \in Phil : pc[t] \in {"sig_left", "right"} /\ Right(t) = i

(* The inductive invariant. *)
IInv ==
  /\ TypeOK /\ Distinct(sem) /\ QueuePlaces /\ PhasePlaces /\ Runner /\ Tokens /\ Counts
  /\ Signallers /\ OneIn /\ Moods /\ Apart /\ Causes

(* Remainders that LEFT and RIGHT compute. *)
LEMMA ModSmall == ASSUME NEW n \in Nat \ {0}, NEW a \in 0..(n-1) PROVE a % n = a
  OBVIOUS

(* Remainders that LEFT and RIGHT compute. *)
LEMMA ModOver == ASSUME NEW n \in Nat \ {0}, NEW a \in n..(2*n-1) PROVE a % n = a - n
  OBVIOUS

(* LEFT and RIGHT without remainders. *)
LEMMA LeftIs == ASSUME NEW i \in Phil PROVE Left(i) = IF i = 0 THEN N - 1 ELSE i - 1
<1>1. CASE i = 0
  BY <1>1, CheckSyncAssumption, ModSmall DEF Left, Phil
<1>2. CASE i # 0
  <2>1. i - 1 + N \in N..(2 * N - 1)
    BY <1>2, CheckSyncAssumption DEF Phil
  <2>2. (i - 1 + N) % N = (i - 1 + N) - N
    BY <2>1, CheckSyncAssumption, ModOver
  <2>. QED
    BY <1>2, <2>2, CheckSyncAssumption DEF Left, Phil
<1> QED BY <1>1, <1>2

(* LEFT and RIGHT without remainders. *)
LEMMA RightIs == ASSUME NEW i \in Phil PROVE Right(i) = IF i = N - 1 THEN 0 ELSE i + 1
<1>1. CASE i = N - 1
  BY <1>1, CheckSyncAssumption, ModOver DEF Right, Phil
<1>2. CASE i # N - 1
  BY <1>2, CheckSyncAssumption, ModSmall DEF Right, Phil
<1> QED BY <1>1, <1>2

(* LEFT and RIGHT stay at the table and undo each other. *)
LEMMA Neighbours ==
  ASSUME NEW i \in Phil
  PROVE  /\ Left(i) \in Phil /\ Right(i) \in Phil
         /\ Left(Right(i)) = i /\ Right(Left(i)) = i
         /\ N > 1 => Left(i) # i /\ Right(i) # i
<1>1. Left(i) \in Phil /\ Right(i) \in Phil
  BY LeftIs, RightIs, CheckSyncAssumption DEF Phil
<1>2. Left(Right(i)) = i /\ Right(Left(i)) = i
  BY <1>1, LeftIs, RightIs, CheckSyncAssumption DEF Phil
<1>3. N > 1 => Left(i) # i /\ Right(i) # i
  BY LeftIs, RightIs, CheckSyncAssumption DEF Phil
<1>. QED
  BY <1>1, <1>2, <1>3

(* The semaphores are different objects. *)
LEMMA SemNames ==
  /\ Mutex \in Sems /\ NextSem \in Sems /\ \A j \in Phil : j \in Sems
  /\ Mutex \notin Phil /\ NextSem \notin Phil /\ Mutex # NextSem
BY CheckSyncAssumption DEF Mutex, NextSem, Sems, Phil

(* Only philosophers wait. *)
LEMMA Members == IInv => \A s \in Sems : \A k \in Waiters(sem, s) : k \in Phil
<1>. SUFFICES ASSUME IInv, NEW s \in Sems, NEW k \in Waiters(sem, s) PROVE k \in Phil
  OBVIOUS
<1>1. sem[s].queue \in Seq(Phil)
  BY DEF IInv, TypeOK
<1>. QED
  BY <1>1 DEF Waiters

(* The invariant holds at first. *)
LEMMA InitIInv == Init => IInv
<1>. SUFFICES ASSUME Init PROVE IInv
  OBVIOUS
<1>. USE DEF Init
<1>1. TypeOK /\ Distinct(sem)
  BY CheckSyncAssumption DEF TypeOK, FreshSems, SemInit, Distinct, PC, Mutex, Sems
<1>2. /\ \A s \in Sems : Waiters(sem, s) = {}
      /\ sem[Mutex].value = 1 /\ \A s \in Sems : s # Mutex => sem[s].value = 0
  BY Neighbours, SemNames DEF FreshSems, SemInit, Waiters
<1>3. /\ \A i \in Phil : ~ Waiting(i) /\ ~ In(i)
  BY <1>2, Neighbours, SemNames DEF Waiting, In, InMonitor
<1>. QED
  BY <1>1, <1>2, <1>3, Neighbours, SemNames DEF IInv, QueuePlaces, PhasePlaces, Runner, Tokens, Counts, Signallers, OneIn, Moods, Apart, Causes

(* schedule() keeps the invariant. *)
LEMMA ScheduleStep == ASSUME IInv, NEW i \in Phil, Schedule(i) PROVE IInv'
<1>. USE DEF IInv, Schedule
<1>1. TypeOK' /\ Distinct(sem)'
  BY DEF TypeOK, Distinct
<1>2. ~ Waiting(i)
  BY Neighbours, SemNames DEF Waiting, Queued
<1>. QED
  BY <1>1, <1>2, CheckSyncAssumption DEF QueuePlaces, PhasePlaces, Runner, Tokens, Counts, Signallers, OneIn, Moods, Apart, Causes, In, Waiting, Asleep

(* The end of a do_sleep keeps it. *)
LEMMA WakeUpStep == ASSUME IInv, NEW i \in Phil, WakeUp(i) PROVE IInv'
<1>. USE DEF IInv, WakeUp
<1>1. TypeOK' /\ Distinct(sem)'
  BY DEF TypeOK, Distinct, PC, Asleep
<1>2. /\ pc[i] \in {"thinking", "dining"} /\ pc'[i] = (IF pc[i] = "thinking" THEN "take" ELSE "put")
      /\ \A k \in Phil : k # i => pc'[k] = pc[k]
      /\ current # i
  BY CheckSyncAssumption DEF TypeOK, Asleep, Runner
<1>3. \A k \in Phil : (Waiting(k)' <=> Waiting(k)) /\ (In(k)' <=> In(k))
  BY <1>2 DEF Waiting, In, InMonitor
<1>4. QueuePlaces' /\ PhasePlaces' /\ Runner'
  BY <1>2, <1>3 DEF QueuePlaces, PhasePlaces, Runner, Asleep, TypeOK, Waiting
<1>5. Tokens' /\ Counts' /\ Signallers' /\ OneIn'
  BY <1>2, <1>3 DEF Tokens, Counts, Signallers, OneIn
<1>6. Moods' /\ Apart' /\ Causes'
  BY <1>2, <1>3 DEF Moods, Apart, Causes
<1>. QED
  BY <1>1, <1>4, <1>5, <1>6

(* The head of the loop of a philosopher keeps it. *)
LEMMA RoundStep == ASSUME IInv, NEW i \in Phil, Round(i) PROVE IInv'
<1>. USE DEF IInv
<1>0. UNCHANGED <<phase, sem, count, next_count, state>> /\ current = i /\ current' = NULL
  BY DEF Round
<1>1. TypeOK' /\ Distinct(sem)'
  <2>1. iter' \in [Phil -> 0..TIMES]
    <3>1. iter \in [Phil -> 0..TIMES] /\ iter[i] \in 0..TIMES /\ TIMES \in Nat
      BY CheckSyncAssumption DEF TypeOK
    <3>2. CASE iter[i] < TIMES
      <4>1. iter[i] + 1 \in 0..TIMES /\ iter' = [iter EXCEPT ![i] = iter[i] + 1]
        BY <3>1, <3>2 DEF Round
      <4>. QED
        BY <3>1, <4>1
    <3>3. CASE ~ (iter[i] < TIMES)
      BY <3>1, <3>3 DEF Round
    <3>. QED
      BY <3>2, <3>3
  <2>2. pc' \in [Phil -> PC]
    BY DEF Round, TypeOK, PC, Goto
  <2>. QED
    BY <1>0, <2>1, <2>2 DEF TypeOK, Distinct
<1>2. /\ pc[i] = "start" /\ pc'[i] \in {"thinking", "quit"}
      /\ \A k \in Phil : k # i => pc'[k] = pc[k]
      /\ i # NULL /\ ~ Waiting(i) /\ phase # "done"
  BY <1>0, CheckSyncAssumption DEF Round, Goto, TypeOK, Runner, PhasePlaces
<1>3. \A k \in Phil : (Waiting(k)' <=> Waiting(k)) /\ (In(k)' <=> In(k))
  BY <1>0, <1>2 DEF Waiting, In, InMonitor
<1>4. QueuePlaces' /\ PhasePlaces' /\ Runner'
  <2>1. QueuePlaces'
    BY <1>0, <1>2, SemNames, Members DEF QueuePlaces, Waiting
  <2>2. PhasePlaces'
    BY <1>0, <1>2 DEF PhasePlaces
  <2>. QED
    BY <1>0, <2>1, <2>2 DEF Runner
<1>5. Tokens' /\ Counts' /\ Signallers' /\ OneIn'
  BY <1>0, <1>2, <1>3 DEF Tokens, Counts, Signallers, OneIn
<1>6. Moods' /\ Apart' /\ Causes'
  BY <1>0, <1>2, <1>3 DEF Moods, Apart, Causes
<1>. QED
  BY <1>1, <1>4, <1>5, <1>6

(* The end of cond_signal keeps it. *)
LEMMA SignalledStep == ASSUME IInv, NEW i \in Phil, Signalled(i) PROVE IInv'
<1>. USE DEF IInv, Signalled, Goto
<1>1. /\ pc[i] \in {"sig_left", "sig_right"}
      /\ pc'[i] = (IF pc[i] = "sig_left" THEN "right" ELSE "leave_put")
      /\ \A k \in Phil : k # i => pc'[k] = pc[k]
      /\ i # NULL /\ ~ Waiting(i) /\ In(i)
  BY CheckSyncAssumption DEF TypeOK, Runner, PhasePlaces, Signalling, In, InMonitor
<1>2. /\ next_count = 1 /\ next_count' = 0 /\ sem[Mutex].value = 0 /\ phase = "condvar"
      /\ \A k \in Phil : k # i => pc[k] \notin {"sig_left", "sig_right"} /\ ~ In(k)
  BY <1>1 DEF Signallers, OneIn, PhasePlaces, TypeOK
<1>3. TypeOK' /\ Distinct(sem)'
  BY <1>1, <1>2 DEF TypeOK, Distinct, PC
<1>4. \A k \in Phil : (Waiting(k)' <=> Waiting(k)) /\ (In(k)' <=> In(k))
  BY <1>1 DEF Waiting, In, InMonitor
<1>5. QueuePlaces' /\ PhasePlaces' /\ Runner'
  BY <1>1, <1>2, <1>4 DEF QueuePlaces, PhasePlaces, Runner, TypeOK, Waiting, Asleep
<1>6. Tokens' /\ Counts' /\ Signallers' /\ OneIn'
  BY <1>1, <1>2, <1>4 DEF Tokens, Counts, Signallers, OneIn
<1>7. Moods' /\ Apart'
  BY <1>1, <1>4 DEF Moods, Apart
<1>8. Causes'
  BY <1>1, <1>4 DEF Causes
<1>. QED
  BY <1>3, <1>5, <1>6, <1>7, <1>8

(* The end of cond_wait keeps it. *)
LEMMA GotForksStep == ASSUME IInv, NEW i \in Phil, GotForks(i) PROVE IInv'
<1>. USE DEF IInv, GotForks, Goto
<1>1. /\ pc[i] \in {"tested", "waited"} /\ pc'[i] = "leave_take"
      /\ \A k \in Phil : k # i => pc'[k] = pc[k]
      /\ i # NULL /\ ~ Waiting(i) /\ In(i) /\ phase = "condvar"
  BY CheckSyncAssumption DEF TypeOK, Runner, In, InMonitor
<1>2. /\ state[i] = "EATING"
      /\ \A k \in Phil : count'[k] = IF k = i THEN 0 ELSE count[k]
  BY <1>1 DEF Moods, Counts, TypeOK
<1>3. TypeOK' /\ Distinct(sem)'
  BY <1>1, <1>2 DEF TypeOK, Distinct, PC, Counts
<1>4. \A k \in Phil : (Waiting(k)' <=> Waiting(k)) /\ (In(k)' <=> In(k))
  BY <1>1 DEF Waiting, In, InMonitor
<1>5. QueuePlaces' /\ PhasePlaces' /\ Runner'
  BY <1>1, <1>4 DEF QueuePlaces, PhasePlaces, Runner, TypeOK, Waiting, Asleep
<1>6. Tokens' /\ Counts' /\ OneIn'
  BY <1>1, <1>2, <1>4 DEF Tokens, Counts, OneIn
<1>7. Signallers'
  BY <1>1, <1>2, <1>4 DEF Signallers
<1>8. Moods' /\ Apart' /\ Causes'
  BY <1>1, <1>2, <1>4 DEF Moods, Apart, Causes
<1>. QED
  BY <1>3, <1>5, <1>6, <1>7, <1>8

(* down(mutex): at the door of the monitor.                                *)
LEMMA EnterStep ==
  ASSUME IInv, NEW i \in Phil, TakeForks(i) \/ PutForks(i)
  PROVE  IInv'
<1>. USE DEF IInv, TakeForks, PutForks, DownThen, Goto
<1>1. /\ \/ pc[i] = "take" /\ pc'[i] = "hungry"
         \/ pc[i] = "put" /\ pc'[i] = "left"
      /\ \A k \in Phil : k # i => pc'[k] = pc[k]
      /\ i # NULL /\ ~ Waiting(i) /\ ~ In(i) /\ phase # "done"
      /\ sem' = Down(sem, Mutex, i) /\ current' = IF Blocks(sem, Mutex) THEN NULL ELSE i
      /\ UNCHANGED <<phase, count, next_count, state, iter>>
  BY CheckSyncAssumption DEF TypeOK, Runner, In, InMonitor, PhasePlaces
<1>2. /\ sem' \in [Sems -> Semaphore] /\ Distinct(sem)'
      /\ \A r \in Sems : r # Mutex => sem'[r].value = sem[r].value /\ Waiters(sem', r) = Waiters(sem, r)
      /\ Blocks(sem, Mutex) => /\ Waiters(sem', Mutex) = Waiters(sem, Mutex) \cup {i}
                               /\ sem'[Mutex].value = 0 /\ sem[Mutex].value = 0
      /\ ~ Blocks(sem, Mutex) => /\ Waiters(sem', Mutex) = Waiters(sem, Mutex)
                                 /\ sem'[Mutex].value = sem[Mutex].value - 1 /\ sem[Mutex].value > 0
  <2>1. /\ sem \in [Sems -> Semaphore] /\ Mutex \in Sems /\ Distinct(sem) /\ i \notin Waiters(sem, Mutex)
    BY <1>1, Neighbours, SemNames DEF TypeOK, Semaphore, Waiting
  <2>2. Distinct(sem)' = Distinct(sem')
    BY DEF Distinct
  <2>. QED
    BY <1>1, <2>1, <2>2, DownFacts
<1>3. TypeOK'
  BY <1>1, <1>2 DEF TypeOK, PC, Semaphore
<1>4. /\ \A k \in Phil : k # i => (Waiting(k)' <=> Waiting(k)) /\ (In(k)' <=> In(k))
      /\ (Waiting(i)' <=> Blocks(sem, Mutex)) /\ (In(i)' <=> ~ Blocks(sem, Mutex))
  BY <1>1, <1>2, Neighbours, SemNames DEF Waiting, In, InMonitor
<1>5. QueuePlaces' /\ PhasePlaces' /\ Runner'
  <2>1. QueuePlaces'
    BY <1>1, <1>2, SemNames, Members DEF QueuePlaces, Waiting
  <2>2. PhasePlaces'
    BY <1>1 DEF PhasePlaces
  <2>3. Runner'
    BY <1>1, <1>4 DEF Runner, Asleep
  <2>. QED
    BY <2>1, <2>2, <2>3
<1>6. Tokens' /\ Counts' /\ OneIn'
  BY <1>1, <1>2, <1>4, Neighbours, SemNames DEF Tokens, Counts, OneIn
<1>7. Signallers'
  BY <1>1, <1>2, <1>4, Neighbours, SemNames DEF Signallers
<1>8. Moods' /\ Apart' /\ Causes'
  BY <1>1, <1>4, Neighbours, SemNames DEF Moods, Apart, Causes
<1>. QED
  BY <1>2, <1>3, <1>5, <1>6, <1>7, <1>8

(* What giving up the monitor does to the semaphores: nobody waits and it  *)
(* is free, or one waiter of mutex or of next is let in.                   *)
LEMMA LeaveFacts ==
  ASSUME IInv, NEW i \in Phil, In(i), pc[i] \notin {"sig_left", "sig_right"}
  PROVE  /\ Leave(sem) \in [Sems -> Semaphore] /\ Distinct(Leave(sem))
         /\ \A j \in Phil : Leave(sem)[j].value = sem[j].value /\ Waiters(Leave(sem), j) = Waiters(sem, j)
         /\ Leave(sem)[NextSem].value = 0
         /\ \/ /\ next_count = 0 /\ Leave(sem)[Mutex].value = 1
               /\ Waiters(Leave(sem), Mutex) = Waiters(sem, Mutex) /\ Waiters(Leave(sem), Mutex) = {}
               /\ Waiters(Leave(sem), NextSem) = Waiters(sem, NextSem)
            \/ /\ next_count = 0 /\ Leave(sem)[Mutex].value = 0
               /\ Waiters(Leave(sem), NextSem) = Waiters(sem, NextSem)
               /\ \E h \in Waiters(sem, Mutex) : Waiters(Leave(sem), Mutex) = Waiters(sem, Mutex) \ {h}
            \/ /\ next_count = 1 /\ Leave(sem)[Mutex].value = 0
               /\ Waiters(Leave(sem), Mutex) = Waiters(sem, Mutex)
               /\ \E h \in Waiters(sem, NextSem) : Waiters(Leave(sem), NextSem) = Waiters(sem, NextSem) \ {h}
<1>. USE DEF IInv
<1>1. sem \in [Sems -> Semaphore] /\ Distinct(sem)
  BY DEF TypeOK, Semaphore
<1>2. sem[Mutex].value = 0 /\ sem[NextSem].value = 0 /\ \A k \in Phil : In(k) => k = i
  BY DEF OneIn, Tokens
<1>3. CASE next_count = 0
  <2>1. Leave(sem) = Up(sem, Mutex)
    BY <1>3 DEF Leave
  <2>2. /\ Up(sem, Mutex) \in [Sems -> Semaphore] /\ Distinct(Up(sem, Mutex))
        /\ \A r \in Sems : r # Mutex => Up(sem, Mutex)[r].value = sem[r].value
                                        /\ Waiters(Up(sem, Mutex), r) = Waiters(sem, r)
        /\ \/ /\ Waiters(sem, Mutex) = {} /\ Waiters(Up(sem, Mutex), Mutex) = {}
              /\ Up(sem, Mutex)[Mutex].value = sem[Mutex].value + 1
           \/ \E h \in Waiters(sem, Mutex) :
                /\ Waiters(Up(sem, Mutex), Mutex) = Waiters(sem, Mutex) \ {h}
                /\ Up(sem, Mutex)[Mutex].value = sem[Mutex].value
    BY <1>1, SemNames, UpFacts
  <2>3. /\ \A j \in Phil : Leave(sem)[j].value = sem[j].value /\ Waiters(Leave(sem), j) = Waiters(sem, j)
        /\ Leave(sem)[NextSem].value = 0
        /\ Waiters(Leave(sem), NextSem) = Waiters(sem, NextSem)
    BY <1>2, <2>1, <2>2, SemNames
  <2>4. \/ /\ Leave(sem)[Mutex].value = 1
           /\ Waiters(Leave(sem), Mutex) = {} /\ Waiters(sem, Mutex) = {}
        \/ /\ Leave(sem)[Mutex].value = 0
           /\ \E h \in Waiters(sem, Mutex) : Waiters(Leave(sem), Mutex) = Waiters(sem, Mutex) \ {h}
    BY <1>2, <2>1, <2>2
  <2>. QED
    BY <1>3, <2>1, <2>2, <2>3, <2>4
<1>4. CASE next_count # 0
  <2>1. /\ next_count = 1 /\ phase = "condvar"
        /\ \E t \in Phil : pc[t] \in {"sig_left", "sig_right"}
    BY <1>4 DEF Signallers, PhasePlaces, TypeOK
  <2>2. PICK t \in Phil : pc[t] \in {"sig_left", "sig_right"}
    BY <2>1
  <2>3. t \in Waiters(sem, NextSem)
    <3>1. ~ In(t)
      BY <1>2, <2>2
    <3>2. Waiting(t)
      BY <2>2, <3>1 DEF In, InMonitor
    <3>. QED
      BY <2>2, <3>2 DEF Waiting, QueuePlaces
  <2>4. Leave(sem) = Up(sem, NextSem)
    BY <2>1 DEF Leave
  <2>5. /\ Up(sem, NextSem) \in [Sems -> Semaphore] /\ Distinct(Up(sem, NextSem))
        /\ \A r \in Sems : r # NextSem => Up(sem, NextSem)[r].value = sem[r].value
                                        /\ Waiters(Up(sem, NextSem), r) = Waiters(sem, r)
        /\ \/ /\ Waiters(sem, NextSem) = {} /\ Waiters(Up(sem, NextSem), NextSem) = {}
              /\ Up(sem, NextSem)[NextSem].value = sem[NextSem].value + 1
           \/ \E h \in Waiters(sem, NextSem) :
                /\ Waiters(Up(sem, NextSem), NextSem) = Waiters(sem, NextSem) \ {h}
                /\ Up(sem, NextSem)[NextSem].value = sem[NextSem].value
    BY <1>1, SemNames, UpFacts
  <2>. QED
    BY <1>2, <2>1, <2>3, <2>4, <2>5, SemNames
<1>. QED
  BY <1>3, <1>4

(* A step in which i leaves the monitor for good.                          *)
LEMMA LeaveStep ==
  ASSUME IInv, NEW i \in Phil,
         (Eat(i) /\ pc[i] = "leave_take") \/ LeavePut(i)
  PROVE  IInv'
<1>. USE DEF IInv
<1>1. /\ \/ pc[i] = "leave_take" /\ pc'[i] = "dining" /\ current' = NULL
         \/ pc[i] = "leave_put" /\ pc'[i] = "start" /\ current' = i
      /\ \A k \in Phil : k # i => pc'[k] = pc[k]
      /\ pc' \in [Phil -> PC]
      /\ i # NULL /\ ~ Waiting(i) /\ In(i) /\ phase # "done"
      /\ sem' = Leave(sem)
      /\ UNCHANGED <<phase, count, next_count, state, iter>>
  BY CheckSyncAssumption DEF TypeOK, Runner, In, InMonitor, PhasePlaces, Eat, LeavePut, Goto, PC
<1>2. /\ sem' \in [Sems -> Semaphore] /\ Distinct(sem')
      /\ \A j \in Phil : sem'[j].value = sem[j].value /\ Waiters(sem', j) = Waiters(sem, j)
      /\ sem'[NextSem].value = 0
      /\ \/ /\ next_count = 0 /\ sem'[Mutex].value = 1
            /\ Waiters(sem', Mutex) = Waiters(sem, Mutex) /\ Waiters(sem', Mutex) = {}
            /\ Waiters(sem', NextSem) = Waiters(sem, NextSem)
         \/ /\ next_count = 0 /\ sem'[Mutex].value = 0
            /\ Waiters(sem', NextSem) = Waiters(sem, NextSem)
            /\ \E h \in Waiters(sem, Mutex) : Waiters(sem', Mutex) = Waiters(sem, Mutex) \ {h}
         \/ /\ next_count = 1 /\ sem'[Mutex].value = 0
            /\ Waiters(sem', Mutex) = Waiters(sem, Mutex)
            /\ \E h \in Waiters(sem, NextSem) : Waiters(sem', NextSem) = Waiters(sem, NextSem) \ {h}
  BY <1>1, LeaveFacts
<1>3. TypeOK' /\ Distinct(sem)'
  BY <1>1, <1>2 DEF TypeOK, Semaphore, Distinct
<1>4. \A k \in Phil : k # i => ~ In(k)
  BY <1>1 DEF OneIn
<1>5. ~ Waiting(i)' /\ ~ In(i)' /\ \A k \in Phil : Waiting(k)' => Waiting(k)
  BY <1>1, <1>2 DEF Waiting, In, InMonitor
<1>6. \/ /\ next_count = 0 /\ sem'[Mutex].value = 1
         /\ \A k \in Phil : (Waiting(k)' <=> Waiting(k)) /\ ~ In(k)'
      \/ /\ sem'[Mutex].value = 0
         /\ \E h \in Phil : /\ h # i /\ Waiting(h) /\ ~ Waiting(h)' /\ In(h)'
                            /\ \A k \in Phil : k # h => (Waiting(k)' <=> Waiting(k)) /\ ~ In(k)'
                            /\ \/ next_count = 0 /\ pc[h] \in {"hungry", "left"}
                               \/ next_count = 1 /\ pc[h] \in {"sig_left", "sig_right"}
  <2>1. CASE Waiters(sem', Mutex) = Waiters(sem, Mutex) /\ Waiters(sem', NextSem) = Waiters(sem, NextSem)
             /\ sem'[Mutex].value = 1 /\ next_count = 0
    <3>1. \A k \in Phil : Waiting(k)' <=> Waiting(k)
      BY <2>1, <1>2 DEF Waiting
    <3>. QED
      BY <3>1, <2>1, <1>1, <1>4, <1>5 DEF In
  <2>2. ASSUME NEW r \in {Mutex, NextSem}, NEW h \in Waiters(sem, r),
               Waiters(sem', r) = Waiters(sem, r) \ {h},
               \A q \in {Mutex, NextSem} : q # r => Waiters(sem', q) = Waiters(sem, q),
               sem'[Mutex].value = 0,
               next_count = IF r = Mutex THEN 0 ELSE 1
        PROVE  /\ h # i /\ h \in Phil /\ Waiting(h) /\ ~ Waiting(h)' /\ In(h)'
               /\ \A k \in Phil : k # h => (Waiting(k)' <=> Waiting(k)) /\ ~ In(k)'
               /\ \/ next_count = 0 /\ pc[h] \in {"hungry", "left"}
                  \/ next_count = 1 /\ pc[h] \in {"sig_left", "sig_right"}
    <3>1. h \in Phil /\ Waiting(h) /\ h # i
      BY <1>1, SemNames, Members DEF Waiting
    <3>2. \/ r = Mutex /\ next_count = 0 /\ pc[h] \in {"hungry", "left"}
          \/ r = NextSem /\ next_count = 1 /\ pc[h] \in {"sig_left", "sig_right"}
      BY <2>2, SemNames DEF QueuePlaces
    <3>3. ~ Waiting(h)'
      BY <2>2, <3>1, <3>2, <1>2, SemNames DEF Waiting, QueuePlaces
    <3>4. In(h)'
      BY <3>1, <3>2, <3>3, <1>1 DEF In, InMonitor
    <3>5. \A k \in Phil : k # h => (Waiting(k)' <=> Waiting(k))
      BY <2>2, <1>2, SemNames DEF Waiting
    <3>6. \A k \in Phil : k # h => ~ In(k)'
      BY <3>5, <1>1, <1>4, <1>5 DEF In
    <3>. QED
      BY <3>1, <3>2, <3>3, <3>4, <3>5, <3>6
  <2>3. CASE next_count = 0 /\ sem'[Mutex].value = 0
            /\ Waiters(sem', NextSem) = Waiters(sem, NextSem)
            /\ \E h \in Waiters(sem, Mutex) : Waiters(sem', Mutex) = Waiters(sem, Mutex) \ {h}
    BY <2>2, <2>3, SemNames
  <2>4. CASE next_count = 1 /\ sem'[Mutex].value = 0
            /\ Waiters(sem', Mutex) = Waiters(sem, Mutex)
            /\ \E h \in Waiters(sem, NextSem) : Waiters(sem', NextSem) = Waiters(sem, NextSem) \ {h}
    BY <2>2, <2>4, SemNames
  <2>. QED
    BY <1>2, <2>1, <2>3, <2>4
<1>7. QueuePlaces'
  BY <1>1, <1>2, SemNames, Members DEF QueuePlaces, Waiting
<1>8. PhasePlaces' /\ Counts'
  BY <1>1 DEF PhasePlaces, Counts
<1>9. Runner' /\ Tokens'
  BY <1>1, <1>2, <1>5 DEF Runner, Tokens, Asleep
<1>10. OneIn'
  BY <1>6 DEF OneIn
<1>11. Signallers'
  BY <1>1, <1>6 DEF Signallers
<1>12. Moods'
  BY <1>1, <1>6 DEF Moods
<1>13. Apart' /\ Causes'
  BY <1>1 DEF Apart, Causes
<1>. QED
  BY <1>3, <1>7, <1>8, <1>9, <1>10, <1>11, <1>12, <1>13

(* With semaphores, eating starts outside the critical section.            *)
LEMMA FedStep == ASSUME IInv, NEW i \in Phil, Eat(i), pc[i] = "fed" PROVE IInv'
<1>. USE DEF IInv
<1>1. /\ pc[i] = "fed" /\ pc'[i] = "dining" /\ current' = NULL
      /\ \A k \in Phil : k # i => pc'[k] = pc[k]
      /\ pc' \in [Phil -> PC]
      /\ i # NULL /\ ~ Waiting(i) /\ phase = "sema" /\ state[i] = "EATING"
      /\ UNCHANGED <<phase, sem, count, next_count, state, iter>>
  BY CheckSyncAssumption DEF TypeOK, Runner, PhasePlaces, Eat, Goto, PC, Moods
<1>2. TypeOK' /\ Distinct(sem)'
  BY <1>1 DEF TypeOK, Distinct
<1>3. \A k \in Phil : (Waiting(k)' <=> Waiting(k)) /\ (In(k)' <=> In(k))
  BY <1>1 DEF Waiting, In, InMonitor
<1>4. QueuePlaces'
  BY <1>1, SemNames, Members DEF QueuePlaces, Waiting
<1>5. PhasePlaces' /\ Runner' /\ Counts' /\ Tokens'
  BY <1>1 DEF PhasePlaces, Runner, Counts, Tokens
<1>6. Signallers' /\ OneIn'
  BY <1>1, <1>3 DEF Signallers, OneIn
<1>7. Moods' /\ Apart' /\ Causes'
  BY <1>1, <1>3 DEF Moods, Apart, Causes
<1>. QED
  BY <1>2, <1>4, <1>5, <1>6, <1>7

(* Giving up the critical section to wait for forks: cond_wait, or up of   *)
(* the mutex followed by down of the own semaphore.                        *)
LEMMA WaitStep == ASSUME IInv, NEW i \in Phil, WaitFork(i) \/ CondWait(i) PROVE IInv'
<1>. USE DEF IInv
<1> DEFINE m == Leave(sem)
<1>1. /\ pc[i] = "tested" /\ \/ phase = "sema" /\ pc'[i] = "fed" /\ count' = count
                             \/ /\ phase = "condvar" /\ pc'[i] = "waited" /\ state[i] = "HUNGRY"
                                /\ count' = [count EXCEPT ![i] = @ + 1]
      /\ \A k \in Phil : k # i => pc'[k] = pc[k]
      /\ pc' \in [Phil -> PC]
      /\ i # NULL /\ ~ Waiting(i) /\ In(i) /\ state[i] \in {"HUNGRY", "EATING"}
      /\ sem' = Down(m, i, i) /\ current' = IF Blocks(m, i) THEN NULL ELSE i
      /\ UNCHANGED <<phase, next_count, state, iter>>
  BY CheckSyncAssumption DEF TypeOK, Runner, In, InMonitor, WaitFork, CondWait, DownThen, Goto, PC, Moods
<1>2. /\ m \in [Sems -> Semaphore] /\ Distinct(m)
      /\ \A j \in Phil : m[j].value = sem[j].value /\ Waiters(m, j) = Waiters(sem, j)
      /\ m[NextSem].value = 0 /\ next_count = 0
      /\ Waiters(m, NextSem) = Waiters(sem, NextSem)
      /\ \/ /\ m[Mutex].value = 1
            /\ Waiters(m, Mutex) = Waiters(sem, Mutex) /\ Waiters(m, Mutex) = {}
         \/ /\ m[Mutex].value = 0
            /\ \E h \in Waiters(sem, Mutex) : Waiters(m, Mutex) = Waiters(sem, Mutex) \ {h}
  <2>1. next_count = 0
    BY <1>1 DEF Signallers
  <2>. HIDE DEF m
  <2>2. /\ m \in [Sems -> Semaphore] /\ Distinct(m)
        /\ \A j \in Phil : m[j].value = sem[j].value /\ Waiters(m, j) = Waiters(sem, j)
        /\ m[NextSem].value = 0
        /\ \/ /\ next_count = 0 /\ m[Mutex].value = 1
              /\ Waiters(m, Mutex) = Waiters(sem, Mutex) /\ Waiters(m, Mutex) = {}
              /\ Waiters(m, NextSem) = Waiters(sem, NextSem)
           \/ /\ next_count = 0 /\ m[Mutex].value = 0
              /\ Waiters(m, NextSem) = Waiters(sem, NextSem)
              /\ \E h \in Waiters(sem, Mutex) : Waiters(m, Mutex) = Waiters(sem, Mutex) \ {h}
           \/ next_count = 1
    BY <1>1, LeaveFacts DEF m
  <2>. QED
    BY <2>1, <2>2
<1>. HIDE DEF m
<1>3. /\ sem' \in [Sems -> Semaphore] /\ Distinct(sem')
      /\ \A r \in Sems : r # i => sem'[r].value = m[r].value /\ Waiters(sem', r) = Waiters(m, r)
      /\ Blocks(m, i) => /\ Waiters(sem', i) = Waiters(m, i) \cup {i}
                         /\ sem'[i].value = 0 /\ m[i].value = 0
      /\ ~ Blocks(m, i) => /\ Waiters(sem', i) = Waiters(m, i)
                           /\ sem'[i].value = m[i].value - 1 /\ m[i].value > 0
  <2>1. i \in Sems /\ i \notin Waiters(m, i)
    BY <1>1, <1>2, SemNames DEF Waiting
  <2>. QED
    BY <1>1, <1>2, <2>1, DownFacts
<1>4. /\ Blocks(m, i) <=> state[i] = "HUNGRY"
      /\ sem'[i].value = 0
      /\ i \in Waiters(sem', i) <=> state[i] = "HUNGRY"
  <2>1. sem[i].value = m[i].value /\ Waiters(m, i) = Waiters(sem, i) /\ i \notin Waiters(sem, i)
    BY <1>1, <1>2 DEF Waiting
  <2>2. sem[i].value = IF phase = "sema" /\ state[i] = "EATING" THEN 1 ELSE 0
    BY <1>1 DEF Tokens
  <2>. QED
    BY <1>1, <1>3, <2>1, <2>2 DEF Blocks
<1>5. /\ \A j \in Phil : j # i => sem'[j].value = sem[j].value /\ Waiters(sem', j) = Waiters(sem, j)
      /\ Waiters(sem', i) \subseteq {i}
      /\ sem'[NextSem].value = 0 /\ Waiters(sem', NextSem) = Waiters(sem, NextSem)
      /\ sem'[Mutex].value = m[Mutex].value /\ Waiters(sem', Mutex) = Waiters(m, Mutex)
  BY <1>2, <1>3, SemNames DEF QueuePlaces
<1>6. TypeOK' /\ Distinct(sem)'
  <2>1. count' \in [Phil -> Nat]
    BY <1>1 DEF TypeOK
  <2>2. current' \in Phil \cup {NULL}
    BY <1>1
  <2>. QED
    BY <1>1, <1>3, <2>1, <2>2 DEF TypeOK, Semaphore, Distinct
<1>7. \A k \in Phil : k # i => ~ In(k)
  BY <1>1 DEF OneIn
<1>8. /\ Waiting(i)' <=> state[i] = "HUNGRY"
      /\ ~ In(i)'
      /\ \A k \in Phil : Waiting(k)' /\ k # i => Waiting(k)
  <2>1. i \notin Waiters(sem', Mutex) /\ i \notin Waiters(sem', NextSem)
    BY <1>1, <1>2, <1>5 DEF Waiting
  <2>2. Waiting(i)' <=> state[i] = "HUNGRY"
    BY <1>4, <2>1 DEF Waiting
  <2>3. ~ In(i)'
    BY <1>1, <2>2 DEF In, InMonitor
  <2>. QED
    BY <1>2, <1>5, <2>2, <2>3 DEF Waiting
<1>9. \/ /\ sem'[Mutex].value = 1
         /\ \A k \in Phil : k # i => (Waiting(k)' <=> Waiting(k))
         /\ \A k \in Phil : ~ In(k)'
      \/ /\ sem'[Mutex].value = 0
         /\ \E h \in Phil : /\ h # i /\ Waiting(h) /\ ~ Waiting(h)' /\ In(h)'
                            /\ \A k \in Phil : k \notin {h, i} => (Waiting(k)' <=> Waiting(k))
                            /\ \A k \in Phil : k # h => ~ In(k)'
                            /\ pc[h] \in {"hungry", "left"}
  <2>1. CASE m[Mutex].value = 1 /\ Waiters(m, Mutex) = Waiters(sem, Mutex)
    <3>1. \A k \in Phil : k # i => (Waiting(k)' <=> Waiting(k))
      BY <1>5, <2>1 DEF Waiting
    <3>. QED
      BY <1>1, <1>5, <1>7, <1>8, <2>1, <3>1 DEF In
  <2>2. ASSUME m[Mutex].value = 0,
               NEW h \in Waiters(sem, Mutex), Waiters(m, Mutex) = Waiters(sem, Mutex) \ {h}
        PROVE  /\ h # i /\ h \in Phil /\ Waiting(h) /\ ~ Waiting(h)' /\ In(h)'
               /\ \A k \in Phil : k \notin {h, i} => (Waiting(k)' <=> Waiting(k))
               /\ \A k \in Phil : k # h => ~ In(k)'
               /\ pc[h] \in {"hungry", "left"}
    <3>1. h \in Phil /\ Waiting(h) /\ h # i /\ pc[h] \in {"hungry", "left"}
      BY <1>1, SemNames, Members DEF Waiting, QueuePlaces
    <3>2. ~ Waiting(h)'
      BY <2>2, <3>1, <1>5 DEF Waiting, QueuePlaces
    <3>3. In(h)'
      BY <3>1, <3>2, <1>1 DEF In, InMonitor
    <3>4. \A k \in Phil : k \notin {h, i} => (Waiting(k)' <=> Waiting(k))
      BY <2>2, <1>5 DEF Waiting
    <3>5. \A k \in Phil : k # h => ~ In(k)'
      BY <3>4, <1>1, <1>7, <1>8 DEF In
    <3>. QED
      BY <3>1, <3>2, <3>3, <3>4, <3>5
  <2>. QED
    BY <1>2, <1>5, <2>1, <2>2
<1>10. QueuePlaces'
  BY <1>1, <1>2, <1>5, SemNames, Members DEF QueuePlaces, Waiting
<1>11. PhasePlaces' /\ Counts'
  <2>1. PhasePlaces'
    BY <1>1 DEF PhasePlaces
  <2>2. /\ count[i] = 0 /\ \A k \in Phil : k # i => count'[k] = count[k]
        /\ count'[i] = IF phase = "condvar" THEN 1 ELSE 0
    BY <1>1 DEF Counts, TypeOK
  <2>. QED
    BY <1>1, <2>1, <2>2 DEF Counts
<1>12. Runner' /\ Tokens'
  BY <1>1, <1>4, <1>5, <1>8 DEF Runner, Tokens, Asleep
<1>13. OneIn'
  BY <1>9 DEF OneIn
<1>14. Signallers'
  BY <1>1, <1>2 DEF Signallers
<1>15. Moods'
  BY <1>1, <1>8, <1>9 DEF Moods
<1>16. Apart' /\ Causes'
  BY <1>1 DEF Apart, Causes
<1>. QED
  BY <1>6, <1>10, <1>11, <1>12, <1>13, <1>14, <1>15, <1>16

(* phi_test for j by the thread i inside.                                  *)
LEMMA TestStep ==
  ASSUME IInv, NEW i \in Phil, Hungry(i) \/ TestLeft(i) \/ TestRight(i)
  PROVE  IInv'
<1>. USE DEF IInv
<1>1. /\ i # NULL /\ current = i /\ ~ Waiting(i) /\ In(i)
      /\ pc[i] \in {"hungry", "left", "right"}
      /\ phase \in {"sema", "condvar"}
      /\ next_count = 0 /\ sem[Mutex].value = 0
      /\ \A k \in Phil : In(k) => k = i
  <2>1. /\ i # NULL /\ current = i /\ ~ Waiting(i) /\ In(i)
        /\ pc[i] \in {"hungry", "left", "right"}
    BY CheckSyncAssumption DEF TypeOK, Runner, In, InMonitor, Hungry, TestLeft, TestRight
  <2>. QED
    BY <2>1 DEF OneIn, Signallers, PhasePlaces, TypeOK
<1>2. PICK j \in Phil, st \in [Phil -> {"THINKING", "HUNGRY", "EATING"}], p \in PC, sig \in PC :
        /\ \/ pc[i] = "hungry" /\ j = i /\ st[i] = "HUNGRY" /\ p = "tested"
           \/ pc[i] = "left" /\ j = Left(i) /\ st[i] = "THINKING" /\ p = "right" /\ sig = "sig_left"
           \/ /\ pc[i] = "right" /\ j = Right(i) /\ st[i] = "THINKING" /\ p = "leave_put"
              /\ sig = "sig_right" /\ st = state
        /\ \A k \in Phil : k # i => st[k] = state[k]
        /\ Test(i, j, st, p, sig)
  <2>1. CASE Hungry(i)
    <3>1. Test(i, i, [state EXCEPT ![i] = "HUNGRY"], "tested", "sig_self") /\ pc[i] = "hungry"
      BY <2>1 DEF Hungry
    <3>2. /\ [state EXCEPT ![i] = "HUNGRY"] \in [Phil -> {"THINKING", "HUNGRY", "EATING"}]
          /\ [state EXCEPT ![i] = "HUNGRY"][i] = "HUNGRY"
          /\ \A k \in Phil : k # i => [state EXCEPT ![i] = "HUNGRY"][k] = state[k]
          /\ "tested" \in PC /\ "sig_self" \in PC
      BY DEF TypeOK, PC
    <3>. QED
      BY <3>1, <3>2
  <2>2. CASE TestLeft(i)
    <3>1. Test(i, Left(i), [state EXCEPT ![i] = "THINKING"], "right", "sig_left") /\ pc[i] = "left"
      BY <2>2 DEF TestLeft
    <3>2. /\ [state EXCEPT ![i] = "THINKING"] \in [Phil -> {"THINKING", "HUNGRY", "EATING"}]
          /\ [state EXCEPT ![i] = "THINKING"][i] = "THINKING"
          /\ \A k \in Phil : k # i => [state EXCEPT ![i] = "THINKING"][k] = state[k]
          /\ "right" \in PC /\ "sig_left" \in PC
      BY DEF TypeOK, PC
    <3>. QED
      BY <3>1, <3>2, Neighbours
  <2>3. CASE TestRight(i)
    <3>1. Test(i, Right(i), state, "leave_put", "sig_right") /\ pc[i] = "right"
      BY <2>3 DEF TestRight, TestsRight
    <3>2. /\ state \in [Phil -> {"THINKING", "HUNGRY", "EATING"}] /\ state[i] = "THINKING"
          /\ "leave_put" \in PC /\ "sig_right" \in PC
      BY <3>1 DEF TypeOK, PC, Moods
    <3>. QED
      BY <3>1, <3>2, Neighbours
  <2>. QED
    BY <2>1, <2>2, <2>3
<1> DEFINE fed == MayEat(st, j)
           wakes == fed /\ phase = "condvar" /\ count[j] > 0
<1>3. /\ \A k \in Phil : state'[k] = IF fed /\ k = j THEN "EATING" ELSE st[k]
      /\ state' \in [Phil -> {"THINKING", "HUNGRY", "EATING"}]
      /\ \A k \in Phil : k # i => pc'[k] = pc[k]
      /\ pc' \in [Phil -> PC]
      /\ UNCHANGED <<phase, count, iter>>
      /\ pc'[i] = IF wakes THEN sig ELSE p
      /\ wakes => /\ next_count' = 1 /\ sem' = Down(Up(sem, j), NextSem, i)
                  /\ current' = IF Blocks(Up(sem, j), NextSem) THEN NULL ELSE i
      /\ ~ wakes => /\ next_count' = 0 /\ current' = i
                    /\ sem' = IF fed /\ phase = "sema" THEN Up(sem, j) ELSE sem
  <2>1. /\ \A k \in Phil : state'[k] = IF fed /\ k = j THEN "EATING" ELSE st[k]
        /\ state' \in [Phil -> {"THINKING", "HUNGRY", "EATING"}]
    <3>1. state' = IF fed THEN [st EXCEPT ![j] = "EATING"] ELSE st
      BY <1>2 DEF Test
    <3>2. CASE fed
      BY <1>2, <3>1, <3>2
    <3>3. CASE ~ fed
      BY <1>2, <3>1, <3>3
    <3>. QED
      BY <3>2, <3>3
  <2>2. CASE wakes
    <3>1. /\ next_count' = next_count + 1 /\ sem' = Down(Up(sem, j), NextSem, i)
          /\ current' = IF Blocks(Up(sem, j), NextSem) THEN NULL ELSE i
          /\ pc' = [pc EXCEPT ![i] = sig] /\ UNCHANGED <<phase, count, iter>>
      BY <1>2, <2>2 DEF Test, DownThen, Goto
    <3>. QED
      BY <1>1, <1>2, <2>1, <2>2, <3>1 DEF TypeOK
  <2>3. CASE ~ wakes
    <3>1. /\ next_count' = next_count /\ current' = current
          /\ sem' = IF fed /\ phase = "sema" THEN Up(sem, j) ELSE sem
          /\ pc' = [pc EXCEPT ![i] = p] /\ UNCHANGED <<phase, count, iter>>
      BY <1>2, <2>3 DEF Test, Goto
    <3>. QED
      BY <1>1, <1>2, <2>1, <2>3, <3>1 DEF TypeOK
  <2>. QED
    BY <2>2, <2>3
<1>. HIDE DEF fed, wakes
(* Whom the test lets eat: the caller itself, or somebody who waits.       *)
<1>4. /\ fed => st[j] = "HUNGRY" /\ st[Left(j)] # "EATING" /\ st[Right(j)] # "EATING"
      /\ fed /\ j = i => pc[i] = "hungry" /\ ~ wakes
      /\ fed /\ j # i => /\ Waiting(j) /\ j \in Waiters(sem, j) /\ (wakes <=> phase = "condvar")
                         /\ pc[j] = IF phase = "sema" THEN "fed" ELSE "waited"
      /\ wakes => fed /\ phase = "condvar" /\ j # i
  <2>1. fed => st[j] = "HUNGRY" /\ st[Left(j)] # "EATING" /\ st[Right(j)] # "EATING"
    BY DEF fed, MayEat
  <2>2. ASSUME fed, j = i PROVE pc[i] = "hungry" /\ ~ wakes
    <3>1. pc[i] = "hungry"
      BY <1>2, <2>1, <2>2
    <3>2. count[i] = 0
      BY <3>1 DEF Counts
    <3>. QED
      BY <3>1, <3>2, <2>2 DEF wakes
  <2>3. ASSUME fed, j # i
        PROVE  /\ Waiting(j) /\ j \in Waiters(sem, j) /\ (wakes <=> phase = "condvar")
               /\ pc[j] = IF phase = "sema" THEN "fed" ELSE "waited"
    <3>1. state[j] = "HUNGRY" /\ ~ In(j) /\ pc[j] \in PC
      BY <1>1, <1>2, <2>1, <2>3 DEF TypeOK
    <3>2. pc[j] \in {"waited", "fed", "tested"}
      BY <3>1 DEF Moods, PC, PhasePlaces
    <3>3. pc[j] # "tested"
      BY <3>1 DEF In, InMonitor, Waiting, QueuePlaces
    <3>4. pc[j] = IF phase = "sema" THEN "fed" ELSE "waited"
      BY <1>1, <3>2, <3>3 DEF PhasePlaces
    <3>5. Waiting(j)
      BY <3>1, <3>2, <3>3 DEF Moods
    <3>6. j \in Waiters(sem, j)
      BY <3>2, <3>3, <3>5 DEF Waiting, QueuePlaces
    <3>7. phase = "condvar" => count[j] > 0
      BY <1>1, <3>4 DEF Counts
    <3>. QED
      BY <2>3, <3>4, <3>5, <3>6, <3>7 DEF wakes
  <2>. QED
    BY <2>1, <2>2, <2>3 DEF wakes
(* What that does to the semaphores.                                       *)
<1>5. /\ sem' \in [Sems -> Semaphore] /\ Distinct(sem')
      /\ sem'[Mutex].value = 0 /\ Waiters(sem', Mutex) = Waiters(sem, Mutex)
      /\ sem'[NextSem].value = 0
      /\ Waiters(sem', NextSem) = Waiters(sem, NextSem) \cup (IF wakes THEN {i} ELSE {})
      /\ \A k \in Phil : k # j => sem'[k].value = sem[k].value /\ Waiters(sem', k) = Waiters(sem, k)
      /\ ~ fed => sem'[j].value = sem[j].value /\ Waiters(sem', j) = Waiters(sem, j)
      /\ fed /\ j = i => Waiters(sem', j) = {} /\ sem'[j].value = IF phase = "sema" THEN 1 ELSE 0
      /\ fed /\ j # i => Waiters(sem', j) = {} /\ sem'[j].value = 0
      /\ wakes => current' = NULL
  <2>1. sem \in [Sems -> Semaphore] /\ Distinct(sem) /\ j \in Sems /\ sem[NextSem].value = 0
        /\ Waiters(sem, j) \subseteq {j} /\ sem[j].value \in {0, 1}
    BY SemNames DEF TypeOK, Semaphore, QueuePlaces, Tokens
  <2> DEFINE u == Up(sem, j)
  <2>2. /\ u \in [Sems -> Semaphore] /\ Distinct(u)
        /\ \A r \in Sems : r # j => u[r].value = sem[r].value /\ Waiters(u, r) = Waiters(sem, r)
        /\ \/ /\ Waiters(sem, j) = {} /\ Waiters(u, j) = {}
              /\ u[j].value = sem[j].value + 1
           \/ \E h \in Waiters(sem, j) :
                /\ Waiters(u, j) = Waiters(sem, j) \ {h}
                /\ u[j].value = sem[j].value
    BY <2>1, UpFacts
  <2>. HIDE DEF u
  <2>3. CASE ~ wakes /\ ~ (fed /\ phase = "sema")
    <3>1. sem' = sem
      BY <1>3, <2>3
    <3>2. fed => j = i /\ phase = "condvar"
      BY <1>1, <1>4, <2>3
    <3>3. fed => Waiters(sem, j) = {} /\ sem[j].value = 0
      BY <1>1, <2>1, <3>2 DEF Waiting, Tokens
    <3>. QED
      BY <1>1, <2>1, <2>3, <3>1, <3>2, <3>3
  <2>4. CASE fed /\ phase = "sema"
    <3>1. ~ wakes /\ sem' = u
      BY <1>3, <2>4 DEF u, wakes
    <3>2. CASE j = i
      <4>1. Waiters(sem, j) = {} /\ sem[j].value = 0
        BY <1>1, <1>4, <2>1, <2>4, <3>2 DEF Waiting, Tokens
      <4>. QED
        BY <1>1, <2>1, <2>2, <2>4, <3>1, <3>2, <4>1, SemNames
    <3>3. CASE j # i
      <4>1. Waiters(sem, j) = {j} /\ sem[j].value = 0
        BY <1>4, <2>1, <2>4, <3>3 DEF Tokens
      <4>2. Waiters(u, j) = {} /\ u[j].value = 0
        BY <2>2, <4>1
      <4>. QED
        BY <1>1, <2>1, <2>2, <2>4, <3>1, <3>3, <4>2, SemNames
    <3>. QED
      BY <3>2, <3>3
  <2>5. CASE wakes
    <3>1. sem' = Down(u, NextSem, i) /\ fed /\ j # i
      BY <1>3, <1>4, <2>5 DEF u
    <3>2. Waiters(sem, j) = {j} /\ sem[j].value = 0
      BY <1>4, <2>1, <2>5, <3>1 DEF Tokens
    <3>3. Waiters(u, j) = {} /\ u[j].value = 0
      BY <2>2, <3>2
    <3>4. NextSem \in Sems /\ i \notin Waiters(u, NextSem) /\ u[NextSem].value = 0
      BY <1>1, <2>1, <2>2, SemNames DEF Waiting
    <3>5. Blocks(u, NextSem)
      BY <3>4 DEF Blocks
    <3>6. /\ sem' \in [Sems -> Semaphore] /\ Distinct(sem')
          /\ \A r \in Sems : r # NextSem => sem'[r].value = u[r].value /\ Waiters(sem', r) = Waiters(u, r)
          /\ Waiters(sem', NextSem) = Waiters(u, NextSem) \cup {i} /\ sem'[NextSem].value = 0
      BY <2>2, <3>1, <3>4, <3>5, DownFacts
    <3>7. current' = NULL
      BY <1>3, <2>5, <3>5 DEF u
    <3>. QED
      BY <1>1, <2>1, <2>2, <2>5, <3>1, <3>3, <3>6, <3>7, SemNames
  <2>. QED
    BY <2>3, <2>4, <2>5
<1>6. /\ Waiting(i)' <=> wakes
      /\ \A k \in Phil : k \notin {i, j} => (Waiting(k)' <=> Waiting(k))
      /\ j # i => (Waiting(j)' <=> Waiting(j) /\ ~ fed)
  <2>1. Waiting(i)' <=> wakes
    BY <1>1, <1>4, <1>5 DEF Waiting
  <2>2. \A k \in Phil : k \notin {i, j} => (Waiting(k)' <=> Waiting(k))
    BY <1>5 DEF Waiting
  <2>3. j # i => (Waiting(j)' <=> Waiting(j) /\ ~ fed)
    BY <1>4, <1>5 DEF Waiting, QueuePlaces
  <2>. QED
    BY <2>1, <2>2, <2>3
<1>7. /\ ~ wakes => In(i)' /\ \A k \in Phil : In(k)' => k = i
      /\ wakes => In(j)' /\ \A k \in Phil : In(k)' => k = j
  <2>1. pc'[i] \in InMonitor
    BY <1>2, <1>3, <1>4 DEF InMonitor
  <2>2. \A k \in Phil : k \notin {i, j} => ~ In(k)'
    BY <1>1, <1>3, <1>6 DEF In
  <2>3. In(i)' <=> ~ wakes
    BY <1>6, <2>1 DEF In
  <2>4. j # i => (In(j)' <=> wakes)
    <3>1. CASE j # i /\ ~ fed
      BY <1>1, <1>3, <1>4, <1>6, <3>1 DEF In
    <3>2. CASE j # i /\ fed
      BY <1>1, <1>3, <1>4, <1>6, <3>2 DEF In, InMonitor
    <3>. QED
      BY <3>1, <3>2
  <2>. QED
    BY <1>4, <2>2, <2>3, <2>4
<1>8. TypeOK' /\ Distinct(sem)'
  <2>1. next_count' \in Nat /\ current' \in Phil \cup {NULL}
    BY <1>3, <1>5
  <2>. QED
    BY <1>3, <1>5, <2>1 DEF TypeOK, Semaphore, Distinct
<1>9. wakes => pc'[i] \in {"sig_left", "sig_right"}
  BY <1>2, <1>3, <1>4
<1>10. ~ wakes => pc'[i] \in {"tested", "right", "leave_put"}
  BY <1>2, <1>3
<1>11. QueuePlaces'
  <2>1. \A k \in Waiters(sem', Mutex) : pc'[k] \in {"hungry", "left"}
    BY <1>1, <1>3, <1>5, SemNames, Members DEF QueuePlaces, Waiting
  <2>2. \A k \in Waiters(sem', NextSem) : pc'[k] \in {"sig_left", "sig_right"}
    BY <1>1, <1>3, <1>5, <1>9, SemNames, Members DEF QueuePlaces, Waiting
  <2>3. ASSUME NEW k \in Phil, NEW h \in Waiters(sem', k)
        PROVE  h = k /\ pc'[h] \in {"fed", "waited"}
    BY <1>1, <1>3, <1>5, SemNames, Members DEF QueuePlaces, Waiting
  <2>. QED
    BY <2>1, <2>2, <2>3 DEF QueuePlaces
<1>12. PhasePlaces' /\ Counts'
  BY <1>1, <1>3, <1>4, <1>9, <1>10 DEF PhasePlaces, Counts
<1>13. Runner'
  BY <1>1, <1>3, <1>5, <1>6, <1>10 DEF Runner, Asleep
<1>14. Tokens'
  <2>1. ASSUME NEW k \in Phil, k # j
        PROVE  sem'[k].value = IF phase = "sema" /\ pc'[k] = "tested" /\ state'[k] = "EATING" THEN 1 ELSE 0
    BY <1>1, <1>2, <1>3, <1>5, <2>1 DEF Tokens
  <2>2. sem'[j].value = IF phase = "sema" /\ pc'[j] = "tested" /\ state'[j] = "EATING" THEN 1 ELSE 0
    <3>1. CASE fed /\ j = i
      BY <1>1, <1>2, <1>3, <1>4, <1>5, <3>1
    <3>2. CASE fed /\ j # i
      BY <1>1, <1>3, <1>4, <1>5, <3>2
    <3>3. CASE ~ fed
      BY <1>1, <1>2, <1>3, <1>4, <1>5, <3>3 DEF Tokens
    <3>. QED
      BY <3>1, <3>2, <3>3
  <2>. QED
    BY <1>3, <1>5, <2>1, <2>2 DEF Tokens
<1>15. OneIn'
  BY <1>5, <1>7 DEF OneIn
<1>16. Signallers'
  <2>1. \A k \in Phil : k # i => pc'[k] \notin {"sig_left", "sig_right"}
    BY <1>1, <1>3 DEF Signallers
  <2>2. CASE wakes
    BY <1>3, <1>4, <1>5, <1>7, <1>9, <2>1, <2>2 DEF Signallers
  <2>3. CASE ~ wakes
    BY <1>3, <1>10, <2>1, <2>3 DEF Signallers
  <2>. QED
    BY <2>2, <2>3
<1>17. Moods'
  <2>1. ASSUME NEW k \in Phil, k \notin {i, j}
        PROVE  pc'[k] = pc[k] /\ state'[k] = state[k] /\ (Waiting(k)' <=> Waiting(k))
    BY <1>2, <1>3, <1>6, <2>1
  <2>2. /\ pc'[i] = "tested" => state'[i] \in {"HUNGRY", "EATING"}
        /\ pc'[i] # "tested" => state'[i] = "THINKING" /\ pc'[i] \in {"right", "leave_put", "sig_left", "sig_right"}
    BY <1>2, <1>3, <1>4, <1>9, <1>10
  <2>3. j # i /\ fed => pc'[j] \in {"fed", "waited"} /\ state'[j] = "EATING" /\ ~ Waiting(j)'
    BY <1>3, <1>4, <1>6
  <2>4. j # i /\ ~ fed => pc'[j] = pc[j] /\ state'[j] = state[j] /\ (Waiting(j)' <=> Waiting(j))
    BY <1>2, <1>3, <1>6
  <2>. QED
    BY <2>1, <2>2, <2>3, <2>4 DEF Moods
<1>18. Apart'
  <2>1. \A k \in Phil : st[k] = "EATING" => state[k] = "EATING"
    BY <1>2
  <2>. SUFFICES ASSUME N > 1, NEW k \in Phil, state'[k] = "EATING"
                PROVE  state'[Left(k)] # "EATING" /\ state'[Right(k)] # "EATING"
    BY DEF Apart
  <2>2. Left(k) \in Phil /\ Right(k) \in Phil /\ Left(k) # k /\ Right(k) # k
        /\ Left(Right(k)) = k /\ Right(Left(k)) = k
    BY Neighbours
  <2>3. CASE fed /\ k = j
    BY <1>3, <1>4, <2>2, <2>3
  <2>4. CASE ~ (fed /\ k = j)
    <3>1. st[k] = "EATING" /\ state[k] = "EATING"
      BY <1>3, <2>1, <2>4
    <3>2. state[Left(k)] # "EATING" /\ state[Right(k)] # "EATING"
      BY <3>1 DEF Apart
    <3>3. ~ (fed /\ Left(k) = j) /\ ~ (fed /\ Right(k) = j)
      BY <1>4, <2>2, <3>1
    <3>. QED
      BY <1>3, <2>1, <2>2, <3>2, <3>3
  <2>. QED
    BY <2>3, <2>4
<1>19. Causes'
  <2>. SUFFICES ASSUME NEW k \in Phil, state'[k] = "HUNGRY"
                PROVE  \/ "EATING" \in {state'[Left(k)], state'[Right(k)]}
                       \/ \E t \in Phil : pc'[t] \in {"sig_left", "right"} /\ Right(t) = k
    BY DEF Causes
  <2>1. /\ st[k] = "HUNGRY" /\ Left(k) \in Phil /\ Right(k) \in Phil
        /\ Left(Right(k)) = k /\ Right(Left(k)) = k
        /\ \A h \in Phil : st[h] = "EATING" => state'[h] = "EATING"
    BY <1>3, Neighbours
  <2>2. CASE k = j
    <3>1. ~ fed
      BY <1>3, <2>2
    <3>2. "EATING" \in {st[Left(k)], st[Right(k)]}
      BY <2>1, <2>2, <3>1 DEF fed, MayEat
    <3>. QED
      BY <2>1, <3>2
  <2>3. CASE k # j
    <3>1. k # i /\ state[k] = "HUNGRY"
      BY <1>2, <2>1, <2>3
    <3>2. CASE \E t \in Phil : pc[t] \in {"sig_left", "right"} /\ Right(t) = k
      BY <1>2, <1>3, <2>3, <3>2
    <3>3. CASE "EATING" \in {state[Left(k)], state[Right(k)]}
      <4>1. PICK h \in {Left(k), Right(k)} : state[h] = "EATING"
        BY <3>3
      <4>2. CASE h # i
        BY <1>2, <2>1, <4>1, <4>2
      <4>3. CASE h = i
        <5>1. pc[i] = "left" /\ j = Left(i) /\ Left(k) = i /\ Right(i) = k
          BY <1>1, <1>2, <2>1, <2>3, <4>1, <4>3 DEF Moods
        <5>2. pc'[i] \in {"right", "sig_left"}
          BY <1>2, <1>3, <5>1
        <5>. QED
          BY <5>1, <5>2
      <4>. QED
        BY <4>2, <4>3
    <3>. QED
      BY <3>1, <3>2, <3>3 DEF Causes
  <2>. QED
    BY <2>2, <2>3
<1>. QED
  BY <1>8, <1>11, <1>12, <1>13, <1>14, <1>15, <1>16, <1>17, <1>18, <1>19

(* So does the change from semaphores to the monitor. *)
LEMMA NextPhaseStep == ASSUME IInv, NextPhase PROVE IInv'
<1>. USE DEF IInv
<1>1. CASE phase = "sema"
  <2>1. /\ sem' = FreshSems /\ phase' = "condvar" /\ next_count' = 0 /\ current' = NULL
        /\ count' = [i \in Phil |-> 0] /\ state' = [i \in Phil |-> "THINKING"]
        /\ iter' = [i \in Phil |-> 0] /\ pc' = [i \in Phil |-> "start"]
    BY <1>1 DEF NextPhase
  <2>2. TypeOK' /\ Distinct(sem)'
    BY <2>1, CheckSyncAssumption DEF TypeOK, FreshSems, SemInit, Distinct, PC, Mutex, Sems
  <2>3. /\ \A s \in Sems : Waiters(sem', s) = {}
        /\ sem'[Mutex].value = 1 /\ \A s \in Sems : s # Mutex => sem'[s].value = 0
    BY <2>1, SemNames DEF FreshSems, SemInit, Waiters
  <2>4. /\ \A i \in Phil : ~ Waiting(i)' /\ ~ In(i)'
    BY <2>1, <2>3, SemNames DEF Waiting, In, InMonitor
  <2>. QED
    BY <2>1, <2>2, <2>3, <2>4, SemNames
    DEF QueuePlaces, PhasePlaces, Runner, Tokens, Counts, Signallers, OneIn, Moods, Apart, Causes
<1>2. CASE phase # "sema"
  <2>1. /\ phase' = "done" /\ UNCHANGED <<sem, count, next_count, state, iter, pc, current>>
        /\ current = NULL /\ \A i \in Phil : pc[i] = "quit"
    BY <1>2 DEF NextPhase
  <2>2. TypeOK' /\ Distinct(sem)'
    BY <2>1 DEF TypeOK, Distinct
  <2>. QED
    BY <2>1, <2>2 DEF QueuePlaces, PhasePlaces, Runner, Tokens, Counts, Signallers, OneIn, Moods,
       Apart, Causes, Waiting, In
<1>. QED
  BY <1>1, <1>2

(* And a step that changes nothing. *)
LEMMA StutterStep == ASSUME IInv, UNCHANGED vars PROVE IInv'
BY DEF IInv, vars, TypeOK, Distinct, QueuePlaces, PhasePlaces, Runner, Tokens, Counts, Signallers,
   OneIn, Moods, Apart, Causes, Waiting, In, Asleep

(* The invariant holds in every behaviour. *)
LEMMA Inductive == Spec => []IInv
<1>1. IInv /\ [Next]_vars => IInv'
  <2>. SUFFICES ASSUME IInv, [Next]_vars PROVE IInv'
    OBVIOUS
  <2>1. CASE NextPhase
    BY <2>1, NextPhaseStep
  <2>2. CASE UNCHANGED vars
    BY <2>2, StutterStep
  <2>3. ASSUME NEW i \in Phil, Schedule(i) \/ WakeUp(i)
        PROVE  IInv'
    BY <2>3, ScheduleStep, WakeUpStep
  <2>4. ASSUME NEW i \in Phil, Running(i)
        PROVE  IInv'
    <3>1. Eat(i) => pc[i] = "fed" \/ pc[i] = "leave_take"
      BY DEF Eat
    <3>. QED
      BY <2>4, <3>1, RoundStep, EnterStep, TestStep, SignalledStep, WaitStep, GotForksStep, FedStep,
         LeaveStep DEF Running
  <2>. QED
    BY <2>1, <2>2, <2>3, <2>4 DEF Next
<1>. QED
  BY <1>1, InitIInv, PTL DEF Spec

(* Under the invariant the two ways to say that i waits agree. *)
LEMMA QueuedIsWaiting == IInv => \A i \in Phil : Queued(i) <=> Waiting(i)
<1>. SUFFICES ASSUME IInv, NEW i \in Phil PROVE Queued(i) <=> Waiting(i)
  OBVIOUS
<1>1. \A s \in Sems : s = Mutex \/ s = NextSem \/ s \in Phil
  BY CheckSyncAssumption DEF Sems, Mutex, NextSem, Phil
<1>. QED
  BY <1>1, SemNames DEF IInv, QueuePlaces, Queued, Waiting

(* Only one process at a time is active in the monitor (monitor.h), and the
   right to be in it is never lost: cond_wait, cond_signal and up() hand it on. *)
THEOREM MonitorCorrect == Spec => []OneInMonitor
<1>1. IInv => OneInMonitor
  <2>. SUFFICES ASSUME IInv PROVE OneInMonitor
    OBVIOUS
  <2>1. \A i \in Phil : In(i) <=> i \in Inside
    BY QueuedIsWaiting DEF In, Inside
  <2>2. Inside \subseteq Phil
    BY DEF Inside
  <2>. QED
    BY <2>1, <2>2 DEF IInv, OneIn, OneInMonitor
<1>. QED
  BY <1>1, Inductive, PTL

(* Whoever gets past phi_take_forks has both forks, and no neighbour has one. *)
THEOREM ForksCorrect == Spec => []ForksExclusive
<1>1. IInv => ForksExclusive
  <2>. SUFFICES ASSUME IInv, NEW i \in Phil, HasForks(i)
                PROVE  state[i] = "EATING" /\ (N > 1 => ~ HasForks(Left(i)) /\ ~ HasForks(Right(i)))
    BY DEF ForksExclusive
  <2>1. \A k \in Phil : HasForks(k) => state[k] = "EATING"
    BY QueuedIsWaiting DEF HasForks, IInv, Moods
  <2>2. Left(i) \in Phil /\ Right(i) \in Phil
    BY Neighbours
  <2>. QED
    BY <2>1, <2>2 DEF IInv, Apart
<1>. QED
  BY <1>1, Inductive, PTL

(* When nobody is inside, a hungry philosopher has a neighbour who eats:
   phi_put_forks passes over nobody. *)
THEOREM HungryCorrect == Spec => []HungryHaveCause
<1>1. IInv => HungryHaveCause
  <2>. SUFFICES ASSUME IInv, sem[Mutex].value = 1, NEW i \in Phil, state[i] = "HUNGRY"
                PROVE  "EATING" \in {state[Left(i)], state[Right(i)]}
    BY DEF HungryHaveCause
  <2>1. ASSUME NEW t \in Phil, pc[t] \in {"sig_left", "right"}
        PROVE  FALSE
    <3>1. pc[t] # "sig_left"
      BY DEF IInv, Signallers
    <3>2. pc[t] = "right" /\ ~ In(t)
      BY <2>1, <3>1 DEF IInv, OneIn
    <3>. QED
      BY <3>2 DEF IInv, In, InMonitor, Waiting, QueuePlaces
  <2>. QED
    BY <2>1 DEF IInv, Causes
<1>. QED
  BY <1>1, Inductive, PTL
=============================================================================
