------------------------------ MODULE QueuesProof -----------------------------
(***************************************************************************)
(* Proofs about DataQueue, for every set of threads, every size, mark and  *)
(* start of the indices: until put_index wraps, items leave in the order   *)
(* they came (ItemsInOrder) and no wake-up is lost (NoWakeUpLost); and     *)
(* even when it has wrapped no popper sleeps beside an item.  And proofs   *)
(* about Pipe, for every ring buffer, every set of readers and writers and *)
(* every combination of its flags: readers and writers never wait for each *)
(* other (NoStandoff), and nobody sleeps beside what it waits for          *)
(* (NoneSleepsInVain).                                                     *)
(*                                                                         *)
(* DataQueue: the lists hold the threads that are suspended (Lists).  A    *)
(* push adds one item and makes one popper ready, and only a pop, which    *)
(* takes an item, or a timer, which gives the popper an error, makes fewer *)
(* of them (Poppers).  A pop at the mark empties the list of pushers unless *)
(* two of them have met on it (Pushers).                                   *)
(*                                                                         *)
(* Pipe: the lists hold the threads that are asleep (Threads); a thread    *)
(* that is ready asks for a byte at least, so that it changes an empty or  *)
(* a full pipe; then a side that sleeps at the wrong end of the pipe has   *)
(* one of its threads ready (WritersAtEmpty, ReadersAtFull), and no step   *)
(* takes the last ready thread away from two sides that both sleep.        *)
(***************************************************************************)
EXTENDS MCQueues, ShellProof, RingBufProof, FiniteSetTheorems

\* The types of the variables.
Types ==
    /\ put_index \in 0 .. IndexMod - 1 /\ get_index \in 0 .. IndexMod - 1
    /\ slot \in [0 .. QueueSize - 1 -> 0 .. accepted] /\ accepted \in Nat
    /\ delivered \in Seq(Nat)
    /\ waiting_lwm \in BOOLEAN /\ corrupt \in BOOLEAN /\ crowded \in BOOLEAN
    /\ masked \in Context \cup {"no"}
    /\ state \in [Thread -> States]
    /\ error \in [Thread -> BOOLEAN] /\ timed \in [Thread -> BOOLEAN]

Waiting(where) == {t \in Thread : state[t] = where}

\* A list of these threads, each once.
Queue(list, threads) ==
    /\ list \in Seq(Thread)
    /\ \A i, j \in DOMAIN list : i # j => list[i] # list[j]
    /\ {list[i] : i \in DOMAIN list} = threads

\* The lists hold the suspended threads, which have no error yet.
Lists ==
    /\ Queue(push_list, Waiting("pushwait")) /\ Queue(pop_list, Waiting("popwait"))
    /\ \A t \in Thread : state[t] \in {"pushwait", "popwait"} => error[t] = FALSE

\* A popper sleeps only while every item has a popper that has been resumed for it.
Poppers ==
    /\ IsFiniteSet(ComingToPop)
    /\ pop_list # <<>> => Held <= Cardinality(ComingToPop)

\* Pushers have not waited together: one waits at most.
Pushers == ~crowded => \A t, u \in Waiting("pushwait") : t = u

Indices == BeforeWrap => get_index <= put_index

\* The inductive invariant.
DataQueueInv == Types /\ Lists /\ Poppers /\ Pushers /\ Indices /\ ItemsInOrder /\ PusherWoken
-----------------------------------------------------------------------------
(* Slots of a queue whose size is not known.                                 *)

\* A slot is within the queue.
LEMMA SlotRange ==
    ASSUME NEW n \in Nat, n > 0, NEW a \in Int
    PROVE  a % n \in 0 .. n - 1
  OBVIOUS

\* A positive multiple is no less.
LEMMA TimesPositive ==
    ASSUME NEW n \in Nat, NEW d \in Int, d >= 1
    PROVE  n * d >= n
  <1>1. n * (d - 1) >= 0
    <2>1. d - 1 \in Nat
      OBVIOUS
    <2>2. QED
      BY <2>1
  <1>2. n * d = n * (d - 1) + n
    OBVIOUS
  <1>3. QED
    BY <1>1, <1>2

\* Indices closer to each other than the size have slots of their own.
LEMMA SlotsDiffer ==
    ASSUME NEW n \in Nat, n > 0, NEW a \in Int, NEW b \in Int, a < b, b < a + n
    PROVE  a % n # b % n
  <1>1. a = n * (a \div n) + (a % n) /\ b = n * (b \div n) + (b % n)
    OBVIOUS
  <1> DEFINE p == a \div n
             q == b \div n
  <1>2. p \in Int /\ q \in Int
    OBVIOUS
  <1> HIDE DEF p, q
  <1>3. SUFFICES ASSUME a % n = b % n PROVE FALSE
    OBVIOUS
  <1>4. b - a = n * q - n * p
    BY <1>1, <1>2, <1>3 DEF p, q
  <1>5. n * q - n * p = n * (q - p)
    BY <1>2
  <1> DEFINE d == q - p
  <1>6. d \in Int /\ b - a = n * d
    BY <1>2, <1>4, <1>5
  <1> HIDE DEF d
  <1>7. CASE d <= 0
    <2>1. n * d <= 0
      BY <1>6, <1>7
    <2>2. QED
      BY <1>6, <2>1
  <1>8. CASE d >= 1
    <2>1. n * d >= n
      BY <1>6, <1>8, TimesPositive
    <2>2. QED
      BY <1>6, <2>1
  <1>9. QED
    BY <1>6, <1>7, <1>8

\* The range of the indices.
LEMMA ModIsNat == IndexMod \in Nat /\ IndexMod > 0
  BY DEF IndexMod

\* The size, the mark and the indices.
LEMMA SizeFacts ==
    /\ QueueSize \in Nat /\ QueueSize > 0 /\ Lwm \in Nat /\ Lwm < QueueSize
    /\ StartIndices \subseteq 0 .. IndexMod - 1 /\ Isr \notin Thread
  BY DataQueueAssumption, ModIsNat
-----------------------------------------------------------------------------
(* The lists.                                                                *)

\* A list is empty when there is nobody to be on it.
LEMMA EmptyQueue ==
    ASSUME NEW list, NEW threads, Queue(list, threads)
    PROVE  list = <<>> <=> threads = {}
  <1>1. list \in Seq(Thread) /\ DOMAIN list = 1..Len(list) /\ Len(list) \in Nat
    BY LenProperties DEF Queue
  <1>2. list = <<>> <=> Len(list) = 0
    BY <1>1, EmptySeq
  <1>3. threads = {list[i] : i \in 1..Len(list)}
    BY <1>1 DEF Queue
  <1>4. ASSUME Len(list) # 0 PROVE threads # {}
    <2>1. 1 \in 1..Len(list)
      BY <1>1, <1>4
    <2>2. list[1] \in threads
      BY <1>3, <2>1
    <2>3. QED
      BY <2>2
  <1>5. ASSUME Len(list) = 0 PROVE threads = {}
    BY <1>1, <1>3, <1>5
  <1>6. QED
    BY <1>2, <1>4, <1>5

\* The first thread leaves a list.
LEMMA TailQueue ==
    ASSUME NEW list, NEW threads, Queue(list, threads), list # <<>>
    PROVE  /\ Head(list) \in threads /\ Head(list) \in Thread
           /\ Queue(Tail(list), threads \ {Head(list)})
  <1> DEFINE r == Tail(list)
  <1>1. /\ r \in Seq(Thread) /\ Len(r) = Len(list) - 1 /\ Head(list) = list[1]
        /\ Head(list) \in Thread /\ \A i \in 1..Len(r) : r[i] = list[i + 1]
    BY HeadTailProperties DEF Queue
  <1>2. DOMAIN list = 1..Len(list) /\ DOMAIN r = 1..Len(r) /\ Len(list) \in Nat /\ Len(list) > 0
    BY <1>1, LenProperties, EmptySeq DEF Queue
  <1> HIDE DEF r
  <1>3. /\ \A i, j \in 1..Len(list) : i # j => list[i] # list[j]
        /\ threads = {list[i] : i \in 1..Len(list)}
    BY <1>2 DEF Queue
  <1>4. \A i, j \in DOMAIN r : i # j => r[i] # r[j]
    BY <1>1, <1>2, <1>3
  <1>5. ASSUME NEW i \in DOMAIN r PROVE r[i] \in threads \ {Head(list)}
    BY <1>1, <1>2, <1>3
  <1>6. ASSUME NEW x \in threads \ {Head(list)} PROVE \E i \in DOMAIN r : x = r[i]
    <2>1. PICK i \in 1..Len(list) : x = list[i]
      BY <1>3
    <2>2. i - 1 \in DOMAIN r /\ r[i - 1] = x
      BY <1>1, <1>2, <2>1
    <2>3. QED
      BY <2>2
  <1>7. {r[i] : i \in DOMAIN r} = threads \ {Head(list)}
    BY <1>5, <1>6
  <1>8. Head(list) \in threads
    BY <1>1, <1>2, <1>3
  <1>9. Queue(r, threads \ {Head(list)})
    BY <1>1, <1>4, <1>7 DEF Queue
  <1>10. QED
    BY <1>1, <1>8, <1>9 DEF r

\* A thread joins a list.
LEMMA AppendQueue ==
    ASSUME NEW list, NEW threads, Queue(list, threads), NEW t \in Thread, t \notin threads
    PROVE  Append(list, t) # <<>> /\ Queue(Append(list, t), threads \cup {t})
  <1> DEFINE r == Append(list, t)
  <1>1. /\ r \in Seq(Thread) /\ r # <<>> /\ Len(r) = Len(list) + 1 /\ r[Len(list) + 1] = t
        /\ \A i \in 1..Len(list) : r[i] = list[i]
    BY AppendProperties DEF Queue
  <1>2. DOMAIN list = 1..Len(list) /\ DOMAIN r = 1..Len(list) + 1 /\ Len(list) \in Nat
    BY <1>1, LenProperties DEF Queue
  <1> HIDE DEF r
  <1>3. /\ \A i, j \in 1..Len(list) : i # j => list[i] # list[j]
        /\ threads = {list[i] : i \in 1..Len(list)}
    BY <1>2 DEF Queue
  <1>4. \A i, j \in DOMAIN r : i # j => r[i] # r[j]
    BY <1>1, <1>2, <1>3
  <1>5. ASSUME NEW i \in DOMAIN r PROVE r[i] \in threads \cup {t}
    BY <1>1, <1>2, <1>3
  <1>6. ASSUME NEW x \in threads \cup {t} PROVE \E i \in DOMAIN r : x = r[i]
    <2>1. CASE x = t
      BY <1>1, <1>2, <2>1
    <2>2. CASE x \in threads
      <3>1. PICK i \in 1..Len(list) : x = list[i]
        BY <1>3, <2>2
      <3>2. i \in DOMAIN r /\ r[i] = x
        BY <1>1, <1>2, <3>1
      <3>3. QED
        BY <3>2
    <2>3. QED
      BY <2>1, <2>2
  <1>7. {r[i] : i \in DOMAIN r} = threads \cup {t}
    BY <1>5, <1>6
  <1>8. QED
    BY <1>1, <1>4, <1>7 DEF r, Queue

\* A thread is taken off a list, wherever it stands and whether it is there or not.
LEMMA WithoutQueue ==
    ASSUME NEW list, NEW threads, Queue(list, threads), NEW t
    PROVE  Queue(Without(list, t), threads \ {t})
  <1>1. DOMAIN list = 1..Len(list) /\ Len(list) \in Nat /\ list \in Seq(Thread)
    BY LenProperties DEF Queue
  <1>2. /\ \A i, j \in 1..Len(list) : i # j => list[i] # list[j]
        /\ threads = {list[i] : i \in 1..Len(list)}
    BY <1>1 DEF Queue
  <1>3. CASE t \notin threads
    <2>1. Without(list, t) = list
      BY <1>2, <1>3 DEF Without, RemoveFirst
    <2>2. threads \ {t} = threads
      BY <1>3
    <2>3. QED
      BY <2>1, <2>2
  <1>4. CASE t \in threads
    <2>1. PICK k \in 1..Len(list) : list[k] = t
      BY <1>2, <1>4
    <2> DEFINE a == SubSeq(list, 1, k - 1)
               b == SubSeq(list, k + 1, Len(list))
               r == a \o b
    <2>2. Without(list, t) = r
      <3>1. {i \in 1..Len(list) : list[i] = t} = {k}
        BY <1>2, <2>1
      <3>2. SelectInSeq(list, LAMBDA v: v = t) = k
        BY <3>1 DEF SelectInSeq, Min
      <3>3. QED
        BY <2>1, <3>2 DEF Without, RemoveFirst, RemoveAt
    <2>3. /\ a \in Seq(Thread) /\ Len(a) = k - 1 /\ \A i \in 1..k - 1 : a[i] = list[i]
      <3>1. \A i \in 1..k - 1 : list[i] \in Thread
        BY <1>1, ElementOfSeq
      <3>2. k - 1 \in Int /\ k - 1 >= 0
        BY <1>1, <2>1
      <3>3. QED
        BY <1>1, <3>1, <3>2, SubSeqProperties
    <2>4. /\ b \in Seq(Thread) /\ Len(b) = Len(list) - k
          /\ \A i \in 1..Len(list) - k : b[i] = list[k + i]
      <3>1. \A i \in k + 1..Len(list) : list[i] \in Thread
        BY <1>1, ElementOfSeq
      <3>2. k + 1 \in Int /\ Len(list) \in Int
        BY <1>1
      <3>3. /\ b \in Seq(Thread)
            /\ Len(b) = IF k + 1 <= Len(list) THEN Len(list) - (k + 1) + 1 ELSE 0
            /\ \A i \in 1 .. Len(list) - (k + 1) + 1 : b[i] = list[k + 1 + i - 1]
        BY <3>1, <3>2, SubSeqProperties
      <3> HIDE DEF b
      <3>4. Len(b) = Len(list) - k
        <4>1. Len(b) = IF k + 1 <= Len(list) THEN Len(list) - (k + 1) + 1 ELSE 0
          BY <3>3
        <4>2. k \in Int /\ Len(list) \in Int /\ k <= Len(list)
          BY <1>1
        <4>3. QED
          BY <4>1, <4>2
      <3>5. ASSUME NEW i \in 1..Len(list) - k PROVE b[i] = list[k + i]
        <4>1. i \in 1..Len(list) - (k + 1) + 1 /\ k + 1 + i - 1 = k + i
          BY <1>1, <2>1
        <4>2. QED
          BY <3>3, <4>1
      <3>6. QED
        BY <3>3, <3>4, <3>5
    <2> HIDE DEF a, b
    <2>5. /\ r \in Seq(Thread) /\ Len(r) = Len(list) - 1
          /\ \A i \in 1..Len(list) - 1 : r[i] = IF i < k THEN list[i] ELSE list[i + 1]
      <3>1. /\ r \in Seq(Thread) /\ Len(r) = Len(a) + Len(b)
            /\ \A i \in 1..Len(a) + Len(b) : r[i] = IF i <= Len(a) THEN a[i] ELSE b[i - Len(a)]
        BY <2>3, <2>4, ConcatProperties
      <3> HIDE DEF r
      <3>2. Len(r) = Len(list) - 1
        BY <1>1, <2>1, <2>3, <2>4, <3>1
      <3>3. ASSUME NEW i \in 1..Len(list) - 1, i < k PROVE r[i] = list[i]
        <4>1. i \in 1..k - 1 /\ i \in 1..Len(a) + Len(b) /\ i <= Len(a)
          BY <1>1, <2>1, <2>3, <2>4, <3>3
        <4>2. r[i] = a[i]
          BY <3>1, <4>1
        <4>3. QED
          BY <2>3, <4>1, <4>2
      <3>4. ASSUME NEW i \in 1..Len(list) - 1, i >= k PROVE r[i] = list[i + 1]
        <4>1. i - (k - 1) \in 1..Len(list) - k /\ k + (i - (k - 1)) = i + 1
          BY <1>1, <2>1, <3>4
        <4>2. i \in 1..Len(a) + Len(b) /\ ~(i <= Len(a)) /\ i - Len(a) = i - (k - 1)
          BY <1>1, <2>1, <2>3, <2>4, <3>4
        <4>3. r[i] = b[i - Len(a)]
          BY <3>1, <4>2
        <4>4. QED
          BY <2>4, <4>1, <4>2, <4>3
      <3>5. ASSUME NEW i \in 1..Len(list) - 1
            PROVE  r[i] = IF i < k THEN list[i] ELSE list[i + 1]
        <4>1. i < k \/ i >= k
          BY <1>1, <2>1
        <4>2. QED
          BY <1>1, <2>1, <3>3, <3>4, <4>1
      <3>6. QED
        BY <3>1, <3>2, <3>5
    <2> HIDE DEF r
    <2>6. DOMAIN r = 1..Len(list) - 1
      BY <2>5, LenProperties
    <2>7. \A i, j \in 1..Len(list) - 1 : i # j => r[i] # r[j]
      BY <1>1, <1>2, <2>1, <2>5
    <2>8. ASSUME NEW i \in 1..Len(list) - 1 PROVE r[i] \in threads \ {t}
      BY <1>1, <1>2, <2>1, <2>5
    <2>9. ASSUME NEW x \in threads \ {t} PROVE \E i \in 1..Len(list) - 1 : x = r[i]
      <3>1. PICK i \in 1..Len(list) : x = list[i]
        BY <1>2
      <3>2. CASE i < k
        BY <1>1, <2>1, <2>5, <3>1, <3>2
      <3>3. CASE i > k
        <4>1. i - 1 \in 1..Len(list) - 1 /\ r[i - 1] = list[i]
          BY <1>1, <2>1, <2>5, <3>3
        <4>2. QED
          BY <3>1, <4>1
      <3>4. QED
        BY <1>1, <2>1, <2>9, <3>1, <3>2, <3>3
    <2>10. {r[i] : i \in DOMAIN r} = threads \ {t}
      BY <2>6, <2>8, <2>9
    <2>11. \A i, j \in DOMAIN r : i # j => r[i] # r[j]
      BY <2>6, <2>7
    <2>12. QED
      BY <2>2, <2>5, <2>10, <2>11 DEF Queue
  <1>5. QED
    BY <1>3, <1>4
-----------------------------------------------------------------------------
(* The steps.  A caller is the interrupt handler, which does not wait, or a  *)
(* thread that begins a call or has been resumed in it without an error.     *)

Caller(c, timeout, resumed) ==
    \/ c = Isr /\ timeout = "none"
    \/ /\ c \in Thread /\ error[c] \in BOOLEAN
       /\ \/ state[c] = "run"
          \/ state[c] = resumed /\ error[c] = FALSE /\ timeout # "none"

\* A call that returns leaves the others where they are.
LEMMA ReturnedFacts ==
    ASSUME Types, NEW c \in Context
    PROVE  /\ Returned(c) \in [Thread -> States]
           /\ \A t \in Thread : Returned(c)[t] = IF t = c THEN "run" ELSE state[t]
  BY DEF Types, Returned, States

\* Every thread on a list is suspended in the call of the list.
LEMMA Heads ==
    ASSUME Lists
    PROVE  /\ push_list # <<>> => /\ Head(push_list) \in Thread
                                  /\ state[Head(push_list)] = "pushwait"
           /\ pop_list # <<>> => /\ Head(pop_list) \in Thread
                                 /\ state[Head(pop_list)] = "popwait"
  <1>1. Queue(push_list, Waiting("pushwait")) /\ Queue(pop_list, Waiting("popwait"))
    BY DEF Lists
  <1>2. push_list # <<>> => Head(push_list) \in Waiting("pushwait")
    BY <1>1, TailQueue
  <1>3. pop_list # <<>> => Head(pop_list) \in Waiting("popwait")
    BY <1>1, TailQueue
  <1>4. QED
    BY <1>2, <1>3 DEF Waiting

\* The remainder of a number that is at most one modulus away.
LEMMA ModFacts ==
    ASSUME NEW n \in Nat, n > 0
    PROVE  /\ \A a \in Int : 0 <= a /\ a < n => a % n = a
           /\ \A a \in Int : 0 - n <= a /\ a < 0 => a % n = a + n
           /\ n % n = 0
  <1>1. \A a \in Int : 0 <= a /\ a < n => a % n = a
    OBVIOUS
  <1>2. \A a \in Int : 0 - n <= a /\ a < 0 => a % n = a + n
    OBVIOUS
  <1>3. n % n = 0
    OBVIOUS
  <1>4. QED
    BY <1>1, <1>2, <1>3

\* Subtraction and addition of one modulo the range of the indices.
LEMMA Index16 ==
    ASSUME NEW p \in 0 .. IndexMod - 1, NEW g \in 0 .. IndexMod - 1
    PROVE  /\ (p - g) % IndexMod = IF p >= g THEN p - g ELSE p - g + IndexMod
           /\ NextIndex(p) = IF p = IndexMod - 1 THEN 0 ELSE p + 1
           /\ NextIndex(p) \in 0 .. IndexMod - 1
  <1>1. IndexMod \in Nat /\ IndexMod > 0
    BY ModIsNat
  <1>2. /\ p \in Int /\ g \in Int /\ 0 <= p /\ p < IndexMod /\ 0 <= g /\ g < IndexMod
    BY <1>1
  <1>3. (p - g) % IndexMod = IF p >= g THEN p - g ELSE p - g + IndexMod
    <2>1. CASE p >= g
      BY <1>1, <1>2, <2>1, ModFacts
    <2>2. CASE p < g
      BY <1>1, <1>2, <2>2, ModFacts
    <2>3. QED
      BY <1>2, <2>1, <2>2
  <1>4. NextIndex(p) = IF p = IndexMod - 1 THEN 0 ELSE p + 1
    <2>1. CASE p = IndexMod - 1
      BY <1>1, <1>2, <2>1, ModFacts DEF NextIndex
    <2>2. CASE p # IndexMod - 1
      BY <1>1, <1>2, <2>2, ModFacts DEF NextIndex
    <2>3. QED
      BY <2>1, <2>2
  <1>5. QED
    BY <1>1, <1>2, <1>3, <1>4

\* The indices are numbers of 16 bits.
LEMMA QueueIndexTypes ==
    ASSUME Types
    PROVE  /\ put_index \in 0 .. IndexMod - 1 /\ get_index \in 0 .. IndexMod - 1
           /\ IndexMod \in Nat
           /\ Held = IF put_index >= get_index THEN Used ELSE Used + IndexMod
           /\ Used = put_index - get_index /\ Used \in Int
  <1>1. put_index \in 0 .. IndexMod - 1 /\ get_index \in 0 .. IndexMod - 1
    BY DEF Types
  <1>2. IndexMod \in Nat
    BY ModIsNat
  <1>3. QED
    BY <1>1, <1>2, Index16 DEF Held, Used

\* The count as 16 bits is a number, and zero when pop finds the queue empty.
LEMMA HeldFacts ==
    ASSUME Types
    PROVE  Held \in Nat /\ (QueueEmpty => Held = 0)
  BY QueueIndexTypes DEF QueueEmpty

\* One item more, and one less.
LEMMA HeldPush ==
    ASSUME Types, put_index' = NextIndex(put_index), get_index' = get_index
    PROVE  Held' <= Held + 1 /\ Held' \in Nat /\ put_index' \in 0 .. IndexMod - 1
  <1>1. put_index' \in 0 .. IndexMod - 1 /\ get_index' \in 0 .. IndexMod - 1
    BY QueueIndexTypes, Index16
  <1>2. Held' = IF put_index' >= get_index' THEN put_index' - get_index'
                ELSE put_index' - get_index' + IndexMod
    BY <1>1, Index16 DEF Held
  <1>3. put_index' = IF put_index = IndexMod - 1 THEN 0 ELSE put_index + 1
    BY QueueIndexTypes, Index16
  <1>4. QED
    BY <1>1, <1>2, <1>3, QueueIndexTypes

LEMMA HeldPop ==
    ASSUME Types, ~QueueEmpty, get_index' = NextIndex(get_index), put_index' = put_index
    PROVE  Held' = Held - 1 /\ get_index' \in 0 .. IndexMod - 1
  <1>1. put_index' \in 0 .. IndexMod - 1 /\ get_index' \in 0 .. IndexMod - 1
    BY QueueIndexTypes, Index16
  <1>2. Held' = IF put_index' >= get_index' THEN put_index' - get_index'
                ELSE put_index' - get_index' + IndexMod
    BY <1>1, Index16 DEF Held
  <1>3. get_index' = IF get_index = IndexMod - 1 THEN 0 ELSE get_index + 1
    BY QueueIndexTypes, Index16
  <1>4. QED
    BY <1>1, <1>2, <1>3, QueueIndexTypes DEF QueueEmpty

\* A step that leaves the items alone, and takes threads off lists at most, keeps
\* the invariant, as long as nobody is resumed without an error.
LEMMA QuietKeeps ==
    ASSUME DataQueueInv, UNCHANGED <<queue, queueHistory, timed>>,
           masked' \in Context \cup {"no"}, corrupt' \in BOOLEAN,
           state' \in [Thread -> States], error' \in [Thread -> BOOLEAN],
           Lists', ComingToPop' = ComingToPop,
           Waiting("pushwait")' \subseteq Waiting("pushwait"),
           Waiting("popwait")' \subseteq Waiting("popwait")
    PROVE  DataQueueInv'
  <1> USE DEF queue, queueHistory
  <1>1. Types'
    BY DEF DataQueueInv, Types
  <1>2. /\ push_list' # <<>> => push_list # <<>>
        /\ pop_list' # <<>> => pop_list # <<>>
    <2>1. /\ push_list = <<>> <=> Waiting("pushwait") = {}
          /\ pop_list = <<>> <=> Waiting("popwait") = {}
      BY EmptyQueue DEF DataQueueInv, Lists
    <2>2. /\ Queue(push_list', Waiting("pushwait")')
          /\ Queue(pop_list', Waiting("popwait")')
      BY DEF Lists, Queue
    <2>3. /\ push_list' = <<>> <=> Waiting("pushwait")' = {}
          /\ pop_list' = <<>> <=> Waiting("popwait")' = {}
      BY <2>2, EmptyQueue
    <2>4. QED
      BY <2>1, <2>3
  <1>3. /\ Held' = Held /\ Used' = Used /\ BeforeWrap' = BeforeWrap /\ Indices' = Indices
        /\ InOrder' = InOrder
    BY DEF Held, Used, BeforeWrap, Indices, InOrder
  <1>4. Poppers'
    BY <1>2, <1>3 DEF DataQueueInv, Poppers
  <1>5. Pushers'
    BY DEF DataQueueInv, Pushers
  <1>6. Indices' /\ ItemsInOrder' /\ PusherWoken'
    BY <1>2, <1>3 DEF DataQueueInv, ItemsInOrder, PusherWoken
  <1>7. QED
    BY <1>1, <1>4, <1>5, <1>6 DEF DataQueueInv

\* A push that finds the queue full.
LEMMA PushFullKeeps ==
    ASSUME DataQueueInv, NEW c \in Context, NEW timeout \in TimeoutArg,
           Caller(c, timeout, "pushready"), PushFull(c, timeout)
    PROVE  DataQueueInv'
  <1>1. /\ UNCHANGED <<put_index, get_index, slot, masked, corrupt, accepted, delivered, pop_list>>
        /\ waiting_lwm' = TRUE /\ Used = QueueSize
    BY DEF PushFull, QueueFull
  <1>2. /\ Held' = Held /\ Used' = Used /\ BeforeWrap' = BeforeWrap /\ Indices' = Indices
        /\ InOrder' = InOrder
    BY <1>1 DEF Held, Used, BeforeWrap, Indices, InOrder
  <1>3. Indices' /\ ItemsInOrder' /\ PusherWoken'
    <2>1. Used' > Lwm
      BY <1>1, <1>2, SizeFacts
    <2>2. QED
      BY <1>1, <1>2, <2>1 DEF DataQueueInv, ItemsInOrder, PusherWoken
  <1>4. Types
    BY DEF DataQueueInv
  <1>5. CASE timeout = "none"
    <2>1. state' = Returned(c) /\ UNCHANGED <<push_list, error, timed, crowded>>
      BY <1>5 DEF PushFull
    <2>2. \A t \in Thread : state'[t] = IF t = c THEN "run" ELSE state[t]
      BY <1>4, <2>1, ReturnedFacts
    <2>3. c \in Thread => state[c] = "run"
      BY <1>5, SizeFacts DEF Caller
    <2>4. /\ Waiting("pushwait")' = Waiting("pushwait") /\ Waiting("popwait")' = Waiting("popwait")
          /\ ComingToPop' = ComingToPop
      BY <2>1, <2>2, <2>3 DEF Waiting, ComingToPop
    <2>5. Types'
      BY <1>1, <1>4, <2>1, ReturnedFacts DEF Types
    <2>6. Lists' /\ Pushers' /\ Poppers'
      BY <1>1, <1>2, <2>1, <2>2, <2>4 DEF DataQueueInv, Lists, Queue, Pushers, Poppers
    <2>7. QED
      BY <1>3, <2>5, <2>6 DEF DataQueueInv
  <1>6. CASE timeout # "none"
    <2>1. /\ Suspend(c, "pushwait", timeout) /\ push_list' = Append(push_list, c)
          /\ crowded' = (crowded \/ push_list # <<>>)
      BY <1>6 DEF PushFull
    <2>2. c \in Thread /\ state[c] \in {"run", "pushready"}
      BY <1>6 DEF Caller
    <2>3. /\ state' = [state EXCEPT ![c] = "pushwait"] /\ error' = [error EXCEPT ![c] = FALSE]
          /\ timed' = [timed EXCEPT ![c] = (timeout = "timed")]
      BY <2>1 DEF Suspend
    <2>4. Types'
      BY <1>1, <1>4, <2>1, <2>2, <2>3 DEF Types, States
    <2>5. \A t \in Thread : /\ state'[t] = IF t = c THEN "pushwait" ELSE state[t]
                            /\ error'[t] = IF t = c THEN FALSE ELSE error[t]
      BY <1>4, <2>2, <2>3 DEF Types
    <2>6. /\ Waiting("pushwait")' = Waiting("pushwait") \cup {c}
          /\ Waiting("popwait")' = Waiting("popwait")
          /\ c \notin Waiting("pushwait")
      BY <2>2, <2>5 DEF Waiting
    <2>7. ComingToPop' = ComingToPop
      BY <2>2, <2>5 DEF ComingToPop
    <2>8. Lists'
      <3>1. Queue(push_list', Waiting("pushwait") \cup {c})
        BY <2>1, <2>2, <2>6, AppendQueue DEF DataQueueInv, Lists
      <3>2. \A t \in Thread : state'[t] \in {"pushwait", "popwait"} => error'[t] = FALSE
        BY <2>5 DEF DataQueueInv, Lists
      <3>3. QED
        BY <1>1, <2>6, <3>1, <3>2 DEF DataQueueInv, Lists, Queue
    <2>9. Pushers'
      <3>1. SUFFICES ASSUME crowded' = FALSE PROVE \A t, u \in Waiting("pushwait")' : t = u
        BY <2>4 DEF Pushers, Types
      <3>2. push_list = <<>>
        BY <2>1, <3>1
      <3>3. Waiting("pushwait") = {}
        BY <3>2, EmptyQueue DEF DataQueueInv, Lists
      <3>4. QED
        BY <2>6, <3>3
    <2>10. Poppers'
      BY <1>1, <1>2, <2>7 DEF DataQueueInv, Poppers
    <2>11. QED
      BY <1>3, <2>4, <2>8, <2>9, <2>10 DEF DataQueueInv
  <1>7. QED
    BY <1>5, <1>6

\* A push that finds room: until the index wraps, in the slot after those in use.
LEMMA PushOrder ==
    ASSUME DataQueueInv, NEW c \in Context, PushRoom(c), BeforeWrap'
    PROVE  /\ BeforeWrap /\ Used' = Used + 1 /\ InOrder'
           /\ get_index' <= put_index'
  <1>1. /\ Used # QueueSize /\ slot' = [slot EXCEPT ![SlotOf(put_index)] = accepted + 1]
        /\ put_index' = NextIndex(put_index) /\ accepted' = accepted + 1
        /\ get_index' = get_index /\ delivered' = delivered
    BY DEF PushRoom, QueueFull
  <1>2. Types
    BY DEF DataQueueInv
  <1>3. put_index \in 0 .. IndexMod - 1 /\ accepted \in Nat
    BY <1>2 DEF Types
  <1>4. put_index # IndexMod - 1
    <2>1. SUFFICES ASSUME put_index = IndexMod - 1 PROVE FALSE
      OBVIOUS
    <2>2. put_index' = 0
      BY <1>1, <1>3, <2>1, Index16
    <2>3. QED
      BY <1>1, <1>3, <2>2 DEF BeforeWrap
  <1>5. put_index' = put_index + 1
    BY <1>1, <1>3, <1>4, Index16
  <1>6. BeforeWrap
    BY <1>1, <1>3, <1>5, ModIsNat DEF BeforeWrap
  <1>7. get_index <= put_index /\ InOrder
    BY <1>6 DEF DataQueueInv, Indices, ItemsInOrder
  <1>8. /\ Used \in Nat /\ Used < QueueSize /\ Used' = Used + 1
        /\ put_index \in Nat /\ get_index \in Nat /\ put_index = get_index + Used
    BY <1>1, <1>2, <1>5, <1>7, SizeFacts, QueueIndexTypes DEF InOrder, Used
  <1>9. ASSUME NEW k \in 1 .. Used' PROVE slot'[SlotOf(get_index' + k - 1)] = Len(delivered') + k
    <2>1. SlotOf(put_index) \in 0 .. QueueSize - 1
      BY <1>8, SizeFacts, SlotRange DEF SlotOf
    <2>2. Len(delivered) \in Nat /\ accepted = Len(delivered) + Used /\ accepted \in Nat
      BY <1>2, <1>7, <1>8, LenProperties DEF InOrder, Types
    <2>3. slot'[SlotOf(put_index)] = accepted + 1
      BY <1>1, <1>2, <2>1 DEF Types
    <2>4. CASE k = Used + 1
      <3>1. get_index' + k - 1 = put_index /\ Len(delivered') + k = accepted + 1
        BY <1>1, <1>8, <2>2, <2>4
      <3>2. QED
        BY <2>3, <3>1
    <2>5. CASE k # Used + 1
      <3> DEFINE i == get_index + k - 1
      <3>1. k \in 1 .. Used /\ i \in Nat /\ i < put_index /\ put_index < i + QueueSize
        BY <1>8, <2>5, SizeFacts
      <3>2. SlotOf(i) # SlotOf(put_index)
        BY <1>8, <3>1, SizeFacts, SlotsDiffer DEF SlotOf
      <3>3. SlotOf(i) \in 0 .. QueueSize - 1
        BY <3>1, SizeFacts, SlotRange DEF SlotOf
      <3>4. slot'[SlotOf(i)] = slot[SlotOf(i)]
        BY <1>1, <1>2, <3>2, <3>3 DEF Types
      <3>5. QED
        BY <1>1, <1>7, <3>1, <3>4 DEF InOrder
    <2>6. QED
      BY <2>4, <2>5
  <1>10. accepted' - Len(delivered') = Used' /\ Used' <= QueueSize
    <2>1. Len(delivered) \in Nat /\ accepted \in Nat /\ accepted - Len(delivered) = Used
      BY <1>2, <1>7, LenProperties DEF Types, InOrder
    <2>2. QED
      BY <1>1, <1>8, <2>1, SizeFacts
  <1>11. delivered' = [i \in 1 .. Len(delivered') |-> i]
    BY <1>1, <1>7 DEF InOrder
  <1>12. InOrder'
    BY <1>9, <1>10, <1>11 DEF InOrder, SlotOf
  <1>13. get_index' <= put_index'
    BY <1>1, <1>5, <1>7, <1>8
  <1>14. QED
    BY <1>6, <1>8, <1>12, <1>13

\* A push that finds room: it makes the first popper ready for its item.
LEMMA PushRoomKeeps ==
    ASSUME DataQueueInv, NEW c \in Context, NEW timeout \in TimeoutArg,
           Caller(c, timeout, "pushready"), PushRoom(c)
    PROVE  DataQueueInv'
  <1>1. /\ slot' = [slot EXCEPT ![SlotOf(put_index)] = accepted + 1]
        /\ put_index' = NextIndex(put_index) /\ accepted' = accepted + 1
        /\ UNCHANGED <<get_index, waiting_lwm, push_list, error, timed, masked, corrupt,
                       delivered, crowded>>
    BY DEF PushRoom
  <1>2. Types /\ Lists
    BY DEF DataQueueInv
  <1>3. c \in Thread => state[c] \in {"run", "pushready"}
    BY SizeFacts DEF Caller
  <1>4. Held \in Nat /\ Held' \in Nat /\ Held' <= Held + 1 /\ put_index' \in 0 .. IndexMod - 1
    BY <1>1, <1>2, HeldFacts, HeldPush
  <1>5. slot' \in [0 .. QueueSize - 1 -> 0 .. accepted'] /\ accepted' \in Nat
    <2>1. slot \in [0 .. QueueSize - 1 -> 0 .. accepted] /\ accepted \in Nat
      BY <1>2 DEF Types
    <2>2. slot \in [0 .. QueueSize - 1 -> 0 .. accepted + 1] /\ accepted + 1 \in 0 .. accepted + 1
      BY <2>1
    <2> DEFINE D == 0 .. QueueSize - 1
               S == 0 .. accepted + 1
    <2> HIDE DEF D, S
    <2>3. slot' \in [D -> S]
      BY <1>1, <2>2 DEF D, S
    <2>4. QED
      BY <1>1, <2>1, <2>3 DEF D, S
  <1>6. Indices' /\ ItemsInOrder' /\ PusherWoken'
    <2>1. Indices' /\ ItemsInOrder'
      BY PushOrder DEF Indices, ItemsInOrder
    <2>2. ASSUME BeforeWrap', ~crowded', push_list' # <<>> PROVE waiting_lwm' /\ Used' > Lwm
      <3>1. BeforeWrap /\ Used' = Used + 1
        BY <2>2, PushOrder
      <3>2. waiting_lwm /\ Used > Lwm
        BY <1>1, <2>2, <3>1 DEF DataQueueInv, PusherWoken
      <3>3. Used' > Lwm
        BY <1>2, <3>1, <3>2, QueueIndexTypes, SizeFacts
      <3>4. QED
        BY <1>1, <3>2, <3>3
    <2>3. QED
      BY <2>1, <2>2 DEF PusherWoken
  <1>7. CASE pop_list = <<>>
    <2>1. state' = Returned(c) /\ pop_list' = pop_list
      BY <1>7 DEF PushRoom
    <2>2. \A t \in Thread : state'[t] = IF t = c THEN "run" ELSE state[t]
      BY <1>2, <2>1, ReturnedFacts
    <2>3. /\ Waiting("pushwait")' = Waiting("pushwait") /\ Waiting("popwait")' = Waiting("popwait")
          /\ ComingToPop' = ComingToPop
      BY <1>1, <1>3, <2>2 DEF Waiting, ComingToPop
    <2>4. Types'
      BY <1>1, <1>2, <1>4, <1>5, <2>1, ReturnedFacts DEF Types
    <2>5. Lists' /\ Pushers' /\ Poppers'
      BY <1>1, <1>7, <2>1, <2>2, <2>3 DEF DataQueueInv, Lists, Queue, Pushers, Poppers
    <2>6. QED
      BY <1>6, <2>4, <2>5 DEF DataQueueInv
  <1>8. CASE pop_list # <<>>
    <2> DEFINE h == Head(pop_list)
    <2>1. /\ state' = [Returned(c) EXCEPT ![h] = ReadyState(h)] /\ pop_list' = Tail(pop_list)
      BY <1>8 DEF PushRoom
    <2>2. h \in Thread /\ state[h] = "popwait" /\ error[h] = FALSE
      BY <1>2, <1>8, Heads DEF Lists
    <2> HIDE DEF h
    <2>3. ReadyState(h) = "popready" /\ h # c
      BY <1>3, <2>2 DEF ReadyState
    <2>4. /\ state' \in [Thread -> States]
          /\ \A t \in Thread : state'[t] = IF t = h THEN "popready"
                                           ELSE IF t = c THEN "run" ELSE state[t]
      BY <1>2, <2>1, <2>2, <2>3, ReturnedFacts DEF States
    <2>5. Types'
      BY <1>1, <1>2, <1>4, <1>5, <2>4 DEF Types
    <2>6. /\ Waiting("pushwait")' = Waiting("pushwait")
          /\ Waiting("popwait")' = Waiting("popwait") \ {h}
      BY <1>3, <2>2, <2>4 DEF Waiting
    <2>7. ComingToPop' = ComingToPop \cup {h} /\ h \notin ComingToPop
      BY <1>1, <1>3, <2>2, <2>4 DEF ComingToPop
    <2>8. Lists'
      <3>1. Queue(pop_list', Waiting("popwait") \ {h})
        BY <1>2, <1>8, <2>1, TailQueue DEF Lists, h
      <3>2. \A t \in Thread : state'[t] \in {"pushwait", "popwait"} => error'[t] = FALSE
        BY <1>1, <1>2, <2>4 DEF Lists
      <3>3. Queue(push_list, Waiting("pushwait"))' /\ Queue(pop_list, Waiting("popwait"))'
        BY <1>1, <1>2, <2>6, <3>1 DEF Lists, Queue
      <3>4. QED
        BY <3>2, <3>3 DEF Lists
    <2>9. Pushers'
      BY <1>1, <2>6 DEF DataQueueInv, Pushers
    <2>10. Poppers'
      <3>1. IsFiniteSet(ComingToPop) /\ Held <= Cardinality(ComingToPop)
        BY <1>8 DEF DataQueueInv, Poppers
      <3>2. /\ IsFiniteSet(ComingToPop') /\ Cardinality(ComingToPop') = Cardinality(ComingToPop) + 1
            /\ Cardinality(ComingToPop) \in Nat
        BY <2>7, <3>1, FS_AddElement, FS_CardinalityType
      <3>3. QED
        BY <1>4, <3>1, <3>2 DEF Poppers
    <2>11. QED
      BY <1>6, <2>5, <2>8, <2>9, <2>10 DEF DataQueueInv
  <1>9. QED
    BY <1>7, <1>8

\* A pop that finds the queue empty.
LEMMA PopEmptyKeeps ==
    ASSUME DataQueueInv, NEW c \in Context, NEW timeout \in TimeoutArg,
           Caller(c, timeout, "popready"), PopEmpty(c, timeout)
    PROVE  DataQueueInv'
  <1>1. UNCHANGED <<queue, push_list, masked, corrupt, queueHistory>> /\ QueueEmpty
    BY DEF PopEmpty
  <1> USE DEF queue, queueHistory
  <1>2. Types /\ Lists
    BY DEF DataQueueInv
  <1>3. CASE timeout = "none"
    <2>1. state' = Returned(c) /\ UNCHANGED <<pop_list, error, timed>>
      BY <1>3 DEF PopEmpty
    <2>2. \A t \in Thread : state'[t] = IF t = c THEN "run" ELSE state[t]
      BY <1>2, <2>1, ReturnedFacts
    <2>3. c \in Thread => state[c] = "run"
      BY <1>3, SizeFacts DEF Caller
    <2>4. /\ Waiting("pushwait")' = Waiting("pushwait") /\ Waiting("popwait")' = Waiting("popwait")
          /\ ComingToPop' = ComingToPop
      BY <2>1, <2>2, <2>3 DEF Waiting, ComingToPop
    <2>5. Lists'
      BY <1>1, <1>2, <2>1, <2>2, <2>4 DEF Lists, Queue
    <2>6. state' \in [Thread -> States]
      BY <1>2, <2>1, ReturnedFacts
    <2>7. masked' \in Context \cup {"no"} /\ corrupt' \in BOOLEAN /\ error' \in [Thread -> BOOLEAN]
      BY <1>1, <1>2, <2>1 DEF Types
    <2>8. QED
      BY <1>1, <2>1, <2>4, <2>5, <2>6, <2>7, QuietKeeps
  <1>4. CASE timeout # "none"
    <2>1. Suspend(c, "popwait", timeout) /\ pop_list' = Append(pop_list, c)
      BY <1>4 DEF PopEmpty
    <2>2. c \in Thread /\ state[c] \in {"run", "popready"}
      BY <1>4 DEF Caller
    <2>3. /\ state' = [state EXCEPT ![c] = "popwait"] /\ error' = [error EXCEPT ![c] = FALSE]
          /\ timed' = [timed EXCEPT ![c] = (timeout = "timed")]
      BY <2>1 DEF Suspend
    <2>4. Types'
      BY <1>1, <1>2, <2>1, <2>2, <2>3 DEF Types, States
    <2>5. \A t \in Thread : /\ state'[t] = IF t = c THEN "popwait" ELSE state[t]
                            /\ error'[t] = IF t = c THEN FALSE ELSE error[t]
      BY <1>2, <2>2, <2>3 DEF Types
    <2>6. /\ Waiting("popwait")' = Waiting("popwait") \cup {c}
          /\ Waiting("pushwait")' = Waiting("pushwait")
          /\ c \notin Waiting("popwait")
      BY <2>2, <2>5 DEF Waiting
    <2>7. ComingToPop' = ComingToPop \ {c}
      BY <2>2, <2>5 DEF ComingToPop
    <2>8. Lists'
      <3>1. Queue(pop_list', Waiting("popwait") \cup {c})
        BY <1>2, <2>1, <2>2, <2>6, AppendQueue DEF Lists
      <3>2. \A t \in Thread : state'[t] \in {"pushwait", "popwait"} => error'[t] = FALSE
        BY <1>2, <2>5 DEF Lists
      <3>3. QED
        BY <1>1, <1>2, <2>6, <3>1, <3>2 DEF Lists, Queue
    <2>9. Pushers'
      BY <1>1, <2>6 DEF DataQueueInv, Pushers
    <2>10. Poppers'
      <3>1. Held' = 0
        BY <1>1, <1>2, HeldFacts DEF Held
      <3>2. IsFiniteSet(ComingToPop') /\ Cardinality(ComingToPop') \in Nat
        BY <2>7, FS_RemoveElement, FS_CardinalityType DEF DataQueueInv, Poppers
      <3>3. QED
        BY <3>1, <3>2 DEF Poppers
    <2>11. Indices' /\ ItemsInOrder' /\ PusherWoken'
      <3>1. /\ Used' = Used /\ BeforeWrap' = BeforeWrap /\ Indices' = Indices
            /\ InOrder' = InOrder
        BY <1>1 DEF Used, BeforeWrap, Indices, InOrder
      <3>2. QED
        BY <1>1, <3>1 DEF DataQueueInv, ItemsInOrder, PusherWoken
    <2>12. QED
      BY <2>4, <2>8, <2>9, <2>10, <2>11 DEF DataQueueInv
  <1>5. QED
    BY <1>3, <1>4

\* A pop that finds an item takes the oldest, until the index wraps.
LEMMA PopOrder ==
    ASSUME DataQueueInv, NEW c \in Context, PopItem(c)
    PROVE  /\ delivered' \in Seq(Nat)
           /\ BeforeWrap => /\ Used' = Used - 1 /\ InOrder'
                            /\ get_index' <= put_index'
  <1> DEFINE item == slot[SlotOf(get_index)]
  <1>1. /\ get_index # put_index /\ get_index' = NextIndex(get_index) /\ put_index' = put_index
        /\ slot' = slot /\ accepted' = accepted /\ delivered' = Append(delivered, item)
    BY DEF PopItem, QueueEmpty
  <1>2. Types
    BY DEF DataQueueInv
  <1>3. /\ put_index \in Nat /\ get_index \in Nat /\ put_index < IndexMod /\ get_index < IndexMod
        /\ IndexMod \in Nat
    BY <1>2, QueueIndexTypes
  <1>4. SlotOf(get_index) \in 0 .. QueueSize - 1
    BY <1>3, SizeFacts, SlotRange DEF SlotOf
  <1>5. item \in Nat /\ delivered \in Seq(Nat) /\ Len(delivered) \in Nat
    BY <1>2, <1>4, LenProperties DEF Types
  <1> HIDE DEF item
  <1>6. /\ delivered' \in Seq(Nat) /\ Len(delivered') = Len(delivered) + 1
        /\ \A i \in 1 .. Len(delivered) : delivered'[i] = delivered[i]
        /\ delivered'[Len(delivered) + 1] = item
    BY <1>1, <1>5, AppendProperties
  <1>7. ASSUME BeforeWrap
        PROVE  Used' = Used - 1 /\ InOrder' /\ get_index' <= put_index'
    <2>1. get_index < put_index /\ InOrder
      BY <1>1, <1>3, <1>7 DEF DataQueueInv, Indices, ItemsInOrder
    <2>2. get_index' = get_index + 1
      <3>1. get_index \in 0 .. IndexMod - 1 /\ get_index # IndexMod - 1
        BY <1>2, <1>3, <2>1, QueueIndexTypes
      <3>2. NextIndex(get_index) = get_index + 1
        BY <3>1, Index16
      <3>3. QED
        BY <1>1, <3>2
    <2>3. /\ Used \in Nat /\ Used >= 1 /\ Used' = Used - 1 /\ Used <= QueueSize
          /\ accepted - Len(delivered) = Used /\ accepted \in Nat
      BY <1>1, <1>2, <1>3, <2>1, <2>2 DEF Used, InOrder, Types
    <2>4. item = Len(delivered) + 1
      <3>1. slot[SlotOf(get_index + 1 - 1)] = Len(delivered) + 1
        BY <2>1, <2>3 DEF InOrder
      <3>2. get_index + 1 - 1 = get_index
        BY <1>3
      <3>3. QED
        BY <3>1, <3>2 DEF item
    <2>5. delivered' = [i \in 1 .. Len(delivered') |-> i]
      <3>1. delivered = [i \in 1 .. Len(delivered) |-> i]
        BY <2>1 DEF InOrder
      <3> DEFINE n == Len(delivered)
      <3> HIDE DEF n
      <3>2. n \in Nat /\ \A i \in 1 .. n : delivered[i] = i
        BY <1>5, <3>1 DEF n
      <3>3. \A i \in 1 .. n + 1 : delivered'[i] = i
        BY <1>6, <2>4, <3>2 DEF n
      <3>4. DOMAIN delivered' = 1 .. n + 1
        BY <1>6, LenProperties DEF n
      <3>5. delivered' = [i \in DOMAIN delivered' |-> delivered'[i]]
        BY <1>6
      <3>6. Len(delivered') = n + 1
        BY <1>6 DEF n
      <3>7. QED
        BY <3>3, <3>4, <3>5, <3>6
    <2>6. ASSUME NEW k \in 1 .. Used'
          PROVE  slot'[SlotOf(get_index' + k - 1)] = Len(delivered') + k
      <3>1. k + 1 \in 1 .. Used
        BY <2>3
      <3>2. slot[SlotOf(get_index + (k + 1) - 1)] = Len(delivered) + (k + 1)
        BY <2>1, <3>1 DEF InOrder
      <3>3. get_index + (k + 1) - 1 = get_index' + k - 1
        BY <1>3, <2>2
      <3>4. Len(delivered) + (k + 1) = Len(delivered') + k
        BY <1>5, <1>6
      <3>5. QED
        BY <1>1, <3>2, <3>3, <3>4
    <2>7. accepted' - Len(delivered') = Used' /\ Used' <= QueueSize
      BY <1>1, <1>5, <1>6, <2>3, SizeFacts
    <2>8. InOrder'
      BY <2>5, <2>6, <2>7 DEF InOrder, SlotOf
    <2>9. QED
      BY <1>1, <1>3, <2>1, <2>2, <2>3, <2>8
  <1>8. QED
    BY <1>6, <1>7

\* A pop that finds an item: at the mark, the pusher that waits leaves the list.
LEMMA PopItemKeeps ==
    ASSUME DataQueueInv, NEW c \in Context, NEW timeout \in TimeoutArg,
           Caller(c, timeout, "popready"), PopItem(c)
    PROVE  DataQueueInv'
  <1> DEFINE lowered == Lowered(put_index - NextIndex(get_index))
             h == Head(push_list)
  <1>1. /\ get_index' = NextIndex(get_index) /\ waiting_lwm' = (waiting_lwm /\ ~lowered)
        /\ UNCHANGED <<put_index, slot, pop_list, error, timed, corrupt, accepted, crowded>>
        /\ ~QueueEmpty
    BY DEF PopItem
  <1>2. Types /\ Lists
    BY DEF DataQueueInv
  <1>3. c \in Thread => state[c] \in {"run", "popready"}
    BY SizeFacts DEF Caller
  <1>4. Held' = Held - 1 /\ get_index' \in 0 .. IndexMod - 1 /\ Held \in Nat
    BY <1>1, <1>2, HeldFacts, HeldPop
  <1>5. Used' = put_index - NextIndex(get_index)
    BY <1>1 DEF Used
  <1>6. Indices' /\ ItemsInOrder'
    <2>1. BeforeWrap' = BeforeWrap
      BY <1>1 DEF BeforeWrap
    <2>2. QED
      BY <1>1, <2>1, PopOrder DEF DataQueueInv, Indices, ItemsInOrder
  <1>7. lowered <=> waiting_lwm /\ Used' <= Lwm
    BY <1>5 DEF Lowered
  <1>8. ASSUME state' \in [Thread -> States], masked' \in Context \cup {"no"}
        PROVE  Types'
    BY <1>1, <1>2, <1>4, <1>8, PopOrder DEF Types
  <1>9. ASSUME ComingToPop' = ComingToPop \ {c} PROVE Poppers'
    <2>1. IsFiniteSet(ComingToPop) /\ (pop_list # <<>> => Held <= Cardinality(ComingToPop))
      BY DEF DataQueueInv, Poppers
    <2>2. /\ IsFiniteSet(ComingToPop') /\ Cardinality(ComingToPop) \in Nat
          /\ Cardinality(ComingToPop') >= Cardinality(ComingToPop) - 1
      <3>1. Cardinality(ComingToPop) \in Nat
        BY <2>1, FS_CardinalityType
      <3>2. /\ IsFiniteSet(ComingToPop \ {c})
            /\ Cardinality(ComingToPop \ {c}) = IF c \in ComingToPop THEN Cardinality(ComingToPop) - 1
                                                ELSE Cardinality(ComingToPop)
        BY <2>1, FS_RemoveElement
      <3>3. QED
        BY <1>9, <3>1, <3>2
    <2>3. Cardinality(ComingToPop') \in Nat
      BY <2>2, FS_CardinalityType
    <2>4. QED
      BY <1>1, <1>4, <2>1, <2>2, <2>3 DEF Poppers
  <1> HIDE DEF lowered
  <1>10. CASE lowered /\ push_list # <<>>
    <2>1. /\ state' = [Returned(c) EXCEPT ![h] = ReadyState(h)] /\ push_list' = Tail(push_list)
          /\ masked' = masked
      BY <1>10 DEF PopItem, lowered
    <2>2. h \in Thread /\ state[h] = "pushwait" /\ error[h] = FALSE
      BY <1>2, <1>10, Heads DEF Lists
    <2> HIDE DEF h
    <2>3. ReadyState(h) = "pushready" /\ h # c
      BY <1>3, <2>2 DEF ReadyState
    <2>4. /\ state' \in [Thread -> States]
          /\ \A t \in Thread : state'[t] = IF t = h THEN "pushready"
                                           ELSE IF t = c THEN "run" ELSE state[t]
      BY <1>2, <2>1, <2>2, <2>3, ReturnedFacts DEF States
    <2>5. Types'
      BY <1>2, <1>8, <2>1, <2>4 DEF Types
    <2>6. /\ Waiting("popwait")' = Waiting("popwait")
          /\ Waiting("pushwait")' = Waiting("pushwait") \ {h}
          /\ h \in Waiting("pushwait")
      BY <1>3, <2>2, <2>4 DEF Waiting
    <2>7. ComingToPop' = ComingToPop \ {c}
      BY <1>1, <2>2, <2>4 DEF ComingToPop
    <2>8. Queue(push_list', Waiting("pushwait") \ {h})
      BY <1>2, <1>10, <2>1, TailQueue DEF Lists, h
    <2>9. Lists'
      <3>1. \A t \in Thread : state'[t] \in {"pushwait", "popwait"} => error'[t] = FALSE
        BY <1>1, <1>2, <2>4 DEF Lists
      <3>2. QED
        BY <1>1, <1>2, <2>6, <2>8, <3>1 DEF Lists, Queue
    <2>10. Pushers'
      BY <1>1, <2>6 DEF DataQueueInv, Pushers
    <2>11. ~crowded' => push_list' = <<>>
      <3>1. SUFFICES ASSUME ~crowded PROVE push_list' = <<>>
        BY <1>1
      <3>2. Waiting("pushwait") \ {h} = {}
        BY <2>6, <3>1 DEF DataQueueInv, Pushers
      <3>3. QED
        BY <2>8, <3>2, EmptyQueue
    <2>12. PusherWoken'
      BY <2>11 DEF PusherWoken
    <2>13. QED
      BY <1>6, <1>9, <2>5, <2>7, <2>9, <2>10, <2>12 DEF DataQueueInv
  <1>11. CASE ~(lowered /\ push_list # <<>>)
    <2>1. state' = Returned(c) /\ push_list' = push_list
      BY <1>11 DEF PopItem, lowered
    <2>2. masked' \in Context \cup {"no"}
      <3>1. RunsOn(c) \subseteq Context
        BY DEF RunsOn, Context
      <3>2. QED
        BY <1>2, <1>11, <3>1 DEF PopItem, Types, lowered
    <2>3. \A t \in Thread : state'[t] = IF t = c THEN "run" ELSE state[t]
      BY <1>2, <2>1, ReturnedFacts
    <2>4. /\ Waiting("pushwait")' = Waiting("pushwait") /\ Waiting("popwait")' = Waiting("popwait")
      BY <1>3, <2>3 DEF Waiting
    <2>5. ComingToPop' = ComingToPop \ {c}
      BY <1>1, <2>3 DEF ComingToPop
    <2>6. Types'
      BY <1>2, <1>8, <2>1, <2>2, ReturnedFacts
    <2>7. Lists' /\ Pushers'
      BY <1>1, <1>2, <2>1, <2>3, <2>4 DEF DataQueueInv, Lists, Queue, Pushers
    <2>8. PusherWoken'
      <3>1. BeforeWrap' = BeforeWrap
        BY <1>1 DEF BeforeWrap
      <3>2. SUFFICES ASSUME BeforeWrap, ~crowded, push_list # <<>>
                     PROVE  waiting_lwm' /\ Used' > Lwm
        BY <1>1, <2>1, <3>1 DEF PusherWoken
      <3>3. waiting_lwm /\ ~lowered
        BY <1>11, <3>2 DEF DataQueueInv, PusherWoken
      <3>4. Used' \in Int
        BY <2>6, QueueIndexTypes, <1>2, <1>4, <1>5, <1>1
      <3>5. ~(Used' <= Lwm)
        BY <1>7, <3>3
      <3>6. waiting_lwm'
        BY <1>1, <3>3
      <3>7. QED
        BY <3>4, <3>5, <3>6, SizeFacts
    <2>9. QED
      BY <1>6, <1>9, <2>5, <2>6, <2>7, <2>8 DEF DataQueueInv
  <1>12. QED
    BY <1>10, <1>11

\* A step of one thread that neither waits nor comes to pop, before or after.
LEMMA MovesKeeps ==
    ASSUME DataQueueInv, NEW t \in Thread, NEW to \in States \ {"pushwait", "popwait", "popready"},
           state[t] \notin {"pushwait", "popwait"},
           state[t] = "popready" => error[t] = TRUE,
           state' = [state EXCEPT ![t] = to],
           UNCHANGED <<queue, push_list, pop_list, error, timed, masked, corrupt, queueHistory>>
    PROVE  DataQueueInv'
  <1>1. Types /\ Lists
    BY DEF DataQueueInv
  <1>2. \A u \in Thread : state'[u] = IF u = t THEN to ELSE state[u]
    BY <1>1 DEF Types
  <1>3. /\ Waiting("pushwait")' = Waiting("pushwait") /\ Waiting("popwait")' = Waiting("popwait")
        /\ ComingToPop' = ComingToPop
    BY <1>2 DEF Waiting, ComingToPop
  <1>4. Lists'
    BY <1>1, <1>2, <1>3 DEF Lists, Queue
  <1>5. /\ state' \in [Thread -> States] /\ error' \in [Thread -> BOOLEAN]
        /\ masked' \in Context \cup {"no"} /\ corrupt' \in BOOLEAN
    BY <1>1 DEF Types
  <1>6. QED
    BY <1>3, <1>4, <1>5, QuietKeeps

\* A resumed thread that leaves with its error.
LEMMA ErrorKeeps ==
    ASSUME DataQueueInv, NEW t \in Thread, state[t] \in {"pushready", "popready"}, error[t],
           state' = Returned(t),
           UNCHANGED <<queue, push_list, pop_list, error, timed, masked, corrupt, queueHistory>>
    PROVE  DataQueueInv'
  <1>1. Types
    BY DEF DataQueueInv
  <1>2. state' = [state EXCEPT ![t] = "run"]
    BY <1>1 DEF Types, Returned
  <1>3. error[t] = TRUE
    BY <1>1 DEF Types
  <1>4. QED
    BY <1>2, <1>3, MovesKeeps DEF States

\* A thread is taken off its list with an error: by its timer, or by a thread that
\* resets the queue.
LEMMA WakeKeeps ==
    ASSUME DataQueueInv, NEW t \in Thread, state[t] \in {"pushwait", "popwait"},
           UNCHANGED <<queue, timed, masked, corrupt, queueHistory>>,
           error' = [error EXCEPT ![t] = TRUE],
           push_list' = Without(push_list, t), pop_list' = Without(pop_list, t),
           state' \in [Thread -> States], state'[t] = ReadyState(t),
           \A u \in Thread \ {t} :
              \/ state'[u] = state[u]
              \/ /\ state[u] \notin {"pushwait", "popwait", "popready"}
                 /\ state'[u] \notin {"pushwait", "popwait", "popready"}
    PROVE  DataQueueInv'
  <1>1. Types /\ Lists
    BY DEF DataQueueInv
  <1>2. error' \in [Thread -> BOOLEAN] /\ masked' \in Context \cup {"no"} /\ corrupt' \in BOOLEAN
    BY <1>1 DEF Types
  <1>3. \A u \in Thread : error'[u] = IF u = t THEN TRUE ELSE error[u]
    BY <1>1 DEF Types
  <1>4. state'[t] \in {"pushready", "popready"}
    BY DEF ReadyState
  <1>5. ComingToPop' = ComingToPop
    BY <1>3, <1>4 DEF ComingToPop
  <1>6. /\ Waiting("pushwait")' = Waiting("pushwait") \ {t}
        /\ Waiting("popwait")' = Waiting("popwait") \ {t}
    BY <1>4 DEF Waiting
  <1>7. /\ Queue(push_list', Waiting("pushwait") \ {t})
        /\ Queue(pop_list', Waiting("popwait") \ {t})
    BY <1>1, WithoutQueue DEF Lists
  <1>8. Lists'
    <2>1. \A u \in Thread : state'[u] \in {"pushwait", "popwait"} => error'[u] = FALSE
      BY <1>1, <1>3, <1>4 DEF Lists
    <2>2. QED
      BY <1>6, <1>7, <2>1 DEF Lists, Queue
  <1>9. QED
    BY <1>2, <1>5, <1>6, <1>8, QuietKeeps

\* The reset: a test of a list, and the section that takes its head.
LEMMA ResetTestKeeps ==
    ASSUME DataQueueInv, NEW t \in Thread, NEW from \in {"resetpop", "resetpush"}, NEW list,
           NEW take \in {"takepop", "takepush"}, NEW done \in {"resetpush", "run"},
           ResetTest(t, from, list, take, done)
    PROVE  DataQueueInv'
  <1> DEFINE to == IF list # <<>> THEN take ELSE done
  <1>1. to \in States \ {"pushwait", "popwait", "popready"}
    BY DEF States
  <1>2. state[t] = from /\ state' = [state EXCEPT ![t] = to]
        /\ UNCHANGED <<queue, push_list, pop_list, error, timed, masked, corrupt, queueHistory>>
    BY DEF ResetTest
  <1> HIDE DEF to
  <1>3. QED
    BY <1>1, <1>2, MovesKeeps

LEMMA ResetTakeKeeps ==
    ASSUME DataQueueInv, NEW t \in Thread, NEW from \in {"resetpop", "resetpush"},
           NEW list \in {push_list, pop_list}, NEW take \in {"takepop", "takepush"},
           ResetTake(t, from, list, take)
    PROVE  DataQueueInv'
  <1>1. Types /\ Lists
    BY DEF DataQueueInv
  <1>2. state[t] = take /\ UNCHANGED <<queue, timed, masked, queueHistory>>
    BY DEF ResetTake
  <1>3. CASE list # <<>>
    <2> DEFINE h == Head(list)
    <2>1. /\ state' = [state EXCEPT ![h] = ReadyState(h), ![t] = from]
          /\ error' = [error EXCEPT ![h] = TRUE]
          /\ push_list' = Without(push_list, h) /\ pop_list' = Without(pop_list, h)
          /\ corrupt' = corrupt
      BY <1>3 DEF ResetTake, Wake
    <2>2. h \in Thread /\ state[h] \in {"pushwait", "popwait"}
      BY <1>1, <1>3, Heads
    <2> HIDE DEF h
    <2>3. h # t /\ ReadyState(h) \in States
      BY <1>2, <2>2 DEF ReadyState, States
    <2>4. /\ state' \in [Thread -> States] /\ state'[h] = ReadyState(h)
          /\ \A u \in Thread \ {h} : state'[u] = IF u = t THEN from ELSE state[u]
      BY <1>1, <2>1, <2>2, <2>3 DEF Types, States
    <2>5. QED
      BY <1>2, <2>1, <2>2, <2>3, <2>4, WakeKeeps
  <1>4. CASE list = <<>>
    <2>1. corrupt' = TRUE /\ UNCHANGED <<push_list, pop_list, state, error>>
      BY <1>4 DEF ResetTake
    <2>2. /\ Waiting("pushwait")' = Waiting("pushwait") /\ Waiting("popwait")' = Waiting("popwait")
          /\ ComingToPop' = ComingToPop
      BY <2>1 DEF Waiting, ComingToPop
    <2>3. Lists'
      BY <1>1, <2>1, <2>2 DEF Lists, Queue
    <2>4. /\ state' \in [Thread -> States] /\ error' \in [Thread -> BOOLEAN]
          /\ masked' \in Context \cup {"no"} /\ corrupt' \in BOOLEAN
      BY <1>1, <1>2, <2>1 DEF Types
    <2>5. QED
      BY <1>2, <2>2, <2>3, <2>4, QuietKeeps
  <1>5. QED
    BY <1>3, <1>4
-----------------------------------------------------------------------------
\* The invariant holds initially.
LEMMA QueueInvInit == QueueInit => DataQueueInv
  <1> SUFFICES ASSUME QueueInit PROVE DataQueueInv
    OBVIOUS
  <1> USE DEF QueueInit
  <1>1. Types
    <2>1. put_index \in 0 .. IndexMod - 1 /\ get_index \in 0 .. IndexMod - 1
      BY SizeFacts
    <2>2. slot \in [0 .. QueueSize - 1 -> 0 .. accepted] /\ accepted \in Nat
      BY DEF NoItem
    <2>3. delivered \in Seq(Nat)
      OBVIOUS
    <2>4. QED
      BY <2>1, <2>2, <2>3 DEF Types, States
  <1>2. Waiting("pushwait") = {} /\ Waiting("popwait") = {} /\ ComingToPop = {}
    BY DEF Waiting, ComingToPop
  <1>3. Queue(<<>>, {})
    BY DEF Queue
  <1>4. Lists /\ Pushers
    BY <1>2, <1>3 DEF Lists, Pushers
  <1>5. Poppers
    BY <1>2, FS_EmptySet DEF Poppers
  <1>6. put_index \in Int /\ put_index = get_index
    BY SizeFacts
  <1>7. Indices
    BY <1>6 DEF Indices
  <1>8. ItemsInOrder
    <2>1. Used = 0 /\ Len(delivered) = 0 /\ accepted = 0 /\ 0 <= QueueSize
      BY <1>6, SizeFacts DEF Used
    <2>2. delivered = [i \in 1 .. Len(delivered) |-> i]
      BY <2>1
    <2>3. accepted - Len(delivered) = Used
      <3>1. accepted - Len(delivered) = 0 - 0
        BY <2>1
      <3>2. QED
        BY <2>1, <3>1
    <2>4. ASSUME NEW k \in 1 .. Used PROVE FALSE
      BY <2>1
    <2>5. InOrder
      BY <2>1, <2>2, <2>3, <2>4 DEF InOrder
    <2>6. QED
      BY <2>5 DEF ItemsInOrder
  <1>9. PusherWoken
    BY DEF PusherWoken
  <1>10. QED
    BY <1>1, <1>4, <1>5, <1>7, <1>8, <1>9 DEF DataQueueInv

\* Every step keeps it.
LEMMA QueueInvNext == DataQueueInv /\ [QueueNext]_queueVars => DataQueueInv'
  <1> SUFFICES ASSUME DataQueueInv, [QueueNext]_queueVars PROVE DataQueueInv'
    OBVIOUS
  <1> USE DEF States
  <1>1. Types
    BY DEF DataQueueInv
  <1>2. \A t \in Thread : error[t] \in BOOLEAN /\ t \in Context
    BY <1>1 DEF Types, Context
  <1>3. ASSUME NEW c \in Context, NEW timeout \in TimeoutArg, rt_data_queue_push(c, timeout)
        PROVE  DataQueueInv'
    <2>1. Caller(c, timeout, "pushready")
      BY <1>2, <1>3 DEF rt_data_queue_push, MayCall, Caller, Context
    <2>2. PushSection(c, timeout)
      BY <1>3 DEF rt_data_queue_push
    <2>3. QED
      BY <2>1, <2>2, PushFullKeeps, PushRoomKeeps DEF PushSection
  <1>4. ASSUME NEW c \in Context, NEW timeout \in TimeoutArg, rt_data_queue_pop(c, timeout)
        PROVE  DataQueueInv'
    <2>1. Caller(c, timeout, "popready")
      BY <1>2, <1>4 DEF rt_data_queue_pop, MayCall, Caller, Context
    <2>2. PopSection(c, timeout)
      BY <1>4 DEF rt_data_queue_pop
    <2>3. QED
      BY <2>1, <2>2, PopEmptyKeeps, PopItemKeeps DEF PopSection
  <1>5. ASSUME NEW t \in Thread, PushResumed(t) PROVE DataQueueInv'
    <2>1. CASE error[t]
      BY <1>2, <1>5, <2>1, ErrorKeeps DEF PushResumed
    <2>2. CASE ~error[t]
      <3> DEFINE timeout == IF timed[t] THEN "timed" ELSE "forever"
      <3>1. timeout \in TimeoutArg /\ timeout # "none" /\ PushSection(t, timeout)
        BY <1>5, <2>2 DEF PushResumed, TimeoutArg
      <3> HIDE DEF timeout
      <3>2. Caller(t, timeout, "pushready")
        BY <1>2, <1>5, <2>2, <3>1 DEF PushResumed, Caller
      <3>3. QED
        BY <1>2, <3>1, <3>2, PushFullKeeps, PushRoomKeeps DEF PushSection
    <2>3. QED
      BY <2>1, <2>2
  <1>6. ASSUME NEW t \in Thread, PopResumed(t) PROVE DataQueueInv'
    <2>1. CASE error[t]
      BY <1>2, <1>6, <2>1, ErrorKeeps DEF PopResumed
    <2>2. CASE ~error[t]
      <3> DEFINE timeout == IF timed[t] THEN "timed" ELSE "forever"
      <3>1. timeout \in TimeoutArg /\ timeout # "none" /\ PopSection(t, timeout)
        BY <1>6, <2>2 DEF PopResumed, TimeoutArg
      <3> HIDE DEF timeout
      <3>2. Caller(t, timeout, "popready")
        BY <1>2, <1>6, <2>2, <3>1 DEF PopResumed, Caller
      <3>3. QED
        BY <1>2, <3>1, <3>2, PopEmptyKeeps, PopItemKeeps DEF PopSection
    <2>3. QED
      BY <2>1, <2>2
  <1>7. ASSUME NEW t \in Thread, Timeout(t) PROVE DataQueueInv'
    <2>1. /\ state[t] \in {"pushwait", "popwait"} /\ state' = [state EXCEPT ![t] = ReadyState(t)]
          /\ error' = [error EXCEPT ![t] = TRUE]
          /\ push_list' = Without(push_list, t) /\ pop_list' = Without(pop_list, t)
          /\ UNCHANGED <<queue, timed, masked, corrupt, queueHistory>>
      BY <1>7 DEF Timeout
    <2>2. ReadyState(t) \in States
      BY DEF ReadyState
    <2>3. /\ state' \in [Thread -> States] /\ state'[t] = ReadyState(t)
          /\ \A u \in Thread \ {t} : state'[u] = state[u]
      BY <1>1, <2>1, <2>2 DEF Types
    <2>4. QED
      BY <2>1, <2>3, WakeKeeps
  <1>8. ASSUME NEW t \in Thread, rt_data_queue_reset(t) PROVE DataQueueInv'
    BY <1>8, MovesKeeps DEF rt_data_queue_reset
  <1>9. ASSUME NEW t \in Thread,
               \/ ResetTest(t, "resetpop", pop_list, "takepop", "resetpush")
               \/ ResetTest(t, "resetpush", push_list, "takepush", "run")
        PROVE  DataQueueInv'
    BY <1>9, ResetTestKeeps
  <1>10. ASSUME NEW t \in Thread,
                \/ ResetTake(t, "resetpop", pop_list, "takepop")
                \/ ResetTake(t, "resetpush", push_list, "takepush")
         PROVE  DataQueueInv'
    BY <1>10, ResetTakeKeeps
  <1>11. CASE UNCHANGED queueVars
    <2>1. UNCHANGED <<queue, push_list, pop_list, state, error, timed, masked, corrupt, queueHistory>>
      BY <1>11 DEF queueVars, queueThreads
    <2>2. /\ Waiting("pushwait")' = Waiting("pushwait") /\ Waiting("popwait")' = Waiting("popwait")
          /\ ComingToPop' = ComingToPop
      BY <2>1 DEF Waiting, ComingToPop
    <2>3. Lists'
      BY <2>1, <2>2 DEF DataQueueInv, Lists, Queue
    <2>4. /\ state' \in [Thread -> States] /\ error' \in [Thread -> BOOLEAN]
          /\ masked' \in Context \cup {"no"} /\ corrupt' \in BOOLEAN
      BY <1>1, <2>1 DEF Types
    <2>5. QED
      BY <2>1, <2>2, <2>3, <2>4, QuietKeeps
  <1>12. QED
    BY <1>3, <1>4, <1>5, <1>6, <1>7, <1>8, <1>9, <1>10, <1>11 DEF QueueNext

LEMMA QueueInvTypes == DataQueueInv => QueueTypeOK
  BY DEF DataQueueInv, Types, Lists, Queue, Waiting, QueueTypeOK, WaitingIn

\* The lists are the threads that are suspended, each once.
THEOREM DataQueueTypeCorrect == QueueSpec => []QueueTypeOK
  BY QueueInvTypes, QueueInvInit, QueueInvNext, PTL DEF QueueSpec

\* Until put_index first wraps, items leave in the order they came, each once.
THEOREM DataQueueItemsInOrder == QueueSpec => []ItemsInOrder
  <1>1. DataQueueInv => ItemsInOrder
    BY DEF DataQueueInv
  <1>2. QED
    BY <1>1, QueueInvInit, QueueInvNext, PTL DEF QueueSpec

\* No wake-up is lost: of a popper never, the Held items being counted modulo 2^16, also
\* between the wrap of put_index and that of get_index; of the one pusher until put_index
\* first wraps.
THEOREM DataQueueNoWakeUpLost == QueueSpec => []NoWakeUpLost
  <1>1. DataQueueInv => NoWakeUpLost
    BY DEF DataQueueInv, Poppers, NoSleepingPopper, NoWakeUpLost
  <1>2. QED
    BY <1>1, QueueInvInit, QueueInvNext, PTL DEF QueueSpec
-----------------------------------------------------------------------------
(* The pipe.                                                                 *)

Forced == "FORCE_WR" \in flag

\* The types of the indices, which every write keeps.
IndexTypes ==
    /\ read_mirror \in 0..1 /\ write_mirror \in 0..1
    /\ read_index \in Slot /\ write_index \in Slot

\* The buffer: a write that forces its bytes in may leave its mirrors inconsistent.
Pool == IndexTypes /\ (~Forced => Inv)

\* The threads on the lists sleep, each once, and those that sleep or have been
\* resumed ask for a byte at least.
Threads ==
    /\ flag \subseteq Flags /\ readers_crowded \in BOOLEAN
    /\ pipe_state \in [PipeThread -> {"run", "wait", "ready"}]
    /\ want \in [Reader -> 0..MaxLength] /\ block \in [Writer -> Block]
    /\ read_list \in Seq(Reader) /\ ListOf(read_list, Asleep \cap Reader)
    /\ write_list \in Seq(Writer) /\ ListOf(write_list, Asleep \cap Writer)
    /\ \A r \in Reader : pipe_state[r] # "run" => want[r] # 0
    /\ \A w \in Writer : pipe_state[w] # "run" => block[w] # <<>>

\* A pipe that forces bytes in lets no writer wait.
ForcedNeverWaits == Forced => write_list = <<>> /\ \A w \in Writer : pipe_state[w] = "run"

\* Writers sleep at an empty pipe, and readers at a full one, only while one of their
\* side is about to run.
WritersAtEmpty == write_list # <<>> /\ Empty => Ready \cap Writer # {}
ReadersAtFull  == ~Forced /\ read_list # <<>> /\ data_len = Size => Ready \cap Reader # {}

\* A reader that has always waited alone waits at an empty pipe.
ReaderAlone == ~readers_crowded /\ read_list # <<>> => Len(read_list) = 1 /\ Empty

\* The inductive invariant.
PipeInv == /\ Pool /\ Threads /\ ForcedNeverWaits
           /\ WritersAtEmpty /\ ReadersAtFull /\ ReaderAlone /\ NoStandoff
-----------------------------------------------------------------------------
(* The lists.                                                                *)

\* The first thread leaves a list.
LEMMA ListTail ==
    ASSUME NEW S, NEW A, NEW list \in Seq(S), ListOf(list, A), list # <<>>
    PROVE  /\ Head(list) \in A /\ Head(list) \in S /\ Tail(list) \in Seq(S)
           /\ Len(Tail(list)) = Len(list) - 1 /\ Len(list) >= 1
           /\ ListOf(Tail(list), A \ {Head(list)})
  <1> DEFINE r == Tail(list)
  <1>1. /\ r \in Seq(S) /\ Len(r) = Len(list) - 1 /\ Head(list) = list[1] /\ Head(list) \in S
        /\ \A i \in 1..Len(r) : r[i] = list[i + 1]
    BY HeadTailProperties
  <1>2. DOMAIN list = 1..Len(list) /\ DOMAIN r = 1..Len(r) /\ Len(list) \in Nat /\ Len(list) > 0
    BY <1>1, LenProperties, EmptySeq
  <1> HIDE DEF r
  <1>3. /\ \A i, j \in 1..Len(list) : i # j => list[i] # list[j]
        /\ \A i \in 1..Len(list) : list[i] \in A
        /\ \A x \in A : \E i \in 1..Len(list) : x = list[i]
    BY <1>2 DEF ListOf
  <1>4. \A i, j \in DOMAIN r : i # j => r[i] # r[j]
    BY <1>1, <1>2, <1>3
  <1>5. ASSUME NEW i \in DOMAIN r PROVE r[i] \in A \ {Head(list)}
    BY <1>1, <1>2, <1>3
  <1>6. ASSUME NEW x \in A \ {Head(list)} PROVE \E i \in DOMAIN r : x = r[i]
    <2>1. PICK i \in 1..Len(list) : x = list[i]
      BY <1>3
    <2>2. i - 1 \in DOMAIN r /\ r[i - 1] = x
      BY <1>1, <1>2, <2>1
    <2>3. QED
      BY <2>2
  <1>7. ListOf(r, A \ {Head(list)})
    BY <1>4, <1>5, <1>6 DEF ListOf
  <1>8. QED
    BY <1>1, <1>2, <1>3, <1>7 DEF r

\* A thread joins a list.
LEMMA ListAppend ==
    ASSUME NEW S, NEW A, NEW list \in Seq(S), ListOf(list, A), NEW x \in S, x \notin A
    PROVE  /\ Append(list, x) \in Seq(S) /\ Append(list, x) # <<>>
           /\ Len(Append(list, x)) = Len(list) + 1
           /\ ListOf(Append(list, x), A \cup {x})
  <1> DEFINE r == Append(list, x)
  <1>1. /\ r \in Seq(S) /\ r # <<>> /\ Len(r) = Len(list) + 1 /\ r[Len(list) + 1] = x
        /\ \A i \in 1..Len(list) : r[i] = list[i]
    BY AppendProperties
  <1>2. DOMAIN list = 1..Len(list) /\ DOMAIN r = 1..Len(list) + 1 /\ Len(list) \in Nat
    BY <1>1, LenProperties
  <1> HIDE DEF r
  <1>3. /\ \A i, j \in 1..Len(list) : i # j => list[i] # list[j]
        /\ \A i \in 1..Len(list) : list[i] \in A
        /\ \A y \in A : \E i \in 1..Len(list) : y = list[i]
    BY <1>2 DEF ListOf
  <1>4. \A i, j \in DOMAIN r : i # j => r[i] # r[j]
    BY <1>1, <1>2, <1>3
  <1>5. ASSUME NEW i \in DOMAIN r PROVE r[i] \in A \cup {x}
    BY <1>1, <1>2, <1>3
  <1>6. ASSUME NEW y \in A \cup {x} PROVE \E i \in DOMAIN r : y = r[i]
    <2>1. CASE y = x
      BY <1>1, <1>2, <2>1
    <2>2. CASE y \in A
      <3>1. PICK i \in 1..Len(list) : y = list[i]
        BY <1>3, <2>2
      <3>2. i \in DOMAIN r /\ r[i] = y
        BY <1>1, <1>2, <3>1
      <3>3. QED
        BY <3>2
    <2>3. QED
      BY <2>1, <2>2
  <1>7. ListOf(r, A \cup {x})
    BY <1>4, <1>5, <1>6 DEF ListOf
  <1>8. QED
    BY <1>1, <1>7 DEF r

\* What a thread that goes on, and the one it resumes, do to the two sides.
LEMMA ResumedSides ==
    ASSUME Threads, NEW t \in PipeThread, pipe_state[t] # "wait",
           NEW list \in {read_list, write_list}, pipe_state' = Resumed(t, list)
    PROVE  /\ pipe_state' \in [PipeThread -> {"run", "wait", "ready"}] /\ pipe_state'[t] = "run"
           /\ \A u \in PipeThread : pipe_state'[u] # "run" => pipe_state[u] # "run" /\ u # t
           /\ list = <<>> => Asleep' = Asleep /\ Ready' = Ready \ {t}
           /\ list # <<>> => /\ Head(list) \in Asleep /\ Head(list) # t
                             /\ Asleep' = Asleep \ {Head(list)}
                             /\ Ready' = (Ready \ {t}) \cup {Head(list)}
  <1>1. ASSUME list # <<>> PROVE Head(list) \in Asleep
    <2>1. CASE list = read_list
      <3>1. read_list \in Seq(Reader) /\ ListOf(read_list, Asleep \cap Reader) /\ read_list # <<>>
        BY <1>1, <2>1 DEF Threads
      <3>2. Head(read_list) \in Asleep \cap Reader
        BY <3>1, ListTail
      <3>3. QED
        BY <2>1, <3>2
    <2>2. CASE list = write_list
      <3>1. write_list \in Seq(Writer) /\ ListOf(write_list, Asleep \cap Writer) /\ write_list # <<>>
        BY <1>1, <2>2 DEF Threads
      <3>2. Head(write_list) \in Asleep \cap Writer
        BY <3>1, ListTail
      <3>3. QED
        BY <2>2, <3>2
    <2>3. QED
      BY <2>1, <2>2
  <1>2. CASE list = <<>>
    <2>1. \A u \in PipeThread : pipe_state'[u] = IF u = t THEN "run" ELSE pipe_state[u]
      BY <1>2 DEF Resumed
    <2>2. QED
      BY <1>2, <2>1 DEF Resumed, Threads, Asleep, Ready
  <1>3. CASE list # <<>>
    <2> DEFINE h == Head(list)
    <2>1. h \in PipeThread /\ pipe_state[h] = "wait" /\ h # t
      BY <1>1, <1>3 DEF Asleep
    <2> HIDE DEF h
    <2>2. \A u \in PipeThread : pipe_state'[u] = IF u = h THEN "ready"
                                             ELSE IF u = t THEN "run" ELSE pipe_state[u]
      BY <1>3 DEF Resumed, h
    <2>3. pipe_state' \in [PipeThread -> {"run", "wait", "ready"}]
      BY DEF Resumed, Threads
    <2>4. Asleep' = Asleep \ {h} /\ Ready' = (Ready \ {t}) \cup {h}
      BY <2>1, <2>2 DEF Asleep, Ready
    <2>5. QED
      BY <1>3, <2>1, <2>2, <2>3, <2>4, <1>1 DEF h
  <1>4. QED
    BY <1>2, <1>3

\* What a thread that starts to wait does to them.
LEMMA WaitSides ==
    ASSUME Threads, NEW t \in PipeThread, pipe_state[t] # "wait", Wait(t)
    PROVE  /\ pipe_state' \in [PipeThread -> {"run", "wait", "ready"}] /\ pipe_state'[t] = "wait"
           /\ \A u \in PipeThread \ {t} : pipe_state'[u] = pipe_state[u]
           /\ Asleep' = Asleep \cup {t} /\ Ready' = Ready \ {t} /\ t \notin Asleep
  <1>1. /\ pipe_state' \in [PipeThread -> {"run", "wait", "ready"}] /\ pipe_state'[t] = "wait"
        /\ \A u \in PipeThread \ {t} : pipe_state'[u] = pipe_state[u]
    BY DEF Wait, Threads
  <1>2. QED
    BY <1>1 DEF Asleep, Ready
-----------------------------------------------------------------------------
(* The buffer.                                                               *)

\* The length is zero exactly when the buffer is empty, whatever the mirrors.
LEMMA LengthFacts ==
    ASSUME IndexTypes
    PROVE  /\ data_len \in Int /\ 0 <= data_len /\ data_len <= Size
           /\ (data_len = 0) <=> Empty
           /\ space_len = Size - data_len
           /\ Size \in Int /\ Size >= 1
  <1>1. /\ read_index \in Int /\ write_index \in Int /\ Size \in Int /\ Size >= 1
        /\ 0 <= read_index /\ read_index < Size /\ 0 <= write_index /\ write_index < Size
    BY ConstFacts DEF IndexTypes, Slot
  <1>2. CASE Empty
    BY <1>1, <1>2 DEF data_len, space_len
  <1>3. CASE ~Empty
    BY <1>1, <1>3 DEF data_len, space_len, Full, IndexTypes, Empty
  <1>4. QED
    BY <1>2, <1>3

\* A read takes a byte at least, unless the buffer is empty, and leaves some room.
LEMMA GetPool ==
    ASSUME Pool, NEW size \in 1..MaxLength, ringbuf_get(size), UNCHANGED flag
    PROVE  /\ Pool'
           /\ (count' = 0) <=> Empty
           /\ Empty => Empty' /\ data_len' = data_len
           /\ ~Empty /\ ~Forced => data_len' # Size
  <1>1. /\ data_len \in Int /\ 0 <= data_len /\ data_len <= Size
        /\ (data_len = 0) <=> Empty
        /\ Size \in Int /\ Size >= 1 /\ size \in Int /\ size >= 1
    BY LengthFacts, ConstFacts DEF Pool
  <1> DEFINE n == Least(size, data_len)
  <1>2. n \in Nat /\ n <= data_len /\ (n = 0 <=> data_len = 0) /\ n \in 0..Size
    BY <1>1 DEF Least
  <1>3. count' = n
    BY DEF ringbuf_get
  <1> HIDE DEF n
  <1>4. Empty => UNCHANGED <<read_mirror, read_index, write_mirror, write_index>>
    BY <1>1 DEF ringbuf_get
  <1>5. Empty => Empty' /\ data_len' = data_len
    BY <1>4 DEF Empty, Full, data_len
  <1>6. ~Empty => MoveRead(n) /\ UNCHANGED <<write_mirror, write_index>>
    BY <1>1 DEF ringbuf_get, n
  <1>7. IndexTypes'
    <2>1. CASE Empty
      BY <1>4, <2>1 DEF Pool, IndexTypes, Slot
    <2>2. CASE ~Empty
      BY <1>2, <1>6, <2>2, AdvanceRange DEF MoveRead, Flip, Pool, IndexTypes, Slot
    <2>3. QED
      BY <2>1, <2>2
  <1>8. ~Forced => Inv'
    BY GetInv DEF Pool
  <1>9. ~Empty /\ ~Forced => data_len' # Size
    BY <1>1, <1>2, <1>6, ReadMoves DEF Pool
  <1>10. Forced' = Forced
    BY DEF Forced
  <1>11. QED
    BY <1>2, <1>1, <1>3, <1>5, <1>7, <1>8, <1>9, <1>10 DEF Pool

\* A write that does not force its bytes in leaves one at least, unless there is no
\* room.
LEMMA PutPool ==
    ASSUME Pool, ~Forced, NEW data \in Block, data # <<>>, ringbuf_put(data), UNCHANGED flag
    PROVE  /\ Pool'
           /\ (count' = 0) <=> (data_len = Size)
           /\ data_len = Size => ~Empty' /\ data_len' = data_len
           /\ ~Empty'
  <1>1. /\ data_len \in Int /\ 0 <= data_len /\ data_len <= Size
        /\ (data_len = 0) <=> Empty
        /\ space_len = Size - data_len /\ Size \in Int /\ Size >= 1
    BY LengthFacts DEF Pool
  <1>2. Len(data) \in Int /\ Len(data) >= 1
    BY BlockLen, EmptySeq
  <1> DEFINE n == Least(Len(data), space_len)
  <1>3. n \in Nat /\ n <= space_len /\ (n = 0 <=> data_len = Size)
    BY <1>1, <1>2 DEF Least
  <1>4. count' = n
    BY DEF ringbuf_put
  <1> HIDE DEF n
  <1>5. CASE data_len = Size
    <2>1. UNCHANGED <<read_mirror, read_index, write_mirror, write_index>>
      BY <1>1, <1>5 DEF ringbuf_put
    <2>2. data_len' = data_len /\ Empty' = Empty
      BY <2>1 DEF Empty, Full, data_len
    <2>3. QED
      BY <1>1, <1>3, <1>4, <1>5, <2>2, PutInv DEF Pool, Forced, Inv, TypeOK, IndexTypes
  <1>6. CASE data_len # Size
    <2>1. MoveWrite(n) /\ UNCHANGED <<read_mirror, read_index>>
      BY <1>1, <1>6 DEF ringbuf_put, n
    <2>2. data_len' = data_len + n
      BY <1>3, <2>1, WriteMoves DEF Pool
    <2>3. Inv' /\ IndexTypes'
      BY PutInv DEF Pool, Inv, TypeOK, IndexTypes
    <2>4. data_len' # 0
      BY <1>1, <1>3, <1>6, <2>2
    <2>5. ~Empty'
      BY <2>4 DEF data_len
    <2>6. QED
      BY <1>3, <1>4, <1>6, <2>3, <2>5 DEF Pool, Forced
  <1>7. QED
    BY <1>5, <1>6

\* One that does keeps the indices within the buffer.
LEMMA ForcePool ==
    ASSUME Pool, Forced, NEW data \in Block, ringbuf_put_force(data), UNCHANGED flag
    PROVE  Pool'
  <1>1. Len(data) \in Int /\ 0 <= Len(data) /\ Size \in Int /\ Size >= 1
    BY BlockLen, ConstFacts
  <1> DEFINE n == Least(Len(data), Size)
  <1>2. n \in 0..Size
    BY <1>1 DEF Least
  <1>3. /\ MoveWrite(n)
        /\ \/ /\ read_index' = write_index'
              /\ read_mirror' = IF Wraps(write_index, n) THEN Flip(read_mirror) ELSE read_mirror
           \/ UNCHANGED <<read_index, read_mirror>>
    BY DEF ringbuf_put_force
  <1> HIDE DEF n
  <1>4. write_index' \in Slot /\ write_mirror' \in 0..1
    BY <1>2, <1>3, AdvanceRange DEF MoveWrite, Flip, Pool, IndexTypes
  <1>5. read_index' \in Slot /\ read_mirror' \in 0..1
    BY <1>3, <1>4 DEF Flip, Pool, IndexTypes, Slot
  <1>6. Slot' = Slot
    BY DEF Slot
  <1>7. QED
    BY <1>4, <1>5, <1>6 DEF Pool, IndexTypes, Forced
-----------------------------------------------------------------------------
(* The steps.                                                                *)

\* A reader is no writer, and both are threads.
LEMMA Sides ==
    /\ \A r \in Reader : r \in PipeThread /\ r \notin Writer
    /\ \A w \in Writer : w \in PipeThread /\ w \notin Reader
  BY PipeAssumption DEF PipeThread

\* The invariant is kept by a read that returns bytes and resumes a writer.
LEMMA ReadTakes ==
    ASSUME PipeInv, NEW t \in Reader, pipe_state[t] # "wait", NEW size \in 1..MaxLength,
           ringbuf_get(size), count' # 0, resume_writer(t),
           want' = [want EXCEPT ![t] = 0], UNCHANGED <<flag, block, readers_crowded>>
    PROVE  PipeInv'
  <1> USE DEF PipeInv
  <1>1. Pool' /\ ~Empty /\ (~Forced => data_len' # Size) /\ Forced' = Forced
    BY GetPool DEF Forced
  <1>2. t \in PipeThread /\ t \notin Writer
    BY Sides
  <1>3. /\ pipe_state' = Resumed(t, write_list) /\ write_list' = Remaining(write_list)
        /\ read_list' = read_list
    BY DEF resume_writer
  <1>4. /\ pipe_state' \in [PipeThread -> {"run", "wait", "ready"}] /\ pipe_state'[t] = "run"
        /\ \A u \in PipeThread : pipe_state'[u] # "run" => pipe_state[u] # "run" /\ u # t
        /\ write_list = <<>> => Asleep' = Asleep /\ Ready' = Ready \ {t}
        /\ write_list # <<>> => Asleep' = Asleep \ {Head(write_list)}
                                /\ Ready' = (Ready \ {t}) \cup {Head(write_list)}
    BY <1>2, <1>3, ResumedSides
  <1>5. write_list # <<>> =>
           /\ Head(write_list) \in Writer /\ Head(write_list) \notin Reader
           /\ Tail(write_list) \in Seq(Writer)
           /\ ListOf(Tail(write_list), (Asleep \cap Writer) \ {Head(write_list)})
    BY ListTail, Sides DEF Threads
  <1>6. /\ read_list' \in Seq(Reader) /\ ListOf(read_list', Asleep' \cap Reader)
        /\ write_list' \in Seq(Writer) /\ ListOf(write_list', Asleep' \cap Writer)
    <2>1. CASE write_list = <<>>
      <3>1. UNCHANGED <<read_list, write_list, Asleep>>
        BY <1>3, <1>4, <2>1 DEF Remaining
      <3>2. QED
        BY <3>1 DEF Threads
    <2>2. CASE write_list # <<>>
      <3>1. /\ Asleep' \cap Reader = Asleep \cap Reader
            /\ Asleep' \cap Writer = (Asleep \cap Writer) \ {Head(write_list)}
        BY <1>4, <1>5, <2>2
      <3>2. QED
        BY <1>3, <1>5, <2>2, <3>1 DEF Remaining, Threads
    <2>3. QED
      BY <2>1, <2>2
  <1>7. Threads'
    <2>1. want' \in [Reader -> 0..MaxLength] /\ \A r \in Reader \ {t} : want'[r] = want[r]
      BY ConstFacts DEF Threads
    <2>2. \A r \in Reader : pipe_state'[r] # "run" => want'[r] # 0
      BY <1>4, <2>1, Sides DEF Threads
    <2>3. \A w \in Writer : pipe_state'[w] # "run" => block'[w] # <<>>
      BY <1>4, Sides DEF Threads
    <2>4. QED
      BY <1>4, <1>6, <2>1, <2>2, <2>3 DEF Threads
  <1>8. ForcedNeverWaits'
    <2>1. ASSUME Forced' PROVE write_list' = <<>> /\ \A w \in Writer : pipe_state'[w] = "run"
      BY <1>1, <1>3, <1>4, <2>1, Sides DEF ForcedNeverWaits, Remaining
    <2>2. QED
      BY <2>1 DEF ForcedNeverWaits
  <1>9. write_list' # <<>> => Head(write_list) \in Ready' /\ Head(write_list) \in Writer
    BY <1>3, <1>4, <1>5 DEF Remaining
  <1>10. WritersAtEmpty' /\ NoStandoff'
    BY <1>9 DEF WritersAtEmpty, NoStandoff
  <1>11. ReadersAtFull'
    BY <1>1 DEF ReadersAtFull
  <1>12. ReaderAlone'
    BY <1>1, <1>3 DEF ReaderAlone
  <1>13. QED
    BY <1>1, <1>7, <1>8, <1>10, <1>11, <1>12

\* By one that finds the pipe empty and waits.
LEMMA ReadWaits ==
    ASSUME PipeInv, NEW t \in Reader, pipe_state[t] # "wait", NEW size \in 1..MaxLength,
           ringbuf_get(size), count' = 0, Wait(t), read_list' = Append(read_list, t),
           want' = [want EXCEPT ![t] = size],
           readers_crowded' = (readers_crowded \/ read_list # <<>>),
           UNCHANGED <<flag, block, write_list>>
    PROVE  PipeInv'
  <1> USE DEF PipeInv
  <1>1. Pool' /\ Empty /\ Empty' /\ data_len' = data_len /\ Forced' = Forced
    BY GetPool DEF Forced
  <1>2. t \in PipeThread /\ t \notin Writer
    BY Sides
  <1>3. /\ pipe_state' \in [PipeThread -> {"run", "wait", "ready"}] /\ pipe_state'[t] = "wait"
        /\ \A u \in PipeThread \ {t} : pipe_state'[u] = pipe_state[u]
        /\ Asleep' = Asleep \cup {t} /\ Ready' = Ready \ {t} /\ t \notin Asleep
    BY <1>2, WaitSides
  <1>4. /\ read_list' \in Seq(Reader) /\ Len(read_list') = Len(read_list) + 1
        /\ ListOf(read_list', (Asleep \cap Reader) \cup {t})
    <2>1. read_list \in Seq(Reader) /\ ListOf(read_list, Asleep \cap Reader)
      BY DEF Threads
    <2>2. t \notin Asleep \cap Reader
      BY <1>3
    <2>3. /\ Append(read_list, t) \in Seq(Reader)
          /\ Len(Append(read_list, t)) = Len(read_list) + 1
          /\ ListOf(Append(read_list, t), (Asleep \cap Reader) \cup {t})
      BY <2>1, <2>2, ListAppend
    <2>4. QED
      BY <2>3
  <1>5. /\ Asleep' \cap Reader = (Asleep \cap Reader) \cup {t}
        /\ Asleep' \cap Writer = Asleep \cap Writer
    BY <1>2, <1>3
  <1>6. Threads'
    <2>1. want' \in [Reader -> 0..MaxLength] /\ want'[t] = size
          /\ \A r \in Reader \ {t} : want'[r] = want[r]
      BY ConstFacts DEF Threads
    <2>2. \A r \in Reader : pipe_state'[r] # "run" => want'[r] # 0
      BY <1>3, <2>1, Sides DEF Threads
    <2>3. \A w \in Writer : pipe_state'[w] # "run" => block'[w] # <<>>
      BY <1>2, <1>3, Sides DEF Threads
    <2>4. readers_crowded' \in BOOLEAN
      BY DEF Threads
    <2>5. QED
      BY <1>3, <1>4, <1>5, <2>1, <2>2, <2>3, <2>4 DEF Threads
  <1>7. ForcedNeverWaits'
    <2>1. ASSUME Forced' PROVE write_list' = <<>> /\ \A w \in Writer : pipe_state'[w] = "run"
      BY <1>1, <1>2, <1>3, <2>1, Sides DEF ForcedNeverWaits
    <2>2. QED
      BY <2>1 DEF ForcedNeverWaits
  <1>8. Ready' \cap Writer = Ready \cap Writer
    BY <1>2, <1>3
  <1>9. WritersAtEmpty' /\ NoStandoff'
    BY <1>1, <1>8 DEF WritersAtEmpty, NoStandoff
  <1>10. ReadersAtFull'
    BY <1>1, LengthFacts DEF ReadersAtFull, Pool
  <1>11. ReaderAlone'
    <2>1. ~readers_crowded' => Len(read_list) = 0
      BY EmptySeq DEF Threads
    <2>2. QED
      BY <1>1, <1>4, <2>1 DEF ReaderAlone
  <1>12. QED
    BY <1>1, <1>6, <1>7, <1>9, <1>10, <1>11

\* A reader is resumed, or nobody: what that does to the lists and to the readers.
LEMMA ResumeReader ==
    ASSUME Threads, NEW t \in Writer, pipe_state[t] # "wait", resume_reader(t),
           UNCHANGED want
    PROVE  /\ pipe_state' \in [PipeThread -> {"run", "wait", "ready"}]
           /\ \A u \in PipeThread : pipe_state'[u] # "run" => pipe_state[u] # "run" /\ u # t
           /\ read_list' \in Seq(Reader) /\ ListOf(read_list', Asleep' \cap Reader)
           /\ write_list' \in Seq(Writer) /\ ListOf(write_list', Asleep' \cap Writer)
           /\ write_list' = write_list
           /\ \A r \in Reader : pipe_state'[r] # "run" => want'[r] # 0
           /\ \/ read_list = <<>> /\ read_list' = <<>>
              \/ Ready' \cap Reader # {} /\ read_list # <<>> /\ Len(read_list') = Len(read_list) - 1
  <1>1. t \in PipeThread /\ t \notin Reader
    BY Sides
  <1>2. /\ pipe_state' = Resumed(t, read_list) /\ read_list' = Remaining(read_list)
        /\ write_list' = write_list
    BY DEF resume_reader
  <1>3. /\ pipe_state' \in [PipeThread -> {"run", "wait", "ready"}] /\ pipe_state'[t] = "run"
        /\ \A u \in PipeThread : pipe_state'[u] # "run" => pipe_state[u] # "run" /\ u # t
        /\ read_list = <<>> => Asleep' = Asleep /\ Ready' = Ready \ {t}
        /\ read_list # <<>> => Asleep' = Asleep \ {Head(read_list)}
                               /\ Ready' = (Ready \ {t}) \cup {Head(read_list)}
    BY <1>1, <1>2, ResumedSides
  <1>4. \A r \in Reader : pipe_state'[r] # "run" => want'[r] # 0
    BY <1>3, Sides DEF Threads
  <1>5. CASE read_list = <<>>
    <2>1. UNCHANGED <<read_list, write_list, Asleep>>
      BY <1>2, <1>3, <1>5 DEF Remaining
    <2>2. QED
      BY <1>3, <1>4, <1>5, <2>1 DEF Threads
  <1>6. CASE read_list # <<>>
    <2> DEFINE h == Head(read_list)
    <2>1. read_list \in Seq(Reader) /\ ListOf(read_list, Asleep \cap Reader)
      BY DEF Threads
    <2>2. /\ h \in Reader /\ Tail(read_list) \in Seq(Reader)
          /\ Len(Tail(read_list)) = Len(read_list) - 1
          /\ ListOf(Tail(read_list), (Asleep \cap Reader) \ {h})
      BY <1>6, <2>1, ListTail
    <2>3. Asleep' = Asleep \ {h} /\ Ready' = (Ready \ {t}) \cup {h} /\ read_list' = Tail(read_list)
      BY <1>2, <1>3, <1>6 DEF Remaining
    <2> HIDE DEF h
    <2>4. h \notin Writer
      BY <2>2, Sides
    <2>5. /\ Asleep' \cap Reader = (Asleep \cap Reader) \ {h}
          /\ Asleep' \cap Writer = Asleep \cap Writer
      BY <2>3, <2>4
    <2>6. write_list' \in Seq(Writer) /\ ListOf(write_list', Asleep' \cap Writer)
      BY <1>2, <2>5 DEF Threads
    <2>7. read_list' \in Seq(Reader) /\ ListOf(read_list', Asleep' \cap Reader)
      BY <2>2, <2>3, <2>5
    <2>8. Ready' \cap Reader # {} /\ Len(read_list') = Len(read_list) - 1
      BY <2>2, <2>3
    <2>9. QED
      BY <1>2, <1>3, <1>4, <1>6, <2>6, <2>7, <2>8
  <1>7. QED
    BY <1>5, <1>6

\* The invariant is kept by a write that leaves bytes, or may not wait, and resumes a
\* reader.
LEMMA PutGoesOn ==
    ASSUME PipeInv, ~Forced, NEW t \in Writer, pipe_state[t] # "wait",
           NEW data \in Block, data # <<>>, ringbuf_put(data), count' # 0 \/ ~WriteBlocks,
           resume_reader(t), block' = [block EXCEPT ![t] = <<>>],
           UNCHANGED <<flag, want, readers_crowded>>
    PROVE  PipeInv'
  <1> USE DEF PipeInv
  <1>1. Pool' /\ ~Empty' /\ Forced' = Forced
    BY PutPool DEF Forced
  <1>2. /\ pipe_state' \in [PipeThread -> {"run", "wait", "ready"}]
        /\ \A u \in PipeThread : pipe_state'[u] # "run" => pipe_state[u] # "run" /\ u # t
        /\ read_list' \in Seq(Reader) /\ ListOf(read_list', Asleep' \cap Reader)
        /\ write_list' \in Seq(Writer) /\ ListOf(write_list', Asleep' \cap Writer)
        /\ write_list' = write_list
        /\ \A r \in Reader : pipe_state'[r] # "run" => want'[r] # 0
        /\ \/ read_list = <<>> /\ read_list' = <<>>
           \/ Ready' \cap Reader # {} /\ read_list # <<>> /\ Len(read_list') = Len(read_list) - 1
    BY ResumeReader
  <1>3. Threads'
    <2>1. <<>> \in Block
      <3>1. <<>> \in [1..0 -> Byte] /\ 0 \in 0..MaxLength
        BY ConstFacts
      <3>2. QED
        BY <3>1 DEF Block
    <2>2. block' \in [Writer -> Block] /\ \A w \in Writer \ {t} : block'[w] = block[w]
      BY <2>1 DEF Threads
    <2>3. \A w \in Writer : pipe_state'[w] # "run" => block'[w] # <<>>
      BY <1>2, <2>2, Sides DEF Threads
    <2>4. QED
      BY <1>2, <2>2, <2>3 DEF Threads
  <1>4. ReaderAlone'
    <2>1. ASSUME ~readers_crowded, read_list # <<>>, Len(read_list') = Len(read_list) - 1
          PROVE  read_list' = <<>>
      <3>1. Len(read_list') = 0
        BY <2>1 DEF ReaderAlone
      <3>2. QED
        BY <1>2, <3>1, EmptySeq
    <2>2. readers_crowded' = readers_crowded
      OBVIOUS
    <2>3. QED
      BY <1>2, <2>1, <2>2 DEF ReaderAlone
  <1>5. WritersAtEmpty' /\ ReadersAtFull' /\ NoStandoff' /\ ForcedNeverWaits'
    BY <1>1, <1>2 DEF WritersAtEmpty, ReadersAtFull, NoStandoff, ForcedNeverWaits
  <1>6. QED
    BY <1>1, <1>3, <1>4, <1>5

\* By one that finds the pipe full and waits.
LEMMA PutWaits ==
    ASSUME PipeInv, ~Forced, NEW t \in Writer, pipe_state[t] # "wait",
           NEW data \in Block, data # <<>>, ringbuf_put(data), count' = 0, Wait(t),
           write_list' = Append(write_list, t), block' = [block EXCEPT ![t] = data],
           UNCHANGED <<flag, want, readers_crowded, read_list>>
    PROVE  PipeInv'
  <1> USE DEF PipeInv
  <1>1. Pool' /\ data_len = Size /\ ~Empty' /\ data_len' = data_len /\ Forced' = Forced
    BY PutPool DEF Forced
  <1>2. t \in PipeThread /\ t \notin Reader /\ ~Empty
    BY Sides, <1>1, LengthFacts DEF Pool
  <1>3. /\ pipe_state' \in [PipeThread -> {"run", "wait", "ready"}] /\ pipe_state'[t] = "wait"
        /\ \A u \in PipeThread \ {t} : pipe_state'[u] = pipe_state[u]
        /\ Asleep' = Asleep \cup {t} /\ Ready' = Ready \ {t} /\ t \notin Asleep
    BY <1>2, WaitSides
  <1>4. /\ write_list' \in Seq(Writer)
        /\ ListOf(write_list', (Asleep \cap Writer) \cup {t})
    <2>1. write_list \in Seq(Writer) /\ ListOf(write_list, Asleep \cap Writer)
      BY DEF Threads
    <2>2. t \notin Asleep \cap Writer
      BY <1>3
    <2>3. /\ Append(write_list, t) \in Seq(Writer)
          /\ ListOf(Append(write_list, t), (Asleep \cap Writer) \cup {t})
      BY <2>1, <2>2, ListAppend
    <2>4. QED
      BY <2>3
  <1>5. /\ Asleep' \cap Writer = (Asleep \cap Writer) \cup {t}
        /\ Asleep' \cap Reader = Asleep \cap Reader
    BY <1>2, <1>3
  <1>6. Threads'
    <2>1. block' \in [Writer -> Block] /\ block'[t] = data
          /\ \A w \in Writer \ {t} : block'[w] = block[w]
      BY DEF Threads
    <2>2. \A w \in Writer : pipe_state'[w] # "run" => block'[w] # <<>>
      BY <1>3, <2>1, Sides DEF Threads
    <2>3. \A r \in Reader : pipe_state'[r] # "run" => want'[r] # 0
      BY <1>2, <1>3, Sides DEF Threads
    <2>4. QED
      BY <1>3, <1>4, <1>5, <2>1, <2>2, <2>3 DEF Threads
  <1>7. Ready' \cap Reader = Ready \cap Reader
    BY <1>2, <1>3
  <1>8. WritersAtEmpty' /\ ReadersAtFull' /\ NoStandoff' /\ ForcedNeverWaits'
    BY <1>1, <1>7 DEF WritersAtEmpty, ReadersAtFull, NoStandoff, ForcedNeverWaits
  <1>9. ReaderAlone'
    BY <1>2 DEF ReaderAlone
  <1>10. QED
    BY <1>1, <1>6, <1>8, <1>9

\* By one that forces its bytes in.
LEMMA PutForces ==
    ASSUME PipeInv, Forced, NEW t \in Writer, pipe_state[t] # "wait", NEW data \in Block,
           PutForced(t, data), UNCHANGED <<flag, want, readers_crowded>>
    PROVE  PipeInv'
  <1> USE DEF PipeInv, PutForced
  <1>1. Pool' /\ Forced' = Forced
    BY ForcePool DEF Forced
  <1>2. /\ pipe_state' \in [PipeThread -> {"run", "wait", "ready"}]
        /\ \A u \in PipeThread : pipe_state'[u] # "run" => pipe_state[u] # "run" /\ u # t
        /\ read_list' \in Seq(Reader) /\ ListOf(read_list', Asleep' \cap Reader)
        /\ write_list' \in Seq(Writer) /\ ListOf(write_list', Asleep' \cap Writer)
        /\ write_list' = write_list
        /\ \A r \in Reader : pipe_state'[r] # "run" => want'[r] # 0
        /\ \/ read_list = <<>> /\ read_list' = <<>>
           \/ Ready' \cap Reader # {} /\ read_list # <<>> /\ Len(read_list') = Len(read_list) - 1
    BY ResumeReader
  <1>3. Threads'
    <2>1. \A w \in Writer : pipe_state'[w] # "run" => block'[w] # <<>>
      BY <1>2, Sides DEF Threads
    <2>2. QED
      BY <1>2, <2>1 DEF Threads
  <1>4. ForcedNeverWaits'
    <2>1. write_list' = <<>> /\ \A w \in Writer : pipe_state'[w] = "run"
      BY <1>2, Sides DEF ForcedNeverWaits
    <2>2. QED
      BY <2>1 DEF ForcedNeverWaits
  <1>5. ReaderAlone'
    <2>1. ASSUME ~readers_crowded, read_list # <<>>, Len(read_list') = Len(read_list) - 1
          PROVE  read_list' = <<>>
      <3>1. Len(read_list') = 0
        BY <2>1 DEF ReaderAlone
      <3>2. QED
        BY <1>2, <3>1, EmptySeq
    <2>2. readers_crowded' = readers_crowded
      OBVIOUS
    <2>3. QED
      BY <1>2, <2>1, <2>2 DEF ReaderAlone
  <1>6. WritersAtEmpty' /\ ReadersAtFull' /\ NoStandoff'
    BY <1>1, <1>2 DEF WritersAtEmpty, ReadersAtFull, NoStandoff, ForcedNeverWaits
  <1>7. QED
    BY <1>1, <1>3, <1>4, <1>5, <1>6

\* The section of rt_pipe_read keeps the invariant.
LEMMA ReadKeeps ==
    ASSUME PipeInv, NEW t \in Reader, pipe_state[t] # "wait", NEW size \in 1..MaxLength,
           ReadSection(t, size)
    PROVE  PipeInv'
  <1> USE DEF ReadSection
  <1>1. CASE count' # 0
    BY <1>1, ReadTakes
  <1>2. CASE count' = 0 /\ ReadBlocks
    BY <1>2, ReadWaits
  <1>3. CASE count' = 0 /\ ~ReadBlocks
    <2>1. UNCHANGED <<lists, readers_crowded, flag>>
      BY <1>3
    <2>2. Pool' /\ Empty /\ Empty' /\ data_len' = data_len
      BY <1>3, <2>1, GetPool DEF PipeInv
    <2>3. Asleep' = Asleep /\ Ready' = Ready /\ Forced' = Forced
      BY <2>1 DEF lists, Asleep, Ready, Forced
    <2>4. QED
      BY <2>1, <2>2, <2>3 DEF PipeInv, lists, Threads, ForcedNeverWaits, WritersAtEmpty,
                              ReadersAtFull, ReaderAlone, NoStandoff
  <1>4. QED
    BY <1>1, <1>2, <1>3

\* So does the section of rt_pipe_write.
LEMMA WriteKeeps ==
    ASSUME PipeInv, NEW t \in Writer, pipe_state[t] # "wait", NEW data \in Block, data # <<>>,
           WriteSection(t, data)
    PROVE  PipeInv'
  <1> USE DEF WriteSection, PutPlain
  <1>1. CASE Forced
    BY <1>1, PutForces DEF Forced
  <1>2. CASE ~Forced /\ (count' # 0 \/ ~WriteBlocks)
    <2>1. count' # 0 \/ ~WriteBlocks
      BY <1>2
    <2>2. resume_reader(t) /\ block' = [block EXCEPT ![t] = <<>>] /\ ringbuf_put(data)
      BY <1>2 DEF Forced
    <2>3. QED
      BY <1>2, <2>1, <2>2, PutGoesOn
  <1>3. CASE ~Forced /\ count' = 0 /\ WriteBlocks
    BY <1>3, PutWaits DEF Forced
  <1>4. QED
    BY <1>1, <1>2, <1>3

\* The invariant holds initially.
LEMMA PipeInvInit == PipeInit => PipeInv
  <1> SUFFICES ASSUME PipeInit PROVE PipeInv
    OBVIOUS
  <1> USE DEF PipeInit
  <1>1. Pool
    BY InvInit DEF Pool, Inv, TypeOK, IndexTypes
  <1>2. Asleep = {} /\ Ready = {}
    BY DEF Asleep, Ready
  <1>3. Threads
    <2>1. <<>> \in Block
      <3>1. <<>> \in [1..0 -> Byte] /\ 0 \in 0..MaxLength
        BY ConstFacts
      <3>2. QED
        BY <3>1 DEF Block
    <2>2. <<>> \in Seq(Reader) /\ <<>> \in Seq(Writer) /\ ListOf(<<>>, {})
      BY DEF ListOf
    <2>3. want \in [Reader -> 0..MaxLength] /\ block \in [Writer -> Block]
      BY <2>1, ConstFacts
    <2>4. QED
      BY <1>2, <2>2, <2>3, Sides DEF Threads, ListOf
  <1>4. ForcedNeverWaits /\ WritersAtEmpty /\ ReadersAtFull /\ ReaderAlone /\ NoStandoff
    BY Sides DEF ForcedNeverWaits, WritersAtEmpty, ReadersAtFull, ReaderAlone, NoStandoff
  <1>5. QED
    BY <1>1, <1>3, <1>4 DEF PipeInv

\* Every step keeps it.
LEMMA PipeInvNext == PipeInv /\ [PipeNext]_pvars => PipeInv'
  <1> SUFFICES ASSUME PipeInv, [PipeNext]_pvars PROVE PipeInv'
    OBVIOUS
  <1>1. ASSUME NEW r \in Reader, NEW size \in 1..MaxLength, rt_pipe_read(r, size)
        PROVE  PipeInv'
    BY <1>1, ReadKeeps DEF rt_pipe_read
  <1>2. ASSUME NEW r \in Reader, ReadResumed(r)
        PROVE  PipeInv'
    <2>1. pipe_state[r] = "ready" /\ ReadSection(r, want[r])
      BY <1>2 DEF ReadResumed
    <2>2. want[r] \in 0..MaxLength /\ want[r] # 0
      BY <2>1 DEF PipeInv, Threads
    <2>3. want[r] \in 1..MaxLength
      BY <2>2, ConstFacts
    <2>4. QED
      BY <2>1, <2>3, ReadKeeps
  <1>3. ASSUME NEW w \in Writer, NEW data \in Block \ {<<>>}, rt_pipe_write(w, data)
        PROVE  PipeInv'
    BY <1>3, WriteKeeps DEF rt_pipe_write
  <1>4. ASSUME NEW w \in Writer, WriteResumed(w)
        PROVE  PipeInv'
    <2>1. pipe_state[w] = "ready" /\ WriteSection(w, block[w])
      BY <1>4 DEF WriteResumed
    <2>2. block[w] \in Block /\ block[w] # <<>>
      BY <2>1 DEF PipeInv, Threads
    <2>3. QED
      BY <2>1, <2>2, WriteKeeps
  <1>5. CASE UNCHANGED pvars
    <2>1. UNCHANGED <<vars, lists, readers_crowded, flag>>
      BY <1>5 DEF pvars
    <2>2. /\ Inv' = Inv /\ IndexTypes' = IndexTypes /\ Empty' = Empty /\ data_len' = data_len
          /\ Forced' = Forced
      BY <2>1 DEF vars, Inv, TypeOK, MirrorInv, IndexTypes, Empty, Full, data_len, Forced
    <2>3. Asleep' = Asleep /\ Ready' = Ready
      BY <2>1 DEF lists, Asleep, Ready
    <2>4. QED
      BY <2>1, <2>2, <2>3 DEF PipeInv, Pool, lists, Threads, ForcedNeverWaits, WritersAtEmpty,
                              ReadersAtFull, ReaderAlone, NoStandoff
  <1>6. QED
    BY <1>1, <1>2, <1>3, <1>4, <1>5 DEF PipeNext

LEMMA PipeInvTypes == PipeInv => PipeTypeOK
  BY DEF PipeInv, Threads, PipeTypeOK

\* The lists are the threads that sleep, each once.
THEOREM PipeTypeCorrect == PipeSpec => []PipeTypeOK
  BY PipeInvTypes, PipeInvInit, PipeInvNext, PTL DEF PipeSpec

\* When readers and writers are suspended at the same time, one that has been resumed
\* is about to run.
THEOREM PipeNoStandoff == PipeSpec => []NoStandoff
  <1>1. PipeInv => NoStandoff
    BY DEF PipeInv
  <1>2. QED
    BY <1>1, PipeInvInit, PipeInvNext, PTL DEF PipeSpec

\* No writer sleeps at an empty pipe and no reader beside bytes, unless one of its side
\* is about to run, as long as readers have never waited together.
THEOREM PipeNoneSleepsInVain == PipeSpec => []NoneSleepsInVain
  <1>1. PipeInv => NoneSleepsInVain
    BY DEF PipeInv, WritersAtEmpty, ReaderAlone, NoneSleepsInVain
  <1>2. QED
    BY <1>1, PipeInvInit, PipeInvNext, PTL DEF PipeSpec
-----------------------------------------------------------------------------
\* The four side by side, as they are explored: a step of one leaves the others, so
\* that each keeps the types of its own specification.
THEOREM QueuesTypeCorrect == PartsSpec => []TypesOK
  <1> DEFINE Invs == DataQueueInv /\ PipeInv /\ ShellInv /\ CmdInv
  <1>1. PartsInit => Invs
    BY QueueInvInit, PipeInvInit, RegisteredInv, CmdInvInit DEF PartsInit
  <1>2. [PartsNext]_partVars => /\ [QueueNext]_queueVars /\ [PipeNext]_pvars
                                /\ [ShellLineNext]_lineVars /\ [CmdQueueNext]_cmdVars
    BY DEF PartsNext, Queues, Pipes, Lines, Tasks, partVars
  <1>3. Invs /\ [PartsNext]_partVars => Invs'
    BY <1>2, QueueInvNext, PipeInvNext, ShellKeeps, CmdInvNext
  <1>4. Invs => TypesOK
    BY QueueInvTypes, PipeInvTypes, ShellInvTypes, CmdInvTypes DEF TypesOK
  <1>5. QED
    BY <1>1, <1>3, <1>4, PTL DEF PartsSpec
===============================================================================
