------------------------------- MODULE BusProof -------------------------------
(***************************************************************************)
(* Proofs about the drivers whose bus is shared: Sdio for every set of     *)
(* functions, whichever of them take the lock and whichever requests fail, *)
(* SpiBus for every set of threads, devices and configurations, and        *)
(* UsbHost for every number of ports and instances, every length of its    *)
(* queue and every set of devices.  The three specifications have nothing  *)
(* in common.                                                              *)
(*                                                                         *)
(* Sdio, NobodyForgotten and AckIsMine: no answer is lost or left over; a  *)
(* thread goes on with an answer that is not its own only when it meets    *)
(* one without the lock; and the register it writes back is the card's as  *)
(* long as no two have met.  Plan: of those on the lock the first alone is *)
(* inside, and the thread of the interrupt is always one of them (LockInv);*)
(* the requests are those of the threads that are at one, and as many      *)
(* answers are to come as threads wait for one, as one request more is one *)
(* answer more and the semaphore gives each to one thread (AckInv); so a   *)
(* thread that goes on while its own request is still with the controller  *)
(* leaves another one waiting, and both are inside.  Until two have met    *)
(* there is one inside at most (LoneInv), and the register it has read is  *)
(* the card's until it is written (RegInv).  The semaphore of the          *)
(* interrupt counts to one, as the interrupt is disabled from its signal   *)
(* until the thread has run (IrqInv).                                      *)
(*                                                                         *)
(* SpiBus, BusIsSetUp: while data go to a device the controller has its    *)
(* configuration and its chip alone is selected.  Plan: the recursive      *)
(* mutex is held exactly as often as its holder's calls ask for (MutexInv),*)
(* so that only one thread can be beyond it; that thread's job tells what  *)
(* it has made of the bus (JobInv); a device that owns the bus has its     *)
(* configuration in effect (OwnerInv); a chip that is selected is in use   *)
(* by the holder, or a failure has left it so (ChipInv).                   *)
(*                                                                         *)
(* UsbHost, PortsInOrder: when the thread waits and has no message, the    *)
(* instances are what the ports say.  Plan: a port has one instance at     *)
(* most, and finds it (ChildInv), so that there is always an idle one to   *)
(* allocate; a change is in the queue or lies ahead of the thread          *)
(* (SeenInv); a port with no change that the thread is not at is in order  *)
(* (RestInv); the port that it is at is what the step it has come to says, *)
(* unless it has changed again (LookInv before there is an instance,       *)
(* EnumInv after).                                                         *)
(***************************************************************************)
EXTENDS MCDrivers, FiniteSetTheorems, SequenceTheorems, WellFoundedInduction, TLAPS

Asking  == {"read", "write", "request"}     \* with a request
Owning  == Asking \cup {"handle"}           \* inside
Locking == Owning \cup {"lock"}             \* on the lock, if they take it

\* The types of the variables.
ReqState == {"none", "sent", "asleep", "back"}
VarTypes ==
    /\ bus_lock \in Seq(SdioThread) /\ ack_wait \in Seq(SdioThread) /\ sem_ack \in Nat
    /\ on_bus \subseteq SdioThread /\ sdio_req \in [SdioThread -> ReqState]
    /\ failed \in [SdioThread -> BOOLEAN]
    /\ sdio_reg \in [SdioThread -> SUBSET Func]
    /\ sdio_op \in [Func -> {"none", "attach", "detach", "request"}]
    /\ irq_handler \subseteq Func /\ int_en \subseteq Func /\ pending \subseteq Func
    /\ sdio_irq_num \in {0, 1} /\ sdio_irq_sem \in {NoSem, 0, 1}
    /\ irq_enabled \in BOOLEAN /\ halted \in BOOLEAN /\ crossed \in BOOLEAN
Places == [SdioThread -> {"none", "wait", "idle", "bare", "enable"} \cup Locking]
IrqPlace    == {"none", "wait", "lock", "read", "handle", "enable"}
DriverPlace == {"idle", "bare", "lock", "read", "write", "request"}
PlaceTypes ==
    /\ sdio_at \in Places
    /\ sdio_at[IrqThread] \in IrqPlace /\ \A f \in Func : sdio_at[f] \in DriverPlace
SdioTypes == VarTypes /\ PlaceTypes

\* Nobody stands on the lock twice, one of those on it who is inside is the first, and
\* the thread of the interrupt is never inside without it; until the lock is lost,
\* those on it are those who wait for it or are inside.
LockInv ==
    /\ IsInjective(bus_lock)
    /\ \A t \in ToSet(bus_lock) : sdio_at[t] \in Owning => Head(bus_lock) = t
    /\ sdio_at[IrqThread] \in Owning => IrqThread \in ToSet(bus_lock)
    /\ ~halted => \A t \in SdioThread : /\ t \in ToSet(bus_lock) => sdio_at[t] \in Locking
                                        /\ sdio_at[t] = "lock" => t \in ToSet(bus_lock)

\* The requests are those of the threads that are at one, the sleepers are in the queue
\* of the semaphore, each once, and the answers are as many as those who wait for one.
AckInv ==
    /\ \A t \in SdioThread : /\ sdio_req[t] # "none" <=> sdio_at[t] \in Asking
                             /\ t \in on_bus => sdio_req[t] # "none"
    /\ IsInjective(ack_wait) /\ ToSet(ack_wait) = {t \in SdioThread : sdio_req[t] = "asleep"}
    /\ NobodyForgotten

\* Until two have met, there is one inside at most.
LoneInv ==
    ~crossed => \A t, u \in SdioThread : sdio_at[t] \in Owning /\ sdio_at[u] \in Owning => t = u

\* And what a function has read is what the register still holds.
RegInv ==
    ~crossed => \A f \in Func :
       /\ sdio_at[f] = "read" /\ f \notin on_bus /\ ~failed[f] => sdio_reg[f] = int_en
       /\ sdio_at[f] = "write" /\ f \in on_bus /\ sdio_op[f] = "attach" =>
             sdio_reg[f] = int_en \cup {f}

\* The semaphore of the interrupt is there as long as its thread is.
IrqInv ==
    /\ sdio_irq_num = 1 <=> sdio_irq_sem # NoSem
    /\ sdio_irq_num = 1 <=> sdio_at[IrqThread] # "none"
    /\ sdio_irq_sem = 1 => sdio_at[IrqThread] = "wait" /\ ~irq_enabled
    /\ sdio_at[IrqThread] \notin {"none", "wait"} => ~irq_enabled /\ sdio_irq_sem = 0

\* The inductive invariant.
SdioInv == SdioTypes /\ LockInv /\ AckInv /\ LoneInv /\ RegInv /\ IrqInv
-----------------------------------------------------------------------------
(* Queues in which nobody stands twice.                                      *)

\* Joining one leaves the first where it is, unless there was nobody.
LEMMA JoinQueue ==
    ASSUME NEW S, NEW q \in Seq(S), NEW x \in S, x \notin ToSet(q), IsInjective(q)
    PROVE  /\ Append(q, x) \in Seq(S) /\ IsInjective(Append(q, x))
           /\ ToSet(Append(q, x)) = ToSet(q) \cup {x}
           /\ \A y \in ToSet(q) : Head(Append(q, x)) = Head(q)
  <1> DEFINE r == Append(q, x)
  <1>1. /\ r \in Seq(S) /\ Len(r) = Len(q) + 1 /\ r[Len(q) + 1] = x
        /\ \A i \in 1..Len(q) : r[i] = q[i]
    BY AppendProperties
  <1>2. DOMAIN q = 1..Len(q) /\ DOMAIN r = 1..Len(q) + 1 /\ Len(q) \in Nat
    BY <1>1, LenProperties
  <1> HIDE DEF r
  <1>3. IsInjective(r)
    <2>1. \A i \in 1..Len(q) : q[i] # x
      BY <1>2 DEF ToSet
    <2>2. \A i, j \in 1..Len(q) : q[i] = q[j] => i = j
      BY <1>2 DEF IsInjective
    <2>3. \A i, j \in 1..Len(q) + 1 : r[i] = r[j] => i = j
      BY <1>1, <1>2, <2>1, <2>2
    <2>4. DOMAIN r = 1..Len(q) + 1
      BY <1>2
    <2>5. QED
      BY <2>3, <2>4, Zenon DEF IsInjective
  <1>4. ToSet(r) = ToSet(q) \cup {x}
    BY <1>1, <1>2 DEF ToSet
  <1>5. ASSUME NEW y \in ToSet(q) PROVE Head(r) = Head(q)
    <2>1. q # <<>>
      BY <1>2 DEF ToSet
    <2>2. QED
      BY <2>1, HeadTailAppend DEF r
  <1>6. QED
    BY <1>1, <1>3, <1>4, <1>5 DEF r

\* The first leaves one.
LEMMA LeaveQueue ==
    ASSUME NEW S, NEW q \in Seq(S), q # <<>>, IsInjective(q)
    PROVE  /\ Tail(q) \in Seq(S) /\ IsInjective(Tail(q))
           /\ ToSet(Tail(q)) = ToSet(q) \ {Head(q)} /\ Head(q) \in ToSet(q)
  <1> DEFINE r == Tail(q)
  <1>1. /\ r \in Seq(S) /\ Len(r) = Len(q) - 1 /\ Head(q) = q[1]
        /\ \A i \in 1..Len(r) : r[i] = q[i + 1]
    BY HeadTailProperties
  <1>2. DOMAIN q = 1..Len(q) /\ DOMAIN r = 1..Len(q) - 1 /\ Len(q) \in Nat /\ Len(q) > 0
    BY <1>1, LenProperties, EmptySeq
  <1> HIDE DEF r
  <1>3. IsInjective(r)
    <2>1. \A i, j \in 1..Len(q) : q[i] = q[j] => i = j
      BY <1>2 DEF IsInjective
    <2>2. \A i, j \in 1..Len(q) - 1 : r[i] = r[j] => i = j
      BY <1>1, <1>2, <2>1
    <2>3. DOMAIN r = 1..Len(q) - 1
      BY <1>2
    <2>4. QED
      BY <2>2, <2>3, Zenon DEF IsInjective
  <1>4. ASSUME NEW y \in ToSet(r) PROVE y \in ToSet(q) \ {Head(q)}
    BY <1>1, <1>2 DEF ToSet, IsInjective
  <1>5. ASSUME NEW y \in ToSet(q), y # Head(q) PROVE y \in ToSet(r)
    <2>1. PICK i \in 1..Len(q) : y = q[i]
      BY <1>2 DEF ToSet
    <2>2. i - 1 \in 1..Len(r) /\ r[i - 1] = q[i]
      BY <1>1, <1>2, <1>5, <2>1
    <2>3. QED
      BY <1>1, <1>2, <2>1, <2>2 DEF ToSet
  <1>6. Head(q) \in ToSet(q)
    BY <1>1, <1>2 DEF ToSet
  <1>7. QED
    BY <1>1, <1>3, <1>4, <1>5, <1>6 DEF r

\* Another is taken out of one.
LEMMA TakeOut ==
    ASSUME NEW S, NEW q \in Seq(S), q # <<>>, IsInjective(q), NEW x, x # Head(q)
    PROVE  /\ RemoveFirst(q, x) \in Seq(S) /\ IsInjective(RemoveFirst(q, x))
           /\ ToSet(RemoveFirst(q, x)) = ToSet(q) \ {x}
           /\ Head(RemoveFirst(q, x)) = Head(q)
  <1>1. DOMAIN q = 1..Len(q) /\ Len(q) \in Nat /\ Len(q) > 0 /\ Head(q) = q[1]
    BY LenProperties, EmptySeq, HeadTailProperties
  <1>2. CASE x \notin ToSet(q)
    <2>1. RemoveFirst(q, x) = q
      BY <1>1, <1>2 DEF RemoveFirst, ToSet
    <2>2. QED
      BY <1>2, <2>1
  <1>3. CASE x \in ToSet(q)
    <2>1. PICK k \in 1..Len(q) : q[k] = x
      BY <1>1, <1>3 DEF ToSet
    <2>2. k > 1
      BY <1>1, <2>1
    <2> DEFINE a == SubSeq(q, 1, k - 1)
               b == SubSeq(q, k + 1, Len(q))
               r == a \o b
    <2>3. RemoveFirst(q, x) = r
      <3>1. {i \in 1..Len(q) : q[i] = x} = {k}
        BY <1>1, <2>1 DEF IsInjective
      <3>2. SelectInSeq(q, LAMBDA v: v = x) = k
        BY <3>1 DEF SelectInSeq, Min
      <3>3. QED
        BY <2>1, <3>2 DEF RemoveFirst, RemoveAt
    <2>4. /\ a \in Seq(S) /\ Len(a) = k - 1 /\ \A i \in 1..k - 1 : a[i] = q[i]
      <3>1. \A i \in 1..k - 1 : q[i] \in S
        BY <1>1, ElementOfSeq
      <3>2. QED
        BY <1>1, <2>2, <3>1, SubSeqProperties
    <2>5. /\ b \in Seq(S) /\ Len(b) = Len(q) - k
          /\ \A i \in 1..Len(q) - k : b[i] = q[k + i]
      <3>1. \A i \in k + 1..Len(q) : q[i] \in S
        BY <1>1, ElementOfSeq
      <3>2. k + 1 \in Int /\ Len(q) \in Int
        BY <1>1
      <3>3. /\ b \in Seq(S) /\ Len(b) = IF k + 1 <= Len(q) THEN Len(q) - (k + 1) + 1 ELSE 0
            /\ \A i \in 1 .. Len(q) - (k + 1) + 1 : b[i] = q[k + 1 + i - 1]
        BY <3>1, <3>2, SubSeqProperties
      <3> HIDE DEF b
      <3>4. Len(b) = Len(q) - k
        <4>1. Len(b) = IF k + 1 <= Len(q) THEN Len(q) - (k + 1) + 1 ELSE 0
          BY <3>3
        <4>2. k \in Int /\ Len(q) \in Int /\ k <= Len(q)
          BY <1>1
        <4>3. QED
          BY <4>1, <4>2
      <3>5. ASSUME NEW i \in 1..Len(q) - k PROVE b[i] = q[k + i]
        <4>1. i \in 1..Len(q) - (k + 1) + 1 /\ k + 1 + i - 1 = k + i
          BY <1>1, <2>1
        <4>2. QED
          BY <3>3, <4>1
      <3>6. QED
        BY <3>3, <3>4, <3>5
    <2> HIDE DEF a, b
    <2>6. /\ r \in Seq(S) /\ Len(r) = Len(q) - 1
          /\ \A i \in 1..Len(q) - 1 : r[i] = IF i < k THEN q[i] ELSE q[i + 1]
      <3>1. /\ r \in Seq(S) /\ Len(r) = Len(a) + Len(b)
            /\ \A i \in 1..Len(a) + Len(b) : r[i] = IF i <= Len(a) THEN a[i] ELSE b[i - Len(a)]
        BY <2>4, <2>5, ConcatProperties
      <3> HIDE DEF r
      <3>2. Len(r) = Len(q) - 1
        BY <1>1, <2>1, <2>4, <2>5, <3>1
      <3>3. ASSUME NEW i \in 1..Len(q) - 1, i < k PROVE r[i] = q[i]
        <4>1. i \in 1..k - 1 /\ i \in 1..Len(a) + Len(b) /\ i <= Len(a)
          BY <1>1, <2>1, <2>4, <2>5, <3>3
        <4>2. r[i] = a[i]
          BY <3>1, <4>1
        <4>3. QED
          BY <2>4, <4>1, <4>2
      <3>4. ASSUME NEW i \in 1..Len(q) - 1, i >= k PROVE r[i] = q[i + 1]
        <4>1. i - (k - 1) \in 1..Len(q) - k /\ k + (i - (k - 1)) = i + 1
          BY <1>1, <2>1, <3>4
        <4>2. i \in 1..Len(a) + Len(b) /\ ~(i <= Len(a)) /\ i - Len(a) = i - (k - 1)
          BY <1>1, <2>1, <2>4, <2>5, <3>4
        <4>3. r[i] = b[i - Len(a)]
          BY <3>1, <4>2
        <4>4. QED
          BY <2>5, <4>1, <4>2, <4>3
      <3>5. ASSUME NEW i \in 1..Len(q) - 1
            PROVE  r[i] = IF i < k THEN q[i] ELSE q[i + 1]
        <4>1. i < k \/ i >= k
          BY <1>1, <2>1
        <4>2. CASE i < k
          BY <3>3, <4>2
        <4>3. CASE i >= k
          <5>1. ~(i < k)
            BY <1>1, <2>1, <4>3
          <5>2. QED
            BY <3>4, <4>3, <5>1
        <4>4. QED
          BY <4>1, <4>2, <4>3
      <3>6. QED
        BY <3>1, <3>2, <3>5
    <2> HIDE DEF r
    <2>7. DOMAIN r = 1..Len(q) - 1 /\ Len(q) > 1
      BY <1>1, <2>1, <2>2, <2>6, LenProperties
    <2>8. IsInjective(r)
      <3>1. \A i, j \in 1..Len(q) : q[i] = q[j] => i = j
        BY <1>1 DEF IsInjective
      <3>2. SUFFICES ASSUME NEW i \in 1..Len(q) - 1, NEW j \in 1..Len(q) - 1, r[i] = r[j]
                     PROVE  i = j
        BY <2>7 DEF IsInjective
      <3>3. /\ i \in 1..Len(q) /\ i + 1 \in 1..Len(q)
            /\ j \in 1..Len(q) /\ j + 1 \in 1..Len(q)
        BY <1>1
      <3>4. QED
        BY <1>1, <2>1, <2>6, <3>1, <3>2, <3>3
    <2>9. ASSUME NEW y \in ToSet(r) PROVE y \in ToSet(q) \ {x}
      BY SMTT(30), <1>1, <2>1, <2>6, <2>7 DEF ToSet, IsInjective
    <2>10. ASSUME NEW y \in ToSet(q), y # x PROVE y \in ToSet(r)
      <3>1. PICK i \in 1..Len(q) : y = q[i]
        BY <1>1 DEF ToSet
      <3>2. CASE i < k
        BY <1>1, <2>1, <2>6, <2>7, <3>1, <3>2 DEF ToSet
      <3>3. CASE i > k
        <4>1. i - 1 \in 1..Len(q) - 1 /\ r[i - 1] = q[i]
          BY <1>1, <2>1, <2>6, <3>3
        <4>2. QED
          BY <2>7, <3>1, <4>1 DEF ToSet
      <3>4. QED
        BY <1>1, <2>1, <2>10, <3>1, <3>2, <3>3
    <2>11. Head(r) = q[1]
      BY <1>1, <2>2, <2>6, <2>7, EmptySeq, HeadTailProperties
    <2>12. QED
      BY <1>1, <2>3, <2>6, <2>8, <2>9, <2>10, <2>11
  <1>4. QED
    BY <1>2, <1>3
-----------------------------------------------------------------------------
\* The thread of the interrupt is not one of a function, and there are few.
LEMMA FuncFacts ==
    /\ IrqThread \in SdioThread /\ IrqThread \notin Func
    /\ \A f \in Func : f \in SdioThread /\ f # IrqThread
    /\ SdioThread = Func \cup {IrqThread}
  BY SdioAssumption DEF IrqThread, SdioThread

LEMMA FewThreads == \A S \in SUBSET SdioThread : IsFiniteSet(S) /\ Cardinality(S) \in Nat
  <1>1. IsFiniteSet(1 .. 7)
    <2>1. 1 \in Int /\ 7 \in Int
      OBVIOUS
    <2>2. QED
      BY <2>1, FS_Interval
  <1>2. IsFiniteSet(Func)
    BY <1>1, FS_Subset, SdioAssumption
  <1>3. IsFiniteSet(SdioThread)
    BY <1>2, FS_AddElement DEF SdioThread
  <1>4. QED
    BY <1>3, FS_Subset, FS_CardinalityType

\* The invariant holds initially.
LEMMA SdioInvInit == SdioInit => SdioInv
  <1> SUFFICES ASSUME SdioInit PROVE SdioInv
    OBVIOUS
  <1> USE DEF SdioInit
  <1>1. SdioTypes
    <2>1. <<>> \in Seq(SdioThread)
      BY EmptySeq
    <2>2. sdio_at \in Places
      BY DEF Places
    <2>3. \A f \in Func : sdio_at[f] = "idle"
      BY FuncFacts
    <2>4. sdio_at[IrqThread] = "none"
      BY FuncFacts
    <2>5. QED
      BY <2>1, <2>2, <2>3, <2>4
         DEF SdioTypes, VarTypes, PlaceTypes, IrqPlace, DriverPlace, ReqState
  <1>2. ToSet(<<>>) = {} /\ IsInjective(<<>>)
    BY DEF ToSet, IsInjective
  <1>3. \A t \in SdioThread : sdio_at[t] \in {"none", "idle"}
    OBVIOUS
  <1>4. LockInv
    BY <1>2, <1>3, FuncFacts DEF LockInv, Locking, Owning, Asking
  <1>5. AckInv
    <2>1. Askers = {}
      BY DEF Askers
    <2>2. Cardinality({}) = 0
      BY FS_EmptySet
    <2>3. NobodyForgotten
      BY <2>1, <2>2 DEF NobodyForgotten
    <2>4. QED
      BY <1>2, <1>3, <2>3 DEF AckInv, Asking
  <1>6. LoneInv /\ RegInv /\ IrqInv
    BY <1>3, FuncFacts DEF LoneInv, RegInv, IrqInv, NoSem, Owning, Asking
  <1>7. QED
    BY <1>1, <1>4, <1>5, <1>6 DEF SdioInv
-----------------------------------------------------------------------------
(* The requests.                                                             *)

\* They are the same as long as nobody begins or ends one.
LEMMA SameRequests ==
    ASSUME AckInv, UNCHANGED <<sem_ack, ack_wait, on_bus, sdio_req>>,
           \A u \in SdioThread : sdio_at'[u] \in Asking <=> sdio_at[u] \in Asking
    PROVE  AckInv'
  <1>1. NobodyForgotten'
    BY DEF AckInv, NobodyForgotten, Askers
  <1>2. QED
    BY <1>1 DEF AckInv

\* A request more is an answer more to come.
LEMMA RequestSent ==
    ASSUME SdioInv, NEW t \in SdioThread, sdio_req[t] \in {"none", "back"}, t \notin on_bus,
           on_bus' = on_bus \cup {t}, sdio_req' = [sdio_req EXCEPT ![t] = "sent"],
           UNCHANGED <<sem_ack, ack_wait>>, sdio_at'[t] \in Asking,
           \A u \in SdioThread \ {t} : sdio_at'[u] \in Asking <=> sdio_at[u] \in Asking
    PROVE  AckInv' /\ on_bus' \subseteq SdioThread /\ sdio_req' \in [SdioThread -> ReqState]
  <1>1. /\ on_bus \subseteq SdioThread /\ sdio_req \in [SdioThread -> ReqState] /\ sem_ack \in Nat
        /\ AckInv
    BY DEF SdioInv, SdioTypes, VarTypes
  <1>2. /\ sdio_req'[t] = "sent" /\ \A u \in SdioThread \ {t} : sdio_req'[u] = sdio_req[u]
        /\ sdio_req' \in [SdioThread -> ReqState]
    BY <1>1 DEF ReqState
  <1>3. Askers' = Askers \cup {t} /\ t \notin Askers /\ Askers \subseteq SdioThread
    BY <1>2 DEF Askers
  <1>4. /\ Cardinality(Askers \cup {t}) = Cardinality(Askers) + 1
        /\ Cardinality(on_bus \cup {t}) = Cardinality(on_bus) + 1
    BY <1>1, <1>3, FewThreads, FS_AddElement
  <1>5. Cardinality(Askers) \in Nat /\ Cardinality(on_bus) \in Nat
    BY <1>1, <1>3, FewThreads
  <1>6. NobodyForgotten'
    BY <1>1, <1>3, <1>4, <1>5 DEF AckInv, NobodyForgotten
  <1>7. {u \in SdioThread : sdio_req'[u] = "asleep"} = {u \in SdioThread : sdio_req[u] = "asleep"}
    BY <1>2
  <1>8. QED
    BY <1>1, <1>2, <1>6, <1>7 DEF AckInv

\* A request that has been answered, or none, is forgotten.
LEMMA RequestOver ==
    ASSUME SdioInv, NEW t \in SdioThread, sdio_req[t] \in {"none", "back"}, t \notin on_bus,
           NoRequest(t), UNCHANGED <<sem_ack, ack_wait>>, sdio_at'[t] \notin Asking,
           \A u \in SdioThread \ {t} : sdio_at'[u] \in Asking <=> sdio_at[u] \in Asking
    PROVE  AckInv' /\ on_bus' = on_bus /\ sdio_req' \in [SdioThread -> ReqState]
  <1>1. /\ sdio_req \in [SdioThread -> ReqState] /\ AckInv
        /\ on_bus' = on_bus /\ sdio_req' = [sdio_req EXCEPT ![t] = "none"]
    BY DEF SdioInv, SdioTypes, VarTypes, NoRequest
  <1>2. /\ sdio_req'[t] = "none" /\ \A u \in SdioThread \ {t} : sdio_req'[u] = sdio_req[u]
        /\ sdio_req' \in [SdioThread -> ReqState]
    BY <1>1 DEF ReqState
  <1>3. Askers' = Askers
    BY <1>2 DEF Askers
  <1>4. NobodyForgotten'
    BY <1>1, <1>3 DEF AckInv, NobodyForgotten
  <1>5. {u \in SdioThread : sdio_req'[u] = "asleep"} = {u \in SdioThread : sdio_req[u] = "asleep"}
    BY <1>2
  <1>6. QED
    BY <1>1, <1>2, <1>4, <1>5 DEF AckInv

\* A thread takes an answer that has come, or goes to sleep.
LEMMA TakeAckKeeps ==
    ASSUME SdioInv, NEW t \in SdioThread, TakeAck(t)
    PROVE  SdioInv'
  <1> USE DEF TakeAck, irq, card
  <1>1. /\ sdio_req \in [SdioThread -> ReqState] /\ sem_ack \in Nat /\ AckInv
        /\ on_bus \subseteq SdioThread /\ ack_wait \in Seq(SdioThread) /\ sdio_req[t] = "sent"
    BY DEF SdioInv, SdioTypes, VarTypes
  <1>2. Cardinality(Askers) \in Nat /\ Cardinality(on_bus) \in Nat /\ IsFiniteSet(Askers)
    BY <1>1, FewThreads DEF Askers
  <1>3. /\ AckInv' /\ sem_ack' \in Nat /\ ack_wait' \in Seq(SdioThread)
        /\ sdio_req' \in [SdioThread -> ReqState]
    <2>1. CASE sem_ack > 0
      <3>1. /\ sem_ack' = sem_ack - 1 /\ sdio_req' = [sdio_req EXCEPT ![t] = "back"]
            /\ ack_wait' = ack_wait /\ on_bus' = on_bus /\ sdio_at' = sdio_at
        BY <2>1
      <3>2. /\ sdio_req'[t] = "back" /\ \A u \in SdioThread \ {t} : sdio_req'[u] = sdio_req[u]
            /\ sdio_req' \in [SdioThread -> ReqState]
        BY <1>1, <3>1 DEF ReqState
      <3>3. Askers' = Askers \ {t} /\ t \in Askers
        BY <1>1, <3>2 DEF Askers
      <3>4. Cardinality(Askers \ {t}) = Cardinality(Askers) - 1
        BY <1>2, <3>3, FS_RemoveElement
      <3>5. ack_wait = <<>>
        BY <1>1, <2>1 DEF AckInv, NobodyForgotten
      <3>6. NobodyForgotten'
        BY <1>1, <1>2, <3>1, <3>3, <3>4, <3>5 DEF AckInv, NobodyForgotten
      <3>7. {u \in SdioThread : sdio_req'[u] = "asleep"} = {u \in SdioThread : sdio_req[u] = "asleep"}
        BY <1>1, <3>2
      <3>8. sem_ack' \in Nat
        BY <1>1, <2>1, <3>1
      <3>9. QED
        BY <1>1, <3>1, <3>2, <3>6, <3>7, <3>8 DEF AckInv
    <2>2. CASE ~(sem_ack > 0)
      <3>1. /\ ack_wait' = Append(ack_wait, t) /\ sdio_req' = [sdio_req EXCEPT ![t] = "asleep"]
            /\ sem_ack' = sem_ack /\ on_bus' = on_bus /\ sdio_at' = sdio_at /\ sem_ack = 0
        BY <1>1, <2>2
      <3>2. /\ sdio_req'[t] = "asleep" /\ \A u \in SdioThread \ {t} : sdio_req'[u] = sdio_req[u]
            /\ sdio_req' \in [SdioThread -> ReqState]
        BY <1>1, <3>1 DEF ReqState
      <3>3. Askers' = Askers
        BY <1>1, <3>2 DEF Askers
      <3>4. t \notin ToSet(ack_wait) /\ IsInjective(ack_wait)
        BY <1>1 DEF AckInv
      <3>5. /\ ack_wait' \in Seq(SdioThread) /\ IsInjective(ack_wait')
            /\ ToSet(ack_wait') = ToSet(ack_wait) \cup {t}
        BY <1>1, <3>1, <3>4, JoinQueue
      <3>6. NobodyForgotten'
        BY <1>1, <3>1, <3>3 DEF AckInv, NobodyForgotten
      <3>7. ToSet(ack_wait') = {u \in SdioThread : sdio_req'[u] = "asleep"}
        BY <1>1, <3>2, <3>5 DEF AckInv
      <3>8. QED
        BY <1>1, <3>1, <3>2, <3>5, <3>6, <3>7 DEF AckInv
    <2>3. QED
      BY <2>1, <2>2
  <1>4. SdioTypes'
    BY <1>3 DEF SdioInv, SdioTypes, VarTypes, PlaceTypes
  <1>5. LockInv' /\ LoneInv' /\ RegInv' /\ IrqInv'
    BY DEF SdioInv, LockInv, LoneInv, RegInv, IrqInv
  <1>6. QED
    BY <1>3, <1>4, <1>5 DEF SdioInv

\* The controller gives one answer, to whoever is first.
LEMMA AnswerKeeps ==
    ASSUME SdioInv, NEW t \in on_bus, on_bus' = on_bus \ {t}, ReleaseAck, UNCHANGED sdio_at
    PROVE  /\ AckInv' /\ sem_ack' \in Nat /\ ack_wait' \in Seq(SdioThread)
           /\ sdio_req' \in [SdioThread -> ReqState]
  <1>1. /\ sdio_req \in [SdioThread -> ReqState] /\ sem_ack \in Nat /\ AckInv
        /\ on_bus \subseteq SdioThread /\ ack_wait \in Seq(SdioThread)
    BY DEF SdioInv, SdioTypes, VarTypes
  <1>2. /\ Cardinality(Askers) \in Nat /\ Cardinality(on_bus) \in Nat
        /\ IsFiniteSet(Askers) /\ IsFiniteSet(on_bus)
    BY <1>1, FewThreads DEF Askers
  <1>3. Cardinality(on_bus \ {t}) = Cardinality(on_bus) - 1
    BY <1>2, FS_RemoveElement
  <1>4. CASE ack_wait # <<>>
    <2> DEFINE h == Head(ack_wait)
    <2>1. /\ sdio_req' = [sdio_req EXCEPT ![h] = "back"] /\ ack_wait' = Tail(ack_wait)
          /\ sem_ack' = sem_ack /\ sem_ack = 0
      BY <1>1, <1>4 DEF ReleaseAck, AckInv, NobodyForgotten
    <2>2. /\ ack_wait' \in Seq(SdioThread) /\ IsInjective(ack_wait')
          /\ ToSet(ack_wait') = ToSet(ack_wait) \ {h} /\ h \in ToSet(ack_wait)
      BY <1>1, <1>4, <2>1, LeaveQueue DEF AckInv
    <2>3. h \in SdioThread /\ sdio_req[h] = "asleep"
      BY <1>1, <2>2 DEF AckInv
    <2> HIDE DEF h
    <2>4. /\ sdio_req'[h] = "back" /\ \A u \in SdioThread \ {h} : sdio_req'[u] = sdio_req[u]
          /\ sdio_req' \in [SdioThread -> ReqState]
      BY <1>1, <2>1, <2>3 DEF ReqState
    <2>5. Askers' = Askers \ {h} /\ h \in Askers
      BY <2>3, <2>4 DEF Askers
    <2>6. Cardinality(Askers \ {h}) = Cardinality(Askers) - 1
      BY <1>2, <2>5, FS_RemoveElement
    <2>7. NobodyForgotten'
      BY <1>1, <1>2, <1>3, <2>1, <2>5, <2>6 DEF AckInv, NobodyForgotten
    <2>8. ToSet(ack_wait') = {u \in SdioThread : sdio_req'[u] = "asleep"}
      BY <1>1, <2>2, <2>3, <2>4 DEF AckInv
    <2>9. \A u \in SdioThread : sdio_req'[u] # "none" <=> sdio_req[u] # "none"
      BY <2>3, <2>4
    <2>10. QED
      BY <1>1, <2>1, <2>2, <2>4, <2>7, <2>8, <2>9 DEF AckInv
  <1>5. CASE ack_wait = <<>>
    <2>1. sem_ack' = sem_ack + 1 /\ sdio_req' = sdio_req /\ ack_wait' = ack_wait
      BY <1>5 DEF ReleaseAck
    <2>2. Askers' = Askers
      BY <2>1 DEF Askers
    <2>3. NobodyForgotten'
      BY <1>1, <1>2, <1>3, <1>5, <2>1, <2>2 DEF AckInv, NobodyForgotten
    <2>4. sem_ack' \in Nat
      BY <1>1, <2>1
    <2>5. QED
      BY <1>1, <2>1, <2>3, <2>4 DEF AckInv
  <1>6. QED
    BY <1>4, <1>5

\* The end of a request keeps the invariant.
LEMMA CompleteKeeps ==
    ASSUME SdioInv, NEW t \in SdioThread, NEW err \in BOOLEAN, mmcsd_req_complete(t, err)
    PROVE  SdioInv'
  <1> USE DEF mmcsd_req_complete, irq
  <1>1. /\ AckInv' /\ sem_ack' \in Nat /\ ack_wait' \in Seq(SdioThread)
        /\ sdio_req' \in [SdioThread -> ReqState]
    BY AnswerKeeps
  <1>2. VarTypes /\ PlaceTypes
    BY DEF SdioInv, SdioTypes
  <1>3. /\ int_en' \subseteq Func /\ sdio_reg' \in [SdioThread -> SUBSET Func]
        /\ failed' \in [SdioThread -> BOOLEAN]
    <2>1. /\ int_en \subseteq Func /\ pending \subseteq Func
          /\ sdio_reg \in [SdioThread -> SUBSET Func] /\ failed \in [SdioThread -> BOOLEAN]
      BY <1>2 DEF VarTypes
    <2>2. Result(t) \in [SdioThread -> SUBSET Func]
      BY <2>1 DEF Result
    <2>3. sdio_reg[t] \subseteq Func
      BY <2>1
    <2>4. failed' = [failed EXCEPT ![t] = err]
      OBVIOUS
    <2>5. sdio_reg' \in {sdio_reg, Result(t)} /\ int_en' \in {sdio_reg[t], int_en}
      OBVIOUS
    <2>6. QED
      BY <2>1, <2>2, <2>3, <2>4, <2>5
  <1>4. SdioTypes'
    <2>1. /\ UNCHANGED <<bus_lock, sdio_at, sdio_op, pending, halted, crossed>>
          /\ UNCHANGED <<irq_handler, sdio_irq_num, sdio_irq_sem, irq_enabled>>
          /\ on_bus' \subseteq on_bus
      OBVIOUS
    <2>2. VarTypes'
      BY <1>1, <1>2, <1>3, <2>1 DEF VarTypes
    <2>3. PlaceTypes'
      BY <1>2, <2>1 DEF PlaceTypes
    <2>4. QED
      BY <2>2, <2>3 DEF SdioTypes
  <1>5. LockInv' /\ LoneInv' /\ IrqInv'
    BY DEF SdioInv, LockInv, LoneInv, IrqInv
  <1>6. ASSUME ~crossed, NEW f \in Func, sdio_at[f] \in {"read", "write"}
        PROVE  f = t /\ f # IrqThread
    <2>1. sdio_at[t] \in Owning /\ sdio_at[f] \in Owning
      BY <1>6 DEF SdioInv, AckInv, Owning, Asking
    <2>2. QED
      BY <1>6, <2>1, FuncFacts DEF SdioInv, LoneInv
  <1>7. RegInv'
    <2> SUFFICES ASSUME ~crossed, NEW f \in Func, sdio_at[f] \in {"read", "write"}
                 PROVE  /\ sdio_at[f] = "read" /\ f \notin on_bus' /\ ~failed'[f] => sdio_reg'[f] = int_en'
                        /\ sdio_at[f] = "write" /\ f \in on_bus' /\ sdio_op[f] = "attach" =>
                              sdio_reg'[f] = int_en' \cup {f}
      BY DEF RegInv
    <2>1. f = t /\ f # IrqThread
      BY <1>6
    <2>2. ASSUME sdio_at[f] = "read", ~failed'[f] PROVE sdio_reg'[f] = int_en'
      <3>1. ~err
        BY <1>2, <2>1, <2>2 DEF VarTypes
      <3>2. sdio_reg' = Result(t) /\ int_en' = int_en
        BY <2>1, <2>2, <3>1
      <3>3. Result(t)[t] = int_en
        BY <1>2, <2>1, <2>2 DEF Result, VarTypes
      <3>4. QED
        BY <2>1, <3>2, <3>3
    <2>3. QED
      BY <2>1, <2>2
  <1>8. QED
    BY <1>1, <1>4, <1>5, <1>7 DEF SdioInv
-----------------------------------------------------------------------------
(* Who goes in and out.                                                      *)

\* One who joins the lock.
LEMMA JoinKeeps ==
    ASSUME SdioInv, ~halted, UNCHANGED halted, NEW t \in SdioThread, sdio_at[t] \notin Locking,
           mmcsd_host_lock(t)
    PROVE  /\ LockInv' /\ bus_lock' \in Seq(SdioThread)
           /\ sdio_at'[t] = "lock" /\ \A u \in SdioThread \ {t} : sdio_at'[u] = sdio_at[u]
  <1> USE DEF SdioInv, mmcsd_host_lock
  <1>1. /\ t \notin ToSet(bus_lock) /\ bus_lock \in Seq(SdioThread) /\ IsInjective(bus_lock)
        /\ sdio_at \in Places
    BY DEF LockInv, SdioTypes, VarTypes, PlaceTypes
  <1>2. /\ bus_lock' \in Seq(SdioThread) /\ IsInjective(bus_lock')
        /\ ToSet(bus_lock') = ToSet(bus_lock) \cup {t}
        /\ \A u \in ToSet(bus_lock) : Head(bus_lock') = Head(bus_lock)
    BY <1>1, JoinQueue
  <1>3. /\ sdio_at'[t] = "lock" /\ \A u \in SdioThread \ {t} : sdio_at'[u] = sdio_at[u]
    BY <1>1 DEF Places
  <1>4. ToSet(bus_lock) \subseteq SdioThread
    BY <1>1, ElementOfSeq DEF ToSet
  <1>5. LockInv'
    BY <1>2, <1>3, <1>4, FuncFacts DEF LockInv, Locking, Owning, Asking
  <1>6. QED
    BY <1>2, <1>3, <1>5

\* Whoever is inside or about to be either is first on the lock or is not on it.
FirstOrBare(t) == \/ t \in ToSet(bus_lock) /\ Head(bus_lock) = t
                  \/ t \notin ToSet(bus_lock) /\ t # IrqThread

LEMMA StartsFirst ==
    ASSUME SdioInv, ~halted, NEW t \in SdioThread,
           \/ HasLock(t)
           \/ sdio_at[t] \in Owning
           \/ sdio_at[t] = "bare" /\ t # IrqThread
    PROVE  FirstOrBare(t)
  BY DEF SdioInv, LockInv, HasLock, FirstOrBare, Locking, Owning, Asking

\* One who goes in, or on.
LEMMA EnterKeeps ==
    ASSUME SdioInv, ~halted, UNCHANGED <<halted, bus_lock>>, NEW t \in SdioThread, FirstOrBare(t),
           sdio_at'[t] \in Owning, \A u \in SdioThread \ {t} : sdio_at'[u] = sdio_at[u]
    PROVE  LockInv'
  <1>1. ToSet(bus_lock) \subseteq SdioThread
    BY ElementOfSeq DEF SdioInv, SdioTypes, VarTypes, ToSet
  <1>2. QED
    BY <1>1, FuncFacts DEF SdioInv, LockInv, FirstOrBare, Locking, Owning, Asking

\* One who goes out, while the thread of the interrupt may be created.
LEMMA LeaveKeeps ==
    ASSUME SdioInv, ~halted, UNCHANGED halted, NEW t \in SdioThread, FirstOrBare(t),
           mmcsd_host_unlock(t), sdio_at'[t] \notin Locking,
           \A u \in SdioThread \ {t} : \/ sdio_at'[u] = sdio_at[u]
                                       \/ sdio_at[u] \notin Locking /\ sdio_at'[u] \notin Locking
    PROVE  LockInv' /\ bus_lock' \in Seq(SdioThread)
  <1>1. bus_lock \in Seq(SdioThread) /\ LockInv
    BY DEF SdioInv, SdioTypes, VarTypes
  <1>2. ToSet(bus_lock) \subseteq SdioThread
    BY <1>1, ElementOfSeq DEF ToSet
  <1>3. CASE t \in ToSet(bus_lock)
    <2>1. bus_lock # <<>> /\ Head(bus_lock) = t
      BY <1>3 DEF FirstOrBare, ToSet
    <2>2. /\ bus_lock' \in Seq(SdioThread) /\ IsInjective(bus_lock')
          /\ ToSet(bus_lock') = ToSet(bus_lock) \ {t}
      BY <1>1, <2>1, LeaveQueue DEF mmcsd_host_unlock, HoldsLock, LockInv
    <2>3. \A u \in ToSet(bus_lock') : sdio_at'[u] \notin Owning
      BY <1>1, <1>2, <2>1, <2>2 DEF LockInv, Locking
    <2>4. sdio_at'[IrqThread] \notin Owning
      BY <1>1, <2>1, FuncFacts DEF LockInv, Locking
    <2>5. \A u \in SdioThread : /\ u \in ToSet(bus_lock') => sdio_at'[u] \in Locking
                                /\ sdio_at'[u] = "lock" => u \in ToSet(bus_lock')
      BY <1>1, <2>2 DEF LockInv, Locking
    <2>6. QED
      BY <2>2, <2>3, <2>4, <2>5 DEF LockInv
  <1>4. CASE t \notin ToSet(bus_lock)
    <2>1. bus_lock' = bus_lock /\ t # IrqThread
      <3>1. ~HoldsLock(t)
        BY <1>1, <1>4, LeaveQueue DEF HoldsLock, LockInv
      <3>2. QED
        BY <1>4, <3>1 DEF mmcsd_host_unlock, FirstOrBare
    <2>2. ASSUME NEW u \in ToSet(bus_lock)
          PROVE  sdio_at'[u] = sdio_at[u]
      BY <1>1, <1>2, <1>4, <2>2 DEF LockInv
    <2>3. sdio_at'[IrqThread] \in Owning => sdio_at[IrqThread] \in Owning
      BY <2>1, FuncFacts DEF Locking
    <2>4. \A u \in SdioThread : sdio_at'[u] = "lock" => u \in ToSet(bus_lock)
      BY <1>1 DEF LockInv, Locking
    <2>5. QED
      BY <1>1, <2>1, <2>2, <2>3, <2>4 DEF LockInv
  <1>5. QED
    BY <1>3, <1>4

\* While nobody else goes in, those who have not met still have not.
LEMMA LoneKeeps ==
    ASSUME SdioInv, NEW t \in SdioThread,
           \/ UNCHANGED crossed /\ (sdio_at'[t] \in Owning => sdio_at[t] \in Owning)
           \/ Enter(t),
           \A u \in SdioThread \ {t} : sdio_at'[u] \in Owning => sdio_at[u] \in Owning
    PROVE  /\ LoneInv' /\ crossed' \in BOOLEAN
           /\ Enter(t) /\ ~crossed' => \A u \in SdioThread \ {t} : sdio_at[u] \notin Owning
  <1>1. crossed \in BOOLEAN /\ LoneInv
    BY DEF SdioInv, SdioTypes, VarTypes
  <1>2. CASE Enter(t)
    <2>1. ~crossed' => \A u \in SdioThread \ {t} : sdio_at[u] \notin Owning
      BY <1>2 DEF Enter, Inside, Owning, Asking
    <2>2. crossed' \in BOOLEAN
      BY <1>2 DEF Enter
    <2>3. QED
      BY <2>1, <2>2 DEF LoneInv
  <1>3. CASE ~Enter(t)
    BY <1>1, <1>3 DEF LoneInv
  <1>4. QED
    BY <1>2, <1>3

\* The places, when one thread of a function goes to another.
LEMMA DriverPlaces ==
    ASSUME SdioInv, NEW f \in Func, NEW to \in DriverPlace, sdio_at' = [sdio_at EXCEPT ![f] = to]
    PROVE  /\ PlaceTypes' /\ sdio_at'[f] = to /\ sdio_at'[IrqThread] = sdio_at[IrqThread]
           /\ f \in SdioThread /\ f # IrqThread
           /\ \A u \in SdioThread \ {f} : sdio_at'[u] = sdio_at[u]
  <1>1. f \in SdioThread /\ f # IrqThread /\ IrqThread \in SdioThread /\ sdio_at \in Places
    BY FuncFacts DEF SdioInv, SdioTypes, PlaceTypes
  <1>2. sdio_at'[f] = to /\ \A u \in SdioThread \ {f} : sdio_at'[u] = sdio_at[u]
    BY <1>1 DEF Places
  <1>3. sdio_at' \in Places
    BY <1>1 DEF Places, DriverPlace, Locking, Owning, Asking
  <1>4. \A g \in Func : sdio_at'[g] \in DriverPlace
    BY <1>2, FuncFacts DEF SdioInv, SdioTypes, PlaceTypes
  <1>5. QED
    BY <1>1, <1>2, <1>3, <1>4 DEF SdioInv, SdioTypes, PlaceTypes

\* While one uses the host and nobody has met another, the register is its own.
LEMMA OwnRegister ==
    ASSUME NEW f \in Func, ~crossed' => \A u \in SdioThread \ {f} : sdio_at'[u] \notin Owning,
           sdio_at'[f] = "read" => f \in on_bus',
           ~crossed' /\ sdio_at'[f] = "write" /\ sdio_op'[f] = "attach" =>
               sdio_reg'[f] = int_en' \cup {f}
    PROVE  RegInv'
  <1>1. ASSUME ~crossed', NEW g \in Func, sdio_at'[g] \in {"read", "write"} PROVE g = f
    BY <1>1, FuncFacts DEF Owning, Asking
  <1>2. QED
    BY <1>1 DEF RegInv

\* The invariant is kept by a driver that begins a call, with the lock or without.
LEMMA DriverCallsKeeps ==
    ASSUME SdioInv, ~halted, NEW f \in Func, NEW what \in {"attach", "detach", "request"},
           DriverCalls(f, what)
    PROVE  SdioInv'
  <1> USE DEF DriverCalls, irq, card, requests
  <1>1. /\ f \in SdioThread /\ f # IrqThread /\ sdio_at[f] = "idle"
        /\ UNCHANGED <<halted, crossed, int_en, sdio_reg, on_bus, failed>>
        /\ sdio_op' = [sdio_op EXCEPT ![f] = what]
    BY FuncFacts
  <1>2. PICK to \in {"lock", "bare"} : sdio_at' = [sdio_at EXCEPT ![f] = to]
    BY DEF mmcsd_host_lock
  <1>3. /\ PlaceTypes' /\ sdio_at'[f] = to /\ sdio_at'[IrqThread] = sdio_at[IrqThread]
        /\ \A u \in SdioThread \ {f} : sdio_at'[u] = sdio_at[u]
    BY <1>2, DriverPlaces DEF DriverPlace
  <1>4. sdio_at[f] \notin Locking /\ sdio_at'[f] \notin Owning
    BY <1>1, <1>3 DEF Locking, Owning, Asking
  <1>5. LockInv' /\ bus_lock' \in Seq(SdioThread)
    <2>1. CASE mmcsd_host_lock(f)
      BY <1>1, <1>4, <2>1, JoinKeeps
    <2>2. CASE sdio_at' = [sdio_at EXCEPT ![f] = "bare"] /\ UNCHANGED bus_lock
      <3>1. sdio_at'[f] = "bare"
        BY <1>1, <2>2 DEF SdioInv, SdioTypes, PlaceTypes, Places
      <3>2. f \notin ToSet(bus_lock) /\ bus_lock \in Seq(SdioThread)
        BY <1>1, <1>4 DEF SdioInv, SdioTypes, VarTypes, LockInv
      <3>3. ToSet(bus_lock) \subseteq SdioThread
        BY <3>2, ElementOfSeq DEF ToSet
      <3>4. QED
        BY <1>1, <1>3, <2>2, <3>1, <3>2, <3>3, FuncFacts DEF SdioInv, LockInv
    <2>3. QED
      BY <2>1, <2>2
  <1>6. AckInv'
    BY <1>1, <1>3, <1>4, SameRequests DEF SdioInv, Locking, Owning
  <1>7. LoneInv'
    BY <1>1, <1>3, <1>4, LoneKeeps
  <1>8. RegInv'
    BY <1>1, <1>3, <1>4, FuncFacts DEF SdioInv, SdioTypes, VarTypes, RegInv, Owning, Asking
  <1>9. IrqInv'
    BY <1>3 DEF SdioInv, IrqInv
  <1>10. SdioTypes'
    BY <1>1, <1>3, <1>5 DEF SdioInv, SdioTypes, VarTypes
  <1>11. QED
    BY <1>5, <1>6, <1>7, <1>8, <1>9, <1>10 DEF SdioInv

\* One that begins a request has none yet.
LEMMA StartsFacts ==
    ASSUME SdioInv, ~halted, NEW f \in Func, HasLock(f) \/ sdio_at[f] = "bare"
    PROVE  /\ f \in SdioThread /\ f # IrqThread /\ FirstOrBare(f)
           /\ sdio_at[f] \notin Owning /\ sdio_req[f] = "none" /\ f \notin on_bus
  <1>1. f \in SdioThread /\ f # IrqThread /\ FirstOrBare(f)
    BY FuncFacts, StartsFirst
  <1>2. sdio_at[f] \notin Owning
    BY DEF HasLock, Owning, Asking
  <1>3. sdio_req[f] = "none" /\ f \notin on_bus
    BY <1>1, <1>2 DEF SdioInv, AckInv, Owning
  <1>4. QED
    BY <1>1, <1>2, <1>3

\* By one that hands the controller a request.
LEMMA DriverSends ==
    ASSUME SdioInv, ~halted, UNCHANGED halted, NEW f \in Func, NEW to \in {"read", "request"},
           HasLock(f) \/ sdio_at[f] = "bare", Send(f, to), Enter(f),
           UNCHANGED <<bus_lock, sdio_reg, sem_ack, ack_wait, sdio_op, irq, card>>
    PROVE  SdioInv'
  <1> USE DEF irq, card
  <1>1. /\ f \in SdioThread /\ f # IrqThread /\ FirstOrBare(f)
        /\ sdio_req[f] = "none" /\ f \notin on_bus
    BY StartsFacts
  <1>2. /\ on_bus' = on_bus \cup {f} /\ sdio_req' = [sdio_req EXCEPT ![f] = "sent"]
        /\ sdio_at' = [sdio_at EXCEPT ![f] = to] /\ failed' = [failed EXCEPT ![f] = FALSE]
    BY DEF Send
  <1>3. /\ PlaceTypes' /\ sdio_at'[f] = to /\ sdio_at'[IrqThread] = sdio_at[IrqThread]
        /\ \A u \in SdioThread \ {f} : sdio_at'[u] = sdio_at[u]
    BY <1>2, DriverPlaces DEF DriverPlace
  <1>4. sdio_at'[f] \in Asking /\ sdio_at'[f] \in Owning
    BY <1>3 DEF Owning, Asking
  <1>5. LockInv'
    BY <1>1, <1>3, <1>4, EnterKeeps
  <1>6. AckInv' /\ on_bus' \subseteq SdioThread /\ sdio_req' \in [SdioThread -> ReqState]
    BY <1>1, <1>2, <1>3, <1>4, RequestSent
  <1>7. /\ LoneInv' /\ crossed' \in BOOLEAN
        /\ ~crossed' => \A u \in SdioThread \ {f} : sdio_at'[u] \notin Owning
    BY <1>1, <1>3, LoneKeeps
  <1>8. RegInv'
    BY <1>2, <1>3, <1>7, OwnRegister
  <1>9. IrqInv'
    BY <1>3 DEF SdioInv, IrqInv
  <1>10. failed' \in [SdioThread -> BOOLEAN]
    BY <1>2 DEF SdioInv, SdioTypes, VarTypes
  <1>11. SdioTypes'
    BY <1>3, <1>6, <1>7, <1>10 DEF SdioInv, SdioTypes, VarTypes
  <1>12. QED
    BY <1>5, <1>6, <1>7, <1>8, <1>9, <1>11 DEF SdioInv

\* By one whose call returns.
LEMMA DriverReturns ==
    ASSUME SdioInv, ~halted, NEW f \in Func,
           HasLock(f) \/ sdio_at[f] = "bare" \/ Back(f, sdio_at[f]),
           Leave(f, "idle"), CallReturns(f),
           UNCHANGED <<halted, crossed, sem_ack, ack_wait, irq, card>>
    PROVE  SdioInv'
  <1> USE DEF irq, card
  <1>1. /\ f \in SdioThread /\ f # IrqThread /\ FirstOrBare(f)
        /\ sdio_req[f] \in {"none", "back"} /\ f \notin on_bus
    <2>1. CASE HasLock(f) \/ sdio_at[f] = "bare"
      BY <2>1, StartsFacts
    <2>2. CASE Back(f, sdio_at[f])
      <3>1. sdio_at[f] \in Owning
        BY <2>2, FuncFacts DEF Back, SdioInv, AckInv, Owning
      <3>2. QED
        BY <2>2, <3>1, FuncFacts, StartsFirst DEF Back
    <2>3. QED
      BY <2>1, <2>2
  <1>2. /\ NoRequest(f) /\ mmcsd_host_unlock(f) /\ sdio_at' = [sdio_at EXCEPT ![f] = "idle"]
        /\ failed' = [failed EXCEPT ![f] = FALSE] /\ sdio_reg' = [sdio_reg EXCEPT ![f] = {}]
        /\ sdio_op' = [sdio_op EXCEPT ![f] = "none"]
    BY DEF Leave, CallReturns
  <1>3. /\ PlaceTypes' /\ sdio_at'[f] = "idle" /\ sdio_at'[IrqThread] = sdio_at[IrqThread]
        /\ \A u \in SdioThread \ {f} : sdio_at'[u] = sdio_at[u]
    BY <1>2, DriverPlaces DEF DriverPlace
  <1>4. sdio_at'[f] \notin Locking /\ sdio_at'[f] \notin Owning /\ sdio_at'[f] \notin Asking
    BY <1>3 DEF Locking, Owning, Asking
  <1>5. LockInv' /\ bus_lock' \in Seq(SdioThread)
    BY <1>1, <1>2, <1>3, <1>4, LeaveKeeps
  <1>6. AckInv' /\ on_bus' = on_bus /\ sdio_req' \in [SdioThread -> ReqState]
    BY <1>1, <1>2, <1>3, <1>4, RequestOver
  <1>7. LoneInv'
    BY <1>1, <1>3, <1>4, LoneKeeps
  <1>8. \A g \in Func \ {f} : /\ sdio_reg'[g] = sdio_reg[g] /\ failed'[g] = failed[g]
                              /\ sdio_op'[g] = sdio_op[g] /\ sdio_at'[g] = sdio_at[g]
    BY <1>2, <1>3, FuncFacts DEF SdioInv, SdioTypes, VarTypes
  <1>9. RegInv'
    BY <1>3, <1>6, <1>8 DEF SdioInv, RegInv
  <1>10. IrqInv'
    BY <1>3 DEF SdioInv, IrqInv
  <1>11. /\ failed' \in [SdioThread -> BOOLEAN] /\ sdio_reg' \in [SdioThread -> SUBSET Func]
         /\ sdio_op' \in [Func -> {"none", "attach", "detach", "request"}]
    BY <1>2 DEF SdioInv, SdioTypes, VarTypes
  <1>12. SdioTypes'
    BY <1>3, <1>5, <1>6, <1>11 DEF SdioInv, SdioTypes, VarTypes
  <1>13. QED
    BY <1>5, <1>6, <1>7, <1>9, <1>10, <1>12 DEF SdioInv

\* By the deletion of the thread of the interrupt, which may be waiting for the lock.
LEMMA DeleteKeeps ==
    ASSUME SdioInv, ~halted, NEW f \in Func, HasLock(f) \/ sdio_at[f] = "bare", Enter(f),
           irq_handler' = irq_handler \ {f}, sdio_irq_thread_delete(f),
           UNCHANGED <<sdio_reg, sem_ack, ack_wait, sdio_op, card>>
    PROVE  SdioInv'
  <1> USE DEF card
  <1>1. /\ f \in SdioThread /\ f # IrqThread /\ FirstOrBare(f) /\ IrqThread \in SdioThread
        /\ sdio_at[f] \notin Owning /\ sdio_req[f] = "none" /\ f \notin on_bus
    BY StartsFacts, FuncFacts
  <1>2. CASE sdio_irq_num = 0 \/ HoldsLock(IrqThread)
    <2>1. /\ halted' = TRUE
          /\ UNCHANGED <<sdio_irq_num, sdio_irq_sem, irq_enabled, bus_lock, sdio_at,
                         on_bus, sdio_req, failed>>
      BY <1>2 DEF sdio_irq_thread_delete, requests
    <2>2. LoneInv' /\ crossed' \in BOOLEAN /\ (~crossed' => ~crossed)
      <3>1. crossed' \in BOOLEAN /\ (~crossed' => ~crossed)
        BY DEF Enter
      <3>2. QED
        BY <2>1, <3>1 DEF SdioInv, LoneInv
    <2>3. SdioTypes'
      BY <2>1, <2>2 DEF SdioInv, SdioTypes, VarTypes, PlaceTypes
    <2>4. LockInv'
      BY <2>1 DEF SdioInv, LockInv
    <2>5. AckInv'
      BY <2>1, SameRequests DEF SdioInv
    <2>6. RegInv' /\ IrqInv'
      BY <2>1, <2>2 DEF SdioInv, RegInv, IrqInv
    <2>7. QED
      BY <2>2, <2>3, <2>4, <2>5, <2>6 DEF SdioInv
  <1>3. CASE sdio_irq_num # 0 /\ ~HoldsLock(IrqThread)
    <2>1. /\ sdio_irq_num' = 0 /\ sdio_irq_sem' = NoSem /\ irq_enabled' = FALSE
          /\ bus_lock' = RemoveFirst(bus_lock, IrqThread)
          /\ on_bus' = on_bus \cup {f} /\ sdio_req' = [sdio_req EXCEPT ![f] = "sent"]
          /\ sdio_at' = [sdio_at EXCEPT ![IrqThread] = "none", ![f] = "read"]
          /\ failed' = [failed EXCEPT ![f] = FALSE] /\ halted' = halted
      BY <1>3 DEF sdio_irq_thread_delete
    <2>2. /\ bus_lock' \in Seq(SdioThread) /\ IsInjective(bus_lock')
          /\ ToSet(bus_lock') = ToSet(bus_lock) \ {IrqThread}
          /\ \A u \in ToSet(bus_lock') : Head(bus_lock') = Head(bus_lock)
      <3>1. bus_lock \in Seq(SdioThread) /\ IsInjective(bus_lock)
        BY DEF SdioInv, SdioTypes, VarTypes, LockInv
      <3>2. CASE bus_lock = <<>>
        <4>1. RemoveFirst(bus_lock, IrqThread) = bus_lock
          BY <3>2 DEF RemoveFirst
        <4>2. ToSet(bus_lock) = {}
          BY <3>2 DEF ToSet
        <4>3. QED
          BY <2>1, <3>1, <4>1, <4>2
      <3>3. CASE bus_lock # <<>>
        <4>1. IrqThread # Head(bus_lock)
          BY <1>3, <3>3 DEF HoldsLock
        <4>2. QED
          BY <2>1, <3>1, <3>3, <4>1, TakeOut
      <3>4. QED
        BY <3>2, <3>3
    <2>3. ToSet(bus_lock') \subseteq SdioThread /\ ToSet(bus_lock) \subseteq SdioThread
      BY <2>2, ElementOfSeq DEF ToSet, SdioInv, SdioTypes, VarTypes
    <2>4. /\ sdio_at' \in Places /\ sdio_at'[f] = "read" /\ sdio_at'[IrqThread] = "none"
          /\ \A u \in SdioThread \ {f, IrqThread} : sdio_at'[u] = sdio_at[u]
      BY <1>1, <2>1 DEF SdioInv, SdioTypes, PlaceTypes, Places, Locking, Owning, Asking
    <2>5. sdio_at'[f] \in Asking /\ sdio_at'[f] \in Owning /\ sdio_at'[f] \in Locking
      BY <2>4 DEF Locking, Owning, Asking
    <2>6. /\ sdio_at'[IrqThread] \notin Locking /\ sdio_at'[IrqThread] \notin Owning
          /\ sdio_at'[IrqThread] \notin Asking
      BY <2>4 DEF Locking, Owning, Asking
    <2>7. sdio_at[IrqThread] \notin Owning /\ sdio_at[IrqThread] \notin Asking
      <3>1. sdio_at[IrqThread] \in Owning =>
              IrqThread \in ToSet(bus_lock) /\ Head(bus_lock) = IrqThread
        BY DEF SdioInv, LockInv
      <3>2. IrqThread \in ToSet(bus_lock) => bus_lock # <<>>
        BY DEF ToSet
      <3>3. QED
        BY <1>3, <3>1, <3>2 DEF HoldsLock, Owning
    <2>8. LockInv'
      <3>1. f \in ToSet(bus_lock') => Head(bus_lock') = f
        BY <2>2, <1>1 DEF FirstOrBare
      <3>2. ASSUME NEW u \in ToSet(bus_lock'), sdio_at'[u] \in Owning PROVE Head(bus_lock') = u
        <4>1. CASE u = f
          BY <3>1, <3>2, <4>1
        <4>2. CASE u # f
          <5>1. u # IrqThread /\ u \in ToSet(bus_lock) /\ sdio_at'[u] = sdio_at[u]
            BY <2>2, <2>3, <2>4, <4>2
          <5>2. QED
            BY <2>2, <3>2, <5>1 DEF SdioInv, LockInv
        <4>3. QED
          BY <4>1, <4>2
      <3>3. ASSUME NEW u \in SdioThread
            PROVE  /\ u \in ToSet(bus_lock') => sdio_at'[u] \in Locking
                   /\ sdio_at'[u] = "lock" => u \in ToSet(bus_lock')
        <4>1. CASE u \in {f, IrqThread}
          BY <2>2, <2>4, <2>5, <4>1
        <4>2. CASE u \notin {f, IrqThread}
          BY <2>2, <2>4, <4>2 DEF SdioInv, LockInv
        <4>3. QED
          BY <4>1, <4>2
      <3>4. QED
        BY <2>2, <2>6, <3>2, <3>3 DEF LockInv
    <2>9. AckInv' /\ on_bus' \subseteq SdioThread /\ sdio_req' \in [SdioThread -> ReqState]
      <3>1. \A u \in SdioThread \ {f} : sdio_at'[u] \in Asking <=> sdio_at[u] \in Asking
        BY <2>4, <2>6, <2>7
      <3>2. QED
        BY <1>1, <2>1, <2>5, <3>1, RequestSent
    <2>10. /\ LoneInv' /\ crossed' \in BOOLEAN
           /\ ~crossed' => \A u \in SdioThread \ {f} : sdio_at'[u] \notin Owning
      <3>1. \A u \in SdioThread \ {f} : sdio_at'[u] \in Owning => sdio_at[u] \in Owning
        BY <2>4, <2>6
      <3>2. QED
        BY <1>1, <3>1, LoneKeeps
    <2>11. RegInv'
      BY <2>1, <2>4, <2>10, OwnRegister
    <2>12. IrqInv'
      BY <2>1, <2>4 DEF IrqInv, NoSem
    <2>13. PlaceTypes'
      <3>1. ASSUME NEW g \in Func PROVE sdio_at'[g] \in DriverPlace
        <4>1. CASE g = f
          BY <2>4, <4>1 DEF DriverPlace
        <4>2. CASE g # f
          BY <2>4, <4>2, FuncFacts DEF SdioInv, SdioTypes, PlaceTypes
        <4>3. QED
          BY <4>1, <4>2
      <3>2. QED
        BY <2>4, <3>1 DEF PlaceTypes, IrqPlace
    <2>14. SdioTypes'
      <3>1. failed' \in [SdioThread -> BOOLEAN]
        BY <2>1 DEF SdioInv, SdioTypes, VarTypes
      <3>2. VarTypes'
        BY <2>1, <2>2, <2>9, <2>10, <3>1 DEF SdioInv, SdioTypes, VarTypes
      <3>3. QED
        BY <2>13, <3>2 DEF SdioTypes
    <2>15. QED
      BY <2>8, <2>9, <2>10, <2>11, <2>12, <2>14 DEF SdioInv
  <1>4. QED
    BY <1>2, <1>3

\* By the request that writes the register back.
LEMMA WriteKeeps ==
    ASSUME SdioInv, ~halted, NEW f \in Func, WriteBegin(f),
           UNCHANGED <<halted, crossed, sem_ack, ack_wait, card>>
    PROVE  SdioInv'
  <1> USE DEF irq, card
  <1>1. /\ sdio_at[f] = "read" /\ sdio_req[f] = "back" /\ f \notin on_bus /\ ~failed[f]
        /\ on_bus' = on_bus \cup {f} /\ sdio_req' = [sdio_req EXCEPT ![f] = "sent"]
        /\ sdio_at' = [sdio_at EXCEPT ![f] = "write"] /\ failed' = [failed EXCEPT ![f] = FALSE]
        /\ UNCHANGED <<bus_lock, sdio_op, int_en>>
        /\ sdio_reg' = [sdio_reg EXCEPT ![f] = IF sdio_op[f] = "attach" THEN @ \cup {f}
                                                                       ELSE @ \ {f}]
    BY DEF WriteBegin, Back, Send
  <1>2. /\ PlaceTypes' /\ sdio_at'[f] = "write" /\ sdio_at'[IrqThread] = sdio_at[IrqThread]
        /\ f \in SdioThread /\ f # IrqThread
        /\ \A u \in SdioThread \ {f} : sdio_at'[u] = sdio_at[u]
    BY <1>1, DriverPlaces DEF DriverPlace
  <1>3. /\ sdio_at[f] \in Asking /\ sdio_at[f] \in Owning
        /\ sdio_at'[f] \in Asking /\ sdio_at'[f] \in Owning
    BY <1>1, <1>2 DEF Owning, Asking
  <1>4. LockInv'
    BY <1>1, <1>2, <1>3, StartsFirst, EnterKeeps
  <1>5. AckInv' /\ on_bus' \subseteq SdioThread /\ sdio_req' \in [SdioThread -> ReqState]
    BY <1>1, <1>2, <1>3, RequestSent
  <1>6. LoneInv'
    BY <1>2, <1>3, LoneKeeps
  <1>7. /\ sdio_reg' \in [SdioThread -> SUBSET Func] /\ failed' \in [SdioThread -> BOOLEAN]
        /\ ~crossed /\ sdio_op[f] = "attach" => sdio_reg'[f] = int_en \cup {f}
    BY <1>1, <1>2 DEF SdioInv, SdioTypes, VarTypes, RegInv
  <1>8. ~crossed' => \A u \in SdioThread \ {f} : sdio_at'[u] \notin Owning
    BY <1>2, <1>3, <1>6 DEF LoneInv
  <1>9. RegInv'
    BY <1>1, <1>2, <1>7, <1>8, OwnRegister
  <1>10. IrqInv'
    BY <1>2 DEF SdioInv, IrqInv, WriteBegin
  <1>11. SdioTypes'
    <2>1. UNCHANGED <<irq_handler, sdio_irq_num, sdio_irq_sem, irq_enabled, pending>>
      BY DEF WriteBegin
    <2>2. QED
      BY <1>1, <1>2, <1>5, <1>7, <2>1 DEF SdioInv, SdioTypes, VarTypes
  <1>12. QED
    BY <1>4, <1>5, <1>6, <1>9, <1>10, <1>11 DEF SdioInv

\* By the end of an attachment, which creates the thread of the interrupt.
LEMMA AttachEndKeeps ==
    ASSUME SdioInv, ~halted, NEW f \in Func, AttachEnd(f),
           UNCHANGED <<halted, crossed, sem_ack, ack_wait, card>>
    PROVE  SdioInv'
  <1> USE DEF card
  <1>1. /\ sdio_at[f] = "write" /\ sdio_req[f] = "back" /\ f \notin on_bus
        /\ irq_handler' = irq_handler \cup {f} /\ irq_enabled' = irq_enabled
        /\ sdio_irq_thread_create(f) /\ mmcsd_host_unlock(f) /\ NoRequest(f)
        /\ failed' = [failed EXCEPT ![f] = FALSE] /\ sdio_reg' = [sdio_reg EXCEPT ![f] = {}]
        /\ sdio_op' = [sdio_op EXCEPT ![f] = "none"]
    BY DEF AttachEnd, Back, CallReturns
  <1>2. f \in SdioThread /\ f # IrqThread /\ IrqThread \in SdioThread
    BY FuncFacts
  <1>3. sdio_irq_num = 0 => sdio_at[IrqThread] = "none"
    BY DEF SdioInv, SdioTypes, VarTypes, IrqInv
  <1>4. /\ sdio_at' \in Places /\ sdio_at'[f] = "idle"
        /\ \A u \in SdioThread \ {f, IrqThread} : sdio_at'[u] = sdio_at[u]
        /\ sdio_at'[IrqThread] = IF sdio_irq_num = 0 THEN "wait" ELSE sdio_at[IrqThread]
        /\ sdio_irq_num' = 1 /\ sdio_irq_sem' = IF sdio_irq_num = 0 THEN 0 ELSE sdio_irq_sem
    <2>1. CASE sdio_irq_num = 0
      BY <1>1, <1>2, <2>1 DEF sdio_irq_thread_create, SdioInv, SdioTypes, PlaceTypes, Places
    <2>2. CASE sdio_irq_num # 0
      BY <1>1, <1>2, <2>2 DEF sdio_irq_thread_create, SdioInv, SdioTypes, VarTypes, PlaceTypes, Places
    <2>3. QED
      BY <2>1, <2>2
  <1>5. \A u \in SdioThread \ {f} : \/ sdio_at'[u] = sdio_at[u]
                                    \/ sdio_at[u] \notin Locking /\ sdio_at'[u] \notin Locking
    BY <1>3, <1>4 DEF Locking, Owning, Asking
  <1>6. sdio_at[f] \in Owning /\ sdio_at'[f] \notin Locking
    BY <1>1, <1>4 DEF Locking, Owning, Asking
  <1>7. FirstOrBare(f)
    BY <1>2, <1>6, StartsFirst
  <1>8. LockInv' /\ bus_lock' \in Seq(SdioThread)
    BY <1>1, <1>2, <1>5, <1>6, <1>7, LeaveKeeps
  <1>9. AckInv' /\ on_bus' = on_bus /\ sdio_req' \in [SdioThread -> ReqState]
    BY <1>1, <1>2, <1>5, <1>6, RequestOver DEF Locking, Owning
  <1>10. LoneInv'
    BY <1>2, <1>5, <1>6, LoneKeeps DEF Locking
  <1>11. \A g \in Func \ {f} : /\ sdio_reg'[g] = sdio_reg[g] /\ failed'[g] = failed[g]
                               /\ sdio_op'[g] = sdio_op[g] /\ sdio_at'[g] = sdio_at[g]
    BY <1>1, <1>4, FuncFacts DEF SdioInv, SdioTypes, VarTypes
  <1>12. RegInv'
    BY <1>4, <1>9, <1>11 DEF SdioInv, RegInv
  <1>13. IrqInv'
    BY <1>1, <1>4 DEF SdioInv, SdioTypes, VarTypes, IrqInv, NoSem
  <1>14. /\ failed' \in [SdioThread -> BOOLEAN] /\ sdio_reg' \in [SdioThread -> SUBSET Func]
         /\ sdio_op' \in [Func -> {"none", "attach", "detach", "request"}]
         /\ irq_handler' \subseteq Func /\ sdio_irq_sem' \in {NoSem, 0, 1}
    BY <1>1, <1>4 DEF SdioInv, SdioTypes, VarTypes
  <1>15. PlaceTypes'
    <2>1. ASSUME NEW g \in Func PROVE sdio_at'[g] \in DriverPlace
      BY <1>4, FuncFacts DEF SdioInv, SdioTypes, PlaceTypes, DriverPlace
    <2>2. QED
      BY <1>4, <2>1 DEF SdioInv, SdioTypes, PlaceTypes, IrqPlace
  <1>16. SdioTypes'
    BY <1>1, <1>4, <1>8, <1>9, <1>14, <1>15 DEF SdioInv, SdioTypes, VarTypes
  <1>17. QED
    BY <1>8, <1>9, <1>10, <1>12, <1>13, <1>16 DEF SdioInv

\* So every step of a driver keeps the invariant.
LEMMA DriverKeeps ==
    ASSUME SdioInv, ~halted, NEW f \in Func, DriverStep(f)
    PROVE  SdioInv'
  <1> USE DEF DriverStep, Starts
  <1>1. CASE AttachBegin(f)
    <2>1. CASE f \in irq_handler
      BY <1>1, <2>1, DriverReturns DEF AttachBegin
    <2>2. CASE f \notin irq_handler
      BY <1>1, <2>2, DriverSends DEF AttachBegin
    <2>3. QED
      BY <2>1, <2>2
  <1>2. CASE DetachBegin(f)
    <2>1. CASE f \in irq_handler
      BY <1>2, <2>1, DeleteKeeps DEF DetachBegin
    <2>2. CASE f \notin irq_handler
      BY <1>2, <2>2, DriverSends DEF DetachBegin
    <2>3. QED
      BY <2>1, <2>2
  <1>3. CASE RequestBegin(f)
    BY <1>3, DriverSends DEF RequestBegin
  <1>4. CASE DriverDone(f) /\ UNCHANGED <<halted, crossed>>
    BY <1>4, DriverReturns DEF DriverDone
  <1>5. CASE WriteBegin(f) /\ UNCHANGED <<halted, crossed>>
    BY <1>5, WriteKeeps
  <1>6. CASE AttachEnd(f) /\ UNCHANGED <<halted, crossed>>
    BY <1>6, AttachEndKeeps
  <1>7. QED
    BY <1>1, <1>2, <1>3, <1>4, <1>5, <1>6

\* By a thread whose request is gone before it is complete.
LEMMA GoneKeeps ==
    ASSUME SdioInv, NEW t \in SdioThread, RequestGone(t)
    PROVE  SdioInv'
  BY DEF RequestGone, locks, requests, irq, card, SdioInv, SdioTypes, VarTypes, PlaceTypes, LockInv,
         AckInv, NobodyForgotten, Askers, LoneInv, RegInv, IrqInv

\* The place of the thread of the interrupt, and its types, after a step of its own.
LEMMA IrqPlaces ==
    ASSUME SdioInv, NEW to \in IrqPlace, sdio_at' = [sdio_at EXCEPT ![IrqThread] = to]
    PROVE  /\ PlaceTypes' /\ sdio_at'[IrqThread] = to
           /\ \A u \in SdioThread \ {IrqThread} : sdio_at'[u] = sdio_at[u]
           /\ \A f \in Func : sdio_at'[f] = sdio_at[f]
  <1>1. sdio_at' \in Places
    BY FuncFacts DEF SdioInv, SdioTypes, PlaceTypes, Places, IrqPlace, Locking, Owning, Asking
  <1>2. /\ sdio_at'[IrqThread] = to
        /\ \A u \in SdioThread \ {IrqThread} : sdio_at'[u] = sdio_at[u]
    BY FuncFacts DEF SdioInv, SdioTypes, PlaceTypes, Places
  <1>3. \A f \in Func : sdio_at'[f] = sdio_at[f]
    BY <1>2, FuncFacts
  <1>4. QED
    BY <1>1, <1>2, <1>3 DEF SdioInv, SdioTypes, PlaceTypes

\* What every step of the thread of the interrupt leaves as it is.
IrqLeaves == <<sem_ack, ack_wait, sdio_op, sdio_irq_num, int_en, halted, detached>>

\* The invariant is kept when the thread of the interrupt takes its semaphore and
\* turns to the lock.
LEMMA IrqTakeKeeps ==
    ASSUME SdioInv, ~halted, IrqTake, UNCHANGED IrqLeaves
    PROVE  SdioInv'
  <1> USE DEF IrqTake, IrqLeaves, requests
  <1>1. /\ IrqThread \in SdioThread /\ sdio_at[IrqThread] = "wait"
        /\ sdio_at[IrqThread] \notin Locking
    BY FuncFacts DEF Locking, Owning, Asking
  <1>2. LockInv' /\ bus_lock' \in Seq(SdioThread)
    BY <1>1, JoinKeeps
  <1>3. /\ PlaceTypes' /\ sdio_at'[IrqThread] = "lock"
        /\ \A u \in SdioThread \ {IrqThread} : sdio_at'[u] = sdio_at[u]
        /\ \A f \in Func : sdio_at'[f] = sdio_at[f]
    BY IrqPlaces DEF mmcsd_host_lock, IrqPlace
  <1>4. sdio_at'[IrqThread] \notin Owning /\ sdio_at'[IrqThread] \notin Asking
    BY <1>3 DEF Owning, Asking
  <1>5. AckInv'
    BY <1>1, <1>3, <1>4, SameRequests DEF SdioInv, Locking, Owning
  <1>6. LoneInv'
    BY <1>1, <1>3, <1>4, LoneKeeps
  <1>7. sdio_irq_sem = 1 /\ sdio_irq_sem' = 0
    BY DEF SdioInv, SdioTypes, VarTypes, NoSem
  <1>8. RegInv' /\ IrqInv'
    BY <1>3, <1>7 DEF SdioInv, RegInv, IrqInv, NoSem
  <1>9. SdioTypes'
    BY <1>2, <1>3, <1>7 DEF SdioInv, SdioTypes, VarTypes
  <1>10. QED
    BY <1>2, <1>5, <1>6, <1>8, <1>9 DEF SdioInv

\* When it reads which interrupts are pending.
LEMMA IrqReadKeeps ==
    ASSUME SdioInv, ~halted, IrqRead, UNCHANGED IrqLeaves
    PROVE  SdioInv'
  <1> USE DEF IrqRead, IrqLeaves
  <1>1. /\ on_bus' = on_bus \cup {IrqThread} /\ sdio_req' = [sdio_req EXCEPT ![IrqThread] = "sent"]
        /\ sdio_at' = [sdio_at EXCEPT ![IrqThread] = "read"]
        /\ failed' = [failed EXCEPT ![IrqThread] = FALSE]
        /\ IrqThread \in SdioThread /\ sdio_at[IrqThread] = "lock"
    BY FuncFacts DEF Send, HasLock
  <1>2. /\ sdio_req[IrqThread] = "none" /\ IrqThread \notin on_bus /\ FirstOrBare(IrqThread)
    BY <1>1, StartsFirst DEF SdioInv, AckInv, Asking
  <1>3. /\ PlaceTypes' /\ sdio_at'[IrqThread] = "read"
        /\ \A u \in SdioThread \ {IrqThread} : sdio_at'[u] = sdio_at[u]
        /\ \A f \in Func : sdio_at'[f] = sdio_at[f]
    BY <1>1, IrqPlaces DEF IrqPlace
  <1>4. sdio_at'[IrqThread] \in Asking /\ sdio_at'[IrqThread] \in Owning
    BY <1>3 DEF Owning, Asking
  <1>5. LockInv'
    BY <1>1, <1>2, <1>3, <1>4, EnterKeeps
  <1>6. AckInv' /\ on_bus' \subseteq SdioThread /\ sdio_req' \in [SdioThread -> ReqState]
    BY <1>1, <1>2, <1>3, <1>4, RequestSent
  <1>7. /\ LoneInv' /\ crossed' \in BOOLEAN
        /\ ~crossed' => \A u \in SdioThread \ {IrqThread} : sdio_at'[u] \notin Owning
    BY <1>1, <1>3, LoneKeeps
  <1>8. RegInv'
    BY <1>7, FuncFacts DEF RegInv, Owning, Asking
  <1>9. IrqInv'
    <2>1. ~irq_enabled /\ sdio_irq_sem = 0
      BY <1>1 DEF SdioInv, IrqInv
    <2>2. QED
      BY <1>1, <1>3, <2>1 DEF SdioInv, IrqInv
  <1>10. failed' \in [SdioThread -> BOOLEAN]
    BY <1>1 DEF SdioInv, SdioTypes, VarTypes
  <1>11. SdioTypes'
    BY <1>3, <1>6, <1>7, <1>10 DEF SdioInv, SdioTypes, VarTypes
  <1>12. QED
    BY <1>5, <1>6, <1>7, <1>8, <1>9, <1>11 DEF SdioInv

\* When it lets the lock go, after its read or after the last handler.
LEMMA IrqUnlocks ==
    ASSUME SdioInv, ~halted, UNCHANGED IrqLeaves, sdio_at[IrqThread] \in {"read", "handle"},
           sdio_req[IrqThread] \in {"none", "back"}, IrqThread \notin on_bus,
           NoRequest(IrqThread), Leave(IrqThread, "enable"),
           sdio_reg' \in [SdioThread -> SUBSET Func], \A f \in Func : sdio_reg'[f] = sdio_reg[f],
           UNCHANGED <<failed, irq_handler, irq_enabled, sdio_irq_sem, pending, crossed>>
    PROVE  SdioInv'
  <1> USE DEF IrqLeaves
  <1>1. IrqThread \in SdioThread /\ sdio_at[IrqThread] \in Owning
    BY FuncFacts DEF Owning, Asking
  <1>2. FirstOrBare(IrqThread)
    BY <1>1, StartsFirst
  <1>3. mmcsd_host_unlock(IrqThread) /\ sdio_at' = [sdio_at EXCEPT ![IrqThread] = "enable"]
    BY DEF Leave
  <1>4. /\ PlaceTypes' /\ sdio_at'[IrqThread] = "enable"
        /\ \A u \in SdioThread \ {IrqThread} : sdio_at'[u] = sdio_at[u]
        /\ \A f \in Func : sdio_at'[f] = sdio_at[f]
    BY <1>3, IrqPlaces DEF IrqPlace
  <1>5. /\ sdio_at'[IrqThread] \notin Locking /\ sdio_at'[IrqThread] \notin Owning
        /\ sdio_at'[IrqThread] \notin Asking
    BY <1>4 DEF Locking, Owning, Asking
  <1>6. LockInv' /\ bus_lock' \in Seq(SdioThread)
    BY <1>1, <1>2, <1>3, <1>4, <1>5, LeaveKeeps
  <1>7. AckInv' /\ on_bus' = on_bus /\ sdio_req' \in [SdioThread -> ReqState]
    BY <1>1, <1>4, <1>5, RequestOver
  <1>8. LoneInv'
    BY <1>1, <1>4, <1>5, LoneKeeps
  <1>9. RegInv'
    BY <1>4, <1>7 DEF SdioInv, RegInv
  <1>10. IrqInv'
    BY <1>4 DEF SdioInv, IrqInv
  <1>11. SdioTypes'
    BY <1>4, <1>6, <1>7 DEF SdioInv, SdioTypes, VarTypes
  <1>12. QED
    BY <1>6, <1>7, <1>8, <1>9, <1>10, <1>11 DEF SdioInv

\* When it has read them and keeps the lock.
LEMMA IrqHasReadKeeps ==
    ASSUME SdioInv, ~halted, IrqHasRead, UNCHANGED IrqLeaves
    PROVE  SdioInv'
  <1> USE DEF IrqHasRead, IrqLeaves, Back
  <1>1. CASE failed[IrqThread]
    BY <1>1, IrqUnlocks DEF SdioInv, SdioTypes, VarTypes
  <1>2. CASE ~failed[IrqThread]
    <2>1. /\ IrqThread \in SdioThread /\ UNCHANGED <<bus_lock, on_bus, failed>>
          /\ IrqThread \notin on_bus
          /\ sdio_req[IrqThread] = "back" /\ sdio_at[IrqThread] = "read"
          /\ NoRequest(IrqThread) /\ sdio_at' = [sdio_at EXCEPT ![IrqThread] = "handle"]
      BY <1>2, FuncFacts DEF NoRequest
    <2>2. /\ PlaceTypes' /\ sdio_at'[IrqThread] = "handle"
          /\ \A u \in SdioThread \ {IrqThread} : sdio_at'[u] = sdio_at[u]
          /\ \A f \in Func : sdio_at'[f] = sdio_at[f]
      BY <2>1, IrqPlaces DEF IrqPlace
    <2>3. /\ sdio_at[IrqThread] \in Owning /\ sdio_at'[IrqThread] \in Owning
          /\ sdio_at'[IrqThread] \notin Asking
      BY <2>1, <2>2 DEF Owning, Asking
    <2>4. LockInv'
      BY <2>1, <2>2, <2>3, StartsFirst, EnterKeeps
    <2>5. AckInv' /\ sdio_req' \in [SdioThread -> ReqState]
      BY <2>1, <2>2, <2>3, RequestOver
    <2>6. LoneInv'
      BY <2>1, <2>2, <2>3, LoneKeeps
    <2>7. RegInv'
      BY <2>1, <2>2 DEF SdioInv, RegInv
    <2>8. IrqInv'
      BY <2>1, <2>2 DEF SdioInv, IrqInv
    <2>9. SdioTypes'
      BY <2>1, <2>2, <2>5 DEF SdioInv, SdioTypes, VarTypes
    <2>10. QED
      BY <2>4, <2>5, <2>6, <2>7, <2>8, <2>9 DEF SdioInv
  <1>3. QED
    BY <1>1, <1>2

\* When it calls the handler of a function, or ends as a function has none.
LEMMA IrqHandleKeeps ==
    ASSUME SdioInv, ~halted, IrqHandle, UNCHANGED IrqLeaves
    PROVE  SdioInv'
  <1> USE DEF IrqHandle, IrqLeaves, requests
  <1>1. /\ IrqThread \in SdioThread /\ sdio_req[IrqThread] = "none" /\ IrqThread \notin on_bus
    BY FuncFacts DEF SdioInv, AckInv, Asking
  <1>2. sdio_reg \in [SdioThread -> SUBSET Func] /\ sdio_req \in [SdioThread -> ReqState]
    BY DEF SdioInv, SdioTypes, VarTypes
  <1>3. CASE sdio_reg[IrqThread] = {} \/ NextPending \notin irq_handler
    <2>1. NoRequest(IrqThread)
      BY <1>1, <1>2 DEF NoRequest
    <2>2. /\ Leave(IrqThread, "enable") /\ UNCHANGED pending
          /\ sdio_reg' = [sdio_reg EXCEPT ![IrqThread] = {}]
      BY <1>3
    <2>3. /\ sdio_reg' \in [SdioThread -> SUBSET Func]
          /\ \A f \in Func : sdio_reg'[f] = sdio_reg[f]
      BY <1>2, <2>2, FuncFacts
    <2>4. QED
      BY <1>1, <1>3, <2>1, <2>2, <2>3, IrqUnlocks
  <1>4. CASE ~(sdio_reg[IrqThread] = {} \/ NextPending \notin irq_handler)
    <2>1. /\ UNCHANGED <<sdio_at, bus_lock>> /\ pending' = pending \ {NextPending}
          /\ sdio_reg' = [sdio_reg EXCEPT ![IrqThread] = @ \ {NextPending}]
      BY <1>4
    <2>2. /\ sdio_reg' \in [SdioThread -> SUBSET Func]
          /\ \A f \in Func : sdio_reg'[f] = sdio_reg[f]
      BY <1>2, <2>1, FuncFacts
    <2>3. SdioTypes'
      BY <2>1, <2>2 DEF SdioInv, SdioTypes, VarTypes, PlaceTypes
    <2>4. LockInv' /\ LoneInv' /\ IrqInv'
      BY <2>1 DEF SdioInv, LockInv, LoneInv, IrqInv
    <2>5. AckInv'
      BY <2>1, SameRequests DEF SdioInv
    <2>6. RegInv'
      BY <2>1, <2>2 DEF SdioInv, RegInv
    <2>7. QED
      BY <2>3, <2>4, <2>5, <2>6 DEF SdioInv
  <1>5. QED
    BY <1>3, <1>4

\* When it enables the interrupt again.
LEMMA IrqEnableKeeps ==
    ASSUME SdioInv, ~halted, IrqEnable, UNCHANGED IrqLeaves
    PROVE  SdioInv'
  <1> USE DEF IrqEnable, IrqLeaves, requests
  <1>1. /\ PlaceTypes' /\ sdio_at'[IrqThread] = "wait" /\ IrqThread \in SdioThread
        /\ \A u \in SdioThread \ {IrqThread} : sdio_at'[u] = sdio_at[u]
        /\ \A f \in Func : sdio_at'[f] = sdio_at[f]
    BY IrqPlaces, FuncFacts DEF IrqPlace
  <1>2. /\ sdio_at[IrqThread] \notin Locking /\ sdio_at'[IrqThread] \notin Locking
    BY <1>1 DEF Locking, Owning, Asking
  <1>3. SdioTypes'
    BY <1>1 DEF SdioInv, SdioTypes, VarTypes
  <1>4. LockInv'
    <2>1. IrqThread \notin ToSet(bus_lock) /\ ToSet(bus_lock) \subseteq SdioThread
      BY <1>1, <1>2, ElementOfSeq DEF SdioInv, SdioTypes, VarTypes, LockInv, ToSet
    <2>2. QED
      BY <1>1, <1>2, <2>1 DEF SdioInv, LockInv, Locking
  <1>5. AckInv'
    BY <1>1, <1>2, SameRequests DEF SdioInv, Locking, Owning
  <1>6. LoneInv'
    BY <1>1, <1>2, LoneKeeps DEF Locking
  <1>7. RegInv' /\ IrqInv'
    BY <1>1 DEF SdioInv, RegInv, IrqInv
  <1>8. QED
    BY <1>3, <1>4, <1>5, <1>6, <1>7 DEF SdioInv

\* When a handler detaches itself and deletes the thread, with the lock.
LEMMA HandlerDetachesKeeps ==
    ASSUME SdioInv, ~halted, HandlerDetaches
    PROVE  SdioInv'
  <1> USE DEF HandlerDetaches, locks, requests, card
  <1>1. /\ PlaceTypes' /\ sdio_at'[IrqThread] = "none" /\ IrqThread \in SdioThread
        /\ \A u \in SdioThread \ {IrqThread} : sdio_at'[u] = sdio_at[u]
        /\ \A f \in Func : sdio_at'[f] = sdio_at[f]
    BY IrqPlaces, FuncFacts DEF IrqPlace
  <1>2. /\ sdio_at[IrqThread] \notin Asking
        /\ sdio_at'[IrqThread] \notin Owning /\ sdio_at'[IrqThread] \notin Asking
    BY <1>1 DEF Owning, Asking
  <1>3. SdioTypes'
    BY <1>1 DEF SdioInv, SdioTypes, VarTypes
  <1>4. LockInv'
    <2>1. ToSet(bus_lock) \subseteq SdioThread
      BY ElementOfSeq DEF SdioInv, SdioTypes, VarTypes, ToSet
    <2>2. QED
      BY <1>1, <1>2, <2>1 DEF SdioInv, LockInv
  <1>5. AckInv'
    BY <1>1, <1>2, SameRequests DEF SdioInv
  <1>6. LoneInv'
    BY <1>1, <1>2, LoneKeeps
  <1>7. RegInv' /\ IrqInv'
    BY <1>1 DEF SdioInv, RegInv, IrqInv, NoSem
  <1>8. QED
    BY <1>3, <1>4, <1>5, <1>6, <1>7 DEF SdioInv

\* When the interrupt comes, with the semaphore of its thread there or not.
LEMMA WakeupKeeps ==
    ASSUME SdioInv, ~halted, sdio_irq_wakeup
    PROVE  SdioInv'
  <1> USE DEF sdio_irq_wakeup, locks, requests, card
  <1>1. SdioTypes' /\ IrqInv'
    <2>1. CASE sdio_irq_sem = NoSem
      BY <2>1 DEF SdioInv, SdioTypes, VarTypes, PlaceTypes, IrqInv
    <2>2. CASE sdio_irq_sem # NoSem
      <3>1. sdio_irq_sem = 0 /\ sdio_irq_sem' = 1 /\ sdio_at[IrqThread] = "wait"
        BY <2>2 DEF SdioInv, SdioTypes, VarTypes, PlaceTypes, IrqPlace, IrqInv
      <3>2. /\ irq_enabled' = FALSE /\ halted' = halted
            /\ sdio_at' = sdio_at /\ sdio_irq_num' = sdio_irq_num
        BY <2>2
      <3>3. SdioTypes'
        BY <3>1, <3>2 DEF SdioInv, SdioTypes, VarTypes, PlaceTypes
      <3>4. sdio_irq_sem' # NoSem
        BY <3>1 DEF NoSem
      <3>5. IrqInv'
        BY <2>2, <3>1, <3>2, <3>4 DEF SdioInv, IrqInv
      <3>6. QED
        BY <3>3, <3>5
    <2>3. QED
      BY <2>1, <2>2
  <1>2. halted' \/ halted' = halted
    OBVIOUS
  <1>3. LockInv' /\ LoneInv' /\ RegInv'
    BY <1>2 DEF SdioInv, LockInv, LoneInv, RegInv
  <1>4. AckInv'
    BY SameRequests DEF SdioInv
  <1>5. QED
    BY <1>1, <1>3, <1>4 DEF SdioInv

\* When a function signals.
LEMMA SignalKeeps ==
    ASSUME SdioInv, ~halted, NEW f \in Func, FunctionSignals(f)
    PROVE  SdioInv'
  BY DEF SdioInv, FunctionSignals, locks, requests, irq, SdioTypes, VarTypes, PlaceTypes, LockInv,
         AckInv, NobodyForgotten, Askers, LoneInv, RegInv, IrqInv

\* Every step keeps the invariant.
LEMMA SdioInvNext == SdioInv /\ [SdioNext]_sdioVars => SdioInv'
  <1> SUFFICES ASSUME SdioInv, [SdioNext]_sdioVars PROVE SdioInv'
    OBVIOUS
  <1>1. ASSUME ~halted, IrqStep PROVE SdioInv'
    <2>1. UNCHANGED IrqLeaves
      BY <1>1 DEF IrqStep, IrqLeaves
    <2>2. QED
      BY <1>1, <2>1, IrqTakeKeeps, IrqReadKeeps, IrqHasReadKeeps, IrqHandleKeeps, IrqEnableKeeps
         DEF IrqStep
  <1>2. CASE IrqRuns
    BY <1>1, <1>2, FuncFacts, TakeAckKeeps, GoneKeeps DEF IrqRuns, Resumes
  <1>3. ASSUME NEW f \in Func, DriverRuns(f) PROVE SdioInv'
    BY <1>3, FuncFacts, DriverKeeps, TakeAckKeeps, GoneKeeps DEF DriverRuns, Resumes
  <1>4. CASE HostAnswers
    BY <1>4, CompleteKeeps DEF HostAnswers
  <1>5. CASE ~halted /\ sdio_irq_wakeup
    BY <1>5, WakeupKeeps
  <1>6. CASE ~halted /\ HandlerDetaches
    BY <1>6, HandlerDetachesKeeps
  <1>7. ASSUME ~halted, NEW f \in Func, FunctionSignals(f) PROVE SdioInv'
    BY <1>7, SignalKeeps
  <1>8. ASSUME ~halted, NEW f \in Func, NEW what \in {"attach", "detach", "request"},
               DriverCalls(f, what)
        PROVE  SdioInv'
    BY <1>8, DriverCallsKeeps
  <1>9. CASE SdioRestart
    <2>1. SdioInit'
      BY <1>9 DEF SdioRestart, SdioInit
    <2>2. QED
      BY <2>1, SdioInvInit, PTL
  <1>10. CASE UNCHANGED sdioVars
    BY <1>10 DEF sdioVars, locks, requests, irq, card, SdioInv, SdioTypes, VarTypes, PlaceTypes,
                 LockInv, AckInv, NobodyForgotten, Askers, LoneInv, RegInv, IrqInv
  <1>11. QED
    BY <1>2, <1>3, <1>4, <1>5, <1>6, <1>7, <1>8, <1>9, <1>10 DEF SdioNext

LEMMA SdioInvTypes == SdioInv => SdioTypeOK
  <1> SUFFICES ASSUME SdioInv PROVE SdioTypeOK
    OBVIOUS
  <1>1. ToSet(bus_lock) \subseteq SdioThread /\ ToSet(ack_wait) \subseteq SdioThread
    BY ElementOfSeq DEF SdioInv, SdioTypes, VarTypes, ToSet
  <1>2. QED
    BY <1>1 DEF SdioInv, SdioTypes, VarTypes, PlaceTypes, IrqPlace, LockInv, IrqInv, SdioTypeOK

\* The semaphore of the interrupt counts to one at most, nobody stands twice on the
\* lock, and the interrupt has a semaphore as long as it has a thread.
THEOREM SdioTypeCorrect == SdioSpec => []SdioTypeOK
  BY SdioInvTypes, SdioInvInit, SdioInvNext, PTL DEF SdioSpec

\* Whichever drivers take the lock and whichever do not: as many answers are to come as
\* threads wait for one, so that none sleeps for ever and no answer is left over.
THEOREM SdioNobodyForgotten == SdioSpec => []NobodyForgotten
  <1>1. SdioInv => NobodyForgotten
    BY DEF SdioInv, AckInv
  <1>2. QED
    BY <1>1, SdioInvInit, SdioInvNext, PTL DEF SdioSpec

\* A thread that goes on with an answer that is not its own has met another, and one of
\* the two is without the lock.
LEMMA StolenAck ==
    ASSUME SdioInv, NEW t \in SdioThread, sdio_req[t] = "back", t \in on_bus
    PROVE  \E u \in SdioThread \ {t} : Inside(u) /\ (WithoutLock(t) \/ WithoutLock(u))
  <1>1. /\ AckInv /\ LockInv /\ on_bus \subseteq SdioThread /\ sem_ack \in Nat
        /\ IsFiniteSet(on_bus) /\ Cardinality(on_bus) \in Nat
    BY FewThreads DEF SdioInv, SdioTypes, VarTypes
  <1>2. Cardinality(on_bus) # 0
    BY <1>1, FS_EmptySet
  <1>3. Cardinality(Askers) # 0
    BY <1>1, <1>2 DEF AckInv, NobodyForgotten
  <1>4. PICK u \in Askers : TRUE
    BY <1>3, FS_EmptySet
  <1>5. u \in SdioThread \ {t} /\ sdio_at[u] \in Asking /\ sdio_at[t] \in Asking
    BY <1>1, <1>4 DEF Askers, AckInv
  <1>6. Inside(u) /\ Inside(t) /\ sdio_at[u] \in Owning /\ sdio_at[t] \in Owning
    BY <1>5 DEF Inside, Owning, Asking
  <1>7. t \notin ToSet(bus_lock) \/ u \notin ToSet(bus_lock)
    BY <1>1, <1>5, <1>6 DEF LockInv
  <1>8. QED
    BY <1>5, <1>6, <1>7 DEF WithoutLock

\* A thread returns from its request before that is complete only when it meets another
\* without the lock, and the register a function writes back is the card's with its
\* own bit set unless two have met.
THEOREM SdioAckIsMine == SdioSpec => []AckIsMine
  <1>1. SdioInv => AckIsMine
    <2>1. SdioInv => (~crossed => \A f \in Func :
                        sdio_at[f] = "write" /\ f \in on_bus /\ sdio_op[f] = "attach" =>
                            sdio_reg[f] = int_en \cup {f})
      BY DEF SdioInv, RegInv
    <2>2. QED
      BY <2>1, StolenAck DEF AckIsMine
  <1>2. QED
    BY <1>1, SdioInvInit, SdioInvNext, PTL DEF SdioSpec
-----------------------------------------------------------------------------
\* What a call may still have to send: all of it, or what follows the first message.
Todos == Transfers \cup { <<Message(FALSE, TRUE)>> }
Sending == {"send", "xfer"}

\* The types of the variables.
SpiTypes ==
    /\ bus_owner \in SpiDevice \cup {NoDevice}
    /\ mutex \in [holder : SpiThread \cup {NoThread}, depth : Nat]
    /\ config \in [SpiDevice -> Config \cup {Zeroed}]
    /\ controller \in Config \cup {Zeroed}
    /\ selected \subseteq SpiDevice /\ left \subseteq SpiDevice /\ refused \subseteq SpiDevice
    /\ spi_at \in [SpiThread -> {"idle", "configure", "own", "send", "xfer"}]
    /\ spi_job \in [SpiThread -> [dev : SpiDevice \cup {NoDevice}, todo : Todos \cup {<<>>}]]
    /\ taken \in [SpiThread -> SpiDevice \cup {NoDevice}]

\* How often a thread has the mutex: once for the bus it has taken (or is taking), once
\* for the transfer it is in.
Transferring(t) == spi_job[t].todo # <<>>
Locks(t) == (IF taken[t] # NoDevice THEN 1 ELSE 0) + (IF Transferring(t) THEN 1 ELSE 0)
MutexInv ==
    /\ mutex.holder = NoThread => mutex.depth = 0
    /\ \A t \in SpiThread : /\ mutex.holder = t <=> Locks(t) > 0
                            /\ mutex.holder = t => mutex.depth = Locks(t)

\* What a thread's job says, by where the thread is.
JobInv(t) ==
    /\ spi_at[t] \in {"idle", "configure"} => ~Transferring(t)
    /\ spi_at[t] # "idle" => spi_job[t].dev \in SpiDevice
    /\ spi_at[t] # "idle" => taken[t] \in {NoDevice, spi_job[t].dev}
    /\ spi_at[t] = "own" => Transferring(t) \/ taken[t] = spi_job[t].dev
    /\ spi_at[t] = "own" => spi_job[t].todo \in Transfers \cup {<<>>}
    /\ spi_at[t] \in Sending => Transferring(t) /\ bus_owner = spi_job[t].dev
    /\ spi_at[t] = "xfer" => spi_job[t].dev \in selected
    /\ spi_at[t] = "send" => Head(spi_job[t].todo).cs_take \/ spi_job[t].dev \in selected

\* The device that owns the bus has its configuration in effect, or it is changing, or
\* the controller has refused it.
OwnerInv ==
    bus_owner # NoDevice =>
        controller = config[bus_owner] \/ Changing(bus_owner) \/ bus_owner \in refused

\* A chip is selected by a thread that has taken the bus for it, by one in a transfer
\* to it, or was left so.
HasSelected(t, d) ==
    \/ taken[t] = d /\ (spi_at[t] = "own" => Transferring(t))
    \/ spi_job[t].dev = d /\ spi_at[t] \in Sending
ChipInv == \A d \in selected : d \in left \/ \E t \in SpiThread : HasSelected(t, d)

\* The inductive invariant.
SpiInv == SpiTypes /\ MutexInv /\ (\A t \in SpiThread : JobInv(t)) /\ OwnerInv /\ ChipInv

\* The three sequences of messages, and what comes after the first message of each.
LEMMA TodoFacts ==
    ASSUME NEW todo \in Todos
    PROVE  /\ todo # <<>>
           /\ Head(todo).cs_take \in BOOLEAN /\ Head(todo).cs_release \in BOOLEAN
           /\ Len(todo) = 1 => Head(todo).cs_release
           /\ todo \in Transfers => Head(todo).cs_take
           /\ Len(todo) # 1 => /\ ~Head(todo).cs_release
                               /\ Tail(todo) \in Todos /\ ~Head(Tail(todo)).cs_take
  <1> DEFINE Both == Message(TRUE, TRUE)
             Take == Message(TRUE, FALSE)
             Rel  == Message(FALSE, TRUE)
  <1>1. todo \in { <<Both>>, <<Take, Rel>>, <<Rel>> } /\ <<Rel>> \in Todos
    BY DEF Todos, Transfers
  <1>2. /\ Both.cs_take = TRUE /\ Take.cs_take = TRUE /\ Rel.cs_take = FALSE
        /\ Both.cs_release = TRUE /\ Take.cs_release = FALSE /\ Rel.cs_release = TRUE
    BY DEF Message
  <1>3. Transfers = { <<Both>>, <<Take, Rel>> }
    BY DEF Transfers
  <1> HIDE DEF Both, Take, Rel
  <1>4. CASE todo = <<Both>>
    <2>1. Head(todo) = Both /\ Len(todo) = 1 /\ todo # <<>>
      BY <1>4
    <2>2. QED
      BY <1>2, <2>1
  <1>5. CASE todo = <<Take, Rel>>
    <2>1. Tail(todo) = <<Rel>> /\ Len(todo) = 2 /\ Head(todo) = Take /\ todo # <<>>
      BY <1>5
    <2>2. Head(<<Rel>>) = Rel
      OBVIOUS
    <2>3. ~Head(Tail(todo)).cs_take
      BY <1>2, <2>1, <2>2, Zenon
    <2>4. Tail(todo) \in Todos
      BY <1>1, <2>1, Zenon
    <2>5. /\ todo # <<>> /\ Head(todo).cs_take = TRUE /\ Head(todo).cs_release = FALSE
          /\ Len(todo) # 1
      BY <1>2, <2>1
    <2>6. QED
      BY <2>3, <2>4, <2>5, Zenon
  <1>6. CASE todo = <<Rel>>
    <2>1. todo[1] = Rel /\ Head(todo) = Rel /\ Len(todo) = 1 /\ todo # <<>>
      BY <1>6
    <2>2. todo \notin Transfers
      <3>1. <<Both>>[1] = Both /\ <<Take, Rel>>[1] = Take
        OBVIOUS
      <3>2. QED
        BY <1>2, <1>3, <2>1, <3>1
    <2>3. QED
      BY <1>2, <2>1, <2>2
  <1>7. QED
    BY <1>1, <1>4, <1>5, <1>6

\* The numbers that stand for no thread and no device are neither.
LEMMA NotOne == NoThread \notin SpiThread /\ NoDevice \notin SpiDevice
  BY SpiAssumption DEF NoThread, NoDevice

\* Of two threads that have the mutex, one is the other.
LEMMA OneHolder ==
    ASSUME MutexInv, NEW t \in SpiThread, NEW u \in SpiThread, Locks(t) > 0, Locks(u) > 0
    PROVE  t = u
  BY DEF MutexInv

\* A thread has the mutex not at all, once or twice.
LEMMA LocksRange ==
    ASSUME NEW t \in SpiThread
    PROVE  /\ Locks(t) \in 0..2
           /\ Locks(t) > 0 <=> taken[t] # NoDevice \/ Transferring(t)
  BY DEF Locks

\* The invariant holds initially.
LEMMA SpiInvInit == SpiInit => SpiInv
  <1> SUFFICES ASSUME SpiInit PROVE SpiInv
    OBVIOUS
  <1> USE DEF SpiInit, NoJob
  <1>1. SpiTypes
    BY DEF SpiTypes
  <1>2. MutexInv
    BY NotOne DEF MutexInv, Locks, Transferring
  <1>3. \A t \in SpiThread : JobInv(t)
    BY DEF JobInv, Transferring, Sending
  <1>4. OwnerInv /\ ChipInv
    BY DEF OwnerInv, ChipInv
  <1>5. QED
    BY <1>1, <1>2, <1>3, <1>4 DEF SpiInv

\* Writing a configuration keeps the invariant.
LEMMA ConfigureKeeps ==
    ASSUME SpiInv, NEW t \in SpiThread, NEW d \in SpiDevice, NEW c \in Config,
           rt_spi_configure(t, d, c)
    PROVE  SpiInv'
  <1> USE DEF SpiInv, rt_spi_configure, Goes
  <1>1. SpiTypes'
    BY DEF SpiTypes
  <1>2. \A u \in SpiThread : Locks(u)' = Locks(u)
    BY DEF Locks, Transferring, SpiTypes
  <1>3. MutexInv'
    BY <1>2 DEF MutexInv
  <1>4. ASSUME NEW u \in SpiThread PROVE JobInv(u)'
    BY DEF JobInv, SpiTypes, Transferring, Sending
  <1>5. OwnerInv'
    <2>1. Changing(d)'
      BY DEF Changing, SpiTypes
    <2>2. ASSUME NEW e \in SpiDevice, Changing(e) PROVE Changing(e)'
      BY <2>2 DEF Changing, SpiTypes
    <2>3. QED
      BY <2>1, <2>2 DEF OwnerInv, SpiTypes
  <1>6. ASSUME NEW e \in SpiDevice, NEW u \in SpiThread, HasSelected(u, e)
        PROVE  HasSelected(u, e)'
    BY <1>6 DEF HasSelected, SpiTypes, Transferring, Sending
  <1>7. ChipInv'
    BY <1>6 DEF ChipInv, SpiTypes
  <1>8. QED
    BY <1>1, <1>3, <1>4, <1>5, <1>7

\* So does passing it on.
LEMMA ReconfigureKeeps ==
    ASSUME SpiInv, NEW t \in SpiThread, Reconfigure(t)
    PROVE  SpiInv'
  <1> USE DEF SpiInv, Reconfigure, Goes, Returns, NoJob
  <1>1. SpiTypes'
    BY DEF SpiTypes, JobInv
  <1>2. \A u \in SpiThread : Locks(u)' = Locks(u)
    BY DEF Locks, Transferring, SpiTypes, JobInv
  <1>3. MutexInv'
    BY <1>2 DEF MutexInv
  <1>4. ASSUME NEW u \in SpiThread PROVE JobInv(u)'
    BY DEF JobInv, SpiTypes, Transferring, Sending
  <1>5. OwnerInv'
    <2>1. ASSUME NEW e \in SpiDevice, Changing(e), e # spi_job[t].dev PROVE Changing(e)'
      BY <2>1 DEF Changing, SpiTypes
    <2>2. QED
      BY <2>1 DEF OwnerInv, SpiTypes
  <1>6. ASSUME NEW e \in SpiDevice, NEW u \in SpiThread, HasSelected(u, e)
        PROVE  HasSelected(u, e)'
    BY <1>6 DEF HasSelected, SpiTypes, Transferring, Sending
  <1>7. ChipInv'
    BY <1>6 DEF ChipInv, SpiTypes
  <1>8. QED
    BY <1>1, <1>3, <1>4, <1>5, <1>7

\* So does a call that takes the mutex, for a transfer or for the bus.
LEMMA CallKeeps ==
    ASSUME SpiInv, NEW t \in SpiThread, NEW d \in SpiDevice, NEW todo \in Transfers \cup {<<>>},
           SpiCall(t, d, todo),
           \/ todo # <<>> /\ taken' = taken
           \/ todo = <<>> /\ taken[t] = NoDevice /\ taken' = [taken EXCEPT ![t] = d]
    PROVE  SpiInv'
  <1> USE DEF SpiInv, SpiCall, Goes
  <1>1. SpiTypes'
    <2>1. mutex' \in [holder : SpiThread \cup {NoThread}, depth : Nat]
      BY DEF SpiTypes
    <2>2. [dev |-> d, todo |-> todo] \in [dev : SpiDevice \cup {NoDevice}, todo : Todos \cup {<<>>}]
      BY DEF Todos
    <2>3. spi_job' \in [SpiThread -> [dev : SpiDevice \cup {NoDevice}, todo : Todos \cup {<<>>}]]
      BY <2>2 DEF SpiTypes
    <2>4. QED
      BY <2>1, <2>3 DEF SpiTypes
  <1>2. spi_at[t] = "idle" /\ ~Transferring(t)
    BY DEF JobInv
  <1>3. \A u \in SpiThread \ {t} : Locks(u)' = Locks(u)
    BY DEF Locks, Transferring, SpiTypes
  <1>4. Locks(t)' = Locks(t) + 1
    BY <1>2, NotOne DEF Locks, Transferring, SpiTypes
  <1>5. mutex.depth = Locks(t) /\ \A u \in SpiThread \ {t} : Locks(u) = 0
    BY LocksRange DEF MutexInv, MayLock
  <1>6. MutexInv'
    BY <1>3, <1>4, <1>5, LocksRange, NotOne DEF MutexInv, SpiTypes
  <1>7. ASSUME NEW u \in SpiThread PROVE JobInv(u)'
    BY <1>2 DEF JobInv, SpiTypes, Transferring, Sending
  <1>8. OwnerInv'
    BY <1>2 DEF OwnerInv, Changing, SpiTypes
  <1>9. ASSUME NEW e \in SpiDevice, NEW u \in SpiThread, HasSelected(u, e)
        PROVE  HasSelected(u, e)'
    BY <1>2, <1>9, NotOne DEF HasSelected, SpiTypes, Transferring, Sending
  <1>10. ChipInv'
    BY <1>9 DEF ChipInv, SpiTypes
  <1>11. QED
    BY <1>1, <1>6, <1>7, <1>8, <1>10

\* So does making the device the owner of the bus, which configures the controller.
LEMMA OwnBusKeeps ==
    ASSUME SpiInv, NEW t \in SpiThread, OwnBus(t)
    PROVE  SpiInv'
  <1> USE DEF SpiInv, OwnBus, Owned, Goes, Returns, NoJob
  <1>1. SpiTypes'
    <2>1. spi_job[t].dev \in SpiDevice
      BY DEF JobInv
    <2>2. NoJob \in [dev : SpiDevice \cup {NoDevice}, todo : Todos \cup {<<>>}]
      OBVIOUS
    <2>3. spi_job' \in [SpiThread -> [dev : SpiDevice \cup {NoDevice}, todo : Todos \cup {<<>>}]]
      BY <2>2 DEF SpiTypes
    <2>4. bus_owner' \in SpiDevice \cup {NoDevice} /\ refused' \subseteq SpiDevice
      BY <2>1 DEF SpiTypes
    <2>5. controller' \in Config \cup {Zeroed}
      BY <2>1 DEF SpiTypes
    <2>6. spi_at' \in [SpiThread -> {"idle", "configure", "own", "send", "xfer"}]
      BY DEF SpiTypes
    <2>7. QED
      BY <2>3, <2>4, <2>5, <2>6 DEF SpiTypes
  <1>2. \A u \in SpiThread : Locks(u)' = Locks(u)
    BY DEF Locks, Transferring, SpiTypes
  <1>3. MutexInv'
    BY <1>2 DEF MutexInv
  <1>4. ASSUME NEW u \in SpiThread, u # t PROVE spi_at[u] \notin Sending
    <2>1. Locks(t) > 0
      BY NotOne, LocksRange DEF JobInv
    <2>2. Locks(u) = 0
      BY <1>4, <2>1, OneHolder, LocksRange
    <2>3. QED
      BY <2>2, LocksRange DEF JobInv
  <1>5. ASSUME NEW u \in SpiThread PROVE JobInv(u)'
    <2>1. CASE u = t
      BY <2>1, TodoFacts DEF JobInv, SpiTypes, Transferring, Sending
    <2>2. CASE u # t
      BY <2>2, <1>4 DEF JobInv, SpiTypes, Transferring, Sending
    <2>3. QED
      BY <2>1, <2>2
  <1>6. ASSUME NEW e \in SpiDevice, Changing(e) PROVE Changing(e)'
    BY <1>6 DEF Changing, SpiTypes
  <1>7. OwnerInv'
    BY <1>6 DEF OwnerInv, SpiTypes
  <1>8. ASSUME NEW e \in SpiDevice, NEW u \in SpiThread, HasSelected(u, e)
        PROVE  HasSelected(u, e)'
    BY <1>8 DEF HasSelected, SpiTypes, Transferring, Sending
  <1>9. ChipInv'
    BY <1>8 DEF ChipInv, SpiTypes
  <1>10. QED
    BY <1>1, <1>3, <1>5, <1>7, <1>9

\* What unlocking does, by a thread that has the mutex.
LEMMA UnlockFacts ==
    ASSUME SpiTypes, MutexInv, NEW t \in SpiThread, Locks(t) > 0, Unlock
    PROVE  /\ mutex' \in [holder : SpiThread \cup {NoThread}, depth : Nat]
           /\ mutex.holder = t /\ mutex'.depth = Locks(t) - 1
           /\ mutex'.holder = IF Locks(t) = 1 THEN NoThread ELSE t
  <1>1. mutex.holder = t /\ mutex.depth = Locks(t)
    BY DEF MutexInv
  <1>2. QED
    BY <1>1, LocksRange DEF Unlock, SpiTypes

\* A step that unlocks once, and takes one lock off the thread, keeps the account.
LEMMA MutexUnlockKeeps ==
    ASSUME SpiTypes, MutexInv, NEW t \in SpiThread, Locks(t) > 0, Unlock,
           Locks(t)' = Locks(t) - 1, \A u \in SpiThread \ {t} : Locks(u)' = Locks(u)
    PROVE  MutexInv'
  <1>1. \A u \in SpiThread \ {t} : Locks(u) = 0
    BY OneHolder, LocksRange
  <1>2. QED
    BY <1>1, UnlockFacts, LocksRange, NotOne DEF MutexInv

\* A thread beyond the mutex has it, so that no other is.
LEMMA AloneInside ==
    ASSUME SpiInv, NEW t \in SpiThread, Locks(t) > 0
    PROVE  \A u \in SpiThread \ {t} : /\ taken[u] = NoDevice /\ ~Transferring(u)
                                      /\ spi_at[u] \in {"idle", "configure"}
  <1> SUFFICES ASSUME NEW u \in SpiThread, u # t
               PROVE  /\ taken[u] = NoDevice /\ ~Transferring(u)
                      /\ spi_at[u] \in {"idle", "configure"}
    OBVIOUS
  <1>1. taken[u] = NoDevice /\ ~Transferring(u)
    BY OneHolder, LocksRange DEF SpiInv
  <1>2. QED
    BY <1>1, NotOne DEF SpiInv, JobInv, Sending, SpiTypes

\* A call that ends returns its thread to the start, and changes no other thread.
LEMMA ReturnsTypes ==
    ASSUME SpiTypes, NEW t \in SpiThread, Returns(t)
    PROVE  /\ spi_at' \in [SpiThread -> {"idle", "configure", "own", "send", "xfer"}]
           /\ spi_job' \in [SpiThread -> [dev : SpiDevice \cup {NoDevice}, todo : Todos \cup {<<>>}]]
           /\ spi_at'[t] = "idle" /\ spi_job'[t] = NoJob
           /\ \A u \in SpiThread \ {t} : spi_at'[u] = spi_at[u] /\ spi_job'[u] = spi_job[u]
  <1>1. NoJob \in [dev : SpiDevice \cup {NoDevice}, todo : Todos \cup {<<>>}]
    BY DEF NoJob
  <1>2. QED
    BY <1>1 DEF SpiTypes, Returns, Goes

\* The invariant is kept by a call whose configuration of the controller fails.
LEMMA OwnBusFailsKeeps ==
    ASSUME SpiInv, NEW t \in SpiThread, OwnBusFails(t)
    PROVE  SpiInv'
  <1> USE DEF SpiInv, OwnBusFails
  <1>1. Locks(t) = 1 \/ Transferring(t)
    BY NotOne DEF JobInv, Locks
  <1>2. Locks(t) > 0
    BY <1>1, LocksRange
  <1>3. SpiTypes'
    BY <1>2, UnlockFacts, ReturnsTypes DEF SpiTypes
  <1>4. \A u \in SpiThread \ {t} : Locks(u)' = Locks(u)
    BY ReturnsTypes DEF Locks, Transferring, SpiTypes
  <1>5. Locks(t)' = Locks(t) - 1
    <2>1. ~Transferring(t)'
      BY ReturnsTypes DEF Transferring, NoJob
    <2>2. CASE Transferring(t)
      <3>1. taken'[t] = taken[t]
        BY <2>2 DEF Transferring, SpiTypes
      <3>2. QED
        BY <2>1, <2>2, <3>1 DEF Locks
    <2>3. CASE ~Transferring(t)
      <3>1. taken'[t] = NoDevice /\ taken[t] # NoDevice
        BY <2>3, NotOne DEF Transferring, SpiTypes, JobInv
      <3>2. QED
        BY <2>1, <2>3, <3>1 DEF Locks
    <2>4. QED
      BY <2>2, <2>3
  <1>6. MutexInv'
    BY <1>2, <1>4, <1>5, MutexUnlockKeeps
  <1>7. ASSUME NEW u \in SpiThread PROVE JobInv(u)'
    BY ReturnsTypes DEF JobInv, SpiTypes, Transferring, Sending, NoJob
  <1>8. OwnerInv'
    BY ReturnsTypes DEF OwnerInv, Changing
  <1>9. ASSUME NEW e \in SpiDevice, NEW u \in SpiThread, HasSelected(u, e)
        PROVE  HasSelected(u, e)'
    BY <1>9, ReturnsTypes DEF HasSelected, SpiTypes, Transferring, Sending, NoJob
  <1>10. ChipInv'
    BY <1>9 DEF ChipInv, SpiTypes
  <1>11. QED
    BY <1>3, <1>6, <1>7, <1>8, <1>10

\* So does the start of a transfer, which may select the chip.
LEMMA XferBeginKeeps ==
    ASSUME SpiInv, NEW t \in SpiThread, XferBegin(t)
    PROVE  SpiInv'
  <1> USE DEF SpiInv, XferBegin, Goes
  <1>1. spi_job[t].dev \in SpiDevice /\ Transferring(t) /\ Locks(t) > 0
    BY LocksRange DEF JobInv, Sending
  <1>2. SpiTypes'
    BY <1>1 DEF SpiTypes
  <1>3. MutexInv'
    BY DEF MutexInv, Locks, Transferring
  <1>4. ASSUME NEW u \in SpiThread PROVE JobInv(u)'
    <2>1. CASE u = t
      BY <2>1, <1>1 DEF JobInv, SpiTypes, Transferring, Sending
    <2>2. CASE u # t
      BY <2>2, <1>1, AloneInside DEF JobInv, SpiTypes, Transferring, Sending
    <2>3. QED
      BY <2>1, <2>2
  <1>5. OwnerInv'
    BY DEF OwnerInv, Changing, SpiTypes
  <1>6. ASSUME NEW e \in SpiDevice, NEW u \in SpiThread, HasSelected(u, e)
        PROVE  HasSelected(u, e)'
    BY <1>6 DEF HasSelected, SpiTypes, Transferring, Sending
  <1>7. HasSelected(t, spi_job[t].dev)'
    BY DEF HasSelected, SpiTypes, Sending
  <1>8. ChipInv'
    BY <1>6, <1>7 DEF ChipInv, SpiTypes
  <1>9. QED
    BY <1>2, <1>3, <1>4, <1>5, <1>8

\* So does its end: the call goes on with its next message, or it ends and the mutex
\* is unlocked.
LEMMA XferEndKeeps ==
    ASSUME SpiInv, NEW t \in SpiThread, XferEnd(t)
    PROVE  SpiInv'
  <1> DEFINE job == spi_job[t]
             d   == job.dev
  <1> USE DEF SpiInv
  <1>1. /\ spi_at[t] = "xfer" /\ d \in SpiDevice /\ Transferring(t) /\ Locks(t) > 0
        /\ job.todo \in Todos /\ d \in selected /\ bus_owner = d
        /\ taken[t] \in {NoDevice, d}
    BY LocksRange DEF JobInv, Sending, SpiTypes, Transferring, XferEnd
  <1>2. /\ selected' = (IF Head(job.todo).cs_release THEN selected \ {d} ELSE selected)
        /\ left' = (IF Head(job.todo).cs_release THEN left \ {d} ELSE left)
        /\ UNCHANGED <<bus_owner, config, controller, taken, refused>>
    BY DEF XferEnd
  <1>3. ASSUME NEW e \in selected', e # d
        PROVE  e \in left'
    <2>1. e \in selected
      BY <1>2
    <2>2. ASSUME NEW u \in SpiThread, HasSelected(u, e)
          PROVE  FALSE
      BY <1>1, <1>3, <2>1, <2>2, NotOne, AloneInside DEF HasSelected, Sending, SpiTypes
    <2>3. QED
      BY <1>2, <1>3, <2>1, <2>2 DEF ChipInv
  <1>4. CASE Len(job.todo) = 1
    <2>1. Unlock /\ Returns(t)
      BY <1>4 DEF XferEnd
    <2>2. Head(job.todo).cs_release
      BY <1>1, <1>4, TodoFacts
    <2>3. SpiTypes'
      BY <1>1, <1>2, <2>1, UnlockFacts, ReturnsTypes DEF SpiTypes
    <2>4. \A u \in SpiThread \ {t} : Locks(u)' = Locks(u)
      BY <1>2, <2>1, ReturnsTypes DEF Locks, Transferring, SpiTypes
    <2>5. Locks(t)' = Locks(t) - 1
      BY <1>1, <1>2, <2>1, ReturnsTypes DEF Locks, Transferring, NoJob
    <2>6. MutexInv'
      BY <1>1, <2>1, <2>4, <2>5, MutexUnlockKeeps
    <2>7. ASSUME NEW u \in SpiThread PROVE JobInv(u)'
      BY <1>1, <1>2, <2>1, ReturnsTypes, AloneInside
         DEF JobInv, SpiTypes, Transferring, Sending, NoJob
    <2>8. OwnerInv'
      BY <1>1, <1>2, <2>1, ReturnsTypes DEF OwnerInv, Changing
    <2>9. ChipInv'
      BY <1>2, <1>3, <2>2 DEF ChipInv
    <2>10. QED
      BY <2>3, <2>6, <2>7, <2>8, <2>9
  <1>5. CASE Len(job.todo) # 1
    <2>1. /\ spi_job' = [spi_job EXCEPT ![t].todo = Tail(@)]
          /\ Goes(t, "send") /\ UNCHANGED mutex
      BY <1>5 DEF XferEnd
    <2>2. Tail(job.todo) \in Todos /\ ~Head(Tail(job.todo)).cs_take
      BY <1>1, <1>5, TodoFacts
    <2>3. Tail(job.todo) # <<>>
      BY <2>2, TodoFacts
    <2>4. ~Head(job.todo).cs_release
      BY <1>1, <1>5, TodoFacts
    <2>5. /\ spi_at'[t] = "send" /\ spi_job'[t].todo = Tail(job.todo) /\ spi_job'[t].dev = d
          /\ spi_job' \in [SpiThread -> [dev : SpiDevice \cup {NoDevice}, todo : Todos \cup {<<>>}]]
          /\ spi_at' \in [SpiThread -> {"idle", "configure", "own", "send", "xfer"}]
          /\ \A u \in SpiThread \ {t} : spi_at'[u] = spi_at[u] /\ spi_job'[u] = spi_job[u]
      <3>1. spi_job'[t] = [spi_job[t] EXCEPT !.todo = Tail(job.todo)]
        BY <2>1 DEF SpiTypes
      <3>2. spi_job'[t].todo = Tail(job.todo) /\ spi_job'[t].dev = d
        BY <3>1 DEF SpiTypes
      <3>3. spi_job'[t] \in [dev : SpiDevice \cup {NoDevice}, todo : Todos \cup {<<>>}]
        <4>1. spi_job[t] \in [dev : SpiDevice \cup {NoDevice}, todo : Todos \cup {<<>>}]
          BY DEF SpiTypes
        <4>2. QED
          BY <2>2, <3>1, <4>1
      <3>4. spi_job' \in [SpiThread -> [dev : SpiDevice \cup {NoDevice}, todo : Todos \cup {<<>>}]]
        BY <2>1, <3>3 DEF SpiTypes
      <3>5. QED
        BY <2>1, <3>2, <3>4 DEF Goes, SpiTypes
    <2>6. SpiTypes'
      BY <1>2, <2>1, <2>5 DEF SpiTypes
    <2>7. \A u \in SpiThread : Locks(u)' = Locks(u)
      BY <1>1, <1>2, <2>3, <2>5 DEF Locks, Transferring
    <2>8. MutexInv'
      BY <2>1, <2>7 DEF MutexInv
    <2>9. ASSUME NEW u \in SpiThread PROVE JobInv(u)'
      <3>1. CASE u = t
        BY <1>1, <1>2, <2>2, <2>3, <2>4, <2>5, <3>1 DEF JobInv, Transferring, Sending
      <3>2. CASE u # t
        BY <1>1, <1>2, <2>5, <3>2, AloneInside DEF JobInv, Transferring, Sending
      <3>3. QED
        BY <3>1, <3>2
    <2>10. OwnerInv'
      BY <1>1, <1>2, <2>5 DEF OwnerInv, Changing
    <2>11. ChipInv'
      BY <1>3, <2>5 DEF ChipInv, HasSelected, Sending
    <2>12. QED
      BY <2>6, <2>8, <2>9, <2>10, <2>11
  <1>6. QED
    BY <1>4, <1>5

\* So does a transfer that fails: its chip is left selected.
LEMMA XferFailsKeeps ==
    ASSUME SpiInv, NEW t \in SpiThread, XferFails(t)
    PROVE  SpiInv'
  <1> USE DEF SpiInv, XferFails
  <1>1. /\ spi_job[t].dev \in SpiDevice /\ Transferring(t) /\ Locks(t) > 0
        /\ taken[t] \in {NoDevice, spi_job[t].dev}
    BY LocksRange DEF JobInv, Sending
  <1>2. SpiTypes'
    BY <1>1, UnlockFacts, ReturnsTypes DEF SpiTypes
  <1>3. \A u \in SpiThread \ {t} : Locks(u)' = Locks(u)
    BY ReturnsTypes DEF Locks, Transferring, SpiTypes
  <1>4. Locks(t)' = Locks(t) - 1
    BY <1>1, ReturnsTypes DEF Locks, Transferring, NoJob
  <1>5. MutexInv'
    BY <1>1, <1>3, <1>4, MutexUnlockKeeps
  <1>6. ASSUME NEW u \in SpiThread PROVE JobInv(u)'
    BY ReturnsTypes DEF JobInv, SpiTypes, Transferring, Sending, NoJob
  <1>7. OwnerInv'
    BY ReturnsTypes DEF OwnerInv, Changing
  <1>8. ASSUME NEW e \in SpiDevice, NEW u \in SpiThread, HasSelected(u, e)
        PROVE  e \in left' \/ HasSelected(u, e)'
    BY <1>8, ReturnsTypes DEF HasSelected, SpiTypes, Transferring, Sending, NoJob
  <1>9. ChipInv'
    BY <1>8 DEF ChipInv, SpiTypes
  <1>10. QED
    BY <1>2, <1>5, <1>6, <1>7, <1>9

\* So does selecting the chip of the device that the bus has been taken for.
LEMMA TakeKeeps ==
    ASSUME SpiInv, NEW t \in SpiThread, rt_spi_take(t)
    PROVE  SpiInv'
  <1> USE DEF SpiInv, rt_spi_take
  <1>1. SpiTypes'
    BY DEF SpiTypes
  <1>2. MutexInv' /\ OwnerInv'
    BY DEF MutexInv, Locks, Transferring, OwnerInv, Changing
  <1>3. ASSUME NEW u \in SpiThread PROVE JobInv(u)'
    BY DEF JobInv, Transferring
  <1>4. HasSelected(t, taken[t])
    BY DEF HasSelected
  <1>5. ChipInv'
    BY <1>4 DEF ChipInv, HasSelected, Transferring
  <1>6. QED
    BY <1>1, <1>2, <1>3, <1>5

\* So does letting it go.
LEMMA ReleaseKeeps ==
    ASSUME SpiInv, NEW t \in SpiThread, rt_spi_release(t)
    PROVE  SpiInv'
  <1> USE DEF SpiInv, rt_spi_release
  <1>1. SpiTypes'
    BY DEF SpiTypes
  <1>2. MutexInv' /\ OwnerInv'
    BY DEF MutexInv, Locks, Transferring, OwnerInv, Changing
  <1>3. Locks(t) > 0
    BY LocksRange
  <1>4. ASSUME NEW u \in SpiThread PROVE JobInv(u)'
    BY <1>3, AloneInside DEF JobInv, Transferring, Sending
  <1>5. ChipInv'
    BY DEF ChipInv, HasSelected, Transferring
  <1>6. QED
    BY <1>1, <1>2, <1>4, <1>5

\* So does giving the bus back.
LEMMA ReleaseBusKeeps ==
    ASSUME SpiInv, NEW t \in SpiThread, rt_spi_release_bus(t)
    PROVE  SpiInv'
  <1> USE DEF SpiInv, rt_spi_release_bus
  <1>1. Locks(t) > 0 /\ ~Transferring(t)
    BY LocksRange DEF JobInv
  <1>2. SpiTypes'
    BY <1>1, UnlockFacts DEF SpiTypes
  <1>3. \A u \in SpiThread \ {t} : Locks(u)' = Locks(u)
    BY DEF Locks, Transferring, SpiTypes
  <1>4. Locks(t)' = Locks(t) - 1
    BY <1>1 DEF Locks, Transferring, SpiTypes
  <1>5. MutexInv'
    BY <1>1, <1>3, <1>4, MutexUnlockKeeps
  <1>6. ASSUME NEW u \in SpiThread PROVE JobInv(u)'
    BY DEF JobInv, SpiTypes, Transferring, Sending
  <1>7. OwnerInv'
    BY DEF OwnerInv, Changing
  <1>8. ASSUME NEW e \in selected, NEW u \in SpiThread, HasSelected(u, e)
        PROVE  e \in left \/ HasSelected(u, e)'
    BY <1>8 DEF HasSelected, SpiTypes, Transferring, Sending
  <1>9. ChipInv'
    BY <1>8 DEF ChipInv
  <1>10. QED
    BY <1>2, <1>5, <1>6, <1>7, <1>9

\* Every step keeps the invariant.
LEMMA SpiInvNext == SpiInv /\ [SpiNext]_spiVars => SpiInv'
  <1> SUFFICES ASSUME SpiInv, [SpiNext]_spiVars PROVE SpiInv'
    OBVIOUS
  <1>1. ASSUME NEW t \in SpiThread, NEW d \in SpiDevice, NEW c \in Config, rt_spi_configure(t, d, c)
        PROVE  SpiInv'
    BY <1>1, ConfigureKeeps
  <1>2. ASSUME NEW t \in SpiThread, NEW d \in SpiDevice, rt_spi_transfer(t, d)
        PROVE  SpiInv'
    <2>1. PICK todo \in Transfers : SpiCall(t, d, todo)
      BY <1>2 DEF rt_spi_transfer
    <2>2. todo # <<>>
      BY TodoFacts DEF Todos
    <2>3. QED
      BY <1>2, <2>1, <2>2, CallKeeps DEF rt_spi_transfer
  <1>3. ASSUME NEW t \in SpiThread, NEW d \in SpiDevice, rt_spi_take_bus(t, d)
        PROVE  SpiInv'
    BY <1>3, CallKeeps DEF rt_spi_take_bus
  <1>4. ASSUME NEW t \in SpiThread, Reconfigure(t)
        PROVE  SpiInv'
    BY <1>4, ReconfigureKeeps
  <1>5. ASSUME NEW t \in SpiThread, OwnBus(t) \/ OwnBusFails(t)
        PROVE  SpiInv'
    BY <1>5, OwnBusKeeps, OwnBusFailsKeeps
  <1>6. ASSUME NEW t \in SpiThread, XferBegin(t) \/ XferEnd(t) \/ XferFails(t)
        PROVE  SpiInv'
    BY <1>6, XferBeginKeeps, XferEndKeeps, XferFailsKeeps
  <1>7. ASSUME NEW t \in SpiThread, rt_spi_take(t) \/ rt_spi_release(t) \/ rt_spi_release_bus(t)
        PROVE  SpiInv'
    BY <1>7, TakeKeeps, ReleaseKeeps, ReleaseBusKeeps
  <1>8. CASE UNCHANGED spiVars
    BY <1>8 DEF spiVars, SpiInv, SpiTypes, MutexInv, Locks, Transferring, JobInv, OwnerInv, Changing,
                ChipInv, HasSelected
  <1>9. QED
    BY <1>1, <1>2, <1>3, <1>4, <1>5, <1>6, <1>7, <1>8 DEF SpiNext

LEMMA SpiInvTypes == SpiInv => SpiTypeOK
  <1> SUFFICES ASSUME SpiInv PROVE SpiTypeOK
    OBVIOUS
  <1>1. CASE mutex.holder = NoThread
    BY <1>1 DEF SpiInv, SpiTypes, MutexInv, SpiTypeOK
  <1>2. CASE mutex.holder \in SpiThread
    BY <1>2, NotOne, LocksRange DEF SpiInv, SpiTypes, MutexInv, SpiTypeOK
  <1>3. QED
    BY <1>1, <1>2 DEF SpiInv, SpiTypes

\* The mutex is at most twice with its holder, and only with nobody not at all.
THEOREM SpiTypeCorrect == SpiSpec => []SpiTypeOK
  BY SpiInvTypes, SpiInvInit, SpiInvNext, PTL DEF SpiSpec

\* While data go to a device the controller has its configuration and its chip alone
\* is selected, but for what a configuration under way, a refusal or a failed transfer
\* explains.
THEOREM SpiBusIsSetUp == SpiSpec => []BusIsSetUp
  <1>1. SpiInv => BusIsSetUp
    <2> SUFFICES ASSUME SpiInv, NEW t \in SpiThread, spi_at[t] = "xfer"
                 PROVE  LET d == spi_job[t].dev IN
                        /\ mutex.holder = t /\ bus_owner = d
                        /\ controller = config[d] \/ Changing(d) \/ d \in refused
                        /\ d \in selected /\ selected \ {d} \subseteq left
      BY DEF BusIsSetUp
    <2> USE DEF SpiInv
    <2>1. /\ Transferring(t) /\ Locks(t) > 0 /\ spi_job[t].dev \in SpiDevice
          /\ bus_owner = spi_job[t].dev /\ spi_job[t].dev \in selected
          /\ taken[t] \in {NoDevice, spi_job[t].dev}
      BY LocksRange DEF JobInv, Sending
    <2>2. ASSUME NEW e \in selected, e # spi_job[t].dev, NEW u \in SpiThread, HasSelected(u, e)
          PROVE  FALSE
      BY <2>1, <2>2, NotOne, AloneInside DEF HasSelected, Sending, SpiTypes
    <2>3. QED
      BY <2>1, <2>2, NotOne DEF MutexInv, OwnerInv, ChipInv
  <1>2. QED
    BY <1>1, SpiInvInit, SpiInvNext, PTL DEF SpiSpec
-----------------------------------------------------------------------------
\* The USB host: the types of its variables.
Enumerates == {"device head", "address", "descriptors", "hub descriptors"}
ThreadAt   == {"recv", "status", "clear", "debounce", "alloc"} \cup Enumerates
Instance   == [address : {Off, 0} \cup Inst, low : BOOLEAN]
Msg        == {ChangeMsg, FreedMsg} \cup Inst
Thread     == [at : ThreadAt, port : Port \cup {NoPort}, low : BOOLEAN, swapped : BOOLEAN,
               tries : Nat]
PortTypes ==
    /\ plugged \in [Port -> Device \cup {Empty}] /\ changed \in [Port -> BOOLEAN]
    /\ answers \in [Port -> {Off, 0} \cup Inst]
InstTypes ==
    /\ uinst \in [Inst -> Instance] /\ child \in [Port -> Inst \cup {NoInst}]
    /\ pipe_in \in [Inst -> {"none", "idle", "armed"}]
    /\ owner \in [Inst -> Port \cup {NoPort}] /\ astray \subseteq Port
MqTypes == usbh_mq \in Seq(Msg) /\ Len(usbh_mq) <= MqSize /\ lost \in BOOLEAN
ThreadTypes == usbh \in Thread /\ (usbh.at = "recv" <=> usbh.port = NoPort)

\* A port that has an instance finds it: each has one at most.
ChildInv ==
    \A i \in Inst : /\ uinst[i] = Unused <=> owner[i] = NoPort
                    /\ owner[i] # NoPort => child[owner[i]] = i

\* A change is in the queue, or the thread has still to look at the port, or its
\* message was dropped.
Told     == \E k \in 1 .. Len(usbh_mq) : usbh_mq[k] = ChangeMsg
Ahead(p) == \/ usbh.at # "recv" /\ usbh.port < p
            \/ usbh.at \in {"status", "clear"} /\ usbh.port = p
SeenInv  == \A p \in Port : changed[p] => lost \/ Told \/ Ahead(p)

\* What PortsInOrder says of a port, and of which ports: those whose changes were seen.
Settled(p) ==
    IF plugged[p] = Empty THEN \A i \in Inst : owner[i] # p
    ELSE /\ child[p] \in Inst /\ owner[child[p]] = p /\ answers[p] = child[p]
         /\ uinst[child[p]] = [address |-> child[p], low |-> plugged[p] \in LowSpeed]
Known(p) == ~changed[p] /\ p \notin astray
RestInv  == \A p \in Port : Known(p) /\ (p = usbh.port => usbh.at = "status") => Settled(p)

\* The port that the thread is at, by how far it is.
LookInv(p) ==
    /\ usbh.at = "clear" => changed[p]
    /\ usbh.at \in {"clear", "debounce", "alloc"} /\ ~usbh.swapped =>
          (usbh.at = "clear" \/ ~changed[p] => usbh.low = (plugged[p] \in LowSpeed))
    /\ usbh.at \in {"debounce", "alloc"} => \A i \in Inst : owner[i] # p
    /\ usbh.at = "alloc" /\ ~changed[p] => plugged[p] # Empty
EnumInv(p) ==
    /\ usbh.at \in Enumerates => child[p] \in Inst /\ owner[child[p]] = p
    /\ usbh.at \in {"device head", "address"} =>
          /\ uinst[child[p]].address = 0
          /\ Known(p) => /\ plugged[p] # Empty /\ answers[p] = 0
                         /\ uinst[child[p]].low = (plugged[p] \in LowSpeed)
    /\ usbh.at \in {"descriptors", "hub descriptors"} /\ Known(p) => Settled(p)

\* The inductive invariant.
HostTypes == PortTypes /\ InstTypes /\ MqTypes /\ ThreadTypes
HostInv ==
    /\ HostTypes /\ ChildInv /\ SeenInv /\ RestInv
    /\ usbh.at # "recv" => LookInv(usbh.port) /\ EnumInv(usbh.port)

LEMMA HostFacts ==
    /\ NumPorts \in Nat /\ NumPorts > 0 /\ MaxInst \in Nat /\ NumPorts <= MaxInst
    /\ MqSize \in Nat /\ MqSize > 0
    /\ Port \subseteq Nat /\ Inst \subseteq Nat /\ 1 \in Port
    /\ NoPort \notin Port /\ NoInst \notin Inst /\ 0 \notin Inst /\ Off \notin Inst /\ Off # 0
    /\ ChangeMsg \notin Inst /\ FreedMsg \notin Inst /\ FreedMsg # ChangeMsg
    /\ Empty \notin Device
  <1>1. /\ NumPorts \in Nat /\ NumPorts > 0 /\ MaxInst \in Nat /\ NumPorts <= MaxInst
        /\ MqSize \in Nat /\ MqSize > 0 /\ Empty \notin Device
    BY UsbHostAssumption
  <1>2. Port \subseteq Nat /\ 1 \in Port /\ NoPort \notin Port
    BY <1>1 DEF Port, NoPort
  <1>3. /\ Inst \subseteq Nat /\ NoInst \notin Inst /\ 0 \notin Inst /\ Off \notin Inst /\ Off # 0
        /\ ChangeMsg \notin Inst /\ FreedMsg \notin Inst /\ FreedMsg # ChangeMsg
    BY <1>1 DEF Inst, NoInst, Off, ChangeMsg, FreedMsg
  <1>4. QED
    BY <1>1, <1>2, <1>3

\* A message is put behind the others.
LEMMA MqAppend ==
    ASSUME MqTypes, NEW m \in Msg, Len(usbh_mq) < MqSize, usbh_mq' = Append(usbh_mq, m),
           lost' \in BOOLEAN
    PROVE  MqTypes' /\ (Told => Told') /\ (m = ChangeMsg => Told')
  <1>1. usbh_mq \in Seq(Msg) /\ Len(usbh_mq) \in Nat /\ MqSize \in Nat
    BY HostFacts DEF MqTypes
  <1>2. /\ usbh_mq' \in Seq(Msg) /\ Len(usbh_mq') = Len(usbh_mq) + 1
        /\ \A i \in 1 .. Len(usbh_mq) : usbh_mq'[i] = usbh_mq[i]
        /\ usbh_mq'[Len(usbh_mq) + 1] = m
    BY <1>1, AppendProperties
  <1>3. MqTypes'
    BY <1>1, <1>2 DEF MqTypes
  <1>4. Told => Told'
    <2>1. \A i \in 1 .. Len(usbh_mq) : i \in 1 .. Len(usbh_mq')
      BY <1>1, <1>2
    <2>2. QED
      BY <1>2, <2>1 DEF Told
  <1>5. m = ChangeMsg => Told'
    <2>1. Len(usbh_mq) + 1 \in 1 .. Len(usbh_mq')
      BY <1>1, <1>2
    <2>2. QED
      BY <1>2, <2>1 DEF Told
  <1>6. QED
    BY <1>3, <1>4, <1>5

\* A message that is not of a change is taken.
LEMMA MqTail ==
    ASSUME MqTypes, usbh_mq # <<>>, usbh_mq' = Tail(usbh_mq), lost' \in BOOLEAN
    PROVE  MqTypes' /\ (Told /\ Head(usbh_mq) # ChangeMsg => Told')
  <1>1. /\ usbh_mq \in Seq(Msg) /\ Len(usbh_mq) \in Nat /\ Len(usbh_mq) <= MqSize /\ MqSize \in Nat
    BY HostFacts DEF MqTypes
  <1>2. Len(usbh_mq) > 0
    BY <1>1, EmptySeq
  <1>3. /\ Head(usbh_mq) = usbh_mq[1]
        /\ usbh_mq' \in Seq(Msg) /\ Len(usbh_mq') = Len(usbh_mq) - 1
        /\ \A i \in 1 .. Len(usbh_mq) - 1 : usbh_mq'[i] = usbh_mq[i + 1]
    BY <1>1, <1>2, HeadTailProperties
  <1>4. MqTypes'
    BY <1>1, <1>3 DEF MqTypes
  <1>5. ASSUME Told, Head(usbh_mq) # ChangeMsg
        PROVE  Told'
    <2>1. PICK k \in 1 .. Len(usbh_mq) : usbh_mq[k] = ChangeMsg
      BY <1>5 DEF Told
    <2>2. k # 1
      BY <1>3, <1>5, <2>1
    <2>3. k - 1 \in 1 .. Len(usbh_mq) - 1 /\ (k - 1) + 1 = k
      BY <1>1, <2>2
    <2>4. usbh_mq'[k - 1] = ChangeMsg
      BY <1>3, <2>1, <2>3
    <2>5. QED
      BY <1>3, <2>3, <2>4 DEF Told
  <1>6. QED
    BY <1>4, <1>5

\* The messages of a driver that stops point to memory that was freed.
LEMMA MqFreed ==
    ASSUME MqTypes, NEW i \in Inst, rt_usb_hub_stop(i), lost' = lost
    PROVE  MqTypes' /\ (Told => Told')
  <1>1. /\ usbh_mq \in Seq(Msg) /\ Len(usbh_mq) \in Nat /\ DOMAIN usbh_mq = 1 .. Len(usbh_mq)
        /\ Len(usbh_mq) <= MqSize
    BY DEF MqTypes
  <1>2. usbh_mq' = [k \in 1 .. Len(usbh_mq) |-> IF usbh_mq[k] = i THEN FreedMsg ELSE usbh_mq[k]]
    BY <1>1 DEF rt_usb_hub_stop
  <1>3. usbh_mq' \in [1 .. Len(usbh_mq) -> Msg]
    <2>1. \A k \in 1 .. Len(usbh_mq) : usbh_mq[k] \in Msg
      BY <1>1, ElementOfSeq
    <2>2. FreedMsg \in Msg
      BY DEF Msg
    <2>3. QED
      BY <1>2, <2>1, <2>2
  <1>4. usbh_mq' \in Seq(Msg) /\ Len(usbh_mq') = Len(usbh_mq)
    BY <1>1, <1>3
  <1>5. Told => Told'
    <2>1. ChangeMsg # i
      BY HostFacts
    <2>2. \A k \in 1 .. Len(usbh_mq) : usbh_mq[k] = ChangeMsg => usbh_mq'[k] = ChangeMsg
      BY <1>2, <2>1
    <2>3. QED
      BY <1>4, <2>2 DEF Told
  <1>6. QED
    BY <1>1, <1>4, <1>5 DEF MqTypes

\* The thread goes to the next port, or waits after the last.
LEMMA NextPortFacts ==
    ASSUME NEW p \in Port \cup {NoPort}, NextPort(p)
    PROVE  /\ ThreadTypes' /\ usbh'.at \in {"recv", "status"} /\ usbh'.swapped = FALSE
           /\ \A q \in Port : q > p => Ahead(q)'
  <1>1. p \in Nat /\ p <= NumPorts /\ NumPorts \in Nat /\ NumPorts > 0
    BY HostFacts DEF Port, NoPort
  <1>2. Waits \in Thread /\ Waits.at = "recv" /\ Waits.port = NoPort /\ Waits.swapped = FALSE
    BY DEF Waits, Thread, ThreadAt
  <1>3. CASE p = NumPorts
    <2>1. usbh' = Waits
      BY <1>3 DEF NextPort
    <2>2. \A q \in Port : ~(q > p)
      BY <1>1, <1>3 DEF Port
    <2>3. QED
      BY <1>2, <2>1, <2>2 DEF ThreadTypes
  <1>4. CASE p # NumPorts
    <2>1. usbh' = [Waits EXCEPT !.at = "status", !.port = p + 1]
      BY <1>4 DEF NextPort
    <2>2. p + 1 \in Port /\ p + 1 # NoPort /\ p + 1 # p
      BY <1>1, <1>4 DEF Port, NoPort
    <2>3. /\ usbh' \in Thread /\ usbh'.at = "status" /\ usbh'.port = p + 1
          /\ usbh'.swapped = FALSE
      BY <1>2, <2>1, <2>2 DEF Thread, ThreadAt
    <2>4. ASSUME NEW q \in Port, q > p
          PROVE  Ahead(q)'
      <3>1. q = p + 1 \/ p + 1 < q
        BY <1>1, <2>4, HostFacts
      <3>2. QED
        BY <2>3, <3>1 DEF Ahead
    <2>5. ThreadTypes'
      BY <2>2, <2>3 DEF ThreadTypes
    <2>6. QED
      BY <2>3, <2>4, <2>5
  <1>5. QED
    BY <1>3, <1>4

\* The thread is done with a port: of the others nothing has changed.
LEMMA DoneWith ==
    ASSUME HostInv, NEW p \in Port, p = usbh.port, NextPort(p),
           usbh.at # "clear", usbh.at = "status" => ~changed[p],
           UNCHANGED <<changed, usbh_mq, lost>>,
           PortTypes', InstTypes', ChildInv',
           \A q \in Port : Known(q)' => Settled(q)'
    PROVE  HostInv'
  <1>1. /\ ThreadTypes' /\ usbh'.at \in {"recv", "status"} /\ \A q \in Port : q > p => Ahead(q)'
    BY NextPortFacts
  <1>2. usbh_mq' = usbh_mq /\ lost' = lost /\ changed' = changed
    OBVIOUS
  <1>3. MqTypes' /\ Told' = Told
    BY <1>2 DEF HostInv, HostTypes, MqTypes, Told
  <1>4. ASSUME NEW q \in Port, changed'[q]
        PROVE  lost' \/ Told' \/ Ahead(q)'
    <2>1. lost \/ Told \/ Ahead(q)
      BY <1>2, <1>4 DEF HostInv, SeenInv
    <2>2. Ahead(q) => q > p
      <3>1. q \in Nat /\ p \in Nat /\ p = usbh.port
        BY HostFacts
      <3>2. ~(usbh.at \in {"status", "clear"} /\ usbh.port = q)
        BY <1>2, <1>4
      <3>3. QED
        BY <3>1, <3>2 DEF Ahead
    <2>3. QED
      BY <1>1, <1>2, <1>3, <2>1, <2>2
  <1>5. SeenInv'
    BY <1>4 DEF SeenInv
  <1>6. RestInv'
    BY DEF RestInv
  <1>7. LookInv(usbh.port)' /\ EnumInv(usbh.port)'
    BY <1>1 DEF LookInv, EnumInv, Enumerates
  <1>8. HostTypes'
    BY <1>1, <1>3 DEF HostTypes
  <1>9. QED
    BY <1>5, <1>6, <1>7, <1>8 DEF HostInv

LEMMA HostInvInit == UsbHostInit => HostInv
  <1> SUFFICES ASSUME UsbHostInit PROVE HostInv
    OBVIOUS
  <1>1. /\ plugged = [p \in Port |-> Empty] /\ changed = [p \in Port |-> FALSE]
        /\ answers = [p \in Port |-> Off]
        /\ uinst = [i \in Inst |-> Unused] /\ child = [p \in Port |-> NoInst]
        /\ pipe_in = [i \in Inst |-> "none"]
        /\ usbh_mq = <<>> /\ usbh = Waits
        /\ owner = [i \in Inst |-> NoPort] /\ astray = {} /\ lost = FALSE
    BY DEF UsbHostInit
  <1>2. PortTypes
    BY <1>1 DEF PortTypes
  <1>3. InstTypes
    BY <1>1 DEF InstTypes, Instance, Unused
  <1>4. MqTypes
    <2>1. <<>> \in Seq(Msg) /\ Len(<<>>) = 0
      OBVIOUS
    <2>2. 0 <= MqSize
      BY HostFacts
    <2>3. QED
      BY <1>1, <2>1, <2>2 DEF MqTypes
  <1>5. ThreadTypes /\ usbh.at = "recv" /\ usbh.port \notin Port
    BY <1>1, HostFacts DEF ThreadTypes, Thread, ThreadAt, Waits
  <1>6. ChildInv
    BY <1>1 DEF ChildInv
  <1>7. SeenInv
    BY <1>1 DEF SeenInv
  <1>8. RestInv
    <2>1. \A p \in Port : p # NoPort
      BY HostFacts
    <2>2. QED
      BY <1>1, <2>1 DEF RestInv, Settled
  <1>9. QED
    BY <1>2, <1>3, <1>4, <1>5, <1>6, <1>7, <1>8 DEF HostInv, HostTypes

\* The board is reset.
LEMMA RestartStep == HostRestart => HostInv'
  <1>1. HostRestart => UsbHostInit'
    BY DEF HostRestart, UsbHostInit
  <1>2. QED
    BY <1>1, HostInvInit, PTL

\* Something happens at a port.
LEMMA PlugStep ==
    ASSUME HostInv, NEW p \in Port, NEW d \in Device \cup {Empty}, PortChanges(p, d)
    PROVE  HostInv'
  <1>1. HostTypes /\ ChildInv /\ SeenInv /\ RestInv
    BY DEF HostInv
  <1>2. /\ plugged' = [plugged EXCEPT ![p] = d] /\ answers' = [answers EXCEPT ![p] = Off]
        /\ changed' = [changed EXCEPT ![p] = TRUE]
        /\ PostChange \/ (changed[p] /\ usbh_mq' = usbh_mq /\ lost' = lost)
        /\ usbh' = [usbh EXCEPT !.swapped = @ \/ (usbh.at = "clear" /\ usbh.port = p)]
        /\ uinst' = uinst /\ child' = child /\ pipe_in' = pipe_in
        /\ owner' = owner /\ astray' = astray
    BY DEF PortChanges, hosted
  <1>3. /\ usbh' \in Thread /\ usbh'.at = usbh.at /\ usbh'.port = usbh.port
        /\ usbh'.low = usbh.low /\ ThreadTypes'
        /\ usbh'.swapped = (usbh.swapped \/ (usbh.at = "clear" /\ usbh.port = p))
    BY <1>1, <1>2 DEF HostTypes, ThreadTypes, Thread
  <1>4. PortTypes' /\ InstTypes'
    BY <1>1, <1>2 DEF HostTypes, PortTypes, InstTypes
  <1>5. /\ changed'[p] = TRUE
        /\ \A q \in Port : q # p => changed'[q] = changed[q] /\ plugged'[q] = plugged[q]
                                    /\ answers'[q] = answers[q]
    BY <1>1, <1>2 DEF HostTypes, PortTypes
  <1>6. /\ MqTypes' /\ (lost => lost') /\ (Told => Told')
        /\ lost' \/ Told' \/ (changed[p] /\ Told' = Told /\ lost' = lost)
    <2>1. MqTypes /\ ChangeMsg \in Msg
      BY <1>1 DEF HostTypes, Msg
    <2>2. CASE PostChange /\ Len(usbh_mq) < MqSize
      <3>1. usbh_mq' = Append(usbh_mq, ChangeMsg) /\ lost' = lost
        BY <2>2 DEF PostChange
      <3>2. QED
        BY <2>1, <2>2, <3>1, MqAppend DEF MqTypes
    <2>3. CASE PostChange /\ ~(Len(usbh_mq) < MqSize)
      BY <2>1, <2>3 DEF PostChange, MqTypes, Told
    <2>4. CASE changed[p] /\ usbh_mq' = usbh_mq /\ lost' = lost
      BY <2>1, <2>4 DEF MqTypes, Told
    <2>5. QED
      BY <1>2, <2>2, <2>3, <2>4
  <1>7. ChildInv'
    BY <1>1, <1>2 DEF ChildInv
  <1>8. \A q \in Port : Ahead(q)' = Ahead(q)
    BY <1>3 DEF Ahead
  <1>9. SeenInv'
    BY <1>1, <1>5, <1>6, <1>8 DEF SeenInv
  <1>10. ASSUME NEW q \in Port, Known(q)'
         PROVE  q # p /\ Known(q) /\ Settled(q)' = Settled(q)
    BY <1>2, <1>5, <1>10 DEF Known, Settled
  <1>11. RestInv'
    BY <1>1, <1>3, <1>10 DEF RestInv
  <1>12. ASSUME usbh.at # "recv"
         PROVE  LookInv(usbh.port)' /\ EnumInv(usbh.port)'
    <2>1. PICK c \in Port : c = usbh.port /\ LookInv(c) /\ EnumInv(c)
      BY <1>1, <1>12 DEF HostInv, HostTypes, ThreadTypes, Thread
    <2>2. LookInv(c)'
      <3>1. CASE c = p
        <4>1. changed'[c] /\ (usbh'.at = "clear" => usbh'.swapped)
          BY <1>3, <1>5, <2>1, <3>1
        <4>2. usbh'.at \in {"debounce", "alloc"} => \A i \in Inst : owner'[i] # c
          BY <1>2, <1>3, <2>1 DEF LookInv
        <4>3. QED
          BY <1>3, <4>1, <4>2 DEF LookInv
      <3>2. CASE c # p
        <4>1. changed'[c] = changed[c] /\ plugged'[c] = plugged[c] /\ usbh'.swapped = usbh.swapped
          <5>1. changed'[c] = changed[c] /\ plugged'[c] = plugged[c]
            BY <1>5, <2>1, <3>2
          <5>2. usbh.swapped \in BOOLEAN /\ usbh'.swapped \in BOOLEAN
            BY <1>1, <1>3 DEF HostTypes, ThreadTypes, Thread
          <5>3. usbh'.swapped <=> usbh.swapped
            BY <1>3, <2>1, <3>2
          <5>4. QED
            BY <5>1, <5>2, <5>3
        <4>2. ASSUME usbh'.at \in {"clear", "debounce", "alloc"}, ~usbh'.swapped,
                     usbh'.at = "clear" \/ ~changed'[c]
              PROVE  usbh'.low = (plugged'[c] \in LowSpeed)
          <5>1. usbh.low = (plugged[c] \in LowSpeed)
            BY <1>3, <2>1, <4>1, <4>2 DEF LookInv
          <5>2. QED
            BY <1>3, <4>1, <5>1
        <4>3. /\ usbh'.at = "clear" => changed'[c]
              /\ usbh'.at \in {"debounce", "alloc"} => \A i \in Inst : owner'[i] # c
              /\ usbh'.at = "alloc" /\ ~changed'[c] => plugged'[c] # Empty
          BY <1>2, <1>3, <2>1, <4>1 DEF LookInv
        <4>4. QED
          BY <1>3, <4>2, <4>3 DEF LookInv
      <3>3. QED
        BY <3>1, <3>2
    <2>3. EnumInv(c)'
      <3>1. /\ usbh.at \in Enumerates => child'[c] \in Inst /\ owner'[child'[c]] = c
            /\ usbh.at \in {"device head", "address"} => uinst'[child'[c]].address = 0
        BY <1>2, <2>1 DEF EnumInv
      <3>2. ASSUME Known(c)'
            PROVE  /\ Known(c) /\ Settled(c)' = Settled(c)
                   /\ plugged'[c] = plugged[c] /\ answers'[c] = answers[c]
        BY <1>5, <1>10, <2>1, <3>2
      <3>3. ASSUME usbh.at \in {"device head", "address"}, Known(c)'
            PROVE  /\ plugged'[c] # Empty /\ answers'[c] = 0
                   /\ uinst'[child'[c]].low = (plugged'[c] \in LowSpeed)
        <4>1. /\ plugged[c] # Empty /\ answers[c] = 0
              /\ uinst[child[c]].low = (plugged[c] \in LowSpeed)
          BY <2>1, <3>2, <3>3 DEF EnumInv
        <4>2. QED
          BY <1>2, <3>2, <3>3, <4>1
      <3>4. usbh.at \in {"descriptors", "hub descriptors"} /\ Known(c)' => Settled(c)'
        BY <2>1, <3>2 DEF EnumInv
      <3>5. QED
        BY <1>3, <3>1, <3>3, <3>4 DEF EnumInv
    <2>4. QED
      BY <1>3, <2>1, <2>2, <2>3
  <1>13. QED
    BY <1>3, <1>4, <1>6, <1>7, <1>9, <1>11, <1>12 DEF HostInv, HostTypes

\* Steps that leave the ports, the instances and the thread alone.
LEMMA QueueStep ==
    ASSUME HostInv, MqTypes', InstTypes', (lost => lost'), (Told => Told'),
           UNCHANGED <<ports, uinst, child, usbh, owner, astray>>
    PROVE  HostInv'
  <1>1. /\ plugged' = plugged /\ changed' = changed /\ answers' = answers
        /\ uinst' = uinst /\ child' = child /\ usbh' = usbh
        /\ owner' = owner /\ astray' = astray
    BY DEF ports
  <1>2. HostTypes' /\ ChildInv'
    BY <1>1 DEF HostInv, HostTypes, PortTypes, ThreadTypes, ChildInv
  <1>3. SeenInv'
    BY <1>1 DEF HostInv, SeenInv, Ahead
  <1>4. \A p \in Port : Settled(p)' = Settled(p) /\ Known(p)' = Known(p)
    BY <1>1 DEF Settled, Known
  <1>5. RestInv'
    BY <1>1, <1>4 DEF HostInv, RestInv
  <1>6. ASSUME usbh.at # "recv"
        PROVE  LookInv(usbh.port)' /\ EnumInv(usbh.port)'
    <2>1. usbh.port \in Port /\ LookInv(usbh.port) /\ EnumInv(usbh.port)
      BY <1>6 DEF HostInv, HostTypes, ThreadTypes, Thread
    <2>2. QED
      BY <1>1, <1>4, <2>1 DEF LookInv, EnumInv
  <1>7. QED
    BY <1>1, <1>2, <1>3, <1>5, <1>6 DEF HostInv

LEMMA HubInterruptStep ==
    ASSUME HostInv, NEW i \in Inst, HubInterrupt(i)
    PROVE  HostInv'
  <1>1. /\ pipe_in' = [pipe_in EXCEPT ![i] = "idle"]
        /\ usbh_mq' = (IF Len(usbh_mq) < MqSize THEN Append(usbh_mq, i) ELSE usbh_mq)
        /\ UNCHANGED <<ports, uinst, child, usbh, owner, astray>> /\ lost' = lost
    BY DEF HubInterrupt
  <1>2. MqTypes /\ InstTypes /\ i \in Msg
    BY DEF HostInv, HostTypes, Msg
  <1>3. InstTypes'
    BY <1>1, <1>2 DEF InstTypes
  <1>4. MqTypes' /\ (Told => Told')
    <2>1. CASE Len(usbh_mq) < MqSize
      BY <1>1, <1>2, <2>1, MqAppend DEF MqTypes
    <2>2. CASE ~(Len(usbh_mq) < MqSize)
      BY <1>1, <1>2, <2>2 DEF MqTypes, Told
    <2>3. QED
      BY <2>1, <2>2
  <1>5. QED
    BY <1>1, <1>3, <1>4, QueueStep

\* The thread takes a message: of a change, of a hub, or of a driver that is gone.
LEMMA ReceiveStep ==
    ASSUME HostInv, Receive
    PROVE  HostInv'
  <1>1. HostTypes /\ MqTypes /\ InstTypes /\ usbh.at = "recv" /\ usbh_mq # <<>>
    BY DEF HostInv, HostTypes, Receive
  <1>2. CASE ReceiveFreed
    BY <1>2, RestartStep DEF ReceiveFreed
  <1>3. CASE rt_usb_hub_irq /\ usbh_mq' = Tail(usbh_mq) /\ UNCHANGED <<ports, owner, astray>>
    <2>1. /\ Head(usbh_mq) \in Inst /\ UNCHANGED <<ports, uinst, child, usbh, owner, astray>>
          /\ lost' = lost /\ Head(usbh_mq) # ChangeMsg
          /\ \/ pipe_in' = [pipe_in EXCEPT ![Head(usbh_mq)] = "armed"]
             \/ pipe_in' = pipe_in
      BY <1>3, HostFacts DEF rt_usb_hub_irq
    <2>2. MqTypes' /\ (Told => Told')
      BY <1>1, <1>3, <2>1, MqTail DEF MqTypes
    <2>3. InstTypes'
      BY <1>1, <2>1 DEF InstTypes
    <2>4. QED
      BY <2>1, <2>2, <2>3, QueueStep
  <1>4. CASE ReceiveChange /\ usbh_mq' = Tail(usbh_mq) /\ UNCHANGED <<ports, owner, astray>>
    <2>1. /\ NextPort(NoPort) /\ lost' = FALSE /\ uinst' = uinst /\ child' = child
          /\ pipe_in' = pipe_in /\ plugged' = plugged /\ changed' = changed
          /\ answers' = answers /\ owner' = owner /\ astray' = astray
      BY <1>4 DEF ReceiveChange, hosted, ports
    <2>2. /\ ThreadTypes' /\ usbh'.at \in {"recv", "status"} /\ \A q \in Port : q > NoPort => Ahead(q)'
      BY <2>1, NextPortFacts
    <2>3. MqTypes'
      BY <1>1, <1>4, <2>1, MqTail
    <2>4. HostTypes' /\ ChildInv'
      BY <1>1, <2>1, <2>2, <2>3 DEF HostInv, HostTypes, PortTypes, InstTypes, ChildInv
    <2>5. SeenInv'
      <3>1. \A q \in Port : q > NoPort
        BY HostFacts DEF Port, NoPort
      <3>2. QED
        BY <2>2, <3>1 DEF SeenInv
    <2>6. RestInv'
      <3>1. \A q \in Port : q # usbh.port
        BY <1>1, HostFacts DEF HostTypes, ThreadTypes
      <3>2. \A q \in Port : Settled(q)' = Settled(q) /\ Known(q)' = Known(q)
        BY <2>1 DEF Settled, Known
      <3>3. QED
        BY <3>1, <3>2 DEF HostInv, RestInv
    <2>7. LookInv(usbh.port)' /\ EnumInv(usbh.port)'
      BY <2>2 DEF LookInv, EnumInv, Enumerates
    <2>8. QED
      BY <2>4, <2>5, <2>6, <2>7 DEF HostInv
  <1>5. QED
    BY <1>2, <1>3, <1>4 DEF Receive

\* The thread reads the status of a port.
LEMMA StatusStep ==
    ASSUME HostInv, NEW p \in Port, p = usbh.port, GetStatus(p)
    PROVE  HostInv'
  <1>1. HostTypes /\ ChildInv /\ SeenInv /\ RestInv
    BY DEF HostInv
  <1>2. /\ usbh.at = "status" /\ plugged' = plugged /\ changed' = changed /\ answers' = answers
        /\ uinst' = uinst /\ child' = child /\ pipe_in' = pipe_in /\ usbh_mq' = usbh_mq
        /\ owner' = owner /\ astray' = astray /\ lost' = lost
    BY DEF GetStatus, ports, hosted
  <1>3. PortTypes' /\ InstTypes' /\ MqTypes' /\ ChildInv' /\ Told' = Told
    BY <1>1, <1>2 DEF HostTypes, PortTypes, InstTypes, MqTypes, ChildInv, Told
  <1>4. \A q \in Port : Settled(q)' = Settled(q) /\ Known(q)' = Known(q)
    BY <1>2 DEF Settled, Known
  <1>5. CASE ~changed[p] /\ NextPort(p)
    <2>1. \A q \in Port : Known(q) => Settled(q)
      BY <1>1, <1>2 DEF RestInv
    <2>2. QED
      BY <1>2, <1>3, <1>4, <1>5, <2>1, DoneWith
  <1>6. CASE changed[p] /\ usbh' = [usbh EXCEPT !.at = "clear", !.low = plugged[p] \in LowSpeed]
    <2>1. /\ usbh' \in Thread /\ usbh'.at = "clear" /\ usbh'.port = p
          /\ usbh'.low = (plugged[p] \in LowSpeed)
      <3>1. usbh \in Thread /\ (plugged[p] \in LowSpeed) \in BOOLEAN
        BY <1>1 DEF HostTypes, ThreadTypes
      <3>2. QED
        BY <1>6, <3>1 DEF Thread, ThreadAt
    <2>2. ThreadTypes'
      BY <2>1, HostFacts DEF ThreadTypes
    <2>3. \A q \in Port : Ahead(q) => Ahead(q)'
      BY <1>2, <2>1 DEF Ahead
    <2>4. SeenInv'
      BY <1>1, <1>2, <1>3, <2>3 DEF SeenInv
    <2>5. ~Known(p)
      BY <1>6 DEF Known
    <2>6. RestInv'
      BY <1>1, <1>2, <1>4, <2>1, <2>5 DEF RestInv
    <2>7. LookInv(p)' /\ EnumInv(p)'
      BY <1>2, <1>6, <2>1 DEF LookInv, EnumInv, Enumerates
    <2>8. QED
      BY <1>3, <2>1, <2>2, <2>4, <2>6, <2>7 DEF HostInv, HostTypes
  <1>7. QED
    BY <1>5, <1>6 DEF GetStatus

\* What is known of the thread when it goes on to another step at the same port.
LEMMA StepFacts ==
    ASSUME HostTypes, NEW to \in ThreadAt \ {"recv"}, usbh.at # "recv", StepTo(to)
    PROVE  /\ ThreadTypes' /\ usbh'.at = to /\ usbh'.port = usbh.port
           /\ usbh'.low = usbh.low /\ usbh'.swapped = usbh.swapped
  BY DEF HostTypes, ThreadTypes, Thread, StepTo

\* The instance that a port had is detached, and the change is cleared.
LEMMA ClearStep ==
    ASSUME HostInv, NEW p \in Port, p = usbh.port, ClearChange(p)
    PROVE  HostInv'
  <1> DEFINE i == child[p]
             idle == IF i = NoInst THEN TRUE ELSE uinst[i] = Unused
  <1>1. HostTypes /\ ChildInv /\ SeenInv /\ RestInv /\ usbh.at = "clear" /\ LookInv(p)
    BY DEF HostInv, ClearChange
  <1>2. CASE HostRestart
    BY <1>2, RestartStep
  <1>3. CASE /\ IF idle THEN UNCHANGED <<uinst, pipe_in, usbh_mq, owner, astray>>
                        ELSE rt_usb_detach_instance(i)
             /\ StepTo("debounce") /\ changed' = [changed EXCEPT ![p] = FALSE]
             /\ UNCHANGED <<plugged, answers, child, lost>>
    <2>1. /\ plugged' = plugged /\ answers' = answers /\ child' = child /\ lost' = lost
          /\ \A q \in Port : q # p => changed'[q] = changed[q]
      BY <1>1, <1>3 DEF HostTypes, PortTypes
    <2>2. /\ ThreadTypes' /\ usbh'.at = "debounce" /\ usbh'.port = p
          /\ usbh'.low = usbh.low /\ usbh'.swapped = usbh.swapped
      BY <1>1, <1>3, StepFacts DEF ThreadAt
    <2>3. PortTypes'
      BY <1>1, <1>3 DEF HostTypes, PortTypes
    <2>4. i \in Inst \cup {NoInst} /\ NoInst \notin Inst
      BY <1>1, HostFacts DEF HostTypes, InstTypes
    <2>5. /\ MqTypes' /\ InstTypes' /\ ChildInv' /\ (Told => Told')
          /\ astray \subseteq astray' /\ \A j \in Inst : owner'[j] # p
          /\ \A q \in Port : \A j \in Inst :
                 q # p /\ q \notin astray' /\ owner[j] = q => owner'[j] = q /\ uinst'[j] = uinst[j]
          /\ \A j \in Inst : owner'[j] \in {owner[j], NoPort}
      <3>1. CASE idle
        <4>1. /\ uinst' = uinst /\ pipe_in' = pipe_in /\ usbh_mq' = usbh_mq
              /\ owner' = owner /\ astray' = astray
          BY <1>3, <3>1
        <4>2. \A j \in Inst : owner[j] # p
          BY <1>1, <2>4, <3>1, HostFacts DEF ChildInv
        <4>3. QED
          BY <1>1, <2>1, <4>1, <4>2 DEF HostTypes, MqTypes, InstTypes, ChildInv, Told
      <3>2. CASE ~idle
        <4>1. i \in Inst /\ uinst[i] # Unused /\ owner[i] \in Port /\ child[owner[i]] = i
          BY <1>1, <2>4, <3>2 DEF ChildInv, HostTypes, InstTypes
        <4>2. /\ uinst' = [uinst EXCEPT ![i] = Unused] /\ rt_usb_hub_stop(i)
              /\ astray' = (IF owner[i] = p THEN astray ELSE astray \cup {owner[i]})
              /\ owner' = [owner EXCEPT ![i] = NoPort]
          BY <1>3, <3>2 DEF rt_usb_detach_instance
        <4> HIDE DEF i, idle
        <4>3. MqTypes' /\ (Told => Told')
          BY <1>1, <2>1, <4>1, <4>2, MqFreed DEF HostTypes
        <4>4. pipe_in' = [pipe_in EXCEPT ![i] = "none"]
          BY <4>2 DEF rt_usb_hub_stop
        <4>5. Unused \in Instance
          BY DEF Unused, Instance
        <4>6. InstTypes'
          BY <1>1, <2>1, <4>1, <4>2, <4>4, <4>5 DEF HostTypes, InstTypes
        <4>7. /\ \A j \in Inst : /\ owner'[j] = IF j = i THEN NoPort ELSE owner[j]
                                 /\ uinst'[j] = IF j = i THEN Unused ELSE uinst[j]
              /\ \A j \in Inst : owner[j] # NoPort => owner[j] \in Port
          BY <1>1, <4>1, <4>2 DEF HostTypes, InstTypes
        <4>8. ChildInv'
          BY <1>1, <2>1, <4>7 DEF ChildInv
        <4>9. \A j \in Inst : owner'[j] # p
          <5>1. ASSUME NEW j \in Inst, j # i PROVE owner[j] # p
            <6>1. p # NoPort
              BY HostFacts
            <6>2. QED
              BY <1>1, <5>1, <6>1 DEF ChildInv, i
          <5>2. QED
            BY <4>7, <5>1, HostFacts
        <4>10. QED
          BY <4>2, <4>3, <4>6, <4>7, <4>8, <4>9
      <3>3. QED
        BY <3>1, <3>2
    <2> HIDE DEF i, idle
    <2>6. SeenInv'
      <3>1. ASSUME NEW q \in Port, q # p, Ahead(q)
            PROVE  Ahead(q)'
        BY <1>1, <2>2, <3>1 DEF Ahead
      <3>2. changed'[p] = FALSE
        BY <1>1, <1>3 DEF HostTypes, PortTypes
      <3>3. QED
        BY <1>1, <2>1, <2>5, <3>1, <3>2 DEF SeenInv
    <2>7. RestInv'
      <3>1. SUFFICES ASSUME NEW q \in Port, q # p, Known(q)'
                     PROVE  Settled(q)'
        BY <2>2 DEF RestInv
      <3>2. Known(q) /\ q \notin astray'
        BY <2>1, <2>5, <3>1 DEF Known
      <3>3. Settled(q)
        BY <1>1, <3>1, <3>2 DEF RestInv
      <3>4. CASE plugged[q] = Empty
        <4>1. \A j \in Inst : owner[j] # q /\ q # NoPort
          BY <3>3, <3>4, HostFacts DEF Settled
        <4>2. \A j \in Inst : owner'[j] # q
          BY <2>5, <4>1
        <4>3. QED
          BY <2>1, <3>4, <4>2 DEF Settled
      <3>5. CASE plugged[q] # Empty
        <4>1. /\ child[q] \in Inst /\ owner[child[q]] = q /\ answers[q] = child[q]
              /\ uinst[child[q]] = [address |-> child[q], low |-> plugged[q] \in LowSpeed]
          BY <3>3, <3>5 DEF Settled
        <4>2. owner'[child[q]] = q /\ uinst'[child[q]] = uinst[child[q]]
          BY <2>5, <3>1, <3>2, <4>1
        <4>3. QED
          BY <2>1, <3>5, <4>1, <4>2 DEF Settled
      <3>6. QED
        BY <3>4, <3>5
    <2>8. LookInv(p)'
      <3>1. ~usbh.swapped => usbh.low = (plugged[p] \in LowSpeed)
        BY <1>1 DEF LookInv
      <3>2. QED
        BY <2>1, <2>2, <2>5, <3>1 DEF LookInv
    <2>9. EnumInv(p)'
      BY <2>2 DEF EnumInv, Enumerates
    <2>10. QED
      BY <2>2, <2>3, <2>5, <2>6, <2>7, <2>8, <2>9 DEF HostInv, HostTypes
  <1>4. QED
    BY <1>2, <1>3 DEF ClearChange, DetachUnsure


\* The thread goes on at a port whose change it has cleared.
LEMMA SamePort ==
    ASSUME HostInv, NEW p \in Port, p = usbh.port, usbh.at \notin {"recv", "status", "clear"},
           ThreadTypes', usbh'.port = p, usbh'.at \notin {"recv", "status"},
           UNCHANGED <<changed, usbh_mq, lost>>,
           PortTypes', InstTypes', ChildInv',
           \A q \in Port : q # p /\ Known(q)' => Settled(q)',
           LookInv(p)', EnumInv(p)'
    PROVE  HostInv'
  <1>1. usbh_mq' = usbh_mq /\ lost' = lost /\ changed' = changed
    OBVIOUS
  <1>2. MqTypes' /\ Told' = Told
    BY <1>1 DEF HostInv, HostTypes, MqTypes, Told
  <1>3. \A q \in Port : Ahead(q) => Ahead(q)'
    BY DEF Ahead
  <1>4. SeenInv'
    BY <1>1, <1>2, <1>3 DEF HostInv, SeenInv
  <1>5. RestInv'
    BY DEF RestInv
  <1>6. HostTypes'
    BY <1>2 DEF HostTypes
  <1>7. QED
    BY <1>4, <1>5, <1>6 DEF HostInv

\* The other ports are in order when the thread is at one.
LEMMA OthersSettled ==
    ASSUME HostInv, NEW q \in Port, q # usbh.port, Known(q)
    PROVE  Settled(q)
  BY DEF HostInv, RestInv

\* The port is looked at until the contact is firm.
LEMMA DebounceStep ==
    ASSUME HostInv, NEW p \in Port, p = usbh.port, Debounce(p)
    PROVE  HostInv'
  <1>1. HostTypes /\ ChildInv /\ usbh.at = "debounce" /\ LookInv(p)
    BY DEF HostInv, Debounce
  <1>2. /\ plugged' = plugged /\ changed' = changed /\ answers' = answers
        /\ uinst' = uinst /\ child' = child /\ pipe_in' = pipe_in /\ usbh_mq' = usbh_mq
        /\ owner' = owner /\ astray' = astray /\ lost' = lost
    BY DEF Debounce, ports, hosted
  <1>3. PortTypes' /\ InstTypes' /\ ChildInv'
    BY <1>1, <1>2 DEF HostTypes, PortTypes, InstTypes, ChildInv
  <1>4. \A q \in Port : Settled(q)' = Settled(q) /\ Known(q)' = Known(q)
    BY <1>2 DEF Settled, Known
  <1>5. \A q \in Port : q # p /\ Known(q)' => Settled(q)'
    BY <1>4, OthersSettled
  <1>6. CASE plugged[p] = Empty /\ NextPort(p)
    <2>1. Settled(p)
      BY <1>1, <1>6 DEF LookInv, Settled
    <2>2. \A q \in Port : Known(q)' => Settled(q)'
      BY <1>4, <1>5, <2>1
    <2>3. QED
      BY <1>1, <1>2, <1>3, <1>6, <2>2, DoneWith
  <1>7. CASE plugged[p] # Empty /\ \/ usbh' = [usbh EXCEPT !.tries = @ + 1]
                                   \/ StepTo("alloc")
    <2>1. /\ ThreadTypes' /\ usbh'.at \in {"debounce", "alloc"} /\ usbh'.port = p
          /\ usbh'.low = usbh.low /\ usbh'.swapped = usbh.swapped
      <3>1. CASE usbh' = [usbh EXCEPT !.tries = @ + 1]
        BY <1>1, <3>1 DEF HostTypes, ThreadTypes, Thread
      <3>2. CASE StepTo("alloc")
        BY <1>1, <3>2, StepFacts DEF ThreadAt
      <3>3. QED
        BY <1>7, <3>1, <3>2
    <2>2. LookInv(p)'
      <3>1. ~usbh'.swapped /\ ~changed'[p] => usbh'.low = (plugged'[p] \in LowSpeed)
        BY <1>1, <1>2, <2>1 DEF LookInv
      <3>2. (\A i \in Inst : owner'[i] # p) /\ plugged'[p] # Empty
        BY <1>1, <1>2, <1>7 DEF LookInv
      <3>3. QED
        BY <2>1, <3>1, <3>2 DEF LookInv
    <2>3. EnumInv(p)'
      BY <2>1 DEF EnumInv, Enumerates
    <2>4. QED
      BY <1>1, <1>2, <1>3, <1>5, <2>1, <2>2, <2>3, SamePort
  <1>8. QED
    BY <1>6, <1>7 DEF Debounce

\* An instance that is idle is found: there are as many as ports, and each port has
\* one at most.
LEMMA IdleInstance ==
    ASSUME HostTypes, ChildInv, NEW p \in Port, \A i \in Inst : owner[i] # p
    PROVE  \E i \in Inst : uinst[i] = Unused
  <1> SUFFICES ASSUME \A i \in Inst : uinst[i] # Unused
               PROVE  FALSE
    OBVIOUS
  <1>1. \A i \in Inst : owner[i] \in Port \ {p} /\ child[owner[i]] = i
    BY DEF ChildInv, HostTypes, InstTypes
  <1> DEFINE f == [i \in Inst |-> owner[i]]
  <1>2. f \in [Inst -> Port \ {p}]
    BY <1>1
  <1>3. IsFiniteSet(Inst) /\ Cardinality(Inst) = MaxInst
    <2>1. 1 \in Int /\ MaxInst \in Int /\ MaxInst >= 1 /\ MaxInst - 1 + 1 = MaxInst
      BY HostFacts
    <2>2. QED
      BY <2>1, FS_Interval DEF Inst
  <1>4. IsFiniteSet(Port) /\ Cardinality(Port) = NumPorts
    <2>1. 1 \in Int /\ NumPorts \in Int /\ NumPorts >= 1 /\ NumPorts - 1 + 1 = NumPorts
      BY HostFacts
    <2>2. QED
      BY <2>1, FS_Interval DEF Port
  <1>5. IsFiniteSet(Port \ {p}) /\ Cardinality(Port \ {p}) = NumPorts - 1
    BY <1>4, FS_RemoveElement
  <1>6. Cardinality(Port \ {p}) < Cardinality(Inst)
    BY <1>3, <1>5, HostFacts
  <1> HIDE DEF f
  <1>7. PICK i \in Inst, j \in Inst : i # j /\ f[i] = f[j]
    BY <1>2, <1>3, <1>5, <1>6, FS_PigeonHole
  <1>8. owner[i] = owner[j]
    BY <1>7 DEF f
  <1>9. QED
    BY <1>1, <1>7, <1>8

\* The least element of a set of numbers.
LEMMA LeastOf ==
    ASSUME NEW S, S \subseteq Nat, S # {}
    PROVE  Min(S) \in S
  <1>1. PICK x \in S : \A y \in S : ~(<<y, x>> \in OpToRel(<, Nat))
    BY NatLessThanWellFounded, WFMin
  <1>2. ASSUME NEW y \in S
        PROVE  x <= y
    <2>1. ~(y < x)
      BY <1>1 DEF OpToRel
    <2>2. QED
      BY <2>1
  <1>3. \E z \in S : \A y \in S : z <= y
    BY <1>2
  <1>4. QED
    BY <1>3 DEF Min

\* The port is given an instance, and is reset.
LEMMA AllocateStep ==
    ASSUME HostInv, NEW p \in Port, p = usbh.port, Allocate(p)
    PROVE  HostInv'
  <1>1. HostTypes /\ ChildInv /\ usbh.at = "alloc" /\ LookInv(p) /\ usbh \in Thread
    BY DEF HostInv, HostTypes, ThreadTypes, Allocate
  <1>2. \A j \in Inst : owner[j] # p
    BY <1>1 DEF LookInv
  <1>3. PICK i \in Inst : uinst[i] = Unused /\ i = Min({k \in Inst : uinst[k] = Unused})
    <2> DEFINE S == {k \in Inst : uinst[k] = Unused}
    <2>1. S # {}
      BY <1>1, <1>2, IdleInstance
    <2>2. S \subseteq Nat
      BY HostFacts
    <2>3. Min(S) \in S
      BY <2>1, <2>2, LeastOf
    <2>4. QED
      BY <2>3
  <1>4. /\ usbh' = [Waits EXCEPT !.at = "device head", !.port = p]
        /\ uinst' = [uinst EXCEPT ![i] = [address |-> 0, low |-> usbh.low]]
        /\ child' = [child EXCEPT ![p] = i] /\ owner' = [owner EXCEPT ![i] = p]
        /\ answers' = [answers EXCEPT ![p] = IF plugged[p] = Empty THEN Off ELSE 0]
        /\ astray' = (IF usbh.swapped THEN astray \cup {p} ELSE astray \ {p})
        /\ plugged' = plugged /\ changed' = changed /\ pipe_in' = pipe_in
        /\ usbh_mq' = usbh_mq /\ lost' = lost
    BY <1>3 DEF Allocate, rt_usb_hub_reset_port
  <1>5. owner[i] = NoPort /\ p # NoPort /\ p \in Nat
    BY <1>1, <1>3, HostFacts DEF ChildInv
  <1>6. /\ usbh'.at = "device head" /\ usbh'.port = p /\ ThreadTypes'
    BY <1>4, <1>5 DEF Waits, ThreadTypes, Thread, ThreadAt, Enumerates
  <1>7. /\ answers'[p] = (IF plugged[p] = Empty THEN Off ELSE 0)
        /\ \A q \in Port : q # p => answers'[q] = answers[q] /\ child'[q] = child[q]
        /\ child'[p] = i
        /\ \A j \in Inst : /\ owner'[j] = IF j = i THEN p ELSE owner[j]
                           /\ j # i => uinst'[j] = uinst[j]
        /\ uinst'[i] = [address |-> 0, low |-> usbh.low]
    BY <1>1, <1>4 DEF HostTypes, PortTypes, InstTypes
  <1>8. PortTypes'
    BY <1>1, <1>4 DEF HostTypes, PortTypes
  <1>9. InstTypes'
    <2>1. [address |-> 0, low |-> usbh.low] \in Instance
      BY <1>1 DEF Instance, Thread
    <2>2. astray' \subseteq Port
      BY <1>1, <1>4 DEF HostTypes, InstTypes
    <2>3. QED
      BY <1>1, <1>4, <2>1, <2>2 DEF HostTypes, InstTypes
  <1>10. ChildInv'
    <2>1. uinst'[i] # Unused
      BY <1>7, HostFacts DEF Unused
    <2>2. ASSUME NEW j \in Inst, j # i
          PROVE  /\ uinst'[j] = Unused <=> owner'[j] = NoPort
                 /\ owner'[j] # NoPort => child'[owner'[j]] = j
      <3>1. owner'[j] = owner[j] /\ uinst'[j] = uinst[j] /\ owner[j] # p
        BY <1>2, <1>7, <2>2
      <3>2. owner[j] \in Port \cup {NoPort}
        BY <1>1 DEF HostTypes, InstTypes
      <3>3. QED
        BY <1>1, <1>7, <3>1, <3>2 DEF ChildInv
    <2>3. QED
      BY <1>5, <1>7, <2>1, <2>2 DEF ChildInv
  <1>11. ASSUME NEW q \in Port, q # p, Known(q)'
         PROVE  Settled(q)'
    <2>1. Settled(q)
      BY <1>4, <1>11, OthersSettled DEF Known
    <2>2. CASE plugged[q] = Empty
      BY <1>4, <1>7, <1>11, <2>1, <2>2 DEF Settled
    <2>3. CASE plugged[q] # Empty
      <3>1. /\ child[q] \in Inst /\ owner[child[q]] = q /\ answers[q] = child[q]
            /\ uinst[child[q]] = [address |-> child[q], low |-> plugged[q] \in LowSpeed]
        BY <2>1, <2>3 DEF Settled
      <3>2. child[q] # i
        BY <1>5, <3>1, HostFacts
      <3>3. /\ child'[q] = child[q] /\ owner'[child[q]] = q /\ answers'[q] = answers[q]
            /\ uinst'[child[q]] = uinst[child[q]]
        BY <1>7, <1>11, <3>1, <3>2
      <3>4. QED
        BY <1>4, <2>3, <3>1, <3>3 DEF Settled
    <2>4. QED
      BY <2>2, <2>3
  <1>12. LookInv(p)'
    BY <1>6 DEF LookInv
  <1>13. EnumInv(p)'
    <2>1. ASSUME Known(p)'
          PROVE  plugged'[p] # Empty /\ answers'[p] = 0 /\ usbh.low = (plugged'[p] \in LowSpeed)
      <3>1. ~changed[p] /\ ~usbh.swapped
        BY <1>4, <2>1 DEF Known
      <3>2. plugged[p] # Empty /\ usbh.low = (plugged[p] \in LowSpeed)
        BY <1>1, <3>1 DEF LookInv
      <3>3. QED
        BY <1>4, <1>7, <3>2
    <2>2. child'[p] \in Inst /\ owner'[child'[p]] = p /\ uinst'[child'[p]].address = 0
          /\ uinst'[child'[p]].low = usbh.low
      BY <1>7
    <2>3. QED
      BY <1>6, <2>1, <2>2 DEF EnumInv
  <1>14. QED
    BY <1>1, <1>4, <1>6, <1>8, <1>9, <1>10, <1>11, <1>12, <1>13, SamePort

\* The requests, in the order in which they are made.
LEMMA RequestOrder ==
    /\ ToSet(Requests) = Enumerates
    /\ After("device head") = "address" /\ After("address") = "descriptors"
  <1>1. /\ Requests[1] = "device head" /\ Requests[2] = "address"
        /\ Requests[3] = "descriptors" /\ Requests[4] = "hub descriptors"
        /\ Len(Requests) = 4 /\ DOMAIN Requests = 1 .. 4 /\ 1 .. 4 = {1, 2, 3, 4}
    BY DEF Requests
  <1>2. ToSet(Requests) = Enumerates
    <2>1. ToSet(Requests) = {Requests[1], Requests[2], Requests[3], Requests[4]}
      BY <1>1 DEF ToSet
    <2>2. QED
      BY <1>1, <2>1 DEF Enumerates
  <1>3. ASSUME NEW k \in {1, 2}, NEW now, now = Requests[k]
        PROVE  After(now) = Requests[k + 1]
    <2> DEFINE I == {i \in 1 .. Len(Requests) : Requests[i] = now}
    <2>1. I = {k}
      BY <1>1, <1>3
    <2>2. Min(I) = k
      <3>1. I \subseteq Nat /\ I # {}
        BY <2>1
      <3>2. Min(I) \in I
        BY <3>1, LeastOf
      <3>3. QED
        BY <2>1, <3>2
    <2>3. After(now) = Requests[1 + Min(I)]
      BY <2>1 DEF After, SelectInSeq
    <2>4. QED
      BY <2>2, <2>3
  <1>4. 1 \in {1, 2} /\ 2 \in {1, 2} /\ 1 + 1 = 2 /\ 2 + 1 = 3
    OBVIOUS
  <1>5. After(Requests[1]) = Requests[2] /\ After(Requests[2]) = Requests[3]
    BY <1>3, <1>4, Zenon
  <1>6. QED
    BY <1>1, <1>2, <1>5

\* A request fails: the device is lost track of, unless it is a hub whose driver fails.
LEMMA RequestFailsStep ==
    ASSUME HostInv, NEW p \in Port, p = usbh.port, RequestFails(p)
    PROVE  HostInv'
  <1>1. HostTypes /\ ChildInv /\ usbh.at \in Enumerates /\ EnumInv(p) /\ NextPort(p)
    BY RequestOrder DEF HostInv, RequestFails, Enumerating, Enumerates
  <1>2. /\ plugged' = plugged /\ changed' = changed /\ answers' = answers
        /\ uinst' = uinst /\ child' = child /\ pipe_in' = pipe_in /\ usbh_mq' = usbh_mq
        /\ owner' = owner /\ lost' = lost
        /\ astray' = (IF usbh.at = "hub descriptors" THEN astray ELSE astray \cup {p})
    BY DEF RequestFails, ports, hosted
  <1>3. PortTypes' /\ InstTypes' /\ ChildInv'
    BY <1>1, <1>2 DEF HostTypes, PortTypes, InstTypes, ChildInv
  <1>4. ASSUME NEW q \in Port, Known(q)'
        PROVE  Settled(q)'
    <2>1. Known(q) /\ Settled(q)' = Settled(q) /\ (q = p => usbh.at = "hub descriptors")
      BY <1>2, <1>4 DEF Settled, Known
    <2>2. Settled(q)
      BY <1>1, <2>1, OthersSettled DEF EnumInv
    <2>3. QED
      BY <2>1, <2>2
  <1>5. QED
    BY <1>1, <1>2, <1>3, <1>4, DoneWith DEF Enumerates

\* A device is given its address: it is the one that answers at 0.
LEMMA AddressFacts ==
    ASSUME HostInv, NEW p \in Port, p = usbh.port, usbh.at \in Enumerates, SetAddress(p),
           UNCHANGED <<plugged, changed, child, owner, astray>>
    PROVE  /\ answers' \in [Port -> {Off, 0} \cup Inst] /\ uinst' \in [Inst -> Instance]
           /\ ChildInv'
           /\ usbh.at = "address" \/ (answers' = answers /\ uinst' = uinst)
           /\ usbh.at = "address" /\ Known(p)' => Settled(p)'
           /\ \A q \in Port : q # p /\ Known(q)' => Settled(q)'
  <1>1. /\ PortTypes /\ InstTypes /\ ChildInv /\ EnumInv(p)
        /\ child[p] \in Inst /\ owner[child[p]] = p
    BY DEF HostInv, HostTypes, EnumInv, Enumerates
  <1>2. /\ plugged' = plugged /\ changed' = changed /\ child' = child
        /\ owner' = owner /\ astray' = astray
    OBVIOUS
  <1>3. \A q \in Port : Known(q)' = Known(q)
    BY <1>2 DEF Known
  <1>4. CASE usbh.at # "address"
    <2>1. answers' = answers /\ uinst' = uinst
      BY <1>4 DEF SetAddress
    <2>2. \A q \in Port : Settled(q)' = Settled(q)
      BY <1>2, <2>1 DEF Settled
    <2>3. ChildInv'
      BY <1>1, <1>2, <2>1 DEF ChildInv
    <2>4. QED
      BY <1>1, <1>3, <1>4, <2>1, <2>2, <2>3, OthersSettled DEF PortTypes, InstTypes
  <1>5. CASE usbh.at = "address"
    <2>1. PICK i \in Inst : i = child[p] /\ owner[i] = p /\ uinst[i].address = 0
      BY <1>1, <1>5 DEF EnumInv
    <2>2. /\ answers' = [q \in Port |-> IF answers[q] = 0 THEN i ELSE answers[q]]
          /\ uinst' = [uinst EXCEPT ![i].address = i]
      BY <1>1, <1>5, <2>1 DEF SetAddress, Answering
    <2>3. /\ \A q \in Port : answers'[q] = IF answers[q] = 0 THEN i ELSE answers[q]
          /\ \A j \in Inst : j # i => uinst'[j] = uinst[j]
          /\ uinst'[i] = [address |-> i, low |-> uinst[i].low]
      BY <1>1, <2>2 DEF PortTypes, InstTypes, Instance
    <2>4. answers' \in [Port -> {Off, 0} \cup Inst] /\ uinst' \in [Inst -> Instance]
      BY <1>1, <2>2 DEF PortTypes, InstTypes, Instance
    <2>5. ChildInv'
      <3>1. uinst[i] # Unused /\ uinst'[i] # Unused
        BY <2>1, <2>3, HostFacts DEF Unused
      <3>2. QED
        BY <1>1, <1>2, <2>1, <2>3, <3>1 DEF ChildInv
    <2>6. ASSUME Known(p)'
          PROVE  Settled(p)'
      <3>1. plugged[p] # Empty /\ answers[p] = 0 /\ uinst[i].low = (plugged[p] \in LowSpeed)
        BY <1>1, <1>3, <1>5, <2>1, <2>6 DEF EnumInv
      <3>2. /\ answers'[p] = i /\ uinst'[i] = [address |-> i, low |-> plugged[p] \in LowSpeed]
        BY <2>3, <3>1
      <3>3. QED
        BY <1>2, <2>1, <3>1, <3>2 DEF Settled
    <2>7. ASSUME NEW q \in Port, q # p, Known(q)'
          PROVE  Settled(q)'
      <3>1. Settled(q)
        BY <1>3, <2>7, OthersSettled
      <3>2. CASE plugged[q] = Empty
        BY <1>2, <3>1, <3>2 DEF Settled
      <3>3. CASE plugged[q] # Empty
        <4>1. /\ child[q] \in Inst /\ owner[child[q]] = q /\ answers[q] = child[q]
              /\ uinst[child[q]] = [address |-> child[q], low |-> plugged[q] \in LowSpeed]
          BY <3>1, <3>3 DEF Settled
        <4>2. answers[q] # 0 /\ child[q] # i
          BY <2>1, <2>7, <4>1, HostFacts
        <4>3. answers'[q] = answers[q] /\ uinst'[child[q]] = uinst[child[q]]
          BY <2>3, <4>1, <4>2
        <4>4. QED
          BY <1>2, <3>3, <4>1, <4>3 DEF Settled
      <3>4. QED
        BY <3>2, <3>3
    <2>8. QED
      BY <1>5, <2>4, <2>5, <2>6, <2>7
  <1>6. QED
    BY <1>4, <1>5

\* A request is done.
LEMMA RequestDoneStep ==
    ASSUME HostInv, NEW p \in Port, p = usbh.port, RequestDone(p)
    PROVE  HostInv'
  <1>1. /\ HostTypes /\ usbh.at \in Enumerates /\ EnumInv(p)
        /\ child[p] \in Inst /\ owner[child[p]] = p
    BY RequestOrder DEF HostInv, RequestDone, Enumerating, EnumInv, Enumerates
  <1>2. /\ plugged' = plugged /\ changed' = changed /\ child' = child
        /\ owner' = owner /\ astray' = astray /\ usbh_mq' = usbh_mq /\ lost' = lost
        /\ SetAddress(p)
    BY DEF RequestDone
  <1>3. /\ answers' \in [Port -> {Off, 0} \cup Inst] /\ uinst' \in [Inst -> Instance]
        /\ ChildInv'
        /\ usbh.at = "address" \/ (answers' = answers /\ uinst' = uinst)
        /\ usbh.at = "address" /\ Known(p)' => Settled(p)'
        /\ \A q \in Port : q # p /\ Known(q)' => Settled(q)'
    BY <1>1, <1>2, AddressFacts
  <1>4. pipe_in' = pipe_in \/ pipe_in' = [pipe_in EXCEPT ![child[p]] = "armed"]
    BY DEF RequestDone, rt_usb_hub_run
  <1>5. PortTypes' /\ InstTypes'
    BY <1>1, <1>2, <1>3, <1>4 DEF HostTypes, PortTypes, InstTypes
  <1>6. Known(p)' = Known(p) /\ (usbh.at # "address" => Settled(p)' = Settled(p))
    BY <1>2, <1>3 DEF Known, Settled
  <1>7. usbh.at \in {"descriptors", "hub descriptors"} /\ Known(p)' => Settled(p)'
    BY <1>1, <1>6 DEF EnumInv
  <1>8. CASE usbh.at = "device head" /\ StepTo("address")
    <2>1. ThreadTypes' /\ usbh'.at = "address" /\ usbh'.port = p
      BY <1>1, <1>8, StepFacts DEF ThreadAt, Enumerates
    <2>2. answers' = answers /\ uinst' = uinst
      BY <1>3, <1>8
    <2>3. LookInv(p)'
      BY <2>1 DEF LookInv
    <2>4. EnumInv(p)'
      BY <1>1, <1>2, <1>6, <1>8, <2>1, <2>2 DEF EnumInv, Enumerates
    <2>5. QED
      BY <1>2, <1>3, <1>5, <1>8, <2>1, <2>3, <2>4, SamePort
  <1>9. CASE \/ usbh.at = "address" /\ StepTo("descriptors")
             \/ usbh.at = "descriptors" /\ StepTo("hub descriptors")
    <2>1. /\ ThreadTypes' /\ usbh'.at \in {"descriptors", "hub descriptors"} /\ usbh'.port = p
      BY <1>1, <1>9, StepFacts DEF ThreadAt, Enumerates
    <2>2. LookInv(p)'
      BY <2>1 DEF LookInv
    <2>3. EnumInv(p)'
      BY <1>1, <1>2, <1>3, <1>7, <1>9, <2>1 DEF EnumInv, Enumerates
    <2>4. QED
      BY <1>2, <1>3, <1>5, <1>9, <2>1, <2>2, <2>3, SamePort
  <1>10. CASE usbh.at \in {"descriptors", "hub descriptors"} /\ NextPort(p)
    <2>1. \A q \in Port : Known(q)' => Settled(q)'
      BY <1>3, <1>7, <1>10
    <2>2. QED
      BY <1>2, <1>3, <1>5, <1>10, <2>1, DoneWith
  <1>11. QED
    BY <1>1, <1>8, <1>9, <1>10, RequestOrder DEF RequestDone, rt_usb_hub_run

\* Every step keeps the invariant.
LEMMA HostInvStep == HostInv /\ [UsbHostNext]_usbhVars => HostInv'
  <1> SUFFICES ASSUME HostInv, [UsbHostNext]_usbhVars PROVE HostInv'
    OBVIOUS
  <1>1. ASSUME NEW p \in Port, NEW d \in Device, PlugIn(p, d) PROVE HostInv'
    BY <1>1, PlugStep DEF PlugIn
  <1>2. ASSUME NEW p \in Port, PlugOut(p) PROVE HostInv'
    BY <1>2, PlugStep DEF PlugOut
  <1>3. ASSUME NEW p \in Port, PortError(p) PROVE HostInv'
    <2>1. plugged[p] \in Device \cup {Empty}
      BY DEF HostInv, HostTypes, PortTypes
    <2>2. QED
      BY <1>3, <2>1, PlugStep DEF PortError
  <1>4. ASSUME NEW i \in Inst, HubInterrupt(i) PROVE HostInv'
    BY <1>4, HubInterruptStep
  <1>5. CASE Receive
    BY <1>5, ReceiveStep
  <1>6. CASE usbh.port # NoPort /\ PortStep(usbh.port)
    <2>1. PICK p \in Port : p = usbh.port /\ PortStep(p)
      BY <1>6 DEF HostInv, HostTypes, ThreadTypes, Thread
    <2>2. QED
      BY <2>1, StatusStep, ClearStep, DebounceStep, AllocateStep, RequestFailsStep,
         RequestDoneStep DEF PortStep
  <1>7. CASE UNCHANGED usbhVars
    <2>1. /\ UNCHANGED <<ports, uinst, child, usbh, owner, astray>>
          /\ pipe_in' = pipe_in /\ usbh_mq' = usbh_mq /\ lost' = lost
      BY <1>7 DEF usbhVars, hosted
    <2>2. MqTypes' /\ InstTypes' /\ Told' = Told
      BY <2>1 DEF HostInv, HostTypes, MqTypes, InstTypes, Told
    <2>3. QED
      BY <2>1, <2>2, QueueStep
  <1>8. QED
    BY <1>1, <1>2, <1>3, <1>4, <1>5, <1>6, <1>7 DEF UsbHostNext

LEMMA HostInvAlways == UsbHostSpec => []HostInv
  BY HostInvInit, HostInvStep, PTL DEF UsbHostSpec

\* When the thread waits and has no message, every port is as the instances say, of those
\* whose changes were not lost and whose device was not lost track of.
THEOREM UsbHostPortsInOrder == UsbHostSpec => []PortsInOrder
  <1>1. HostInv => PortsInOrder
    <2> SUFFICES ASSUME HostInv, usbh.at = "recv", usbh_mq = <<>>, NEW p \in Port
                 PROVE  /\ changed[p] => lost
                        /\ Known(p) => Settled(p)
      BY DEF PortsInOrder, Known, Settled
    <2>1. ~Told
      <3>1. Len(usbh_mq) = 0
        OBVIOUS
      <3>2. QED
        BY <3>1 DEF Told
    <2>2. ~Ahead(p)
      BY DEF Ahead
    <2>3. p # usbh.port
      BY HostFacts DEF HostInv, HostTypes, ThreadTypes
    <2>4. QED
      BY <2>1, <2>2, <2>3 DEF HostInv, SeenInv, RestInv
  <1>2. QED
    BY <1>1, HostInvAlways, PTL

LEMMA HostInvTypes == HostInv => UsbHostTypeOK
  <1> SUFFICES ASSUME HostInv PROVE UsbHostTypeOK
    OBVIOUS
  <1>1. PortTypes /\ InstTypes /\ MqTypes /\ ThreadTypes /\ ChildInv
    BY DEF HostInv, HostTypes
  <1>2. usbh_mq \in SeqOf({ChangeMsg, FreedMsg} \cup Inst, MqSize)
    <2>1. /\ usbh_mq \in Seq(Msg) /\ Len(usbh_mq) \in Nat /\ Len(usbh_mq) <= MqSize
      BY <1>1 DEF MqTypes
    <2>2. usbh_mq \in [1 .. Len(usbh_mq) -> Msg] /\ Len(usbh_mq) \in 0 .. MqSize
      BY <2>1, HostFacts
    <2>3. QED
      BY <2>2 DEF SeqOf, Msg
  <1>3. QED
    BY <1>1, <1>2 DEF UsbHostTypeOK, PortTypes, InstTypes, MqTypes, ThreadTypes, ChildInv,
                      Instance

\* A port has one instance at most, and the messages are changes, releases or instances.
THEOREM UsbHostTypeCorrect == UsbHostSpec => []UsbHostTypeOK
  BY HostInvTypes, HostInvAlways, PTL
-----------------------------------------------------------------------------
\* The three side by side, as they are explored: a step of one leaves the others, so
\* that each keeps the types of its own specification.
THEOREM DriversTypeCorrect == PartsSpec => []TypesOK
  <1> DEFINE Invs == SdioInv /\ SpiInv /\ HostInv
  <1>1. PartsInit => Invs
    BY SdioInvInit, SpiInvInit, HostInvInit DEF PartsInit
  <1>2. [PartsNext]_partVars =>
            [SdioNext]_sdioVars /\ [SpiNext]_spiVars /\ [UsbHostNext]_usbhVars
    BY DEF PartsNext, Sdios, Spis, Hosts, partVars
  <1>3. Invs /\ [PartsNext]_partVars => Invs'
    BY <1>2, SdioInvNext, SpiInvNext, HostInvStep
  <1>4. Invs => TypesOK
    BY SdioInvTypes, SpiInvTypes, HostInvTypes DEF TypesOK
  <1>5. QED
    BY <1>1, <1>3, <1>4, PTL DEF PartsSpec
===============================================================================
