------------------------------- MODULE VcomProof ------------------------------
(***************************************************************************)
(* Proofs about Vcom, for any writers, buffer and packet size and length of *)
(* the queue: what was accepted is on its way or in the ring               *)
(* (CharsInOrder).  Plan: a transfer is armed, or the news of its end      *)
(* waits, or the thread is about to send, and never two of these           *)
(* (OneTransfer).                                                          *)
(***************************************************************************)
EXTENDS MCRingUser, RingBufProof

\* The virtual serial port: the types of its variables.
VcomEvent == [type : {"sof", "in", "setup", "reset", "plugout"}, size : Nat]
QueueOK   == usb_mq \in Seq(VcomEvent) /\ Len(usb_mq) <= MqMax
Filled(s) == s \in Seq(Int) /\ Len(s) <= CDC_TX_BUFSIZE
ThreadAt  == {"loop", "fetch", "send", "write", "coding", "suspended", "resumed"}
WriterAt  == {"idle", "wait", "full", "tired", "put"}
PortOK ==
    /\ Filled(tx_ringbuffer) /\ Filled(tx_buf) /\ due \in Seq(Int) /\ char \in Int
    /\ vcom_connected \in BOOLEAN /\ vcom_in_sending \in BOOLEAN
    /\ completed \in BOOLEAN /\ raced \in BOOLEAN
    /\ ep_in \in Idle .. CDC_TX_BUFSIZE /\ sof_size \in 0 .. CDC_TX_BUFSIZE
    /\ usb_pc \in ThreadAt /\ (usb_pc = "suspended" => ~completed)
    /\ putc_pc \in [Writer -> WriterAt]

\* The news that the host has taken a transfer, which waits for the thread.
SomeIn == \E i \in 1 .. Len(usb_mq) : usb_mq[i].type = "in"
OneIn  == \A i, j \in 1 .. Len(usb_mq) :
              usb_mq[i].type = "in" /\ usb_mq[j].type = "in" => i = j

\* A transfer is armed, or the news of it waits, or neither; the flag is set in both
\* cases.  A start of frame sends in three steps, between which nothing is under way; the
\* thread that goes on sending has set the flag before it arms the end point.
OneTransfer ==
    /\ OneIn /\ (SomeIn => vcom_in_sending /\ ep_in = Idle)
    /\ ep_in # Idle => vcom_in_sending
    /\ ep_in > 0 => Len(tx_buf) = ep_in
    /\ usb_pc \in {"fetch", "send"} => ~vcom_in_sending
    /\ usb_pc = "fetch" => sof_size \in 1 .. Len(tx_ringbuffer)
    /\ usb_pc = "send" => sof_size > 0 /\ Len(tx_buf) = sof_size
    /\ usb_pc = "write" => /\ vcom_in_sending /\ ep_in = Idle /\ ~SomeIn
                           /\ sof_size > 0 => Len(tx_buf) = sof_size

\* The inductive invariant.
VcomInv ==
    /\ QueueOK /\ PortOK
    /\ raced \/ (OneTransfer /\ due = Flight \o tx_ringbuffer)

LEMMA VcomFacts ==
    /\ CDC_TX_BUFSIZE \in Nat /\ CDC_TX_BUFSIZE > 0
    /\ CharModulus \in Nat /\ CharModulus > 0
    /\ MqMax \in Nat /\ MqMax > 0
  BY VcomAssumption, MqAssumption

\* Sequences of characters.
LEMMA CharSeqs ==
    ASSUME NEW s \in Seq(Int), NEW t \in Seq(Int)
    PROVE  /\ Len(s) \in Nat /\ <<>> \in Seq(Int) /\ Len(<<>>) = 0
           /\ s # <<>> <=> Len(s) > 0
           /\ s \o t \in Seq(Int) /\ Len(s \o t) = Len(s) + Len(t)
           /\ <<>> \o t = t
           /\ SubSeq(s \o t, Len(s) + 1, Len(s \o t)) = t
           /\ SubSeq(s, 1, Len(s)) = s
  <1>1. Len(s) \in Nat /\ Len(t) \in Nat /\ <<>> \in Seq(Int) /\ Len(<<>>) = 0
    OBVIOUS
  <1>2. s # <<>> <=> Len(s) > 0
    BY EmptySeq
  <1>3. /\ s \o t \in Seq(Int) /\ Len(s \o t) = Len(s) + Len(t)
        /\ \A i \in 1 .. Len(s) + Len(t) : (s \o t)[i] = IF i <= Len(s) THEN s[i] ELSE t[i - Len(s)]
    BY ConcatProperties
  <1>4. <<>> \o t = t
    BY ConcatEmptySeq
  <1>5. SubSeq(s \o t, Len(s) + 1, Len(s \o t)) = t
    <2> DEFINE m == Len(s) + 1
               n == Len(s \o t)
               u == SubSeq(s \o t, m, n)
    <2>1. m \in Int /\ n \in Int /\ n = Len(s) + Len(t)
      BY <1>1, <1>3
    <2>2. \A i \in m .. n : (s \o t)[i] \in Int
      <3>1. \A i \in m .. n : i \in 1 .. Len(s \o t)
        BY <1>1
      <3>2. QED
        BY <1>3, <3>1, ElementOfSeq
    <2>3. /\ u \in Seq(Int) /\ Len(u) = IF m <= n THEN n - m + 1 ELSE 0
          /\ \A i \in 1 .. n - m + 1 : u[i] = (s \o t)[m + i - 1]
      BY <2>1, <2>2, SubSeqProperties
    <2>4. Len(u) = Len(t)
      <3>1. Len(u) = IF m <= n THEN n - m + 1 ELSE 0
        BY <2>3
      <3>2. m = Len(s) + 1 /\ n = Len(s) + Len(t)
        BY <2>1
      <3> HIDE DEF u, m, n
      <3>3. QED
        BY <1>1, <3>1, <3>2
    <2>5. ASSUME NEW i \in 1 .. Len(t)
          PROVE  u[i] = t[i]
      <3>1. i \in 1 .. n - m + 1 /\ m + i - 1 = Len(s) + i
        BY <1>1, <2>1
      <3>2. Len(s) + i \in 1 .. Len(s) + Len(t) /\ ~(Len(s) + i <= Len(s)) /\ Len(s) + i - Len(s) = i
        BY <1>1
      <3>3. u[i] = (s \o t)[Len(s) + i]
        BY <2>3, <3>1
      <3>4. QED
        BY <1>3, <3>2, <3>3
    <2> HIDE DEF u
    <2>6. QED
      BY <2>3, <2>4, <2>5, SeqEqual DEF u
  <1>6. SubSeq(s, 1, Len(s)) = s
    BY SubSeqFull
  <1>7. QED
    BY <1>1, <1>2, <1>3, <1>4, <1>5, <1>6

\* A character is put behind a sequence of two parts.
LEMMA AppendBehind ==
    ASSUME NEW s \in Seq(Int), NEW t \in Seq(Int), NEW x \in Int
    PROVE  /\ Append(t, x) \in Seq(Int) /\ Len(Append(t, x)) = Len(t) + 1
           /\ Append(s \o t, x) = s \o Append(t, x)
  <1>1. Len(s) \in Nat /\ Len(t) \in Nat
    OBVIOUS
  <1>2. /\ s \o t \in Seq(Int) /\ Len(s \o t) = Len(s) + Len(t)
        /\ \A i \in 1 .. Len(s) + Len(t) : (s \o t)[i] = IF i <= Len(s) THEN s[i] ELSE t[i - Len(s)]
    BY ConcatProperties
  <1>3. /\ Append(t, x) \in Seq(Int) /\ Len(Append(t, x)) = Len(t) + 1
        /\ \A i \in 1 .. Len(t) : Append(t, x)[i] = t[i]
        /\ Append(t, x)[Len(t) + 1] = x
    BY AppendProperties
  <1> DEFINE l == Append(s \o t, x)
             r == s \o Append(t, x)
  <1>4. /\ l \in Seq(Int) /\ Len(l) = Len(s) + Len(t) + 1
        /\ \A i \in 1 .. Len(s) + Len(t) : l[i] = (s \o t)[i]
        /\ l[Len(s) + Len(t) + 1] = x
    BY <1>2, AppendProperties
  <1>5. /\ r \in Seq(Int) /\ Len(r) = Len(s) + Len(t) + 1
        /\ \A i \in 1 .. Len(s) + Len(t) + 1 : r[i] =
               IF i <= Len(s) THEN s[i] ELSE Append(t, x)[i - Len(s)]
    <2>1. /\ r \in Seq(Int) /\ Len(r) = Len(s) + Len(Append(t, x))
          /\ \A i \in 1 .. Len(s) + Len(Append(t, x)) : r[i] =
                 IF i <= Len(s) THEN s[i] ELSE Append(t, x)[i - Len(s)]
      BY <1>3, ConcatProperties
    <2>2. Len(s) + Len(Append(t, x)) = Len(s) + Len(t) + 1
      BY <1>1, <1>3
    <2>3. QED
      BY <2>1, <2>2
  <1> HIDE DEF l, r
  <1>6. ASSUME NEW i \in 1 .. Len(s) + Len(t) + 1
        PROVE  l[i] = r[i]
    <2>1. CASE i <= Len(s)
      <3>1. i \in 1 .. Len(s) + Len(t)
        BY <1>1, <2>1
      <3>2. QED
        BY <1>2, <1>4, <1>5, <2>1, <3>1
    <2>2. CASE i = Len(s) + Len(t) + 1
      <3>1. ~(i <= Len(s)) /\ i - Len(s) = Len(t) + 1
        BY <1>1, <2>2
      <3>2. QED
        BY <1>3, <1>4, <1>5, <2>2, <3>1
    <2>3. CASE ~(i <= Len(s)) /\ i # Len(s) + Len(t) + 1
      <3>1. Len(s) + Len(t) + 1 \in Nat
        BY <1>1
      <3> DEFINE n == Len(s) + Len(t) + 1
      <3>2. i \in Nat /\ i >= 1 /\ i <= n /\ i # n
        BY <2>3, <3>1
      <3>3. i \in Nat /\ i >= 1 /\ i > Len(s) /\ i <= Len(s) + Len(t)
        BY <1>1, <2>3, <3>2
      <3>4. i \in 1 .. Len(s) + Len(t) /\ i - Len(s) \in 1 .. Len(t)
        BY <1>1, <3>3
      <3>5. QED
        BY <1>2, <1>3, <1>4, <1>5, <2>3, <3>4
    <2>4. QED
      BY <2>1, <2>2, <2>3
  <1>7. l = r
    BY <1>4, <1>5, <1>6, SeqEqual
  <1>8. QED
    BY <1>3, <1>7 DEF l, r

\* rt_ringbuffer_get takes the first characters, if there are as many.
LEMMA FetchFacts ==
    ASSUME QueueOK, PortOK, NEW n \in 0 .. CDC_TX_BUFSIZE, Fetch(n)
    PROVE  /\ Filled(tx_buf') /\ Len(tx_buf') = n /\ Filled(tx_ringbuffer')
           /\ n <= Len(tx_ringbuffer) => tx_buf' \o tx_ringbuffer' = tx_ringbuffer
  <1> DEFINE q == tx_ringbuffer
             k == IF n < Len(q) THEN n ELSE Len(q)
  <1>1. /\ q \in Seq(Int) /\ Len(q) \in Nat /\ Len(q) <= CDC_TX_BUFSIZE /\ CDC_TX_BUFSIZE \in Nat
        /\ StaleByte \in Int
    BY VcomFacts DEF PortOK, Filled, StaleByte
  <1>2. k \in 0 .. Len(q) /\ n \in Nat
    BY <1>1
  <1>3. /\ tx_buf' = [i \in 1 .. n |-> IF i <= k THEN q[i] ELSE StaleByte]
        /\ tx_ringbuffer' = SubSeq(q, k + 1, Len(q))
    BY DEF Fetch
  <1>4. k = n \/ ~(n <= Len(q))
    BY <1>1
  <1> HIDE DEF k
  <1>5. tx_buf' \in Seq(Int) /\ Len(tx_buf') = n
    <2>1. \A i \in 1 .. n : (IF i <= k THEN q[i] ELSE StaleByte) \in Int
      <3>1. ASSUME NEW i \in 1 .. n, i <= k PROVE q[i] \in Int
        <4>1. i \in 1 .. Len(q)
          BY <1>1, <1>2, <3>1
        <4>2. QED
          BY <1>1, <4>1, ElementOfSeq
      <3>2. QED
        BY <1>1, <3>1
    <2>2. tx_buf' \in [1 .. n -> Int]
      BY <1>3, <2>1
    <2>3. QED
      BY <1>2, <2>2
  <1>6. /\ tx_ringbuffer' \in Seq(Int) /\ Len(tx_ringbuffer') = Len(q) - k
        /\ \A i \in 1 .. Len(q) - k : tx_ringbuffer'[i] = q[k + i]
    <2>1. \A i \in k + 1 .. Len(q) : q[i] \in Int
      <3>1. \A i \in k + 1 .. Len(q) : i \in 1 .. Len(q)
        BY <1>1, <1>2
      <3>2. QED
        BY <1>1, <3>1, ElementOfSeq
    <2>2. k + 1 \in Int /\ Len(q) \in Int
      BY <1>1, <1>2
    <2> DEFINE u == SubSeq(q, k + 1, Len(q))
    <2>3. /\ u \in Seq(Int) /\ Len(u) = IF k + 1 <= Len(q) THEN Len(q) - (k + 1) + 1 ELSE 0
          /\ \A i \in 1 .. Len(q) - (k + 1) + 1 : u[i] = q[k + 1 + i - 1]
      BY <2>1, <2>2, SubSeqProperties
    <2> HIDE DEF u
    <2>4. Len(u) = Len(q) - k
      BY <1>1, <1>2, <2>3
    <2>5. ASSUME NEW i \in 1 .. Len(q) - k
          PROVE  u[i] = q[k + i]
      <3>1. i \in 1 .. Len(q) - (k + 1) + 1 /\ k + 1 + i - 1 = k + i
        BY <1>1, <1>2
      <3>2. QED
        BY <2>3, <3>1
    <2>6. tx_ringbuffer' = u
      BY <1>3 DEF u
    <2>7. QED
      BY <2>3, <2>4, <2>5, <2>6
  <1>7. Len(tx_ringbuffer') <= CDC_TX_BUFSIZE
    BY <1>1, <1>2, <1>6
  <1>8. ASSUME n <= Len(q)
        PROVE  tx_buf' \o tx_ringbuffer' = q
    <2>1. k = n
      BY <1>4, <1>8
    <2> DEFINE u == tx_buf' \o tx_ringbuffer'
    <2>2. /\ u \in Seq(Int) /\ Len(u) = Len(tx_buf') + Len(tx_ringbuffer')
          /\ \A i \in 1 .. Len(tx_buf') + Len(tx_ringbuffer') : u[i] =
                 IF i <= Len(tx_buf') THEN tx_buf'[i] ELSE tx_ringbuffer'[i - Len(tx_buf')]
      BY <1>5, <1>6, ConcatProperties
    <2> HIDE DEF u
    <2>3. Len(u) = Len(q)
      BY <1>1, <1>2, <1>5, <1>6, <2>1, <2>2
    <2>4. ASSUME NEW i \in 1 .. Len(q)
          PROVE  u[i] = q[i]
      <3>1. u[i] = IF i <= n THEN tx_buf'[i] ELSE tx_ringbuffer'[i - n]
        BY <1>5, <2>2, <2>3
      <3>2. CASE i <= n
        <4>1. i \in 1 .. n
          BY <1>2, <3>2
        <4>2. QED
          BY <1>3, <2>1, <3>1, <3>2, <4>1
      <3>3. CASE ~(i <= n)
        <4>1. i - n \in 1 .. Len(q) - n /\ n + (i - n) = i
          BY <1>1, <1>2, <3>3
        <4>2. QED
          BY <1>6, <2>1, <3>1, <3>3, <4>1
      <3>4. QED
        BY <3>2, <3>3
    <2>5. u = q
      BY <1>1, <2>2, <2>3, <2>4, SeqEqual
    <2>6. QED
      BY <2>5 DEF u
  <1>9. QED
    BY <1>5, <1>6, <1>7, <1>8 DEF Filled

\* What is posted waits behind the rest, unless the queue is full.
LEMMA VcomPost ==
    ASSUME QueueOK, NEW e \in VcomEvent, rt_usbd_post_event(e)
    PROVE  /\ QueueOK'
           /\ e.type # "in" => (SomeIn' => SomeIn) /\ (OneIn => OneIn')
           /\ ~SomeIn => OneIn'
  <1>1. usb_mq \in Seq(VcomEvent) /\ Len(usb_mq) \in Nat /\ Len(usb_mq) <= MqMax /\ MqMax \in Nat
    BY VcomFacts DEF QueueOK
  <1>2. CASE Len(usb_mq) < MqMax
    <2>1. usb_mq' = Append(usb_mq, e)
      BY <1>2 DEF rt_usbd_post_event
    <2>2. /\ usb_mq' \in Seq(VcomEvent) /\ Len(usb_mq') = Len(usb_mq) + 1
          /\ \A i \in 1 .. Len(usb_mq) : usb_mq'[i] = usb_mq[i]
          /\ usb_mq'[Len(usb_mq) + 1] = e
      BY <1>1, <2>1, AppendProperties
    <2>3. QueueOK'
      BY <1>1, <1>2, <2>2 DEF QueueOK
    <2>4. ASSUME NEW i \in 1 .. Len(usb_mq'), usb_mq'[i].type = "in"
          PROVE  \/ i \in 1 .. Len(usb_mq) /\ usb_mq[i].type = "in"
                 \/ i = Len(usb_mq) + 1 /\ e.type = "in"
      <3>1. i \in 1 .. Len(usb_mq) \/ i = Len(usb_mq) + 1
        BY <1>1, <2>2
      <3>2. QED
        BY <2>2, <2>4, <3>1
    <2>5. QED
      BY <2>3, <2>4 DEF SomeIn, OneIn
  <1>3. CASE ~(Len(usb_mq) < MqMax)
    <2>1. usb_mq' = usb_mq
      BY <1>3 DEF rt_usbd_post_event
    <2>2. QED
      BY <1>1, <2>1 DEF QueueOK, SomeIn, OneIn
  <1>4. QED
    BY <1>2, <1>3

\* The event that the thread takes is the first, and there is one of a transfer at most.
LEMMA VcomReceived ==
    ASSUME QueueOK, NEW type, Received(type)
    PROVE  /\ QueueOK' /\ (SomeIn' => SomeIn) /\ (OneIn => OneIn')
           /\ Head(usb_mq).size \in Nat
           /\ OneIn /\ type = "in" => SomeIn /\ ~SomeIn'
  <1>1. /\ usb_mq \in Seq(VcomEvent) /\ usb_mq # <<>> /\ usb_mq' = Tail(usb_mq)
        /\ Len(usb_mq) <= MqMax /\ MqMax \in Nat /\ Head(usb_mq).type = type
    BY VcomFacts DEF QueueOK, Received
  <1>2. Len(usb_mq) \in Nat /\ Len(usb_mq) > 0
    BY <1>1, EmptySeq
  <1>3. Head(usb_mq) = usb_mq[1] /\ 1 \in 1 .. Len(usb_mq) /\ usb_mq[1] \in VcomEvent
    BY <1>1, <1>2, HeadTailProperties, ElementOfSeq
  <1>4. /\ usb_mq' \in Seq(VcomEvent) /\ Len(usb_mq') = Len(usb_mq) - 1
        /\ \A i \in 1 .. Len(usb_mq) - 1 : usb_mq'[i] = usb_mq[i + 1]
    BY <1>1, <1>2, HeadTailProperties
  <1>5. ASSUME NEW i \in 1 .. Len(usb_mq')
        PROVE  i + 1 \in 1 .. Len(usb_mq) /\ i + 1 # 1 /\ usb_mq'[i] = usb_mq[i + 1]
    BY <1>2, <1>4
  <1>6. QueueOK'
    BY <1>1, <1>2, <1>4 DEF QueueOK
  <1>7. SomeIn' => SomeIn
    BY <1>5 DEF SomeIn
  <1>8. OneIn => OneIn'
    <2>1. SUFFICES ASSUME OneIn, NEW i \in 1 .. Len(usb_mq'), NEW j \in 1 .. Len(usb_mq'),
                          usb_mq'[i].type = "in", usb_mq'[j].type = "in"
                   PROVE  i = j
      BY DEF OneIn
    <2>2. i + 1 = j + 1
      BY <1>5, <2>1 DEF OneIn
    <2>3. i \in Int /\ j \in Int
      OBVIOUS
    <2>4. QED
      BY <2>2, <2>3
  <1>9. ASSUME OneIn, type = "in"
        PROVE  SomeIn /\ ~SomeIn'
    <2>1. usb_mq[1].type = "in"
      BY <1>1, <1>3, <1>9
    <2>2. SomeIn
      BY <1>3, <2>1 DEF SomeIn
    <2>3. ASSUME NEW i \in 1 .. Len(usb_mq'), usb_mq'[i].type = "in"
          PROVE  FALSE
      BY <1>3, <1>5, <1>9, <2>1, <2>3 DEF OneIn
    <2>4. QED
      BY <2>2, <2>3 DEF SomeIn
  <1>10. Head(usb_mq).size \in Nat
    BY <1>3 DEF VcomEvent
  <1>11. QED
    BY <1>6, <1>7, <1>8, <1>9, <1>10

LEMMA VcomInvInit == VcomInit => VcomInv
  <1> SUFFICES ASSUME VcomInit PROVE VcomInv
    OBVIOUS
  <1>1. /\ usb_mq = <<>> /\ tx_ringbuffer = <<>> /\ tx_buf = <<>> /\ due = <<>>
        /\ vcom_connected = FALSE /\ vcom_in_sending = FALSE /\ ep_in = Idle
        /\ usb_pc = "loop" /\ sof_size = 0 /\ completed = FALSE /\ char = 0 /\ raced = FALSE
        /\ putc_pc = [w \in Writer |-> "idle"]
    BY DEF VcomInit, rt_usbd_core_init
  <1>2. <<>> \in Seq(Int) /\ Len(<<>>) = 0 /\ <<>> \in Seq(VcomEvent)
    OBVIOUS
  <1>3. QueueOK /\ PortOK
    <2>1. QueueOK
      BY <1>1, <1>2, VcomFacts DEF QueueOK
    <2>2. Filled(<<>>)
      BY <1>2, VcomFacts DEF Filled
    <2>3. ep_in \in Idle .. CDC_TX_BUFSIZE /\ sof_size \in 0 .. CDC_TX_BUFSIZE /\ char \in Int
      BY <1>1, VcomFacts DEF Idle
    <2>4. putc_pc \in [Writer -> WriterAt]
      BY <1>1 DEF WriterAt
    <2>5. QED
      BY <1>1, <1>2, <2>1, <2>2, <2>3, <2>4 DEF PortOK, ThreadAt, WriterAt
  <1>4. OneTransfer
    BY <1>1, <1>2 DEF OneTransfer, OneIn, SomeIn, Idle
  <1>5. Flight \o tx_ringbuffer = <<>>
    BY <1>1, <1>2, CharSeqs DEF Flight, Idle
  <1>6. QED
    BY <1>1, <1>3, <1>4, <1>5 DEF VcomInv

\* Steps that change neither what is sent nor how far it is.
LEMMA SendingStays ==
    ASSUME VcomInv, QueueOK', PortOK', SomeIn' => SomeIn, OneIn => OneIn',
           UNCHANGED <<due, tx_ringbuffer, tx_buf, vcom_in_sending, ep_in, raced>>,
           \/ usb_pc' = usb_pc /\ sof_size' = sof_size
           \/ usb_pc \notin {"fetch", "send", "write"} /\ usb_pc' \notin {"fetch", "send", "write"}
    PROVE  VcomInv'
  <1>1. /\ due' = due /\ tx_ringbuffer' = tx_ringbuffer /\ tx_buf' = tx_buf
        /\ vcom_in_sending' = vcom_in_sending /\ ep_in' = ep_in /\ raced' = raced
    OBVIOUS
  <1>2. Flight' = Flight
    BY <1>1 DEF Flight
  <1>3. OneTransfer => OneTransfer'
    BY <1>1 DEF OneTransfer
  <1>4. QED
    BY <1>1, <1>2, <1>3 DEF VcomInv

\* After a reset nothing is sent and nothing is under way, or it has met a transfer.
LEMMA ResetFacts ==
    ASSUME VcomInv, QueueOK', PortOK', _vcom_reset_state, usb_pc' = usb_pc,
           raced' \/ ~UnderWay, SomeIn' => SomeIn, OneIn => OneIn', ep_in' \in {ep_in, Idle}
    PROVE  VcomInv'
  <1>1. tx_ringbuffer' = <<>> /\ due' = <<>> /\ vcom_in_sending' = FALSE
    BY DEF _vcom_reset_state
  <1>2. CASE ~UnderWay
    <2>1. ep_in = Idle /\ usb_pc \notin {"fetch", "send", "write"} /\ ~SomeIn
      BY <1>2 DEF UnderWay, SomeIn
    <2>2. ep_in' = Idle /\ usb_pc' \notin {"fetch", "send", "write"} /\ ~SomeIn'
      BY <2>1
    <2>3. ~(ep_in' > 0)
      BY <2>2 DEF Idle
    <2>4. OneIn'
      BY <2>2 DEF SomeIn, OneIn
    <2>5. OneTransfer'
      BY <2>2, <2>3, <2>4 DEF OneTransfer
    <2>6. Flight' = <<>> /\ <<>> \o tx_ringbuffer' = <<>>
      BY <1>1, <2>2, <2>3, CharSeqs DEF Flight
    <2>7. QED
      BY <1>1, <2>5, <2>6 DEF VcomInv
  <1>3. QED
    BY <1>2 DEF VcomInv

\* A start of frame: the thread decides, fetches and sends.
LEMMA SofStep ==
    ASSUME VcomInv, HandleSof \/ SofFetch \/ SofSend, putc_pc' = putc_pc
    PROVE  VcomInv'
  <1>1. QueueOK /\ PortOK /\ Len(tx_ringbuffer) \in Nat /\ tx_ringbuffer \in Seq(Int)
    BY DEF VcomInv, PortOK, Filled
  <1>2. CASE HandleSof
    <2>1. /\ usb_pc = "loop" /\ Received("sof") /\ tx_ringbuffer' = tx_ringbuffer
          /\ tx_buf' = tx_buf /\ vcom_connected' = vcom_connected
          /\ vcom_in_sending' = vcom_in_sending /\ ep_in' = ep_in /\ completed' = completed
          /\ char' = char /\ due' = due /\ raced' = raced
      BY <1>2 DEF HandleSof, vcom, hist
    <2>2. QueueOK' /\ (SomeIn' => SomeIn) /\ (OneIn => OneIn')
      BY <1>1, <2>1, VcomReceived
    <2>3. CASE MaySend
      <3>1. usb_pc' = "fetch" /\ sof_size' = Len(tx_ringbuffer)
        BY <1>2, <2>3 DEF HandleSof
      <3>2. Len(tx_ringbuffer) \in 1 .. Len(tx_ringbuffer) /\ ~vcom_in_sending
        BY <1>1, <2>3, CharSeqs DEF MaySend
      <3>3. Len(tx_ringbuffer) \in 0 .. CDC_TX_BUFSIZE
        BY <1>1 DEF PortOK, Filled
      <3>4. PortOK'
        BY <1>1, <2>1, <3>1, <3>3 DEF PortOK, ThreadAt, Filled
      <3>5. OneTransfer => OneTransfer'
        BY <2>1, <2>2, <3>1, <3>2 DEF OneTransfer
      <3>6. Flight' = Flight
        BY <2>1, <3>1 DEF Flight
      <3>7. QED
        BY <2>1, <2>2, <3>4, <3>5, <3>6 DEF VcomInv
    <2>4. CASE ~MaySend
      <3>1. usb_pc' = usb_pc /\ sof_size' = sof_size
        BY <1>2, <2>4 DEF HandleSof
      <3>2. PortOK'
        BY <1>1, <2>1, <3>1 DEF PortOK, Filled
      <3>3. QED
        BY <2>1, <2>2, <3>1, <3>2, SendingStays
    <2>5. QED
      BY <2>3, <2>4
  <1>3. CASE SofFetch
    <2>1. /\ usb_pc = "fetch" /\ Fetch(sof_size) /\ usb_pc' = "send" /\ usb_mq' = usb_mq
          /\ vcom_connected' = vcom_connected /\ vcom_in_sending' = vcom_in_sending
          /\ ep_in' = ep_in /\ sof_size' = sof_size /\ completed' = completed
          /\ char' = char /\ due' = due /\ raced' = raced
      BY <1>3 DEF SofFetch, core, hist
    <2>2. sof_size \in 0 .. CDC_TX_BUFSIZE /\ sof_size \in Nat
      BY <1>1, VcomFacts DEF PortOK
    <2>3. /\ Filled(tx_buf') /\ Len(tx_buf') = sof_size /\ Filled(tx_ringbuffer')
          /\ sof_size <= Len(tx_ringbuffer) => tx_buf' \o tx_ringbuffer' = tx_ringbuffer
      BY <1>1, <2>1, <2>2, FetchFacts
    <2>4. QueueOK' /\ PortOK' /\ SomeIn' = SomeIn /\ OneIn' = OneIn
      BY <1>1, <2>1, <2>3 DEF QueueOK, PortOK, ThreadAt, SomeIn, OneIn, Filled
    <2>5. ASSUME OneTransfer, due = Flight \o tx_ringbuffer
          PROVE  OneTransfer' /\ due' = Flight' \o tx_ringbuffer'
      <3>1. sof_size > 0 /\ sof_size <= Len(tx_ringbuffer) /\ ~vcom_in_sending /\ ep_in = Idle
        BY <1>1, <2>1, <2>2, <2>5 DEF OneTransfer
      <3>2. ~(ep_in > 0)
        BY <3>1 DEF Idle
      <3>3. Flight = <<>> /\ Flight' = tx_buf'
        BY <2>1, <3>1, <3>2 DEF Flight
      <3>4. due = tx_ringbuffer
        BY <1>1, <2>5, <3>3, CharSeqs
      <3>5. OneTransfer'
        BY <2>1, <2>3, <2>4, <2>5, <3>1, <3>2 DEF OneTransfer
      <3>6. QED
        BY <2>1, <2>3, <3>1, <3>3, <3>4, <3>5
    <2>6. QED
      BY <2>1, <2>4, <2>5 DEF VcomInv
  <1>4. CASE SofSend
    <2>1. /\ usb_pc = "send" /\ vcom_in_sending' = TRUE /\ ep_in' = sof_size
          /\ usb_pc' = "loop" /\ sof_size' = 0 /\ usb_mq' = usb_mq
          /\ tx_ringbuffer' = tx_ringbuffer /\ tx_buf' = tx_buf
          /\ vcom_connected' = vcom_connected /\ completed' = completed
          /\ char' = char /\ due' = due /\ raced' = raced
      BY <1>4 DEF SofSend, core, hist
    <2>2. sof_size \in Idle .. CDC_TX_BUFSIZE /\ 0 \in 0 .. CDC_TX_BUFSIZE
      BY <1>1, VcomFacts DEF PortOK, Idle
    <2>3. QueueOK' /\ PortOK' /\ SomeIn' = SomeIn /\ OneIn' = OneIn
      BY <1>1, <2>1, <2>2 DEF QueueOK, PortOK, ThreadAt, SomeIn, OneIn, Filled
    <2>4. ASSUME OneTransfer
          PROVE  OneTransfer' /\ Flight' = Flight
      <3>1. sof_size > 0 /\ Len(tx_buf) = sof_size /\ ~SomeIn
        BY <2>1, <2>4 DEF OneTransfer
      <3>2. OneTransfer'
        BY <2>1, <2>3, <2>4, <3>1 DEF OneTransfer
      <3>3. QED
        BY <2>1, <3>1, <3>2 DEF Flight
    <2>5. QED
      BY <2>1, <2>3, <2>4 DEF VcomInv
  <1>5. QED
    BY <1>2, <1>3, <1>4

\* The host has taken a transfer: the next one is fetched, or there is none.
LEMMA InStep ==
    ASSUME VcomInv, HandleIn, putc_pc' = putc_pc
    PROVE  VcomInv'
  <1>1. QueueOK /\ PortOK /\ Len(tx_ringbuffer) \in Nat /\ tx_ringbuffer \in Seq(Int)
    BY DEF VcomInv, PortOK, Filled
  <1>2. usb_pc = "loop" /\ Received("in") /\ completed' = completed
    BY DEF HandleIn
  <1>3. /\ QueueOK' /\ (SomeIn' => SomeIn) /\ (OneIn => OneIn')
        /\ OneIn => SomeIn /\ ~SomeIn'
    BY <1>1, <1>2, VcomReceived
  <1>4. CASE state # "configured"
    <2>1. /\ tx_ringbuffer' = tx_ringbuffer /\ tx_buf' = tx_buf /\ vcom_connected' = vcom_connected
          /\ vcom_in_sending' = vcom_in_sending /\ ep_in' = ep_in /\ char' = char /\ due' = due
          /\ usb_pc' = usb_pc /\ sof_size' = sof_size /\ raced' = raced
      BY <1>4 DEF HandleIn, vcom, hist
    <2>2. PortOK'
      BY <1>1, <1>2, <2>1 DEF PortOK, Filled
    <2>3. QED
      BY <1>2, <1>3, <2>1, <2>2, SendingStays
  <1>5. CASE state = "configured"
    <2> DEFINE n == Len(tx_ringbuffer)
    <2>1. /\ vcom_connected' = vcom_connected /\ ep_in' = ep_in
          /\ char' = char /\ due' = due /\ raced' = raced
          /\ \/ /\ tx_ringbuffer # <<>> /\ Fetch(n) /\ vcom_in_sending' = TRUE
                /\ usb_pc' = "write" /\ sof_size' = n
             \/ /\ tx_ringbuffer' = tx_ringbuffer /\ tx_buf' = tx_buf /\ vcom_in_sending' = TRUE
                /\ usb_pc' = "write" /\ sof_size' = 0
             \/ /\ tx_ringbuffer' = tx_ringbuffer /\ tx_buf' = tx_buf /\ vcom_in_sending' = FALSE
                /\ usb_pc' = usb_pc /\ sof_size' = sof_size
      BY <1>5 DEF HandleIn, _ep_in_handler, hist
    <2>2. n \in 0 .. CDC_TX_BUFSIZE /\ 0 \in 0 .. CDC_TX_BUFSIZE
      BY <1>1, VcomFacts DEF PortOK, Filled
    <2>3. ASSUME OneTransfer, due = Flight \o tx_ringbuffer
          PROVE  /\ due = tx_ringbuffer /\ ep_in = Idle /\ ~(ep_in > 0)
                 /\ OneIn' /\ ~SomeIn'
      <3>1. OneIn' /\ ~SomeIn' /\ ep_in = Idle
        BY <1>3, <2>3 DEF OneTransfer
      <3>2. ~(ep_in > 0)
        BY <3>1 DEF Idle
      <3>3. Flight = <<>>
        BY <1>2, <3>2 DEF Flight
      <3>4. QED
        BY <1>1, <2>3, <3>1, <3>2, <3>3, CharSeqs
    <2>4. CASE /\ tx_ringbuffer # <<>> /\ Fetch(n) /\ vcom_in_sending' = TRUE
               /\ usb_pc' = "write" /\ sof_size' = n
      <3>1. /\ Filled(tx_buf') /\ Len(tx_buf') = n /\ Filled(tx_ringbuffer')
            /\ tx_buf' \o tx_ringbuffer' = tx_ringbuffer
        BY <1>1, <2>2, <2>4, FetchFacts
      <3>2. n > 0
        BY <1>1, <2>4, CharSeqs
      <3>3. PortOK'
        BY <1>1, <1>2, <2>1, <2>2, <2>4, <3>1 DEF PortOK, ThreadAt
      <3>4. ASSUME OneTransfer, due = Flight \o tx_ringbuffer
            PROVE  OneTransfer' /\ due' = Flight' \o tx_ringbuffer'
        <4>1. OneTransfer'
          BY <2>1, <2>3, <2>4, <3>1, <3>4 DEF OneTransfer
        <4>2. Flight' = tx_buf'
          BY <2>4, <3>2 DEF Flight
        <4>3. QED
          BY <2>1, <2>3, <3>1, <3>4, <4>1, <4>2
      <3>5. QED
        BY <1>3, <2>1, <3>3, <3>4 DEF VcomInv
    <2>5. CASE /\ tx_ringbuffer' = tx_ringbuffer /\ tx_buf' = tx_buf
               /\ \/ vcom_in_sending' = TRUE /\ usb_pc' = "write" /\ sof_size' = 0
                  \/ vcom_in_sending' = FALSE /\ usb_pc' = usb_pc /\ sof_size' = sof_size
      <3>1. PortOK'
        BY <1>1, <1>2, <2>1, <2>2, <2>5 DEF PortOK, ThreadAt, Filled
      <3>2. ASSUME OneTransfer, due = Flight \o tx_ringbuffer
            PROVE  OneTransfer' /\ due' = Flight' \o tx_ringbuffer'
        <4>1. ep_in' = Idle /\ ~(ep_in' > 0)
          BY <2>1, <2>3, <3>2
        <4>2. OneTransfer'
          BY <1>2, <2>3, <2>5, <3>2, <4>1 DEF OneTransfer
        <4>3. Flight' = <<>>
          BY <1>2, <2>5, <4>1 DEF Flight
        <4>4. QED
          BY <1>1, <2>1, <2>3, <2>5, <3>2, <4>2, <4>3, CharSeqs
      <3>3. QED
        BY <1>3, <2>1, <3>1, <3>2 DEF VcomInv
    <2>6. QED
      BY <2>1, <2>4, <2>5
  <1>6. QED
    BY <1>4, <1>5

\* What was fetched there is armed.
LEMMA InWriteStep ==
    ASSUME VcomInv, EpInWrite, putc_pc' = putc_pc
    PROVE  VcomInv'
  <1>1. QueueOK /\ PortOK
    BY DEF VcomInv
  <1>2. /\ usb_pc = "write" /\ ep_in' = sof_size /\ usb_pc' = "loop" /\ sof_size' = 0
        /\ usb_mq' = usb_mq /\ tx_ringbuffer' = tx_ringbuffer /\ tx_buf' = tx_buf
        /\ vcom_connected' = vcom_connected /\ vcom_in_sending' = vcom_in_sending
        /\ completed' = completed /\ char' = char /\ due' = due /\ raced' = raced
    BY DEF EpInWrite, core, hist
  <1>3. sof_size \in Idle .. CDC_TX_BUFSIZE /\ 0 \in 0 .. CDC_TX_BUFSIZE
    BY <1>1, VcomFacts DEF PortOK, Idle
  <1>4. QueueOK' /\ PortOK' /\ SomeIn' = SomeIn /\ OneIn' = OneIn
    BY <1>1, <1>2, <1>3 DEF QueueOK, PortOK, ThreadAt, SomeIn, OneIn, Filled
  <1>5. ASSUME OneTransfer
        PROVE  OneTransfer' /\ Flight' = Flight
    <2>1. /\ vcom_in_sending /\ ep_in = Idle /\ ~SomeIn /\ ~(ep_in > 0)
          /\ sof_size > 0 => Len(tx_buf) = sof_size
      BY <1>2, <1>5 DEF OneTransfer, Idle
    <2>2. OneTransfer'
      BY <1>2, <1>4, <1>5, <2>1 DEF OneTransfer
    <2>3. QED
      BY <1>2, <2>1, <2>2 DEF Flight
  <1>6. QED
    BY <1>2, <1>4, <1>5 DEF VcomInv

\* Requests; the thread waits for the data of a line coding.
LEMMA RequestStep ==
    ASSUME VcomInv, HandleSetup \/ CodingWait \/ CodingTimeout \/ CodingDone,
           putc_pc' = putc_pc
    PROVE  VcomInv'
  <1>1. QueueOK /\ PortOK
    BY DEF VcomInv
  <1>2. CASE HandleSetup
    <2>1. /\ usb_pc = "loop" /\ Received("setup") /\ sof_size' = sof_size
          /\ QueueOK' /\ (SomeIn' => SomeIn) /\ (OneIn => OneIn')
      BY <1>1, <1>2, VcomReceived DEF HandleSetup
    <2>2. CASE UNCHANGED <<vcom, hist>> /\
               (\/ usb_pc' = usb_pc /\ completed' = completed
                \/ usb_pc' = "coding" /\ completed' = FALSE)
      <3>1. /\ tx_ringbuffer' = tx_ringbuffer /\ tx_buf' = tx_buf
            /\ vcom_connected' = vcom_connected /\ vcom_in_sending' = vcom_in_sending
            /\ ep_in' = ep_in /\ char' = char /\ due' = due /\ raced' = raced
            /\ usb_pc' \notin {"fetch", "send", "write"} /\ usb_pc \notin {"fetch", "send", "write"}
        BY <2>1, <2>2 DEF vcom, hist
      <3>2. PortOK'
        BY <1>1, <2>1, <2>2, <3>1 DEF PortOK, ThreadAt, Filled
      <3>3. QED
        BY <2>1, <3>1, <3>2, SendingStays
    <2>3. CASE ThreadReset /\ ep_in' = Idle /\ Leave /\ UNCHANGED <<usb_pc, completed>>
      <3>1. /\ tx_ringbuffer' = <<>> /\ vcom_connected' = FALSE /\ vcom_in_sending' = FALSE
            /\ due' = <<>> /\ char' = 0 /\ raced' = UnderWay /\ raced' \in BOOLEAN
            /\ tx_buf' \in {tx_buf, <<>>} /\ _vcom_reset_state
            /\ usb_pc' = usb_pc /\ completed' = completed /\ ep_in' = Idle
        BY <2>3 DEF ThreadReset, _vcom_reset_state, Leave, UnderWay
      <3>2. Filled(<<>>) /\ <<>> \in Seq(Int) /\ Idle \in Idle .. CDC_TX_BUFSIZE
        BY VcomFacts DEF Filled, Idle
      <3>3. Filled(tx_ringbuffer') /\ Filled(tx_buf') /\ due' \in Seq(Int) /\ char' \in Int
        BY <1>1, <3>1, <3>2 DEF PortOK
      <3>4. PortOK'
        BY <1>1, <2>1, <3>1, <3>2, <3>3 DEF PortOK
      <3>5. QED
        BY <2>1, <3>1, <3>4, ResetFacts
    <2>4. QED
      BY <1>2, <2>2, <2>3 DEF HandleSetup, _class_run
  <1>3. CASE CodingWait \/ CodingTimeout \/ CodingDone
    <2>1. /\ usb_mq' = usb_mq /\ tx_ringbuffer' = tx_ringbuffer /\ tx_buf' = tx_buf
          /\ vcom_in_sending' = vcom_in_sending /\ ep_in' = ep_in /\ sof_size' = sof_size
          /\ char' = char /\ due' = due /\ raced' = raced /\ vcom_connected' \in BOOLEAN
          /\ usb_pc \notin {"fetch", "send", "write"} /\ usb_pc' \in {"suspended", "resumed", "loop"}
          /\ completed' \in BOOLEAN /\ (usb_pc' = "suspended" => ~completed')
      <3>1. completed \in BOOLEAN /\ vcom_connected \in BOOLEAN
        BY <1>1 DEF PortOK
      <3>2. CASE CodingWait
        BY <3>1, <3>2 DEF CodingWait, Suspend, core, vcom, hist
      <3>3. CASE CodingTimeout
        BY <3>1, <3>3 DEF CodingTimeout, core, vcom, hist
      <3>4. CASE CodingDone
        BY <3>1, <3>4 DEF CodingDone, WaitCompleted, core, hist
      <3>5. QED
        BY <1>3, <3>2, <3>3, <3>4
    <2>2. QueueOK' /\ SomeIn' = SomeIn /\ OneIn' = OneIn
      BY <1>1, <2>1 DEF QueueOK, SomeIn, OneIn
    <2>3. PortOK'
      BY <1>1, <2>1 DEF PortOK, ThreadAt, Filled
    <2>4. QED
      BY <2>1, <2>2, <2>3, SendingStays
  <1>4. QED
    BY <1>2, <1>3

\* The host resets the bus, or the cable is pulled out: the thread comes to it.
LEMMA LeftStep ==
    ASSUME VcomInv, HandleReset \/ HandlePlugOut, putc_pc' = putc_pc
    PROVE  VcomInv'
  <1>1. QueueOK /\ PortOK
    BY DEF VcomInv
  <1>2. PICK type \in {"reset", "plugout"} : Received(type)
    BY DEF HandleReset, HandlePlugOut
  <1>3. /\ QueueOK' /\ (SomeIn' => SomeIn) /\ (OneIn => OneIn')
        /\ usb_pc = "loop" /\ usb_pc' = usb_pc /\ tx_buf' = tx_buf /\ ep_in' = ep_in
        /\ sof_size' = sof_size /\ completed' = completed
    BY <1>1, <1>2, VcomReceived DEF HandleReset, HandlePlugOut
  <1>4. CASE ThreadReset
    <2>1. /\ tx_ringbuffer' = <<>> /\ vcom_connected' = FALSE /\ vcom_in_sending' = FALSE
          /\ due' = <<>> /\ char' = 0 /\ raced' = UnderWay /\ raced' \in BOOLEAN
          /\ _vcom_reset_state
      BY <1>4 DEF ThreadReset, _vcom_reset_state, UnderWay
    <2>2. Filled(<<>>) /\ <<>> \in Seq(Int)
      BY VcomFacts DEF Filled
    <2>3. Filled(tx_ringbuffer') /\ Filled(tx_buf') /\ due' \in Seq(Int) /\ char' \in Int
      BY <1>1, <1>3, <2>1, <2>2 DEF PortOK
    <2>4. PortOK'
      BY <1>1, <1>3, <2>1, <2>3 DEF PortOK
    <2>5. QED
      BY <1>3, <2>1, <2>4, ResetFacts
  <1>5. CASE UNCHANGED <<tx_ringbuffer, vcom_connected, vcom_in_sending, hist>>
    <2>1. /\ tx_ringbuffer' = tx_ringbuffer /\ vcom_connected' = vcom_connected
          /\ vcom_in_sending' = vcom_in_sending /\ char' = char /\ due' = due /\ raced' = raced
      BY <1>5 DEF hist
    <2>2. PortOK'
      BY <1>1, <1>3, <2>1 DEF PortOK, Filled
    <2>3. QED
      BY <1>3, <2>1, <2>2, SendingStays
  <1>6. QED
    BY <1>4, <1>5 DEF HandleReset, HandlePlugOut, _class_stop

\* A writer.
LEMMA PutcStep ==
    ASSUME VcomInv, NEW w \in Writer, _vcom_putc(w)
    PROVE  VcomInv'
  <1>1. /\ QueueOK /\ PortOK /\ tx_ringbuffer \in Seq(Int) /\ Len(tx_ringbuffer) \in Nat
        /\ Len(tx_ringbuffer) <= CDC_TX_BUFSIZE
    BY DEF VcomInv, PortOK, Filled
  <1>2. /\ usb_mq' = usb_mq /\ usb_pc' = usb_pc /\ sof_size' = sof_size /\ completed' = completed
    BY DEF _vcom_putc, core
  <1>3. QueueOK' /\ SomeIn' = SomeIn /\ OneIn' = OneIn
    BY <1>1, <1>2 DEF QueueOK, SomeIn, OneIn
  <1>4. putc_pc' \in [Writer -> WriterAt]
    <2>1. PICK next \in WriterAt : putc_pc' = [putc_pc EXCEPT ![w] = next]
      BY DEF _vcom_putc, PutcStart, PutcRoom, PutcFull, PutcUnplugged, PutcWaits,
             PutcGivesUp, PutcPut, PutcReturns, WriterAt
    <2>2. QED
      BY <1>1, <2>1 DEF PortOK
  <1>5. CASE UNCHANGED <<vcom, hist>>
    <2>1. /\ tx_ringbuffer' = tx_ringbuffer /\ tx_buf' = tx_buf
          /\ vcom_connected' = vcom_connected /\ vcom_in_sending' = vcom_in_sending
          /\ ep_in' = ep_in /\ char' = char /\ due' = due /\ raced' = raced
      BY <1>5 DEF vcom, hist
    <2>2. PortOK'
      BY <1>1, <1>2, <1>4, <2>1 DEF PortOK, Filled
    <2>3. QED
      BY <1>2, <1>3, <2>1, <2>2, SendingStays
  <1>6. CASE PutcGivesUp(w)
    <2>1. /\ tx_ringbuffer' = <<>> /\ vcom_connected' = FALSE /\ vcom_in_sending' = FALSE
          /\ due' = <<>> /\ char' = 0 /\ raced' = (raced \/ UnderWay) /\ raced' \in BOOLEAN
          /\ _vcom_reset_state /\ tx_buf' = tx_buf /\ ep_in' = ep_in
      BY <1>6 DEF PutcGivesUp, _vcom_reset_state
    <2>2. Filled(<<>>) /\ <<>> \in Seq(Int)
      BY VcomFacts DEF Filled
    <2>3. Filled(tx_ringbuffer') /\ Filled(tx_buf') /\ due' \in Seq(Int) /\ char' \in Int
      BY <1>1, <2>1, <2>2 DEF PortOK
    <2>4. PortOK'
      BY <1>1, <1>2, <1>4, <2>1, <2>3 DEF PortOK
    <2>5. QED
      BY <1>2, <1>3, <2>1, <2>4, ResetFacts
  <1>7. CASE PutcPut(w)
    <2>1. /\ tx_buf' = tx_buf /\ vcom_connected' = vcom_connected
          /\ vcom_in_sending' = vcom_in_sending /\ ep_in' = ep_in /\ raced' = raced
      BY <1>7 DEF PutcPut
    <2>2. CASE Len(tx_ringbuffer) < CDC_TX_BUFSIZE
      <3>1. /\ tx_ringbuffer' = Append(tx_ringbuffer, char)
            /\ due' = IF raced THEN due ELSE Append(due, char)
            /\ char' = IF raced THEN 0 ELSE (char + 1) % CharModulus
        BY <1>7, <2>2 DEF PutcPut
      <3>2. char \in Int /\ due \in Seq(Int) /\ tx_buf \in Seq(Int)
        BY <1>1 DEF PortOK, Filled
      <3>3. char' \in Int
        <4>1. \A x \in Int, m \in Nat : m > 0 => x % m \in Int
          OBVIOUS
        <4>2. char + 1 \in Int
          BY <3>2
        <4>3. QED
          BY <3>1, <4>1, <4>2, VcomFacts
      <3>4. /\ Filled(tx_ringbuffer') /\ Len(tx_ringbuffer') = Len(tx_ringbuffer) + 1
            /\ due' \in Seq(Int)
        <4>1. /\ Append(tx_ringbuffer, char) \in Seq(Int) /\ Append(due, char) \in Seq(Int)
              /\ Len(Append(tx_ringbuffer, char)) = Len(tx_ringbuffer) + 1
          BY <1>1, <3>2, AppendBehind
        <4>2. Len(tx_ringbuffer) + 1 <= CDC_TX_BUFSIZE
          BY <1>1, <2>2, VcomFacts
        <4>3. QED
          BY <3>1, <3>2, <4>1, <4>2 DEF Filled
      <3>5. PortOK'
        BY <1>1, <1>2, <1>4, <2>1, <3>3, <3>4 DEF PortOK, Filled
      <3>6. ASSUME OneTransfer
            PROVE  OneTransfer'
        <4>1. sof_size \in 1 .. Len(tx_ringbuffer) => sof_size \in 1 .. Len(tx_ringbuffer')
          BY <1>1, <3>4
        <4>2. QED
          BY <1>2, <1>3, <2>1, <3>6, <4>1 DEF OneTransfer
      <3>7. ASSUME ~raced, due = Flight \o tx_ringbuffer
            PROVE  due' = Flight' \o tx_ringbuffer'
        <4>1. Flight' = Flight /\ Flight \in Seq(Int)
          <5>1. Flight' = Flight /\ Flight \in {tx_buf, <<>>}
            BY <1>2, <2>1 DEF Flight
          <5>2. <<>> \in Seq(Int)
            OBVIOUS
          <5>3. QED
            BY <3>2, <5>1, <5>2
        <4>2. Append(Flight \o tx_ringbuffer, char) = Flight \o Append(tx_ringbuffer, char)
          BY <1>1, <3>2, <4>1, AppendBehind
        <4>3. QED
          BY <3>1, <3>7, <4>1, <4>2
      <3>8. QED
        BY <1>3, <2>1, <3>5, <3>6, <3>7 DEF VcomInv
    <2>3. CASE ~(Len(tx_ringbuffer) < CDC_TX_BUFSIZE)
      <3>1. tx_ringbuffer' = tx_ringbuffer /\ due' = due /\ char' = char
        BY <1>7, <2>3 DEF PutcPut
      <3>2. PortOK'
        BY <1>1, <1>2, <1>4, <2>1, <3>1 DEF PortOK, Filled
      <3>3. QED
        BY <1>2, <1>3, <2>1, <3>1, <3>2, SendingStays
    <2>4. QED
      BY <2>2, <2>3
  <1>8. QED
    BY <1>5, <1>6, <1>7
    DEF _vcom_putc, PutcStart, PutcRoom, PutcFull, PutcUnplugged, PutcWaits

\* The host takes a transfer.
LEMMA HostTakeStep ==
    ASSUME VcomInv, VcomTake
    PROVE  VcomInv'
  <1> DEFINE e == Event("in", ep_in)
  <1>1. /\ QueueOK /\ PortOK /\ tx_ringbuffer \in Seq(Int) /\ tx_buf \in Seq(Int)
        /\ due \in Seq(Int) /\ Len(due) \in Nat /\ ep_in \in Int
    BY VcomFacts DEF VcomInv, PortOK, Filled, Idle
  <1>2. /\ ep_in # Idle /\ rt_usbd_post_event(e)
        /\ due' = (IF raced THEN due ELSE SubSeq(due, ep_in + 1, Len(due)))
        /\ ep_in' = Idle /\ tx_buf' = (IF usb_pc \in {"send", "write"} THEN tx_buf ELSE <<>>)
        /\ tx_ringbuffer' = tx_ringbuffer /\ vcom_connected' = vcom_connected
        /\ vcom_in_sending' = vcom_in_sending /\ sof_size' = sof_size /\ putc_pc' = putc_pc
        /\ usb_pc' = usb_pc /\ completed' = completed /\ char' = char /\ raced' = raced
    BY DEF VcomTake, Leave, RingVcom
  <1>3. ep_in \in Nat
    BY <1>1, <1>2, VcomFacts DEF PortOK, Idle
  <1>4. e \in VcomEvent
    BY <1>3 DEF Event, VcomEvent
  <1> HIDE DEF e
  <1>5. QueueOK' /\ (~SomeIn => OneIn')
    BY <1>1, <1>2, <1>4, VcomPost
  <1>6. due' \in Seq(Int)
    <2>1. \A i \in ep_in + 1 .. Len(due) : due[i] \in Int
      <3>1. \A i \in ep_in + 1 .. Len(due) : i \in 1 .. Len(due)
        BY <1>1, <1>3
      <3>2. QED
        BY <1>1, <3>1, ElementOfSeq
    <2>2. ep_in + 1 \in Int /\ Len(due) \in Int
      BY <1>1
    <2>3. SubSeq(due, ep_in + 1, Len(due)) \in Seq(Int)
      BY <2>1, <2>2, SubSeqProperties
    <2>4. QED
      BY <1>1, <1>2, <2>3
  <1>7. PortOK'
    <2>1. Filled(<<>>) /\ Idle \in Idle .. CDC_TX_BUFSIZE
      BY VcomFacts DEF Filled, Idle
    <2>2. QED
      BY <1>1, <1>2, <1>6, <2>1 DEF PortOK, Filled
  <1>8. ASSUME ~raced, OneTransfer, due = Flight \o tx_ringbuffer
        PROVE  OneTransfer' /\ due' = Flight' \o tx_ringbuffer'
    <2>1. vcom_in_sending /\ ~SomeIn /\ usb_pc \notin {"fetch", "send", "write"}
      BY <1>2, <1>8 DEF OneTransfer
    <2>2. ~(ep_in' > 0)
      BY <1>2 DEF Idle
    <2>3. OneTransfer'
      BY <1>2, <1>5, <2>1, <2>2 DEF OneTransfer
    <2>4. Flight' = <<>>
      BY <1>2, <2>1, <2>2 DEF Flight
    <2>5. due' = tx_ringbuffer
      <3>1. CASE ep_in > 0
        <4>1. Flight = tx_buf /\ Len(tx_buf) = ep_in
          BY <1>8, <3>1 DEF Flight, OneTransfer
        <4>2. SubSeq(tx_buf \o tx_ringbuffer, Len(tx_buf) + 1, Len(tx_buf \o tx_ringbuffer))
                = tx_ringbuffer
          BY <1>1, CharSeqs
        <4>3. QED
          BY <1>2, <1>8, <4>1, <4>2
      <3>2. CASE ~(ep_in > 0)
        <4>1. ep_in = 0 /\ ep_in + 1 = 1
          BY <1>3, <3>2
        <4>2. Flight = <<>>
          BY <2>1, <3>2 DEF Flight
        <4>3. due = tx_ringbuffer
          BY <1>1, <1>8, <4>2, CharSeqs
        <4>4. SubSeq(due, 1, Len(due)) = due
          BY <1>1, CharSeqs
        <4>5. QED
          BY <1>2, <1>8, <4>1, <4>3, <4>4
      <3>3. QED
        BY <3>1, <3>2
    <2>6. QED
      BY <1>1, <1>2, <2>3, <2>4, <2>5, CharSeqs
  <1>9. QED
    BY <1>2, <1>5, <1>7, <1>8 DEF VcomInv

\* The host resets the bus or is pulled out: what it has not taken is not due any more.
LEMMA BusLeavesStep ==
    ASSUME VcomInv, BusLeaves("reset", "default") \/ BusLeaves("plugout", "off")
    PROVE  VcomInv'
  <1>1. PICK type \in {"reset", "plugout"} :
            /\ rt_usbd_post_event(Event(type, 0))
            /\ ep_in' = Idle /\ raced' = TRUE /\ due' = <<>> /\ char' = 0
            /\ tx_buf' = (IF usb_pc \in {"send", "write"} THEN tx_buf ELSE <<>>)
            /\ tx_ringbuffer' = tx_ringbuffer /\ vcom_connected' = vcom_connected
            /\ vcom_in_sending' = vcom_in_sending /\ sof_size' = sof_size /\ putc_pc' = putc_pc
            /\ usb_pc' = usb_pc /\ completed' = completed
    BY DEF BusLeaves, Leave, RingVcom
  <1>2. QueueOK /\ PortOK
    BY DEF VcomInv
  <1>3. Event(type, 0) \in VcomEvent
    BY DEF Event, VcomEvent
  <1>4. QueueOK'
    BY <1>1, <1>2, <1>3, VcomPost
  <1>5. Filled(<<>>) /\ Idle \in Idle .. CDC_TX_BUFSIZE
    BY VcomFacts DEF Filled, Idle
  <1>6. PortOK'
    BY <1>1, <1>2, <1>5 DEF PortOK, Filled
  <1>7. QED
    BY <1>1, <1>4, <1>6 DEF VcomInv

\* The rest of the bus.
LEMMA BusStep ==
    ASSUME VcomInv, VcomSof \/ VcomPlugIn \/ VcomAsk \/ VcomAnswer \/ VcomCoding
    PROVE  VcomInv'
  <1>1. QueueOK /\ PortOK
    BY DEF VcomInv
  <1>2. /\ tx_ringbuffer' = tx_ringbuffer /\ tx_buf' = tx_buf
        /\ vcom_connected' = vcom_connected /\ vcom_in_sending' = vcom_in_sending
        /\ ep_in' = ep_in /\ sof_size' = sof_size /\ putc_pc' = putc_pc
        /\ char' = char /\ due' = due /\ raced' = raced
    BY DEF VcomSof, VcomPlugIn, VcomAsk, VcomAnswer, VcomCoding, BusVcom, RingVcom, hist
  <1>3. QueueOK' /\ (SomeIn' => SomeIn) /\ (OneIn => OneIn')
    <2>1. ASSUME NEW type \in {"sof", "setup"}, rt_usbd_post_event(Event(type, 0))
          PROVE  QueueOK' /\ (SomeIn' => SomeIn) /\ (OneIn => OneIn')
      <3>1. Event(type, 0) \in VcomEvent /\ Event(type, 0).type # "in"
        BY DEF Event, VcomEvent
      <3>2. QED
        BY <1>1, <2>1, <3>1, VcomPost
    <2>2. ASSUME usb_mq' = usb_mq
          PROVE  QueueOK' /\ (SomeIn' => SomeIn) /\ (OneIn => OneIn')
      BY <1>1, <2>2 DEF QueueOK, SomeIn, OneIn
    <2>3. QED
      BY <2>1, <2>2 DEF VcomSof, VcomPlugIn, VcomAsk, VcomAnswer, VcomCoding, core
  <1>4. /\ completed' \in BOOLEAN /\ (usb_pc' = "suspended" => ~completed')
        /\ \/ usb_pc' = usb_pc
           \/ usb_pc \notin {"fetch", "send", "write"} /\ usb_pc' = "resumed"
    <2>1. CASE VcomCoding
      BY <1>1, <2>1 DEF VcomCoding, rt_completion_done, PortOK
    <2>2. CASE usb_pc' = usb_pc /\ completed' = completed
      BY <1>1, <2>2 DEF PortOK
    <2>3. QED
      BY <2>1, <2>2 DEF VcomSof, VcomPlugIn, VcomAsk, VcomAnswer
  <1>5. PortOK'
    BY <1>1, <1>2, <1>4 DEF PortOK, ThreadAt, Filled
  <1>6. QED
    BY <1>2, <1>3, <1>4, <1>5, SendingStays

LEMMA VcomInvStep == VcomInv /\ [VcomNext]_vcomVars => VcomInv'
  <1> SUFFICES ASSUME VcomInv, [VcomNext]_vcomVars PROVE VcomInv'
    OBVIOUS
  <1>1. CASE VcomThread
    BY <1>1, SofStep, InStep, InWriteStep, RequestStep, LeftStep DEF VcomThread
  <1>2. ASSUME NEW w \in Writer, _vcom_putc(w)
        PROVE  VcomInv'
    BY <1>2, PutcStep
  <1>3. CASE VcomSof \/ VcomPlugIn \/ VcomAsk \/ VcomAnswer \/ VcomCoding
    BY <1>3, BusStep
  <1>4. CASE BusLeaves("reset", "default") \/ BusLeaves("plugout", "off")
    BY <1>4, BusLeavesStep
  <1>5. CASE VcomTake
    BY <1>5, HostTakeStep
  <1>6. CASE UNCHANGED vcomVars
    <2>1. /\ usb_mq' = usb_mq /\ tx_ringbuffer' = tx_ringbuffer /\ tx_buf' = tx_buf
          /\ vcom_connected' = vcom_connected /\ vcom_in_sending' = vcom_in_sending
          /\ ep_in' = ep_in /\ usb_pc' = usb_pc /\ sof_size' = sof_size
          /\ completed' = completed /\ putc_pc' = putc_pc
          /\ char' = char /\ due' = due /\ raced' = raced
      BY <1>6 DEF vcomVars, core, vcom, hist
    <2>2. QueueOK' /\ PortOK' /\ SomeIn' = SomeIn /\ OneIn' = OneIn
      BY <2>1 DEF VcomInv, QueueOK, PortOK, SomeIn, OneIn, Filled
    <2>3. QED
      BY <2>1, <2>2, SendingStays
  <1>7. QED
    BY <1>1, <1>2, <1>3, <1>4, <1>5, <1>6 DEF VcomNext

LEMMA VcomInvAlways == VcomSpec => []VcomInv
  BY VcomInvInit, VcomInvStep, PTL DEF VcomSpec

LEMMA VcomInvTypes == VcomInv => VcomTypeOK
  BY DEF VcomInv, QueueOK, PortOK, VcomTypeOK, Filled, ThreadAt, WriterAt

\* The types TLC checks: the queue, the ring and the buffer of the end point never hold
\* more than there is room for, and a thread that is suspended finds the flag of the
\* completion clear.
THEOREM VcomTypeCorrect == VcomSpec => []VcomTypeOK
  BY VcomInvTypes, VcomInvAlways, PTL

\* Every character that the port has accepted is on its way to the host or in the ring,
\* once and in its order, whatever writers, frames, requests and resets come between the
\* steps of the thread, unless a reset has met a transfer.
THEOREM VcomCharsInOrder == VcomSpec => []CharsInOrder
  <1>1. VcomInv => CharsInOrder
    BY DEF VcomInv, CharsInOrder
  <1>2. QED
    BY <1>1, VcomInvAlways, PTL
-----------------------------------------------------------------------------
\* The ring and the port side by side, as they are explored: a step of one leaves the
\* other, so that each keeps the types of its own specification.
THEOREM RingUserTypeCorrect == PartsSpec => []TypesOK
  <1>1. PartsInit => Inv /\ VcomInv
    BY InvInit, VcomInvInit DEF PartsInit
  <1>2. [PartsNext]_partVars => [Next]_vars /\ [VcomNext]_vcomVars
    BY DEF PartsNext, Rings, Ports, partVars
  <1>3. Inv /\ VcomInv /\ [PartsNext]_partVars => (Inv /\ VcomInv)'
    BY <1>2, InvNext, VcomInvStep
  <1>4. Inv /\ VcomInv => TypesOK
    BY VcomInvTypes DEF Inv, TypesOK
  <1>5. QED
    BY <1>1, <1>3, <1>4, PTL DEF PartsSpec
===============================================================================
