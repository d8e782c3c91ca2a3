------------------------------ MODULE ShellProof -------------------------------
(***************************************************************************)
(* Proofs about ShellLine, for every length of the line and of the         *)
(* history: the ring of the history holds whole lines (HistoryIsWhole),    *)
(* and what is entered is what has been edited (LineAsEdited).  And about  *)
(* CmdQueue, for every set of consoles and commands: the loop over the     *)
(* tasks of a console stays on its list.                                   *)
(*                                                                         *)
(* The ring: unrolled from the rail on, it is zeros and then the lines     *)
(* (Unrolled).  A line that is put in lies over the oldest bytes, and the  *)
(* loop that clears what is left of the line it cuts stops at the zero     *)
(* behind it, so that the ring is again zeros and whole lines (Takes); and *)
(* that is the same as to drop the oldest lines until the new one fits.    *)
(*                                                                         *)
(* The search: cmd_GetHistory starts at a zero between two lines, at the   *)
(* place GapAt that belongs to the number of lines behind it, and comes    *)
(* across the zeros outside all lines, then a line, then the zero at its   *)
(* other end (Reaches, Finds): the next number of lines.                   *)
(*                                                                         *)
(* A number is stepped digit by digit with a carry in the buffer, and as a *)
(* number in the specification of the user's view: the two agree since the *)
(* digits that carry are the longest run of nines (or zeros) (AllCarry),   *)
(* and what the others are worth is a multiple of a power of ten (Lifts,   *)
(* Weighs).                                                                *)
(***************************************************************************)
EXTENDS ShellLine, CmdQueue, FiniteSetTheorems, SequenceTheorems, WellFoundedInduction, TLAPS
-----------------------------------------------------------------------------
\* Induction over the numbers, for a set of them.
LEMMA SetInduction ==
    ASSUME NEW S, 0 \in S, \A n \in Nat : n \in S => n + 1 \in S
    PROVE  \A n \in Nat : n \in S
  <1> SUFFICES ASSUME NEW m \in Nat, m \notin S PROVE FALSE
    OBVIOUS
  <1> DEFINE T == {n \in Nat : n \notin S}
  <1>1. T \subseteq Nat /\ T # {}
    OBVIOUS
  <1>2. PICK x \in T : \A y \in T : ~(<<y, x>> \in OpToRel(<, Nat))
    BY <1>1, NatLessThanWellFounded, WFMin
  <1>3. \A y \in T : ~(y < x)
    BY <1>2 DEF OpToRel
  <1>4. x \in Nat /\ x # 0 /\ x - 1 \in Nat /\ x - 1 < x /\ (x - 1) + 1 = x
    OBVIOUS
  <1>5. x - 1 \in S
    BY <1>3, <1>4
  <1>6. QED
    BY <1>4, <1>5

\* The least of a set of numbers.
LEMMA LeastOf ==
    ASSUME NEW S, S \subseteq Nat, S # {}
    PROVE  Min(S) \in S /\ \A y \in S : Min(S) <= y
  <1>1. PICK x \in S : \A y \in S : ~(<<y, x>> \in OpToRel(<, Nat))
    BY NatLessThanWellFounded, WFMin
  <1>2. ASSUME NEW y \in S
        PROVE  x <= y
    <2>1. ~(y < x)
      BY <1>1 DEF OpToRel
    <2>2. QED
      BY <2>1
  <1>3. \E z \in S : \A y \in S : z <= y
    BY <1>2
  <1>4. QED
    BY <1>3 DEF Min

\* The function FlattenSeq recurses with: it exists, and depends on nothing but the
\* sequences it has come to.
Flattens(f, ss, n) ==
    f = [i \in 1 .. n |-> IF i = 1 THEN ss[i] ELSE f[i - 1] \o ss[i]]

Alike(f, g, n) == \A i \in 1 .. n : f[i] = g[i]

LEMMA FlattensExists ==
    ASSUME NEW T, NEW ss \in Seq(Seq(T))
    PROVE  \E f \in [1 .. Len(ss) -> Seq(T)] : Flattens(f, ss, Len(ss))
  <1> DEFINE P(n) == \E f \in [1 .. n -> Seq(T)] : Flattens(f, ss, n)
             S    == {n \in Nat : n <= Len(ss) => P(n)}
  <1>1. Len(ss) \in Nat /\ \A i \in 1 .. Len(ss) : ss[i] \in Seq(T)
    BY LenProperties, ElementOfSeq
  <1>2. 0 \in S
    <2> DEFINE g == [i \in 1 .. 0 |-> <<>>]
    <2>1. g \in [1 .. 0 -> Seq(T)] /\ Flattens(g, ss, 0)
      BY DEF Flattens
    <2>2. QED
      BY <2>1
  <1>3. ASSUME NEW n \in Nat, n \in S
        PROVE  n + 1 \in S
    <2>1. SUFFICES ASSUME n + 1 <= Len(ss) PROVE P(n + 1)
      OBVIOUS
    <2>2. PICK f \in [1 .. n -> Seq(T)] : Flattens(f, ss, n)
      BY <1>1, <1>3, <2>1
    <2>3. \A i \in 1 .. n : f[i] = IF i = 1 THEN ss[i] ELSE f[i - 1] \o ss[i]
      BY <2>2 DEF Flattens
    <2>4. ss[n + 1] \in Seq(T) /\ (n # 0 => f[n] \o ss[n + 1] \in Seq(T))
      <3>1. ss[n + 1] \in Seq(T)
        BY <1>1, <2>1
      <3>2. ASSUME n # 0 PROVE f[n] \o ss[n + 1] \in Seq(T)
        BY <2>2, <3>1, <3>2, ConcatProperties
      <3>3. QED
        BY <3>1, <3>2
    <2> DEFINE next == IF n = 0 THEN ss[n + 1] ELSE f[n] \o ss[n + 1]
               g    == [i \in 1 .. n + 1 |-> IF i = n + 1 THEN next ELSE f[i]]
    <2>5. next \in Seq(T)
      BY <2>4
    <2> HIDE DEF next
    <2>6. g \in [1 .. n + 1 -> Seq(T)]
      BY <2>5
    <2>7. ASSUME NEW i \in 1 .. n + 1
          PROVE  g[i] = IF i = 1 THEN ss[i] ELSE g[i - 1] \o ss[i]
      <3>1. CASE i = n + 1
        <4>1. g[i] = next /\ (n # 0 => g[i - 1] = f[n])
          BY <3>1
        <4>2. QED
          BY <3>1, <4>1 DEF next
      <3>2. CASE i # n + 1
        <4>1. i \in 1 .. n /\ (i # 1 => i - 1 \in 1 .. n)
          BY <3>2
        <4>2. g[i] = f[i] /\ (i # 1 => g[i - 1] = f[i - 1])
          BY <4>1
        <4>3. QED
          BY <2>3, <4>1, <4>2
      <3>3. QED
        BY <3>1, <3>2
    <2> HIDE DEF g
    <2>8. Flattens(g, ss, n + 1)
      BY <2>6, <2>7 DEF Flattens
    <2>9. QED
      BY <2>6, <2>8
  <1> HIDE DEF S
  <1>4. Len(ss) \in S
    BY <1>1, <1>2, <1>3, SetInduction
  <1>5. QED
    BY <1>1, <1>4 DEF S

LEMMA FlattensAlike ==
    ASSUME NEW n \in Nat, NEW k \in Nat, NEW ss, NEW tt, Alike(ss, tt, n),
           NEW f, Flattens(f, ss, n), NEW g, Flattens(g, tt, n + k)
    PROVE  Alike(f, g, n)
  <1> DEFINE S == {j \in Nat : j \in 1 .. n => f[j] = g[j]}
  <1>1. 0 \in S
    OBVIOUS
  <1>2. /\ \A i \in 1 .. n : f[i] = IF i = 1 THEN ss[i] ELSE f[i - 1] \o ss[i]
        /\ \A i \in 1 .. n + k : g[i] = IF i = 1 THEN tt[i] ELSE g[i - 1] \o tt[i]
    BY DEF Flattens
  <1>3. ASSUME NEW j \in Nat, j \in S
        PROVE  j + 1 \in S
    <2>1. SUFFICES ASSUME j + 1 \in 1 .. n PROVE f[j + 1] = g[j + 1]
      OBVIOUS
    <2>2. j + 1 \in 1 .. n + k /\ (j + 1) - 1 = j /\ ss[j + 1] = tt[j + 1]
      BY <2>1 DEF Alike
    <2>3. j + 1 # 1 => f[j] = g[j]
      BY <1>3, <2>1
    <2>4. /\ f[j + 1] = IF j + 1 = 1 THEN ss[j + 1] ELSE f[j] \o ss[j + 1]
          /\ g[j + 1] = IF j + 1 = 1 THEN tt[j + 1] ELSE g[j] \o tt[j + 1]
      BY <1>2, <2>1, <2>2
    <2>5. QED
      BY <2>2, <2>3, <2>4
  <1> HIDE DEF S
  <1>4. \A j \in Nat : j \in S
    BY <1>1, <1>3, SetInduction
  <1>5. QED
    BY <1>4 DEF S, Alike

LEMMA FlattenSeqIs ==
    ASSUME NEW T, NEW ss \in Seq(Seq(T)), NEW n, n = Len(ss), n # 0
    PROVE  \E f \in [1 .. n -> Seq(T)] : Flattens(f, ss, n) /\ FlattenSeq(ss) = f[n]
  <1> DEFINE h == CHOOSE f : Flattens(f, ss, Len(ss))
  <1>1. PICK f \in [1 .. Len(ss) -> Seq(T)] : Flattens(f, ss, Len(ss))
    BY FlattensExists
  <1>2. Flattens(h, ss, Len(ss))
    BY <1>1
  <1>3. FlattenSeq(ss) = h[Len(ss)]
    BY DEF FlattenSeq, Flattens
  <1> HIDE DEF h
  <1>4. h = f
    <2>1. Len(ss) \in Nat
      BY LenProperties
    <2>2. \A i \in 1 .. Len(ss) : h[i] = f[i]
      <3>1. Len(ss) + 0 = Len(ss) /\ Alike(ss, ss, Len(ss))
        BY <2>1 DEF Alike
      <3>2. Alike(h, f, Len(ss))
        BY <1>1, <1>2, <2>1, <3>1, FlattensAlike
      <3>3. QED
        BY <3>2 DEF Alike
    <2>3. h = [i \in 1 .. Len(ss) |-> h[i]]
      BY <1>2 DEF Flattens
    <2>4. f = [i \in 1 .. Len(ss) |-> f[i]]
      OBVIOUS
    <2>5. QED
      BY <2>2, <2>3, <2>4
  <1>5. QED
    BY <1>1, <1>3, <1>4

\* A sequence more.
LEMMA FlattensMore ==
    ASSUME NEW n \in Nat, n # 0, NEW ss, NEW tt, Alike(ss, tt, n),
           NEW f, Flattens(f, ss, n), NEW g, Flattens(g, tt, n + 1)
    PROVE  g[n + 1] = f[n] \o tt[n + 1]
  <1>1. 1 \in Nat /\ n \in 1 .. n /\ n + 1 \in 1 .. n + 1
    OBVIOUS
  <1>2. Alike(f, g, n)
    BY <1>1, FlattensAlike, Zenon
  <1>3. \A i \in 1 .. n + 1 : g[i] = IF i = 1 THEN tt[i] ELSE g[i - 1] \o tt[i]
    BY DEF Flattens
  <1>4. (n + 1) - 1 = n /\ n + 1 # 1
    OBVIOUS
  <1>5. g[n + 1] = g[n] \o tt[n + 1]
    BY <1>1, <1>3, <1>4
  <1>6. QED
    BY <1>1, <1>2, <1>5 DEF Alike

LEMMA FlattenMore ==
    ASSUME NEW T, NEW ss \in Seq(Seq(T)), NEW tt \in Seq(Seq(T)),
           Len(tt) = Len(ss) + 1, Alike(ss, tt, Len(ss))
    PROVE  /\ FlattenSeq(ss) \in Seq(T)
           /\ FlattenSeq(tt) = FlattenSeq(ss) \o tt[Len(ss) + 1]
  <1> DEFINE n == Len(ss)
  <1>1. n \in Nat
    BY LenProperties
  <1>2. n + 1 \in Nat /\ n + 1 # 0 /\ n + 1 \in 1 .. n + 1 /\ (n + 1) - 1 = n
    BY <1>1
  <1>3. tt[n + 1] \in Seq(T)
    BY <1>2, ElementOfSeq
  <1>4. PICK g \in [1 .. n + 1 -> Seq(T)] :
            Flattens(g, tt, n + 1) /\ FlattenSeq(tt) = g[n + 1]
    BY <1>2, FlattenSeqIs, Zenon
  <1>5. CASE n = 0
    <2>1. FlattenSeq(ss) = <<>>
      BY <1>5, EmptySeq DEF FlattenSeq
    <2>2. g[n + 1] = tt[n + 1]
      BY <1>4, <1>5 DEF Flattens
    <2>3. QED
      BY <1>3, <1>4, <2>1, <2>2, EmptySeq, ConcatEmptySeq
  <1>6. CASE n # 0
    <2>1. PICK f \in [1 .. n -> Seq(T)] : Flattens(f, ss, n) /\ FlattenSeq(ss) = f[n]
      BY <1>6, FlattenSeqIs, Zenon
    <2>2. f[n] \in Seq(T)
      <3>1. n \in 1 .. n
        BY <1>1, <1>6
      <3>2. QED
        BY <3>1, Zenon
    <2>3. g[n + 1] = f[n] \o tt[n + 1]
      BY <1>1, <1>4, <1>6, <2>1, FlattensMore, Zenon
    <2>4. FlattenSeq(ss) = f[n] /\ FlattenSeq(tt) = g[n + 1]
      BY <1>4, <2>1
    <2> HIDE DEF n
    <2>5. FlattenSeq(tt) = FlattenSeq(ss) \o tt[n + 1] /\ FlattenSeq(ss) \in Seq(T)
      BY <2>2, <2>3, <2>4, Zenon
    <2>6. QED
      BY <2>5 DEF n
  <1>7. QED
    BY <1>5, <1>6
-----------------------------------------------------------------------------
\* What the history keeps: the lines, each with its zero, one after the other.
Entered == EditLine \ {<<>>}

LEMMA EnteredIs ==
    ASSUME NEW s \in Entered
    PROVE  /\ s \in Seq(Char) /\ s \in Seq(Char \ {NUL})
           /\ Len(s) \in 1 .. LenCmd - 1
           /\ \A k \in 1 .. Len(s) : s[k] # NUL /\ s[k] \in Char
  <1>1. PICK n \in 0 .. LenCmd - 1 : s \in [1 .. n -> Char \ {NUL}]
    BY DEF Entered, EditLine
  <1>2. n \in Nat /\ s \in Seq(Char \ {NUL}) /\ Len(s) = n
    BY <1>1, ShellLineAssumption
  <1>3. s # <<>>
    BY DEF Entered
  <1>4. n # 0
    BY <1>2, <1>3, EmptySeq
  <1>5. s \in Seq(Char)
    BY <1>2, SeqMonotonic
  <1>6. \A k \in 1 .. Len(s) : s[k] \in Char \ {NUL}
    BY <1>1, <1>2
  <1>7. QED
    BY <1>1, <1>2, <1>4, <1>5, <1>6

LEMMA ZeroBehind ==
    ASSUME NEW s \in Entered
    PROVE  /\ Append(s, NUL) \in Seq(Char)
           /\ Len(Append(s, NUL)) = Len(s) + 1
           /\ \A k \in 1 .. Len(s) : Append(s, NUL)[k] = s[k]
           /\ Append(s, NUL)[Len(s) + 1] = NUL
  <1>1. s \in Seq(Char) /\ NUL \in Char
    BY EnteredIs DEF Char
  <1>2. QED
    BY <1>1, AppendProperties

LEMMA FlatAppend ==
    ASSUME NEW lines \in Seq(Entered), NEW s \in Entered
    PROVE  /\ Flat(lines) \in Seq(Char)
           /\ Append(lines, s) \in Seq(Entered)
           /\ Flat(Append(lines, s)) = Flat(lines) \o Append(s, NUL)
  <1> DEFINE more == Append(lines, s)
             ss   == [i \in DOMAIN lines |-> Append(lines[i], NUL)]
             tt   == [i \in DOMAIN more |-> Append(more[i], NUL)]
             n    == Len(lines)
  <1>1. /\ n \in Nat /\ DOMAIN lines = 1 .. n
        /\ \A i \in 1 .. n : lines[i] \in Entered
    BY LenProperties, ElementOfSeq
  <1>2. /\ more \in Seq(Entered) /\ Len(more) = n + 1 /\ more[n + 1] = s
        /\ \A i \in 1 .. n : more[i] = lines[i]
    BY AppendProperties
  <1>3. DOMAIN more = 1 .. n + 1 /\ \A i \in 1 .. n + 1 : more[i] \in Entered
    BY <1>2, LenProperties, ElementOfSeq
  <1> HIDE DEF more, n
  <1>4. \A i \in 1 .. n : Append(lines[i], NUL) \in Seq(Char)
    BY <1>1, ZeroBehind
  <1>5. \A i \in 1 .. n + 1 : Append(more[i], NUL) \in Seq(Char)
    BY <1>3, ZeroBehind
  <1>6. ss \in Seq(Seq(Char)) /\ Len(ss) = n
    BY <1>1, <1>4
  <1>7. tt \in Seq(Seq(Char)) /\ Len(tt) = n + 1
    BY <1>1, <1>3, <1>5
  <1>8. Alike(ss, tt, n) /\ tt[n + 1] = Append(s, NUL)
    BY <1>1, <1>2, <1>3 DEF Alike
  <1>9. Flat(lines) = FlattenSeq(ss) /\ Flat(more) = FlattenSeq(tt)
    BY DEF Flat
  <1> HIDE DEF ss, tt
  <1>10. FlattenSeq(ss) \in Seq(Char) /\ FlattenSeq(tt) = FlattenSeq(ss) \o tt[Len(ss) + 1]
    BY <1>6, <1>7, <1>8, FlattenMore
  <1>11. QED
    BY <1>2, <1>6, <1>8, <1>9, <1>10 DEF more

LEMMA FlatEmpty == Flat(<<>>) = <<>>
  <1>1. [i \in DOMAIN <<>> |-> Append(<<>>[i], NUL)] = <<>>
    OBVIOUS
  <1>2. QED
    BY <1>1, EmptySeq DEF Flat, FlattenSeq

\* One line after another line: the line before the end of a sequence of lines.
LEMMA FlatType ==
    ASSUME NEW lines \in Seq(Entered)
    PROVE  Flat(lines) \in Seq(Char) /\ Len(Flat(lines)) \in Nat
  <1>1. CASE lines = <<>>
    BY <1>1, FlatEmpty, EmptySeq
  <1>2. CASE lines # <<>>
    <2>1. PICK s \in Seq(Entered), e \in Entered : lines = Append(s, e)
      BY <1>2, SequenceEmptyOrAppend
    <2>2. Flat(s) \in Seq(Char) /\ Append(e, NUL) \in Seq(Char)
      BY FlatAppend, ZeroBehind
    <2>3. Flat(s) \o Append(e, NUL) \in Seq(Char)
      BY <2>2, ConcatProperties
    <2>4. QED
      BY <2>1, <2>3, FlatAppend, LenProperties
  <1>3. QED
    BY <1>1, <1>2
\* Lines and more lines.
LEMMA FlatConcat ==
    ASSUME NEW a \in Seq(Entered), NEW b \in Seq(Entered)
    PROVE  Flat(a \o b) = Flat(a) \o Flat(b)
  <1> DEFINE S == {n \in Nat : \A c \in Seq(Entered) :
                      Len(c) = n => Flat(a \o c) = Flat(a) \o Flat(c)}
  <1>1. 0 \in S
    <2>1. ASSUME NEW c \in Seq(Entered), Len(c) = 0
          PROVE  Flat(a \o c) = Flat(a) \o Flat(c)
      <3>1. c = <<>>
        BY <2>1, EmptySeq
      <3>2. a \o <<>> = a /\ Flat(a) \o <<>> = Flat(a)
        BY ConcatEmptySeq, FlatType
      <3>3. QED
        BY <3>1, <3>2, FlatEmpty
    <2>2. QED
      BY <2>1
  <1>2. ASSUME NEW n \in Nat, n \in S
        PROVE  n + 1 \in S
    <2>1. SUFFICES ASSUME NEW c \in Seq(Entered), Len(c) = n + 1
                   PROVE  Flat(a \o c) = Flat(a) \o Flat(c)
      OBVIOUS
    <2>2. c # <<>>
      BY <2>1, EmptySeq
    <2>3. PICK d \in Seq(Entered), e \in Entered : c = Append(d, e)
      BY <2>2, SequenceEmptyOrAppend
    <2>4. Len(d) = n
      BY <2>1, <2>3, AppendProperties, LenProperties
    <2>5. a \o d \in Seq(Entered) /\ Flat(a \o d) = Flat(a) \o Flat(d)
      BY <1>2, <2>4, ConcatProperties
    <2>6. a \o c = Append(a \o d, e)
      <3>1. <<e>> \in Seq(Entered)
        OBVIOUS
      <3>2. c = d \o <<e>> /\ Append(a \o d, e) = (a \o d) \o <<e>>
        BY <2>3, <2>5, AppendIsConcat
      <3>3. (a \o d) \o <<e>> = a \o (d \o <<e>>)
        BY <3>1, ConcatAssociative, SMTT(30)
      <3>4. QED
        BY <3>2, <3>3
    <2>7. /\ Flat(a) \in Seq(Char) /\ Flat(d) \in Seq(Char) /\ Append(e, NUL) \in Seq(Char)
          /\ Flat(c) = Flat(d) \o Append(e, NUL)
      BY <2>3, FlatType, FlatAppend, ZeroBehind
    <2>8. Flat(a \o c) = (Flat(a) \o Flat(d)) \o Append(e, NUL)
      BY <2>5, <2>6, FlatAppend
    <2>9. (Flat(a) \o Flat(d)) \o Append(e, NUL) = Flat(a) \o (Flat(d) \o Append(e, NUL))
      <3> DEFINE u == Flat(a)
                 v == Flat(d)
                 w == Append(e, NUL)
      <3>1. u \in Seq(Char) /\ v \in Seq(Char) /\ w \in Seq(Char)
        BY <2>7
      <3> HIDE DEF u, v, w
      <3>2. (u \o v) \o w = u \o (v \o w)
        BY <3>1, ConcatAssociative, SMTT(30)
      <3>3. QED
        BY <3>2 DEF u, v, w
    <2>10. QED
      BY <2>7, <2>8, <2>9
  <1> HIDE DEF S
  <1>3. Len(b) \in S
    BY <1>1, <1>2, SetInduction, LenProperties
  <1>4. QED
    BY <1>3 DEF S

\* The first and the last of the lines.
FirstLines(lines, i) == SubSeq(lines, 1, i)
LastLines(lines, i)  == SubSeq(lines, i, Len(lines))

\* Where the i-th line ends, its zero included.
Border(lines, i) == Len(Flat(FirstLines(lines, i)))

LEMMA LinesSplit ==
    ASSUME NEW lines \in Seq(Entered), NEW i \in 0 .. Len(lines)
    PROVE  /\ FirstLines(lines, i) \in Seq(Entered) /\ LastLines(lines, i + 1) \in Seq(Entered)
           /\ lines = FirstLines(lines, i) \o LastLines(lines, i + 1)
           /\ Flat(lines) = Flat(FirstLines(lines, i)) \o Flat(LastLines(lines, i + 1))
           /\ Border(lines, i) \in Nat
           /\ Len(Flat(LastLines(lines, i + 1))) \in Nat
           /\ Len(Flat(lines)) = Border(lines, i) + Len(Flat(LastLines(lines, i + 1)))
  <1> DEFINE n == Len(lines)
  <1>1. n \in Nat /\ \A k \in 1 .. n : lines[k] \in Entered
    BY LenProperties, ElementOfSeq
  <1>2. FirstLines(lines, i) \in Seq(Entered)
    BY <1>1, SubSeqProperties DEF FirstLines
  <1>3. LastLines(lines, i + 1) \in Seq(Entered)
    BY <1>1, SubSeqProperties DEF LastLines
  <1>4. SubSeq(lines, 1, i) \o SubSeq(lines, i + 1, n) = SubSeq(lines, 1, n)
    <2>1. 1 \in 1 .. n + 1 /\ i \in 1 - 1 .. n /\ n \in i .. n
      BY <1>1
    <2>2. QED
      BY <2>1, ConcatAdjacentSubSeq
  <1>5. lines = FirstLines(lines, i) \o LastLines(lines, i + 1)
    BY <1>4, SubSeqFull DEF FirstLines, LastLines
  <1>6. Flat(lines) = Flat(FirstLines(lines, i)) \o Flat(LastLines(lines, i + 1))
    BY <1>2, <1>3, <1>5, FlatConcat
  <1>7. QED
    BY <1>2, <1>3, <1>5, <1>6, FlatType, ConcatProperties DEF Border

LEMMA FirstLinesMore ==
    ASSUME NEW lines \in Seq(Entered), NEW i \in 1 .. Len(lines)
    PROVE  /\ lines[i] \in Entered
           /\ FirstLines(lines, i) = Append(FirstLines(lines, i - 1), lines[i])
           /\ Flat(FirstLines(lines, i)) =
                 Flat(FirstLines(lines, i - 1)) \o Append(lines[i], NUL)
           /\ Border(lines, i) = Border(lines, i - 1) + Len(lines[i]) + 1
  <1>1. Len(lines) \in Nat /\ lines[i] \in Entered
    BY LenProperties, ElementOfSeq
  <1>2. i - 1 \in 0 .. Len(lines)
    BY <1>1
  <1>3. FirstLines(lines, i - 1) \in Seq(Entered)
    BY <1>2, LinesSplit
  <1>4. SubSeq(lines, 1, i) = SubSeq(lines, 1, i - 1) \o <<lines[i]>>
    <2>1. 1 \in 1 .. Len(lines) /\ i \in 1 .. Len(lines)
      BY <1>1
    <2>2. QED
      BY <2>1, SubSeqRecursiveSecond
  <1>5. FirstLines(lines, i) = Append(FirstLines(lines, i - 1), lines[i])
    BY <1>1, <1>3, <1>4, AppendIsConcat DEF FirstLines
  <1>6. Flat(FirstLines(lines, i)) = Flat(FirstLines(lines, i - 1)) \o Append(lines[i], NUL)
    BY <1>1, <1>3, <1>5, FlatAppend
  <1>7. Border(lines, i) = Border(lines, i - 1) + Len(Append(lines[i], NUL))
    BY <1>1, <1>3, <1>6, FlatType, ZeroBehind, ConcatProperties DEF Border
  <1>8. Border(lines, i - 1) \in Nat /\ Len(lines[i]) \in Nat
    BY <1>1, <1>2, EnteredIs, LinesSplit
  <1>9. Len(Append(lines[i], NUL)) = Len(lines[i]) + 1
    BY <1>1, ZeroBehind
  <1>10. Border(lines, i) = Border(lines, i - 1) + Len(lines[i]) + 1
    BY <1>7, <1>8, <1>9
  <1>11. QED
    BY <1>1, <1>5, <1>6, <1>10

\* The text of the i-th line and the zero behind it.
LEMMA LineAt ==
    ASSUME NEW lines \in Seq(Entered), NEW i \in 1 .. Len(lines)
    PROVE  /\ Border(lines, i) <= Len(Flat(lines))
           /\ \A k \in 1 .. Len(lines[i]) :
                 Flat(lines)[Border(lines, i - 1) + k] = lines[i][k]
           /\ Flat(lines)[Border(lines, i)] = NUL
  <1> DEFINE b == Border(lines, i - 1)
             f == Flat(FirstLines(lines, i - 1))
             z == Append(lines[i], NUL)
             l == Flat(LastLines(lines, i + 1))
  <1>1. Len(lines) \in Nat /\ i - 1 \in 0 .. Len(lines) /\ i \in 0 .. Len(lines)
    BY LenProperties
  <1>2. /\ f \in Seq(Char) /\ Len(f) = b /\ b \in Nat
        /\ l \in Seq(Char) /\ Len(l) \in Nat
    BY <1>1, LinesSplit, FlatType DEF Border
  <1>3. /\ lines[i] \in Entered
        /\ Flat(FirstLines(lines, i)) = f \o z
        /\ Border(lines, i) = b + Len(lines[i]) + 1
    BY FirstLinesMore
  <1>4. /\ z \in Seq(Char) /\ Len(z) = Len(lines[i]) + 1 /\ Len(lines[i]) \in Nat
        /\ z[Len(lines[i]) + 1] = NUL
        /\ \A k \in 1 .. Len(lines[i]) : z[k] = lines[i][k]
    BY <1>3, ZeroBehind, EnteredIs
  <1>5. Flat(lines) = (f \o z) \o l /\ Border(lines, i) <= Len(Flat(lines))
    <2>1. /\ Flat(lines) = Flat(FirstLines(lines, i)) \o l
          /\ Len(Flat(lines)) = Border(lines, i) + Len(l)
          /\ Border(lines, i) \in Nat
      BY <1>1, LinesSplit
    <2>2. Border(lines, i) <= Len(Flat(lines))
      BY <1>2, <2>1
    <2>3. Flat(lines) = (f \o z) \o l
      BY <1>3, <2>1
    <2>4. QED
      BY <2>2, <2>3
  <1> HIDE DEF f, z, l, b
  <1>6. /\ f \o z \in Seq(Char) /\ Len(f \o z) = b + Len(lines[i]) + 1
        /\ \A k \in 1 .. b + Len(lines[i]) + 1 :
              (f \o z)[k] = IF k <= b THEN f[k] ELSE z[k - b]
    <2>1. /\ f \o z \in Seq(Char) /\ Len(f \o z) = Len(f) + Len(z)
          /\ \A k \in 1 .. Len(f) + Len(z) :
                (f \o z)[k] = IF k <= Len(f) THEN f[k] ELSE z[k - Len(f)]
      BY <1>2, <1>4, ConcatProperties
    <2>2. Len(f) + Len(z) = b + Len(lines[i]) + 1 /\ Len(f) = b
      BY <1>2, <1>4
    <2>3. QED
      BY <2>1, <2>2
  <1>7. ASSUME NEW k \in 1 .. Len(lines[i]) + 1
        PROVE  Flat(lines)[b + k] = z[k]
    <2>1. b + k \in 1 .. b + Len(lines[i]) + 1 /\ ~(b + k <= b) /\ (b + k) - b = k
      BY <1>2, <1>4
    <2>2. b + k \in 1 .. Len(f \o z) + Len(l) /\ b + k <= Len(f \o z)
      BY <1>2, <1>4, <1>6, <2>1
    <2>3. ((f \o z) \o l)[b + k] = (f \o z)[b + k]
      BY <1>2, <1>6, <2>2, ConcatProperties
    <2>4. QED
      BY <1>5, <1>6, <2>1, <2>3
  <1>8. Len(lines[i]) + 1 \in 1 .. Len(lines[i]) + 1 /\ b + (Len(lines[i]) + 1) = Border(lines, i)
    BY <1>2, <1>3, <1>4
  <1>9. Flat(lines)[Border(lines, i)] = NUL
    BY <1>4, <1>7, <1>8
  <1>10. ASSUME NEW k \in 1 .. Len(lines[i])
         PROVE  Flat(lines)[b + k] = lines[i][k]
    <2>1. k \in 1 .. Len(lines[i]) + 1
      BY <1>4
    <2>2. QED
      BY <1>4, <1>7, <2>1
  <1>11. QED
    BY <1>5, <1>9, <1>10 DEF b
\* The lines that stay, when the first ones go.
LEMMA LastLinesAt ==
    ASSUME NEW lines \in Seq(Entered), NEW i \in 0 .. Len(lines)
    PROVE  /\ Len(Flat(LastLines(lines, i + 1))) = Len(Flat(lines)) - Border(lines, i)
           /\ \A k \in 1 .. Len(Flat(LastLines(lines, i + 1))) :
                 Flat(LastLines(lines, i + 1))[k] = Flat(lines)[Border(lines, i) + k]
  <1> DEFINE f == Flat(FirstLines(lines, i))
             l == Flat(LastLines(lines, i + 1))
             b == Border(lines, i)
  <1>1. /\ Flat(lines) = f \o l /\ Len(Flat(lines)) = b + Len(l)
        /\ b \in Nat /\ Len(l) \in Nat
    BY LinesSplit
  <1>2. f \in Seq(Char) /\ l \in Seq(Char) /\ Len(f) = b
    BY LinesSplit, FlatType DEF Border
  <1> HIDE DEF f, l, b
  <1>3. ASSUME NEW k \in 1 .. Len(l)
        PROVE  l[k] = Flat(lines)[b + k]
    <2>1. b + k \in 1 .. Len(f) + Len(l) /\ ~(b + k <= Len(f)) /\ (b + k) - Len(f) = k
      BY <1>1, <1>2
    <2>2. (f \o l)[b + k] = l[(b + k) - Len(f)]
      BY <1>2, <2>1, ConcatProperties
    <2>3. QED
      BY <1>1, <2>1, <2>2
  <1>4. QED
    BY <1>1, <1>3, SMTT(20) DEF l, b

LEMMA NoLines ==
    ASSUME NEW lines \in Seq(Entered)
    PROVE  /\ Border(lines, 0) = 0 /\ Border(lines, Len(lines)) = Len(Flat(lines))
           /\ Len(Flat(LastLines(lines, Len(lines) + 1))) = 0
  <1>1. Len(lines) \in Nat
    BY LenProperties
  <1>2. FirstLines(lines, 0) = <<>> /\ LastLines(lines, Len(lines) + 1) = <<>>
    BY <1>1, SubSeqEmpty DEF FirstLines, LastLines
  <1>3. FirstLines(lines, Len(lines)) = lines
    BY SubSeqFull DEF FirstLines
  <1>4. QED
    BY <1>2, <1>3, FlatEmpty, EmptySeq DEF Border

\* Every place belongs to a line, and a zero is behind one.
LEMMA LineOf ==
    ASSUME NEW lines \in Seq(Entered), NEW p \in 1 .. Len(Flat(lines))
    PROVE  \E i \in 1 .. Len(lines) : Border(lines, i - 1) < p /\ p <= Border(lines, i)
  <1> DEFINE S == {j \in Nat : j <= Len(lines) /\ p <= Border(lines, j) =>
                      \E i \in 1 .. Len(lines) : Border(lines, i - 1) < p /\ p <= Border(lines, i)}
  <1>1. Len(lines) \in Nat /\ Len(Flat(lines)) \in Nat /\ p \in Nat
    BY LenProperties, FlatType
  <1>2. 0 \in S
    BY <1>1, NoLines
  <1>3. ASSUME NEW j \in Nat, j \in S
        PROVE  j + 1 \in S
    <2>1. SUFFICES ASSUME j + 1 <= Len(lines), p <= Border(lines, j + 1)
                   PROVE  \E i \in 1 .. Len(lines) :
                             Border(lines, i - 1) < p /\ p <= Border(lines, i)
      OBVIOUS
    <2>2. CASE p <= Border(lines, j)
      BY <1>1, <1>3, <2>1, <2>2
    <2>3. CASE Border(lines, j) < p
      <3>1. j + 1 \in 1 .. Len(lines) /\ (j + 1) - 1 = j
        BY <1>1, <2>1
      <3>2. QED
        BY <2>1, <2>3, <3>1
    <2>4. Border(lines, j) \in Nat
      <3>1. j \in 0 .. Len(lines)
        BY <1>1, <2>1
      <3>2. QED
        BY <3>1, LinesSplit
    <2>5. QED
      BY <1>1, <2>2, <2>3, <2>4
  <1> HIDE DEF S
  <1>4. Len(lines) \in S
    BY <1>1, <1>2, <1>3, SetInduction
  <1>5. QED
    BY <1>1, <1>4, NoLines DEF S

LEMMA BorderAt ==
    ASSUME NEW lines \in Seq(Entered), NEW p \in 1 .. Len(Flat(lines)), Flat(lines)[p] = NUL
    PROVE  \E i \in 1 .. Len(lines) : p = Border(lines, i)
  <1>1. Len(lines) \in Nat /\ Len(Flat(lines)) \in Nat /\ p \in Nat
    BY LenProperties, FlatType
  <1>2. PICK i \in 1 .. Len(lines) : Border(lines, i - 1) < p /\ p <= Border(lines, i)
    BY LineOf
  <1>3. /\ lines[i] \in Entered
        /\ Border(lines, i) = Border(lines, i - 1) + Len(lines[i]) + 1
    BY FirstLinesMore
  <1>4. Border(lines, i - 1) \in Nat
    <2>1. i - 1 \in 0 .. Len(lines)
      BY <1>1
    <2>2. QED
      BY <2>1, LinesSplit
  <1>5. Len(lines[i]) \in Nat
    BY <1>3, EnteredIs
  <1>6. ~(p < Border(lines, i))
    <2>1. SUFFICES ASSUME p < Border(lines, i) PROVE FALSE
      OBVIOUS
    <2> DEFINE k == p - Border(lines, i - 1)
    <2>2. k \in 1 .. Len(lines[i]) /\ Border(lines, i - 1) + k = p
      BY <1>1, <1>2, <1>3, <1>4, <1>5, <2>1, SMTT(20)
    <2> HIDE DEF k
    <2>3. Flat(lines)[Border(lines, i - 1) + k] = lines[i][k]
      BY <2>2, LineAt
    <2>4. lines[i][k] # NUL
      BY <1>3, <2>2, EnteredIs
    <2>5. QED
      BY <2>2, <2>3, <2>4
  <1>7. p = Border(lines, i)
    BY <1>1, <1>2, <1>3, <1>4, <1>5, <1>6
  <1>8. QED
    BY <1>7

\* A later border is further on.
LEMMA BordersGrow ==
    ASSUME NEW lines \in Seq(Entered), NEW i \in 0 .. Len(lines), NEW j \in i .. Len(lines)
    PROVE  Border(lines, i) <= Border(lines, j)
  <1> DEFINE S == {k \in Nat : i + k <= Len(lines) => Border(lines, i) <= Border(lines, i + k)}
  <1>1. Len(lines) \in Nat /\ i \in Nat /\ j - i \in Nat /\ i + (j - i) = j /\ j <= Len(lines)
    BY LenProperties
  <1>2. Border(lines, i) \in Nat
    BY LinesSplit
  <1>3. 0 \in S
    BY <1>1, <1>2
  <1>4. ASSUME NEW k \in Nat, k \in S
        PROVE  k + 1 \in S
    <2>1. SUFFICES ASSUME i + (k + 1) <= Len(lines)
                   PROVE  Border(lines, i) <= Border(lines, i + (k + 1))
      OBVIOUS
    <2> DEFINE n == i + (k + 1)
    <2>2. n \in 1 .. Len(lines) /\ n - 1 = i + k /\ n - 1 \in 0 .. Len(lines)
      BY <1>1, <2>1
    <2> HIDE DEF n
    <2>3. /\ lines[n] \in Entered
          /\ Border(lines, n) = Border(lines, n - 1) + Len(lines[n]) + 1
      BY <2>2, FirstLinesMore
    <2>4. Len(lines[n]) \in Nat /\ Border(lines, n - 1) \in Nat
      <3>1. Len(lines[n]) \in Nat
        BY <2>3, EnteredIs
      <3>2. Border(lines, n - 1) \in Nat
        BY <2>2, LinesSplit
      <3>3. QED
        BY <3>1, <3>2
    <2>5. Border(lines, i) <= Border(lines, n - 1)
      BY <1>1, <1>4, <2>2
    <2>6. Border(lines, i) <= Border(lines, n)
      BY <1>2, <2>3, <2>4, <2>5
    <2>7. QED
      BY <2>6 DEF n
  <1> HIDE DEF S
  <1>5. j - i \in S
    BY <1>1, <1>3, <1>4, SetInduction
  <1>6. QED
    BY <1>1, <1>5 DEF S
-----------------------------------------------------------------------------
\* The places of the ring: x from the rail on.
LEMMA Sizes ==
    /\ LenCmd \in Nat /\ HistSize \in Nat /\ Digits \in Nat /\ MaxKeys \in Nat
    /\ LenCmd > 2 /\ HistSize > LenCmd /\ Digits > 1
  BY ShellLineAssumption

\* Once around a ring, at most.
LEMMA AroundFacts ==
    ASSUME NEW h \in Nat, h > 0
    PROVE  /\ \A a \in Int : 0 <= a /\ a < h => a % h = a
           /\ \A a \in Int : h <= a /\ a < 2 * h => a % h = a - h
           /\ \A a \in Int : 2 * h <= a /\ a < 3 * h => a % h = a - 2 * h
  <1>1. \A a \in Int : 0 <= a /\ a < h => a % h = a
    OBVIOUS
  <1>2. \A a \in Int : h <= a /\ a < 2 * h => a % h = a - h
    OBVIOUS
  <1>3. \A a \in Int : 2 * h <= a /\ a < 3 * h => a % h = a - 2 * h
    OBVIOUS
  <1>4. QED
    BY <1>1, <1>2, <1>3

Wrapped(x) == IF x < HistSize THEN x ELSE x - HistSize

LEMMA WrapsAround ==
    ASSUME NEW x \in 0 .. 2 * HistSize - 1
    PROVE  x % HistSize = Wrapped(x) /\ Wrapped(x) \in HistCell
  <1>1. HistSize \in Nat /\ HistSize > 0
    BY Sizes
  <1>2. x \in Int /\ 0 <= x /\ x < 2 * HistSize
    BY <1>1
  <1>3. Wrapped(x) \in HistCell
    BY <1>1, <1>2 DEF HistCell, Wrapped
  <1>4. CASE x < HistSize
    BY <1>1, <1>2, <1>3, <1>4, AroundFacts DEF Wrapped
  <1>5. CASE HistSize <= x
    <2>1. x % HistSize = x - HistSize
      BY <1>1, <1>2, <1>5, AroundFacts
    <2>2. ~(x < HistSize)
      BY <1>1, <1>2, <1>5
    <2>3. QED
      BY <1>3, <2>1, <2>2 DEF Wrapped
  <1>6. QED
    BY <1>1, <1>2, <1>4, <1>5

\* A place of the ring seen from a rail, and from the next one.
LEMMA FromRail ==
    ASSUME NEW rail \in HistCell, NEW p \in HistCell
    PROVE  /\ (p - rail + HistSize) % HistSize = Wrapped(p - rail + HistSize)
           /\ Wrapped(p - rail + HistSize) \in HistCell
           /\ (rail + Wrapped(p - rail + HistSize)) % HistSize = p
  <1> DEFINE q == Wrapped(p - rail + HistSize)
  <1>1. p - rail + HistSize \in 0 .. 2 * HistSize - 1
    BY Sizes DEF HistCell
  <1>2. (p - rail + HistSize) % HistSize = q /\ q \in HistCell
    BY <1>1, WrapsAround
  <1>3. q = IF p < rail THEN p - rail + HistSize ELSE p - rail
    BY Sizes DEF HistCell, Wrapped
  <1> HIDE DEF q
  <1>4. rail + q \in 0 .. 2 * HistSize - 1 /\ Wrapped(rail + q) = p
    BY <1>2, <1>3, Sizes DEF HistCell, Wrapped
  <1>5. (rail + q) % HistSize = p
    BY <1>4, WrapsAround
  <1>6. QED
    BY <1>2, <1>5 DEF q

LEMMA FromNextRail ==
    ASSUME NEW rail \in HistCell, NEW m \in HistCell, NEW k \in HistCell
    PROVE  /\ Wrapped(rail + m) \in HistCell
           /\ Wrapped(Wrapped(rail + m) + k) \in HistCell
           /\ Wrapped(Wrapped(Wrapped(rail + m) + k) - rail + HistSize) = Wrapped(m + k)
           /\ Wrapped(m + k) \in HistCell
  BY Sizes DEF HistCell, Wrapped

\* The byte at a distance before the rail.
Before(flat, d) == IF d <= Len(flat) THEN flat[Len(flat) + 1 - d] ELSE NUL

\* The ring of these lines.
Holds(hist, rail, flat) ==
    \A k \in HistCell : hist[(rail + k) % HistSize] = Before(flat, HistSize - k)

\* HistoryIsWhole, of any ring, rail and bytes.
Whole(hist, rail, flat) ==
    \A d \in 1 .. HistSize :
       hist[(rail - d + HistSize) % HistSize] =
           IF d <= Len(flat) THEN flat[Len(flat) + 1 - d] ELSE NUL

LEMMA WholeIsHolds ==
    ASSUME NEW hist, NEW rail \in HistCell, NEW flat
    PROVE  Whole(hist, rail, flat) <=> Holds(hist, rail, flat)
  <1> DEFINE At(d) == hist[(rail - d + HistSize) % HistSize]
             By(k) == hist[(rail + k) % HistSize]
  <1>1. Whole(hist, rail, flat) <=> \A d \in 1 .. HistSize : At(d) = Before(flat, d)
    BY DEF Whole, Before
  <1>2. Holds(hist, rail, flat) <=> \A k \in HistCell : By(k) = Before(flat, HistSize - k)
    BY DEF Holds
  <1>3. ASSUME NEW k \in HistCell
        PROVE  HistSize - k \in 1 .. HistSize /\ By(k) = At(HistSize - k)
    <2>1. rail + k = rail - (HistSize - k) + HistSize
      BY Sizes DEF HistCell
    <2>2. QED
      BY <2>1, Sizes DEF HistCell
  <1>4. ASSUME NEW d \in 1 .. HistSize
        PROVE  HistSize - d \in HistCell /\ HistSize - (HistSize - d) = d
    BY Sizes DEF HistCell
  <1> HIDE DEF At, By
  <1>5. QED
    BY <1>1, <1>2, <1>3, <1>4

\* The line that is entered, as the ring takes it: the older ones that stay are the
\* most that fit.
Replaces(old, s, new, r) ==
    /\ r \in 0 .. Len(old) /\ Len(new) = r + Len(s) + 1 /\ Len(new) <= HistSize
    /\ \A k \in 1 .. r : new[k] = old[Len(old) - r + k]
    /\ \A k \in 1 .. Len(s) : new[r + k] = s[k]
    /\ new[r + Len(s) + 1] = NUL
    /\ r < Len(old) => old[Len(old) - r] = NUL
    /\ Len(old) + Len(s) + 1 <= HistSize => r = Len(old)
    /\ \A p \in 1 .. Len(old) :
          old[p] = NUL /\ (Len(old) - p) + Len(s) + 1 <= HistSize => Len(old) - p <= r

LEMMA EraseStops ==
    ASSUME NEW n \in 1 .. HistSize - 1, cmd_hrail \in HistCell
    PROVE  /\ ErasedTo(n) \in n .. HistSize
           /\ ErasedTo(n) < HistSize =>
                 cmd_history[(cmd_hrail + ErasedTo(n)) % HistSize] = NUL
           /\ \A k \in n .. HistSize - 1 :
                 cmd_history[(cmd_hrail + k) % HistSize] = NUL => ErasedTo(n) <= k
  <1> DEFINE Z == {k \in n .. HistSize - 1 :
                      cmd_history[(cmd_hrail + k) % HistSize] = NUL} \cup {HistSize}
  <1>1. Z \subseteq n .. HistSize /\ Z \subseteq Nat /\ Z # {}
    BY Sizes
  <1>2. ErasedTo(n) = Min(Z)
    BY DEF ErasedTo
  <1>3. ErasedTo(n) \in Z /\ \A k \in Z : ErasedTo(n) <= k
    BY <1>1, <1>2, LeastOf
  <1>4. \A k \in Z : k # HistSize => cmd_history[(cmd_hrail + k) % HistSize] = NUL
    OBVIOUS
  <1>5. \A k \in n .. HistSize - 1 :
           cmd_history[(cmd_hrail + k) % HistSize] = NUL => k \in Z
    OBVIOUS
  <1> HIDE DEF Z
  <1>6. ErasedTo(n) \in n .. HistSize
    BY <1>1, <1>3
  <1>7. QED
    BY <1>3, <1>4, <1>5, <1>6, Sizes
\* cmd_SetHistory as a step of a ring: s is written at the rail, and the rest of what
\* it has run into erased up to a place stop.
Takes(hist, rail, s, stop, hist2) ==
    /\ stop \in Len(s) .. HistSize
    /\ stop < HistSize => hist[(rail + stop) % HistSize] = NUL
    /\ \A k \in Len(s) .. HistSize - 1 : hist[(rail + k) % HistSize] = NUL => stop <= k
    /\ \A p \in HistCell :
          hist2[p] = LET place == (p - rail + HistSize) % HistSize
                     IN  IF place < Len(s) THEN s[place + 1]
                         ELSE IF place < stop THEN NUL ELSE hist[p]

\* The ring takes a line: the bytes of the oldest lines are gone, those that are cut too.
LEMMA RingTakes ==
    ASSUME NEW hist, NEW rail \in HistCell, NEW hist2, NEW stop, NEW s \in Entered,
           NEW old, Len(old) \in Nat, NEW new, Len(new) \in Nat, NEW r,
           Holds(hist, rail, old), Replaces(old, s, new, r), Takes(hist, rail, s, stop, hist2)
    PROVE  Holds(hist2, Wrapped(rail + (Len(s) + 1)), new)
  <1>1. PICK n \in Nat : n = Len(s) /\ n >= 1 /\ n + 1 \in HistCell
    BY EnteredIs, Sizes DEF HistCell
  <1>2. PICK l \in Nat : l = Len(old)
    OBVIOUS
  <1>3. /\ r \in 0 .. l /\ Len(new) = r + n + 1 /\ r + n + 1 <= HistSize
        /\ \A k \in 1 .. r : new[k] = old[l - r + k]
        /\ \A k \in 1 .. n : new[r + k] = s[k]
        /\ new[r + n + 1] = NUL
        /\ r < l => old[l - r] = NUL
        /\ l + n + 1 <= HistSize => r = l
        /\ \A p \in 1 .. l : old[p] = NUL /\ (l - p) + n + 1 <= HistSize => l - p <= r
    BY <1>1, <1>2 DEF Replaces
  <1>4. r \in Nat /\ r <= l /\ r + n + 1 <= HistSize
    <2>1. r \in 0 .. l /\ r + n + 1 <= HistSize
      BY <1>3, Zenon
    <2>2. QED
      BY <2>1
  <1>5. \A d : Before(old, d) = IF d <= l THEN old[l + 1 - d] ELSE NUL
    BY <1>2 DEF Before
  <1>6. \A d : Before(new, d) = IF d <= r + n + 1 THEN new[(r + n + 1) + 1 - d] ELSE NUL
    BY <1>3 DEF Before
  <1>7. \A k \in HistCell : hist[(rail + k) % HistSize] = Before(old, HistSize - k)
    BY DEF Holds
  <1>8. /\ stop \in n .. HistSize
        /\ stop < HistSize => hist[(rail + stop) % HistSize] = NUL
        /\ \A k \in n .. HistSize - 1 : hist[(rail + k) % HistSize] = NUL => stop <= k
    BY <1>1 DEF Takes
  <1>9. HistSize \in Nat /\ HistSize > 0
    BY Sizes
  <1>10. SUFFICES ASSUME NEW k \in HistCell
                 PROVE  hist2[(Wrapped(rail + (n + 1)) + k) % HistSize] = Before(new, HistSize - k)
    BY <1>1 DEF Holds
  <1>11. PICK q \in HistCell : q = Wrapped((n + 1) + k)
    BY <1>1, FromNextRail
  <1>12. hist2[(Wrapped(rail + (n + 1)) + k) % HistSize] =
            IF q < n THEN s[q + 1] ELSE IF q < stop THEN NUL ELSE Before(old, HistSize - q)
    <2> DEFINE next == Wrapped(rail + (n + 1))
               p    == Wrapped(next + k)
    <2>1. next \in HistCell /\ p \in HistCell /\ Wrapped(p - rail + HistSize) = q
      BY <1>1, <1>11, FromNextRail
    <2>2. (next + k) % HistSize = p
      <3>1. next + k \in 0 .. 2 * HistSize - 1
        BY <1>9, <2>1 DEF HistCell
      <3>2. QED
        BY <3>1, WrapsAround
    <2> HIDE DEF next, p
    <2>3. (p - rail + HistSize) % HistSize = q /\ (rail + q) % HistSize = p
      BY <2>1, FromRail
    <2>4. hist[p] = Before(old, HistSize - q)
      BY <1>7, <2>3
    <2>5. hist2[p] = IF q < n THEN s[q + 1] ELSE IF q < stop THEN NUL ELSE hist[p]
      BY <1>1, <2>1, <2>3, Zenon DEF Takes
    <2>6. QED
      BY <2>2, <2>4, <2>5 DEF next
  <1>13. /\ k \in Nat /\ q \in Nat /\ k < HistSize /\ q < HistSize
         /\ q = IF n + 1 + k < HistSize THEN n + 1 + k ELSE n + 1 + k - HistSize
    BY <1>1, <1>9, <1>11 DEF HistCell, Wrapped
  <1>14. CASE HistSize <= n + 1 + k
    <2>1. q <= n /\ HistSize - k = n + 1 - q
      BY <1>9, <1>13, <1>14
    <2>2. CASE q < n
      <3>1. q + 1 \in 1 .. n /\ n + 1 - q <= r + n + 1 /\ (r + n + 1) + 1 - (n + 1 - q) = r + (q + 1)
        BY <1>4, <1>13, <2>2, SMTT(20)
      <3>2. Before(new, HistSize - k) = s[q + 1]
        BY <1>3, <1>6, <2>1, <3>1
      <3>3. QED
        BY <1>12, <2>2, <3>2
    <2>3. CASE q = n
      <3>1. HistSize - k = 1 /\ (r + n + 1) + 1 - 1 = r + n + 1 /\ 1 <= r + n + 1
        BY <1>3, <2>1, <2>3
      <3>2. Before(new, HistSize - k) = NUL
        BY <1>3, <1>6, <3>1
      <3>3. ~(q < stop) => Before(old, HistSize - q) = NUL
        <4>1. SUFFICES ASSUME ~(q < stop) PROVE Before(old, HistSize - q) = NUL
          OBVIOUS
        <4>2. stop = q /\ stop < HistSize
          BY <1>8, <1>13, <2>3, <4>1
        <4>3. QED
          BY <1>7, <1>8, <4>2
      <3>4. ~(q < n)
        BY <2>3
      <3>5. QED
        BY <1>12, <3>2, <3>3, <3>4
    <2>4. QED
      BY <1>13, <2>1, <2>2, <2>3
  <1>15. CASE n + 1 + k < HistSize
    <2> DEFINE e == HistSize - q
    <2>1. /\ q = n + 1 + k /\ ~(q < n) /\ q \in n .. HistSize - 1
          /\ e \in Nat /\ e >= 1 /\ HistSize - k = e + n + 1
      BY <1>9, <1>13, <1>15
    <2>2. CASE e <= r
      <3> DEFINE j == HistSize - (r + 1)
      <3>1. j \in HistCell /\ j \in n .. HistSize - 1 /\ HistSize - j = r + 1 /\ j < q
        BY <1>3, <1>9, <2>1, <2>2 DEF HistCell
      <3> HIDE DEF j
      <3>2. hist[(rail + j) % HistSize] = NUL
        <4>1. Before(old, r + 1) = NUL
          <5>1. r + 1 <= l => r < l /\ l + 1 - (r + 1) = l - r
            BY <1>4
          <5>2. r < l => old[l - r] = NUL
            BY <1>3, Zenon
          <5>3. QED
            BY <1>5, <5>1, <5>2
        <4>2. QED
          BY <1>7, <3>1, <4>1
      <3>3. ~(q < stop)
        BY <1>8, <3>1, <3>2, <2>1
      <3>4. /\ e + n + 1 <= r + n + 1 /\ (r + n + 1) + 1 - (e + n + 1) = r + 1 - e
            /\ r + 1 - e \in 1 .. r /\ l - r + (r + 1 - e) = l + 1 - e /\ e <= l
        BY <1>4, <2>1, <2>2, SMTT(20)
      <3> HIDE DEF e
      <3>5. Before(new, HistSize - k) = new[r + 1 - e]
        BY <1>6, <2>1, <3>4
      <3>6. new[r + 1 - e] = old[l + 1 - e]
        BY <1>3, <3>4
      <3>7. Before(old, e) = old[l + 1 - e]
        BY <1>5, <3>4
      <3>8. QED
        BY <1>12, <2>1, <3>3, <3>5, <3>6, <3>7 DEF e
    <2>3. CASE r < e
      <3>1. Before(new, HistSize - k) = NUL
        <4>1. ~(e + n + 1 <= r + n + 1)
          BY <1>3, <2>1, <2>3
        <4>2. QED
          BY <1>6, <2>1, <4>1
      <3>2. ~(q < stop) => Before(old, e) = NUL
        <4>1. SUFFICES ASSUME ~(q < stop), e <= l PROVE Before(old, e) = NUL
          BY <1>5, <2>1
        <4> DEFINE g == HistSize - stop
        <4>2. /\ stop <= q /\ stop \in HistCell /\ stop < HistSize
              /\ g \in Nat /\ e <= g /\ g >= 1 /\ g + n <= HistSize
          BY <1>8, <1>9, <2>1, <4>1 DEF HistCell
        <4>3. Before(old, g) = NUL
          BY <1>7, <1>8, <4>2
        <4> HIDE DEF g
        <4>4. CASE g <= l
          <5>1. l + 1 - g \in 1 .. l /\ l - (l + 1 - g) = g - 1 /\ (g - 1) + n + 1 <= HistSize
            BY <4>2, <4>4
          <5>2. old[l + 1 - g] = NUL
            BY <1>5, <4>3, <4>4
          <5>3. g - 1 <= r
            BY <1>3, <5>1, <5>2
          <5>4. g = e
            BY <1>4, <2>1, <2>3, <4>2, <5>3
          <5>5. QED
            BY <4>3, <5>4
        <4>5. CASE l < g
          <5>1. l + n + 1 <= HistSize
            BY <1>9, <4>2, <4>5
          <5>2. QED
            BY <1>3, <2>1, <2>3, <4>1, <5>1
        <4>6. QED
          BY <4>2, <4>4, <4>5
      <3>3. QED
        BY <1>12, <2>1, <3>1, <3>2
    <2>4. QED
      BY <1>3, <2>1, <2>2, <2>3
  <1>16. QED
    BY <1>9, <1>13, <1>14, <1>15
\* What is kept of the lines when one more is entered.
FromWhere(all) == Min({i \in DOMAIN all : Len(Flat(LastLines(all, i))) <= HistSize})

\* The lines that are kept then are the latest that fit.
LEMMA KeptTakes ==
    ASSUME NEW lines \in Seq(Entered), NEW s \in Entered, NEW all, all = Append(lines, s)
    PROVE  /\ FromWhere(all) \in 1 .. Len(lines) + 1
           /\ LastLines(all, FromWhere(all)) \in Seq(Entered)
           /\ \E r : Replaces(Flat(lines), s, Flat(LastLines(all, FromWhere(all))), r)
  <1>1. PICK m \in Nat : m = Len(lines)
    BY LenProperties
  <1>2. PICK l \in Nat : l = Len(Flat(lines))
    BY FlatType
  <1>3. PICK n \in Nat : n = Len(s) /\ n >= 1 /\ n + 1 <= HistSize
    BY EnteredIs, Sizes
  <1>4. /\ all \in Seq(Entered) /\ Len(all) = m + 1 /\ DOMAIN all = 1 .. m + 1
        /\ all[m + 1] = s /\ Flat(all) = Flat(lines) \o Append(s, NUL)
    <2>1. all \in Seq(Entered) /\ Flat(all) = Flat(lines) \o Append(s, NUL)
      BY FlatAppend
    <2>2. Len(all) = m + 1 /\ all[m + 1] = s
      BY <1>1, AppendProperties
    <2>3. QED
      BY <2>1, <2>2, LenProperties
  <1>5. /\ Len(Flat(all)) = l + n + 1
        /\ \A k \in 1 .. l : Flat(all)[k] = Flat(lines)[k]
        /\ \A k \in 1 .. n : Flat(all)[l + k] = s[k]
        /\ Flat(all)[l + n + 1] = NUL
    <2> DEFINE f == Flat(lines)
               z == Append(s, NUL)
    <2>1. /\ f \in Seq(Char) /\ Len(f) = l
          /\ z \in Seq(Char) /\ Len(z) = n + 1 /\ z[n + 1] = NUL
          /\ \A k \in 1 .. n : z[k] = s[k]
      BY <1>2, <1>3, FlatType, ZeroBehind
    <2> HIDE DEF f, z
    <2>2. /\ Len(f \o z) = Len(f) + Len(z)
          /\ \A k \in 1 .. Len(f) + Len(z) :
                (f \o z)[k] = IF k <= Len(f) THEN f[k] ELSE z[k - Len(f)]
      BY <2>1, ConcatProperties
    <2>3. /\ Len(f \o z) = l + n + 1
          /\ \A k \in 1 .. l + n + 1 : (f \o z)[k] = IF k <= l THEN f[k] ELSE z[k - l]
      BY <2>1, <2>2
    <2>4. \A k \in 1 .. l : (f \o z)[k] = f[k]
      BY <2>3
    <2>5. ASSUME NEW k \in 1 .. n + 1
          PROVE  (f \o z)[l + k] = z[k]
      <3>1. l + k \in 1 .. l + n + 1 /\ ~(l + k <= l) /\ (l + k) - l = k
        OBVIOUS
      <3>2. QED
        BY <2>3, <3>1
    <2>6. \A k \in 1 .. n : (f \o z)[l + k] = s[k]
      BY <2>1, <2>5
    <2>7. (f \o z)[l + n + 1] = NUL
      <3>1. n + 1 \in 1 .. n + 1 /\ l + (n + 1) = l + n + 1
        OBVIOUS
      <3>2. QED
        BY <2>1, <2>5, <3>1
    <2>8. QED
      BY <1>4, <2>3, <2>4, <2>6, <2>7 DEF f, z
  <1>6. /\ \A i \in 0 .. m + 1 : Border(all, i) \in Nat
        /\ \A i \in 0 .. m + 1 : \A j \in i .. m + 1 : Border(all, i) <= Border(all, j)
    BY <1>4, LinesSplit, BordersGrow
  <1>7. Border(all, 0) = 0 /\ Border(all, m) = l /\ Border(all, m + 1) = l + n + 1
    <2>1. m + 1 \in 1 .. Len(all) /\ (m + 1) - 1 = m /\ m \in 0 .. m + 1
      BY <1>4
    <2>2. Border(all, m + 1) = Border(all, m) + n + 1
      BY <1>3, <1>4, <2>1, FirstLinesMore
    <2>3. Border(all, 0) = 0 /\ Border(all, m + 1) = l + n + 1
      BY <1>4, <1>5, NoLines
    <2>4. QED
      BY <1>6, <2>1, <2>2, <2>3
  <1>8. ASSUME NEW i \in 1 .. m + 1
        PROVE  Len(Flat(LastLines(all, i))) = (l + n + 1) - Border(all, i - 1)
    <2>1. i - 1 \in 0 .. Len(all) /\ (i - 1) + 1 = i
      BY <1>4
    <2>2. Len(Flat(LastLines(all, (i - 1) + 1))) = Len(Flat(all)) - Border(all, i - 1)
      BY <1>4, <2>1, LastLinesAt
    <2>3. QED
      BY <1>5, <2>1, <2>2
  <1> DEFINE W == {i \in DOMAIN all : Len(Flat(LastLines(all, i))) <= HistSize}
  <1>9. \A i : i \in W <=> i \in 1 .. m + 1 /\ (l + n + 1) - Border(all, i - 1) <= HistSize
    BY <1>4, <1>8
  <1> HIDE DEF W
  <1>10. W \subseteq Nat /\ m + 1 \in W
    <2>1. m + 1 \in 1 .. m + 1 /\ (m + 1) - 1 = m /\ (l + n + 1) - l <= HistSize
      BY <1>3, Sizes
    <2>2. m + 1 \in W
      <3>1. (l + n + 1) - Border(all, (m + 1) - 1) <= HistSize
        BY <1>7, <2>1
      <3>2. QED
        BY <1>9, <2>1, <3>1
    <2>3. W \subseteq Nat
      BY <1>9
    <2>4. QED
      BY <2>2, <2>3
  <1>11. PICK i \in 1 .. m + 1 : i = FromWhere(all) /\ i \in W /\ \A j \in W : i <= j
    <2>1. FromWhere(all) = Min(W)
      BY DEF FromWhere, W
    <2>2. Min(W) \in W /\ \A j \in W : Min(W) <= j
      BY <1>10, LeastOf
    <2>3. QED
      BY <1>9, <2>1, <2>2
  <1>12. PICK c \in Nat : c = Border(all, i - 1) /\ c <= l
    <2>1. i - 1 \in 0 .. m + 1 /\ m \in i - 1 .. m + 1
      OBVIOUS
    <2>2. QED
      BY <1>6, <1>7, <2>1
  <1>13. PICK r \in Nat : r = l - c /\ c + r = l /\ r \in 0 .. l
    <2>1. l - c \in Nat /\ c + (l - c) = l /\ l - c \in 0 .. l
      BY <1>12
    <2>2. QED
      BY <2>1
  <1> DEFINE new == Flat(LastLines(all, i))
  <1>14. LastLines(all, i) \in Seq(Entered)
    <2>1. i - 1 \in 0 .. Len(all) /\ (i - 1) + 1 = i
      BY <1>4
    <2>2. LastLines(all, (i - 1) + 1) \in Seq(Entered)
      BY <1>4, <2>1, LinesSplit
    <2>3. QED
      BY <2>1, <2>2
  <1>15. /\ Len(new) = r + n + 1
         /\ \A k \in 1 .. r + n + 1 : new[k] = Flat(all)[c + k]
    <2>1. i - 1 \in 0 .. Len(all) /\ (i - 1) + 1 = i
      BY <1>4
    <2>2. \A k \in 1 .. Len(Flat(LastLines(all, (i - 1) + 1))) :
             Flat(LastLines(all, (i - 1) + 1))[k] = Flat(all)[Border(all, i - 1) + k]
      BY <1>4, <2>1, LastLinesAt
    <2>3. Len(new) = r + n + 1
      <3>1. Len(new) = (l + n + 1) - c
        BY <1>8, <1>12
      <3>2. (l + n + 1) - c = r + n + 1
        BY <1>13
      <3>3. QED
        BY <3>1, <3>2
    <2> DEFINE x == (i - 1) + 1
               b == Border(all, i - 1)
    <2>4. x = i /\ b = c
      BY <1>12, <2>1
    <2>5. \A k \in 1 .. Len(Flat(LastLines(all, x))) : Flat(LastLines(all, x))[k] = Flat(all)[b + k]
      BY <2>2
    <2> HIDE DEF x, b
    <2>6. \A k \in 1 .. Len(new) : new[k] = Flat(all)[c + k]
      BY <2>4, <2>5
    <2>7. QED
      BY <2>3, <2>6
  <1> HIDE DEF new
  <1>16. r \in 0 .. l /\ r + n + 1 <= HistSize
    <2>1. (l + n + 1) - c <= HistSize
      BY <1>9, <1>11, <1>12
    <2>2. QED
      BY <1>13, <2>1, Sizes
  <1>17. ASSUME NEW k \in 1 .. r
         PROVE  new[k] = Flat(lines)[l - r + k]
    <2>1. k \in 1 .. r + n + 1 /\ c + k \in 1 .. l /\ l - r + k = c + k
      BY <1>13
    <2>2. QED
      BY <1>5, <1>15, <2>1
  <1>18. ASSUME NEW k \in 1 .. n
         PROVE  new[r + k] = s[k]
    <2>1. r + k \in 1 .. r + n + 1 /\ c + (r + k) = l + k
      BY <1>13
    <2>2. QED
      BY <1>5, <1>15, <2>1
  <1>19. new[r + n + 1] = NUL
    <2>1. r + n + 1 \in 1 .. r + n + 1 /\ c + (r + n + 1) = l + n + 1
      BY <1>13
    <2>2. QED
      BY <1>5, <1>15, <2>1
  <1>20. r < l => Flat(lines)[l - r] = NUL
    <2>1. SUFFICES ASSUME r < l PROVE Flat(lines)[l - r] = NUL
      OBVIOUS
    <2>2. l - r = c /\ c # 0 /\ c \in 1 .. l
      BY <1>13, <2>1
    <2>3. i - 1 \in 1 .. Len(all)
      <3>1. i - 1 # 0
        BY <1>7, <1>12, <2>2
      <3>2. QED
        BY <1>4, <3>1
    <2>4. Flat(all)[Border(all, i - 1)] = NUL
      BY <1>4, <2>3, LineAt
    <2>5. QED
      BY <1>5, <1>12, <2>2, <2>4
  <1>21. l + n + 1 <= HistSize => r = l
    <2>1. SUFFICES ASSUME l + n + 1 <= HistSize PROVE r = l
      OBVIOUS
    <2>2. 1 \in 1 .. m + 1 /\ 1 - 1 = 0 /\ (l + n + 1) - 0 <= HistSize
      BY <2>1
    <2>3. 1 \in W
      BY <1>7, <1>9, <2>2
    <2>4. i = 1
      BY <1>11, <2>3
    <2>5. c = 0
      BY <1>7, <1>12, <2>2, <2>4
    <2>6. QED
      BY <1>13, <2>5
  <1>22. ASSUME NEW p \in 1 .. l, Flat(lines)[p] = NUL, (l - p) + n + 1 <= HistSize
         PROVE  l - p <= r
    <2>1. p \in 1 .. Len(Flat(all)) /\ Flat(all)[p] = NUL
      BY <1>5, <1>22
    <2>2. PICK j \in 1 .. m + 1 : p = Border(all, j)
      BY <1>4, <2>1, BorderAt
    <2>3. j # m + 1
      BY <1>7, <2>2
    <2>4. j + 1 \in 1 .. m + 1 /\ (j + 1) - 1 = j /\ (l + n + 1) - p <= HistSize
      BY <1>22, <2>3
    <2>5. j + 1 \in W
      BY <1>9, <2>2, <2>4
    <2>6. i - 1 \in 0 .. m + 1 /\ j \in i - 1 .. m + 1
      BY <1>11, <2>5
    <2>7. c <= p
      BY <1>6, <1>12, <2>2, <2>6
    <2>8. QED
      BY <1>13, <2>7
  <1>23. Replaces(Flat(lines), s, new, r)
    BY <1>2, <1>3, <1>15, <1>16, <1>17, <1>18, <1>19, <1>20, <1>21, <1>22 DEF Replaces
  <1>24. QED
    BY <1>1, <1>11, <1>14, <1>23 DEF new
-----------------------------------------------------------------------------
\* The zero that ends a buffer.
LEMMA TextLenIs ==
    ASSUME NEW b
    PROVE  /\ TextLen(b) \in 0 .. LenCmd
           /\ \A i \in Cell : i < TextLen(b) => b[i] # NUL
           /\ TextLen(b) < LenCmd => TextLen(b) \in Cell /\ b[TextLen(b)] = NUL
           /\ \A i \in Cell : b[i] = NUL => TextLen(b) <= i
  <1> DEFINE Z == {i \in Cell : b[i] = NUL} \cup {LenCmd}
  <1>1. Z \subseteq 0 .. LenCmd /\ Z \subseteq Nat /\ Z # {}
    BY Sizes DEF Cell
  <1>2. TextLen(b) = Min(Z)
    BY DEF TextLen
  <1>3. TextLen(b) \in Z /\ \A k \in Z : TextLen(b) <= k
    BY <1>1, <1>2, LeastOf
  <1>4. \A i : i \in Z <=> (i \in Cell /\ b[i] = NUL) \/ i = LenCmd
    OBVIOUS
  <1> HIDE DEF Z
  <1>5. TextLen(b) \in 0 .. LenCmd
    BY <1>1, <1>3
  <1>6. \A i \in Cell : b[i] = NUL => TextLen(b) <= i
    BY <1>3, <1>4
  <1>7. \A i \in Cell : i < TextLen(b) => b[i] # NUL
    BY <1>5, <1>6, Sizes DEF Cell
  <1>8. TextLen(b) < LenCmd => TextLen(b) \in Cell /\ b[TextLen(b)] = NUL
    BY <1>3, <1>4, <1>5, Sizes
  <1>9. QED
    BY <1>5, <1>6, <1>7, <1>8

LEMMA TextLenOf ==
    ASSUME NEW b, NEW n \in Cell, b[n] = NUL, \A i \in Cell : i < n => b[i] # NUL
    PROVE  TextLen(b) = n
  <1>1. TextLen(b) <= n /\ TextLen(b) \in 0 .. LenCmd /\ n \in Nat
    BY TextLenIs, Sizes DEF Cell
  <1>2. ~(TextLen(b) < n)
    <2>1. SUFFICES ASSUME TextLen(b) < n PROVE FALSE
      OBVIOUS
    <2>2. TextLen(b) < LenCmd
      <3>1. n < LenCmd
        BY Sizes DEF Cell
      <3>2. QED
        BY <1>1, <2>1, <3>1, Sizes
    <2>3. TextLen(b) \in Cell /\ b[TextLen(b)] = NUL
      BY <2>2, TextLenIs
    <2>4. QED
      BY <2>1, <2>3
  <1>3. QED
    BY <1>1, <1>2

\* The text of a buffer that is not full.
LEMMA TextIs ==
    ASSUME NEW b \in [Cell -> Char], TextLen(b) < LenCmd
    PROVE  /\ Text(b) \in EditLine /\ Len(Text(b)) = TextLen(b)
           /\ \A k \in 1 .. TextLen(b) : Text(b)[k] = b[k - 1]
           /\ TextLen(b) # 0 => Text(b) \in Entered
  <1>1. PICK n \in 0 .. LenCmd - 1 : n = TextLen(b)
    BY TextLenIs, Sizes
  <1>2. Text(b) = [k \in 1 .. n |-> b[k - 1]]
    BY <1>1 DEF Text
  <1>3. \A k \in 1 .. n : b[k - 1] \in Char \ {NUL}
    <2>1. SUFFICES ASSUME NEW k \in 1 .. n PROVE b[k - 1] \in Char \ {NUL}
      OBVIOUS
    <2>2. k - 1 \in Cell /\ k - 1 < n
      BY Sizes DEF Cell
    <2>3. b[k - 1] # NUL
      BY <1>1, <2>2, TextLenIs
    <2>4. QED
      BY <2>2, <2>3
  <1>4. Text(b) \in [1 .. n -> Char \ {NUL}]
    BY <1>2, <1>3
  <1>5. Text(b) \in EditLine /\ n \in Nat
    BY <1>4, Sizes DEF EditLine
  <1>6. Len(Text(b)) = n
    BY <1>4, <1>5
  <1>7. n # 0 => Text(b) # <<>>
    BY <1>6, EmptySeq
  <1>8. QED
    BY <1>1, <1>2, <1>5, <1>6, <1>7 DEF Entered

LEMMA EditLineIs ==
    ASSUME NEW s \in EditLine
    PROVE  /\ s \in Seq(Char \ {NUL}) /\ Len(s) \in 0 .. LenCmd - 1 /\ Len(s) \in Nat
           /\ \A k \in 1 .. Len(s) : s[k] \in Char \ {NUL}
           /\ DOMAIN s = 1 .. Len(s)
  <1>1. PICK n \in 0 .. LenCmd - 1 : s \in [1 .. n -> Char \ {NUL}]
    BY DEF EditLine
  <1>2. n \in Nat /\ s \in Seq(Char \ {NUL}) /\ Len(s) = n
    BY <1>1, Sizes
  <1>3. QED
    BY <1>1, <1>2

LEMMA SeqIsEditLine ==
    ASSUME NEW s \in Seq(Char \ {NUL}), Len(s) \in 0 .. LenCmd - 1
    PROVE  s \in EditLine
  <1>1. s \in [1 .. Len(s) -> Char \ {NUL}]
    BY LenProperties
  <1>2. QED
    BY <1>1 DEF EditLine

\* A buffer that a line has been copied to.
LEMMA BufferedIs ==
    ASSUME NEW s \in Seq(Char)
    PROVE  /\ Buffered(s) \in [Cell -> Char]
           /\ \A i \in Cell : Buffered(s)[i] = IF i < Len(s) THEN s[i + 1] ELSE NUL
  <1>1. ASSUME NEW i \in Cell
        PROVE  (IF i < Len(s) THEN s[i + 1] ELSE NUL) \in Char
    <2>1. NUL \in Char
      BY DEF Char
    <2>2. Len(s) \in Nat /\ i \in Nat
      BY LenProperties, Sizes DEF Cell
    <2>3. CASE i < Len(s)
      <3>1. i + 1 \in 1 .. Len(s)
        BY <2>2, <2>3
      <3>2. s[i + 1] \in Char
        BY <3>1, ElementOfSeq
      <3>3. QED
        BY <2>3, <3>2
    <2>4. CASE ~(i < Len(s))
      BY <2>1, <2>4
    <2>5. QED
      BY <2>3, <2>4
  <1>2. QED
    BY <1>1 DEF Buffered

LEMMA BufferedLine ==
    ASSUME NEW s \in EditLine
    PROVE  TextLen(Buffered(s)) = Len(s) /\ Text(Buffered(s)) = s
  <1>1. /\ s \in Seq(Char) /\ Len(s) \in Cell /\ Len(s) \in Nat
        /\ \A k \in 1 .. Len(s) : s[k] # NUL
        /\ DOMAIN s = 1 .. Len(s)
    <2>1. s \in Seq(Char)
      BY EditLineIs, SeqMonotonic
    <2>2. QED
      BY <2>1, EditLineIs DEF Cell
  <1>2. \A i \in Cell : Buffered(s)[i] = IF i < Len(s) THEN s[i + 1] ELSE NUL
    BY <1>1, BufferedIs
  <1>3. ASSUME NEW i \in Cell, i < Len(s)
        PROVE  Buffered(s)[i] # NUL
    <2>1. i + 1 \in 1 .. Len(s)
      BY <1>1, <1>3, Sizes DEF Cell
    <2>2. QED
      BY <1>1, <1>2, <1>3, <2>1
  <1>4. TextLen(Buffered(s)) = Len(s)
    BY <1>1, <1>2, <1>3, TextLenOf
  <1>5. \A k \in 1 .. Len(s) : Buffered(s)[k - 1] = s[k]
    <2>1. SUFFICES ASSUME NEW k \in 1 .. Len(s) PROVE Buffered(s)[k - 1] = s[k]
      OBVIOUS
    <2>2. k - 1 \in Cell /\ k - 1 < Len(s) /\ (k - 1) + 1 = k
      BY <1>1, Sizes DEF Cell
    <2>3. QED
      BY <1>2, <2>2
  <1>6. s = [k \in 1 .. Len(s) |-> s[k]]
    BY <1>1, EditLineIs, LenProperties
  <1>7. Text(Buffered(s)) = [k \in 1 .. Len(s) |-> s[k]]
    BY <1>4, <1>5 DEF Text
  <1>8. QED
    BY <1>4, <1>6, <1>7
\* The invariant of the history: what is kept, and that the ring holds it.
HistoryInv ==
    /\ cmd_hrail \in HistCell
    /\ kept \in Seq(Entered) /\ kept # <<>>
    /\ Len(Flat(kept)) <= HistSize
    /\ HistoryIsWhole

\* A line goes to the history.
LEMMA SetHistory ==
    ASSUME HistoryInv, NEW s \in Entered, cmd_SetHistory(s),
           LET all == Append(kept, s) IN kept' = LastLines(all, FromWhere(all))
    PROVE  HistoryInv'
  <1> DEFINE all == Append(kept, s)
             new == LastLines(all, FromWhere(all))
  <1>1. /\ cmd_hrail \in HistCell /\ kept \in Seq(Entered)
        /\ Holds(cmd_history, cmd_hrail, Flat(kept))
    <2>1. Whole(cmd_history, cmd_hrail, Flat(kept))
      BY DEF HistoryInv, HistoryIsWhole, Whole
    <2>2. QED
      BY <2>1, WholeIsHolds DEF HistoryInv
  <1>2. kept' = new
    OBVIOUS
  <1>3. /\ FromWhere(all) \in 1 .. Len(kept) + 1
        /\ new \in Seq(Entered) /\ \E r : Replaces(Flat(kept), s, Flat(new), r)
    BY <1>1, KeptTakes
  <1> HIDE DEF all
  <1>4. PICK r : Replaces(Flat(kept), s, Flat(new), r)
    BY <1>3
  <1>5. /\ Len(Flat(kept)) \in Nat /\ Len(Flat(new)) \in Nat
    BY <1>1, <1>3, FlatType
  <1>6. Len(s) \in 1 .. HistSize - 1 /\ Len(s) + 1 \in HistCell
    BY EnteredIs, Sizes DEF HistCell
  <1> DEFINE stop == ErasedTo(Len(s))
  <1>7. Takes(cmd_history, cmd_hrail, s, stop, cmd_history')
    <2>1. /\ stop \in Len(s) .. HistSize
          /\ stop < HistSize => cmd_history[(cmd_hrail + stop) % HistSize] = NUL
          /\ \A k \in Len(s) .. HistSize - 1 :
                cmd_history[(cmd_hrail + k) % HistSize] = NUL => stop <= k
      BY <1>1, <1>6, EraseStops
    <2>2. \A p \in HistCell :
             cmd_history'[p] = LET place == (p - cmd_hrail + HistSize) % HistSize
                               IN  IF place < Len(s) THEN s[place + 1]
                                   ELSE IF place < stop THEN NUL ELSE cmd_history[p]
      BY DEF cmd_SetHistory
    <2> HIDE DEF stop
    <2>3. QED
      BY <2>1, <2>2 DEF Takes
  <1>8. cmd_hrail' = Wrapped(cmd_hrail + (Len(s) + 1)) /\ cmd_hrail' \in HistCell
    <2>1. cmd_hrail' = (((cmd_hrail + Len(s) - 1) % HistSize) + 2) % HistSize
      BY DEF cmd_SetHistory
    <2>2. cmd_hrail + Len(s) - 1 \in 0 .. 2 * HistSize - 1
      BY <1>1, <1>6, Sizes DEF HistCell
    <2>3. PICK x \in HistCell : /\ x = (cmd_hrail + Len(s) - 1) % HistSize
                                /\ x = Wrapped(cmd_hrail + Len(s) - 1)
      BY <2>2, WrapsAround
    <2>4. x + 2 \in 0 .. 2 * HistSize - 1
      BY Sizes DEF HistCell
    <2>5. (x + 2) % HistSize = Wrapped(x + 2) /\ Wrapped(x + 2) \in HistCell
      BY <2>4, WrapsAround
    <2>6. Wrapped(x + 2) = Wrapped(cmd_hrail + (Len(s) + 1))
      <3>1. x = Wrapped(cmd_hrail + Len(s) - 1)
        BY <2>3
      <3>2. QED
        BY <1>1, <1>6, <3>1, Sizes DEF HistCell, Wrapped
    <2>7. QED
      BY <2>1, <2>3, <2>5, <2>6
  <1>9. Holds(cmd_history', Wrapped(cmd_hrail + (Len(s) + 1)), Flat(new))
    BY <1>1, <1>4, <1>5, <1>7, RingTakes
  <1>10. Holds(cmd_history', cmd_hrail', Flat(kept'))
    BY <1>2, <1>8, <1>9
  <1>11. HistoryIsWhole'
    <2>1. Whole(cmd_history', cmd_hrail', Flat(kept'))
      BY <1>8, <1>10, WholeIsHolds
    <2>2. QED
      BY <2>1 DEF HistoryIsWhole, Whole
  <1>12. Len(Flat(kept')) <= HistSize
    BY <1>2, <1>4 DEF Replaces
  <1>13. kept' # <<>>
    <2>1. Len(Flat(new)) # 0
      BY <1>4, <1>6, <1>5 DEF Replaces
    <2>2. QED
      BY <1>2, <2>1, FlatEmpty, EmptySeq
  <1>14. QED
    BY <1>2, <1>3, <1>8, <1>11, <1>12, <1>13 DEF HistoryInv
-----------------------------------------------------------------------------
\* The ring, unrolled from the rail on: zeros, and then the lines.
Unrolled(flat, x) ==
    IF x < HistSize - Len(flat) THEN NUL ELSE flat[x - (HistSize - Len(flat)) + 1]

\* HistoryIsWhole says so of every byte of the ring.
LEMMA Unrolls ==
    ASSUME HistoryInv, NEW x \in HistCell
    PROVE  /\ Wrapped(cmd_hrail + x) \in HistCell
           /\ cmd_history[Wrapped(cmd_hrail + x)] = Unrolled(Flat(kept), x)
  <1>1. cmd_hrail \in HistCell /\ kept \in Seq(Entered) /\ Len(Flat(kept)) <= HistSize
    BY DEF HistoryInv
  <1>2. PICK l \in Nat : l = Len(Flat(kept))
    BY <1>1, FlatType
  <1>3. Holds(cmd_history, cmd_hrail, Flat(kept))
    <2>1. Whole(cmd_history, cmd_hrail, Flat(kept))
      BY DEF HistoryInv, HistoryIsWhole, Whole
    <2>2. QED
      BY <1>1, <2>1, WholeIsHolds
  <1>4. cmd_history[(cmd_hrail + x) % HistSize] = Before(Flat(kept), HistSize - x)
    BY <1>3 DEF Holds
  <1>5. (cmd_hrail + x) % HistSize = Wrapped(cmd_hrail + x) /\ Wrapped(cmd_hrail + x) \in HistCell
    <2>1. cmd_hrail + x \in 0 .. 2 * HistSize - 1
      BY <1>1, Sizes DEF HistCell
    <2>2. QED
      BY <2>1, WrapsAround
  <1>6. Before(Flat(kept), HistSize - x) = Unrolled(Flat(kept), x)
    <2>1. x \in Nat /\ HistSize \in Nat
      BY Sizes DEF HistCell
    <2>2. HistSize - x <= l <=> ~(x < HistSize - l)
      BY <1>2, <2>1
    <2>3. l + 1 - (HistSize - x) = x - (HistSize - l) + 1
      BY <2>1
    <2>4. QED
      BY <1>2, <2>2, <2>3 DEF Before, Unrolled
  <1>7. QED
    BY <1>4, <1>5, <1>6

\* Around the ring, forwards and backwards.
Circular(x) == IF x < 0 THEN x + HistSize ELSE Wrapped(x)

LEMMA ZeroInWindow ==
    ASSUME NEW lines \in Seq(Entered), lines # <<>>, Len(Flat(lines)) <= HistSize,
           NEW x \in HistCell
    PROVE  \E j \in 0 .. LenCmd - 1 : Unrolled(Flat(lines), Wrapped(x + j)) = NUL
  <1>1. PICK l \in Nat : l = Len(Flat(lines))
    BY FlatType
  <1>2. PICK h \in Nat : h = HistSize /\ h > LenCmd /\ h > 0
    BY Sizes
  <1>3. x \in Nat /\ x < h /\ LenCmd \in Nat /\ LenCmd > 2 /\ l <= h
    BY <1>1, <1>2, Sizes DEF HistCell
  <1>4. CASE x < h - l
    <2>1. Wrapped(x + 0) = x
      BY <1>2, <1>3 DEF Wrapped
    <2>2. 0 \in 0 .. LenCmd - 1 /\ Unrolled(Flat(lines), Wrapped(x + 0)) = NUL
      BY <1>1, <1>2, <1>3, <1>4, <2>1 DEF Unrolled
    <2>3. QED
      BY <2>2
  <1>5. CASE ~(x < h - l)
    <2> DEFINE p == x - (h - l) + 1
    <2>1. p \in 1 .. l /\ p \in Nat
      BY <1>3, <1>5
    <2>2. PICK i \in 1 .. Len(lines) : Border(lines, i - 1) < p /\ p <= Border(lines, i)
      BY <1>1, <2>1, LineOf
    <2>3. /\ lines[i] \in Entered
          /\ Border(lines, i) = Border(lines, i - 1) + Len(lines[i]) + 1
          /\ Border(lines, i) <= l /\ Flat(lines)[Border(lines, i)] = NUL
      BY <1>1, FirstLinesMore, LineAt
    <2>4. PICK c \in Nat : c = Border(lines, i - 1)
      <3>1. i - 1 \in 0 .. Len(lines)
        BY LenProperties
      <3>2. QED
        BY <3>1, LinesSplit
    <2>5. Len(lines[i]) \in Nat /\ Len(lines[i]) <= LenCmd - 1
      BY <2>3, EnteredIs, Sizes
    <2>6. PICK b \in Nat : b = Border(lines, i) /\ p <= b /\ b <= l /\ b - p <= LenCmd - 1
      <3>1. c + Len(lines[i]) + 1 \in Nat /\ (c + Len(lines[i]) + 1) - p <= LenCmd - 1
        BY <2>1, <2>2, <2>4, <2>5, <1>3, SMTT(20)
      <3>2. QED
        BY <2>2, <2>3, <2>4, <3>1
    <2> DEFINE j == b - p
    <2>7. j \in 0 .. LenCmd - 1 /\ x + j = b - 1 + (h - l) /\ x + j < h /\ ~(x + j < h - l)
      BY <1>3, <2>1, <2>6, SMTT(20)
    <2>8. (x + j) - (h - l) + 1 = b
      BY <1>3, <2>1, <2>6
    <2> HIDE DEF j, p
    <2>9. Wrapped(x + j) = x + j
      BY <1>2, <2>7 DEF Wrapped
    <2>10. Unrolled(Flat(lines), x + j) = Flat(lines)[b]
      BY <1>1, <1>2, <2>7, <2>8 DEF Unrolled
    <2>11. QED
      BY <2>3, <2>6, <2>7, <2>9, <2>10
  <1>6. QED
    BY <1>4, <1>5

\* The last line is there, and a zero behind it.
LEMMA LastByte ==
    ASSUME NEW lines \in Seq(Entered), lines # <<>>, Len(Flat(lines)) <= HistSize
    PROVE  /\ Unrolled(Flat(lines), HistSize - 2) # NUL
           /\ Unrolled(Flat(lines), HistSize - 1) = NUL
           /\ Len(Flat(lines)) >= 2
  <1> DEFINE i == Len(lines)
  <1>1. i \in Nat /\ i # 0
    BY LenProperties, EmptySeq
  <1>2. i \in 1 .. i /\ i - 1 \in 0 .. i
    BY <1>1
  <1>3. PICK l \in Nat : l = Len(Flat(lines))
    BY FlatType
  <1>4. /\ lines[i] \in Entered
        /\ l = Border(lines, i - 1) + Len(lines[i]) + 1
        /\ Flat(lines)[l] = NUL
        /\ \A k \in 1 .. Len(lines[i]) : Flat(lines)[Border(lines, i - 1) + k] = lines[i][k]
    BY <1>2, <1>3, FirstLinesMore, LineAt, NoLines
  <1>5. PICK n \in Nat : n = Len(lines[i]) /\ n >= 1 /\ lines[i][n] # NUL
    <2>1. Len(lines[i]) \in 1 .. Len(lines[i]) /\ Len(lines[i]) \in Nat
      BY <1>4, EnteredIs
    <2>2. QED
      BY <1>4, <2>1, EnteredIs
  <1>6. PICK c \in Nat : c = Border(lines, i - 1)
    BY <1>2, LinesSplit
  <1>7. l = c + n + 1 /\ c + n = l - 1 /\ l >= 2
    BY <1>4, <1>5, <1>6
  <1>8. Flat(lines)[l - 1] # NUL
    <2>1. n \in 1 .. n
      BY <1>5
    <2>2. Flat(lines)[c + n] = lines[i][n]
      BY <1>4, <1>5, <1>6, <2>1
    <2>3. QED
      BY <1>5, <1>7, <2>2
  <1>9. HistSize \in Nat /\ l <= HistSize
    BY <1>3, Sizes
  <1>10. /\ ~(HistSize - 2 < HistSize - l) /\ (HistSize - 2) - (HistSize - l) + 1 = l - 1
         /\ ~(HistSize - 1 < HistSize - l) /\ (HistSize - 1) - (HistSize - l) + 1 = l
    BY <1>7, <1>9
  <1>11. QED
    BY <1>3, <1>4, <1>7, <1>8, <1>10 DEF Unrolled
-----------------------------------------------------------------------------
\* The bytes that cmd_GetHistory comes across, and the places they lie at.
PlaceOf(from, dir, k) == IF k = 0 THEN from ELSE (from + dir * k + HistSize) % HistSize

\* The bytes in the order they are read, the first of the line that is found, the end of
\* that line, and the line as it is read.
Bytes(from, dir, beyond) ==
    [k \in HistCell |-> IF PlaceOf(from, dir, k) = HistSize THEN beyond
                        ELSE cmd_history[PlaceOf(from, dir, k)]]

First(by) == Min({k \in HistCell : by[k] # NUL})
Stop(by)  == Min({k \in First(by) .. HistSize - 1 : by[k] = NUL} \cup {HistSize})
Found(by) == [k \in 1 .. Stop(by) - First(by) |-> by[First(by) + k - 1]]

LEMMA SearchEnds ==
    ASSUME NEW by, \E k \in HistCell : by[k] # NUL
    PROVE  /\ First(by) \in HistCell /\ by[First(by)] # NUL
           /\ \A k \in HistCell : k < First(by) => by[k] = NUL
           /\ Stop(by) \in First(by) + 1 .. HistSize
           /\ \A k \in First(by) .. Stop(by) - 1 : by[k] # NUL
           /\ Stop(by) < HistSize => by[Stop(by)] = NUL
  <1> DEFINE F == {k \in HistCell : by[k] # NUL}
             Z == {k \in First(by) .. HistSize - 1 : by[k] = NUL} \cup {HistSize}
  <1>1. F \subseteq Nat /\ F # {}
    BY Sizes DEF HistCell
  <1>2. First(by) \in F /\ \A k \in F : First(by) <= k
    BY <1>1, LeastOf DEF First
  <1>3. First(by) \in HistCell /\ by[First(by)] # NUL
    BY <1>2
  <1>4. ASSUME NEW k \in HistCell, k < First(by)
        PROVE  by[k] = NUL
    <2>1. k \in Nat /\ First(by) \in Nat
      BY <1>3, Sizes DEF HistCell
    <2>2. k \notin F
      BY <1>2, <1>4, <2>1
    <2>3. QED
      BY <2>2
  <1> HIDE DEF F
  <1>5. PICK f \in Nat : f = First(by) /\ f < HistSize
    BY <1>3, Sizes DEF HistCell
  <1>6. Z \subseteq Nat /\ Z # {} /\ Stop(by) = Min(Z)
    BY <1>5, Sizes DEF Stop
  <1>7. Stop(by) \in Z /\ \A k \in Z : Stop(by) <= k
    BY <1>6, LeastOf
  <1>8. \A k : k \in Z <=> (k \in f .. HistSize - 1 /\ by[k] = NUL) \/ k = HistSize
    BY <1>5
  <1> HIDE DEF Z
  <1>9. Stop(by) \in f + 1 .. HistSize
    <2>1. Stop(by) # f
      BY <1>3, <1>5, <1>7, <1>8
    <2>2. Stop(by) \in f .. HistSize - 1 \/ Stop(by) = HistSize
      BY <1>7, <1>8, Zenon
    <2>3. QED
      BY <1>5, <2>1, <2>2, Sizes
  <1>10. Stop(by) < HistSize => by[Stop(by)] = NUL
    <2>1. Stop(by) = HistSize => ~(Stop(by) < HistSize)
      BY Sizes
    <2>2. QED
      BY <1>7, <1>8, <2>1, Zenon
  <1>11. PICK z \in f + 1 .. HistSize : z = Stop(by)
    BY <1>9
  <1>12. ASSUME NEW k \in f .. z - 1
         PROVE  by[k] # NUL
    <2>1. k \in f .. HistSize - 1 /\ ~(z <= k)
      BY Sizes
    <2>2. \A y \in Z : z <= y
      BY <1>7, <1>11, Zenon
    <2>3. k \notin Z
      BY <2>1, <2>2, Zenon
    <2>4. QED
      BY <1>8, <2>1, <2>3, Zenon
  <1>13. QED
    BY <1>3, <1>4, <1>5, <1>10, <1>11, <1>12

LEMMA SearchFinds ==
    ASSUME NEW by, NEW a \in Nat, NEW n \in Nat \ {0}, a + n <= HistSize,
           \A k \in 0 .. a - 1 : by[k] = NUL,
           \A j \in 1 .. n : by[a + j - 1] # NUL,
           a + n < HistSize => by[a + n] = NUL
    PROVE  /\ \E k \in HistCell : by[k] # NUL
           /\ First(by) = a /\ Stop(by) = a + n
           /\ Found(by) = [j \in 1 .. n |-> by[a + j - 1]]
  <1>1. a \in HistCell /\ HistSize \in Nat
    BY Sizes DEF HistCell
  <1>2. by[a] # NUL
    <2>1. 1 \in 1 .. n /\ a + 1 - 1 = a
      OBVIOUS
    <2>2. QED
      BY <2>1
  <1>3. /\ First(by) \in HistCell /\ by[First(by)] # NUL
        /\ \A k \in HistCell : k < First(by) => by[k] = NUL
        /\ Stop(by) \in First(by) + 1 .. HistSize
        /\ \A k \in First(by) .. Stop(by) - 1 : by[k] # NUL
        /\ Stop(by) < HistSize => by[Stop(by)] = NUL
    BY <1>1, <1>2, SearchEnds
  <1>4. First(by) = a
    <2>1. First(by) \in Nat
      BY <1>3, Sizes DEF HistCell
    <2>2. ~(First(by) < a)
      <3>1. First(by) < a => First(by) \in 0 .. a - 1
        BY <2>1
      <3>2. QED
        BY <1>3, <3>1
    <2>3. ~(a < First(by))
      BY <1>1, <1>2, <1>3
    <2>4. QED
      BY <2>1, <2>2, <2>3
  <1>5. Stop(by) = a + n
    <2>1. Stop(by) \in a + 1 .. HistSize /\ Stop(by) \in Nat
      BY <1>1, <1>3, <1>4
    <2>2. ~(Stop(by) < a + n)
      <3>1. SUFFICES ASSUME Stop(by) < a + n PROVE FALSE
        OBVIOUS
      <3> DEFINE j == Stop(by) - a + 1
      <3>2. j \in 1 .. n /\ a + j - 1 = Stop(by) /\ Stop(by) < HistSize
        BY <1>1, <2>1, <3>1
      <3> HIDE DEF j
      <3>3. QED
        BY <1>3, <3>2
    <2>3. ~(a + n < Stop(by))
      <3>1. SUFFICES ASSUME a + n < Stop(by) PROVE FALSE
        OBVIOUS
      <3>2. a + n \in a .. Stop(by) - 1 /\ a + n < HistSize
        BY <1>1, <2>1, <3>1
      <3>3. QED
        BY <1>3, <1>4, <3>2
    <2>4. QED
      BY <2>1, <2>2, <2>3
  <1>6. Found(by) = [j \in 1 .. n |-> by[a + j - 1]]
    <2>1. Stop(by) - First(by) = n
      BY <1>4, <1>5
    <2>2. Found(by) = [j \in 1 .. n |-> by[First(by) + j - 1]]
      BY <2>1 DEF Found
    <2>3. QED
      BY <1>4, <2>2
  <1>7. QED
    BY <1>1, <1>2, <1>4, <1>5, <1>6

\* cmd_GetHistory in these terms.
LEMMA GetHistoryIs ==
    ASSUME NEW from, NEW dir, NEW beyond, NEW by, by = Bytes(from, dir, beyond),
           \E k \in HistCell : by[k] # NUL
    PROVE  cmd_GetHistory(from, dir, beyond) =
               [line |-> IF dir < 0 THEN Reverse(Found(by)) ELSE Found(by),
                pos  |-> PlaceOf(from, dir, Stop(by))]
  <1> DEFINE byte(k) == IF PlaceOf(from, dir, k) = HistSize THEN beyond
                        ELSE cmd_history[PlaceOf(from, dir, k)]
  <1>1. \A k \in HistCell : by[k] = byte(k)
    BY DEF Bytes
  <1> DEFINE first == Min({k \in HistCell : byte(k) # NUL})
             stop  == Min({k \in first .. HistSize - 1 : byte(k) = NUL} \cup {HistSize})
             found == [k \in 1 .. stop - first |-> byte(first + k - 1)]
  <1>2. cmd_GetHistory(from, dir, beyond) =
            [line |-> IF dir < 0 THEN Reverse(found) ELSE found,
             pos  |-> PlaceOf(from, dir, stop)]
    BY Zenon DEF cmd_GetHistory, PlaceOf
  <1> HIDE DEF byte
  <1>3. {k \in HistCell : byte(k) # NUL} = {k \in HistCell : by[k] # NUL}
    BY <1>1
  <1>4. first = First(by)
    BY <1>3 DEF First
  <1> HIDE DEF first
  <1>5. PICK f \in Nat : f = First(by) /\ f \in HistCell
    BY SearchEnds, Sizes DEF HistCell
  <1>6. stop = Stop(by)
    <2>1. \A k \in f .. HistSize - 1 : k \in HistCell
      BY <1>5, Sizes DEF HistCell
    <2>2. {k \in f .. HistSize - 1 : byte(k) = NUL} = {k \in f .. HistSize - 1 : by[k] = NUL}
      BY <1>1, <2>1
    <2>3. QED
      BY <1>4, <1>5, <2>2 DEF Stop
  <1> HIDE DEF stop
  <1>7. found = Found(by)
    <2>1. Stop(by) \in f + 1 .. HistSize
      BY <1>5, SearchEnds
    <2>2. \A k \in 1 .. Stop(by) - f : f + k - 1 \in HistCell
      BY <1>5, <2>1, Sizes DEF HistCell
    <2>3. [k \in 1 .. Stop(by) - f |-> byte(f + k - 1)] = [k \in 1 .. Stop(by) - f |-> by[f + k - 1]]
      BY <1>1, <2>2
    <2>4. QED
      BY <1>4, <1>5, <1>6, <2>3 DEF Found
  <1>8. QED
    BY <1>2, <1>6, <1>7
\* The places in terms of the unrolled ring.  From behind the ring it is entered as
\* if from its start.
Entry(from, off) ==
    \/ from \in HistCell /\ from = Wrapped(cmd_hrail + off)
    \/ from = HistSize /\ cmd_hrail = 0 /\ off = 0

LEMMA PlaceIs ==
    ASSUME NEW dir \in {-1, 1}, NEW off \in HistCell, NEW from, cmd_hrail \in HistCell,
           Entry(from, off), NEW k \in 1 .. HistSize - 1
    PROVE  /\ Circular(off + dir * k) \in HistCell
           /\ PlaceOf(from, dir, k) = Wrapped(cmd_hrail + Circular(off + dir * k))
  <1>1. PICK h \in Nat : h = HistSize /\ h > 2
    BY Sizes
  <1>2. /\ off \in Nat /\ off < h /\ cmd_hrail \in Nat /\ cmd_hrail < h
        /\ k \in Nat /\ k # 0 /\ k < h
    BY <1>1 DEF HistCell
  <1>3. /\ from \in Nat /\ from <= h
        /\ \/ from = (IF cmd_hrail + off < h THEN cmd_hrail + off ELSE cmd_hrail + off - h)
           \/ from = h /\ cmd_hrail = 0 /\ off = 0
    BY <1>1, <1>2 DEF Entry, Wrapped, HistCell
  <1>4. PlaceOf(from, dir, k) = (from + dir * k + h) % h
    BY <1>1, <1>2 DEF PlaceOf
  <1>5. /\ \A a \in Int : 0 <= a /\ a < h => a % h = a
        /\ \A a \in Int : h <= a /\ a < 2 * h => a % h = a - h
        /\ \A a \in Int : 2 * h <= a /\ a < 3 * h => a % h = a - 2 * h
    <2>1. h > 0
      BY <1>1
    <2>2. QED
      BY <2>1, AroundFacts, Zenon
  <1>6. CASE dir = 1
    <2>1. off + dir * k = off + k /\ from + dir * k + h = from + k + h
      BY <1>2, <1>3, <1>6
    <2>2. Circular(off + k) = IF off + k < h THEN off + k ELSE off + k - h
      BY <1>1, <1>2 DEF Circular, Wrapped
    <2>3. (from + k + h) % h = IF from + k < h THEN from + k ELSE from + k - h
      <3>1. from + k + h \in Int /\ h <= from + k + h /\ from + k + h < 3 * h
        BY <1>1, <1>2, <1>3
      <3>2. CASE from + k < h
        <4>1. from + k + h < 2 * h /\ (from + k + h) - h = from + k
          BY <1>2, <1>3, <3>2
        <4>2. QED
          BY <1>5, <3>1, <3>2, <4>1
      <3>3. CASE ~(from + k < h)
        <4>1. 2 * h <= from + k + h /\ (from + k + h) - 2 * h = from + k - h
          BY <1>2, <1>3, <3>3
        <4>2. QED
          BY <1>5, <3>1, <3>3, <4>1
      <3>4. QED
        BY <3>2, <3>3
    <2>4. /\ Circular(off + k) \in HistCell
          /\ (IF from + k < h THEN from + k ELSE from + k - h) = Wrapped(cmd_hrail + Circular(off + k))
      BY <1>1, <1>2, <1>3, <2>2 DEF HistCell, Wrapped
    <2>5. QED
      BY <1>4, <2>1, <2>3, <2>4
  <1>7. CASE dir = -1
    <2>1. off + dir * k = off - k /\ from + dir * k + h = from - k + h
      BY <1>2, <1>3, <1>7
    <2>2. Circular(off - k) = IF off < k THEN off - k + h ELSE off - k
      BY <1>1, <1>2 DEF Circular, Wrapped
    <2>3. (from - k + h) % h = IF from < k THEN from - k + h ELSE from - k
      <3>1. from - k + h \in Int /\ 0 <= from - k + h /\ from - k + h < 2 * h
        BY <1>1, <1>2, <1>3
      <3>2. CASE from < k
        <4>1. from - k + h < h
          BY <1>1, <1>2, <1>3, <3>2
        <4>2. QED
          BY <1>5, <3>1, <3>2, <4>1
      <3>3. CASE ~(from < k)
        <4>1. h <= from - k + h /\ (from - k + h) - h = from - k
          BY <1>2, <1>3, <3>3
        <4>2. QED
          BY <1>5, <3>1, <3>3, <4>1
      <3>4. QED
        BY <3>2, <3>3
    <2>4. /\ Circular(off - k) \in HistCell
          /\ (IF from < k THEN from - k + h ELSE from - k) = Wrapped(cmd_hrail + Circular(off - k))
      BY <1>1, <1>2, <1>3, <2>2 DEF HistCell, Wrapped
    <2>5. QED
      BY <1>4, <2>1, <2>3, <2>4
  <1>8. QED
    BY <1>6, <1>7

LEMMA BytesAre ==
    ASSUME HistoryInv, NEW dir \in {-1, 1}, NEW off \in HistCell, NEW from, Entry(from, off),
           NEW beyond, NEW k \in 1 .. HistSize - 1
    PROVE  /\ k \in HistCell
           /\ Bytes(from, dir, beyond)[k] = Unrolled(Flat(kept), Circular(off + dir * k))
  <1> DEFINE x == Circular(off + dir * k)
             p == PlaceOf(from, dir, k)
  <1>1. x \in HistCell /\ p = Wrapped(cmd_hrail + x)
    BY PlaceIs DEF HistoryInv
  <1> HIDE DEF x, p
  <1>2. p \in HistCell /\ cmd_history[p] = Unrolled(Flat(kept), x)
    BY <1>1, Unrolls
  <1>3. k \in HistCell /\ p # HistSize
    BY <1>2, Sizes DEF HistCell
  <1>4. Bytes(from, dir, beyond)[k] = IF p = HistSize THEN beyond ELSE cmd_history[p]
    BY <1>3 DEF Bytes, p
  <1>5. QED
    BY <1>2, <1>3, <1>4 DEF x

LEMMA FirstByteIs ==
    ASSUME HistoryInv, NEW dir, NEW off \in HistCell, NEW from \in HistCell, Entry(from, off),
           NEW beyond
    PROVE  0 \in HistCell /\ Bytes(from, dir, beyond)[0] = Unrolled(Flat(kept), off)
  <1>1. from = Wrapped(cmd_hrail + off) /\ from # HistSize /\ 0 \in HistCell
    BY Sizes DEF Entry, HistCell
  <1>2. cmd_history[from] = Unrolled(Flat(kept), off)
    BY <1>1, Unrolls
  <1>3. QED
    BY <1>1, <1>2 DEF Bytes, PlaceOf

LEMMA EntryOf ==
    ASSUME cmd_hrail \in HistCell, NEW from \in 0 .. HistSize, from = HistSize => cmd_hrail = 0
    PROVE  \E off \in HistCell : Entry(from, off)
  <1>1. CASE from = HistSize
    <2>1. 0 \in HistCell
      BY Sizes DEF HistCell
    <2>2. QED
      BY <1>1, <2>1 DEF Entry
  <1>2. CASE from # HistSize
    <2>1. from \in HistCell
      BY <1>2, Sizes DEF HistCell
    <2> DEFINE off == Wrapped(from - cmd_hrail + HistSize)
    <2>2. off \in HistCell /\ (cmd_hrail + off) % HistSize = from
      BY <2>1, FromRail
    <2> HIDE DEF off
    <2>3. (cmd_hrail + off) % HistSize = Wrapped(cmd_hrail + off)
      <3>1. cmd_hrail + off \in 0 .. 2 * HistSize - 1
        BY <2>2, Sizes DEF HistCell
      <3>2. QED
        BY <3>1, WrapsAround
    <2>4. QED
      BY <2>1, <2>2, <2>3 DEF Entry
  <1>3. QED
    BY <1>1, <1>2
LEMMA Around ==
    ASSUME NEW a \in Int
    PROVE  a % HistSize \in HistCell
  <1>1. PICK h \in Nat : h = HistSize /\ h > 0
    BY Sizes
  <1>2. a % h \in 0 .. h - 1
    BY <1>1
  <1>3. QED
    BY <1>1, <1>2 DEF HistCell

LEMMA ReverseIs ==
    ASSUME NEW T, NEW n \in Nat, NEW s \in [1 .. n -> T]
    PROVE  /\ Reverse(s) \in [1 .. n -> T] /\ Len(s) = n
           /\ \A i \in 1 .. n : Reverse(s)[i] = s[n - i + 1]
  <1>1. Len(s) = n
    OBVIOUS
  <1>2. \A i \in 1 .. n : n - i + 1 \in 1 .. n
    OBVIOUS
  <1>3. Reverse(s) = [i \in 1 .. n |-> s[n - i + 1]]
    BY <1>1 DEF Reverse
  <1>4. QED
    BY <1>1, <1>2, <1>3

LEMMA PlaceIn ==
    ASSUME NEW dir \in {-1, 1}, NEW from \in 0 .. HistSize, NEW k \in 1 .. HistSize
    PROVE  PlaceOf(from, dir, k) \in HistCell
  <1>1. PICK a \in Int : a = from + dir * k + HistSize
    BY Sizes
  <1>2. PlaceOf(from, dir, k) = a % HistSize
    BY <1>1, Sizes DEF PlaceOf
  <1>3. QED
    BY <1>2, Around

LEMMA SomeByte ==
    ASSUME HistoryInv, NEW dir \in {-1, 1}, NEW off \in HistCell, NEW from, Entry(from, off),
           NEW beyond
    PROVE  \E k \in HistCell : Bytes(from, dir, beyond)[k] # NUL
  <1>1. PICK h \in Nat : h = HistSize /\ h > 3
    BY Sizes
  <1>2. off \in Nat /\ off < h
    BY <1>1 DEF HistCell
  <1>3. Unrolled(Flat(kept), h - 2) # NUL
    BY <1>1, LastByte DEF HistoryInv
  <1>4. CASE off = h - 2
    <2>1. from \in HistCell
      BY <1>1, <1>4 DEF Entry
    <2>2. QED
      BY <1>3, <1>4, <2>1, FirstByteIs
  <1>5. CASE off # h - 2
    <2>1. PICK k \in 1 .. HistSize - 1 : Circular(off + dir * k) = h - 2
      <3>1. CASE dir = 1
        <4> DEFINE j == IF off = h - 1 THEN h - 1 ELSE h - 2 - off
        <4>1. j \in 1 .. HistSize - 1 /\ off + dir * j = off + j
          BY <1>1, <1>2, <1>5, <3>1
        <4>2. Circular(off + j) = h - 2
          BY <1>1, <1>2, <1>5 DEF Circular, Wrapped
        <4>3. QED
          BY <4>1, <4>2
      <3>2. CASE dir = -1
        <4> DEFINE j == IF off = h - 1 THEN 1 ELSE off + 2
        <4>1. j \in 1 .. HistSize - 1 /\ off + dir * j = off - j
          BY <1>1, <1>2, <1>5, <3>2
        <4>2. Circular(off - j) = h - 2
          BY <1>1, <1>2, <1>5 DEF Circular, Wrapped
        <4>3. QED
          BY <4>1, <4>2
      <3>3. QED
        BY <3>1, <3>2
    <2>2. k \in HistCell /\ Bytes(from, dir, beyond)[k] = Unrolled(Flat(kept), h - 2)
      BY <2>1, BytesAre
    <2>3. QED
      BY <1>3, <2>2
  <1>6. QED
    BY <1>4, <1>5

\* No line is longer than the buffer, whatever a search begins with.
LEMMA FoundFits ==
    ASSUME HistoryInv, NEW dir \in {-1, 1}, NEW off \in HistCell, NEW from, Entry(from, off),
           NEW beyond, NEW by, by = Bytes(from, dir, beyond)
    PROVE  Stop(by) - First(by) \in 1 .. LenCmd
  <1>1. PICK h \in Nat : h = HistSize /\ h > LenCmd
    BY Sizes
  <1>2. PICK m \in Nat : m = LenCmd /\ m > 2
    BY Sizes
  <1>3. \E k \in HistCell : by[k] # NUL
    BY SomeByte
  <1>4. PICK f \in Nat : f = First(by) /\ f < h
    BY <1>1, <1>3, SearchEnds DEF HistCell
  <1>5. PICK z \in Nat : z = Stop(by) /\ f < z /\ z <= h
    <2>1. Stop(by) \in f + 1 .. HistSize
      BY <1>3, <1>4, SearchEnds
    <2>2. QED
      BY <1>1, <2>1
  <1>6. \A k \in f .. z - 1 : by[k] # NUL
    <2>1. \A k \in First(by) .. Stop(by) - 1 : by[k] # NUL
      BY <1>3, SearchEnds
    <2>2. QED
      BY <1>4, <1>5, <2>1
  <1>7. ASSUME z - f > m
        PROVE  FALSE
    <2>1. ASSUME NEW x \in HistCell
          PROVE  \E j \in 0 .. m - 1 : Unrolled(Flat(kept), Wrapped(x + j)) = NUL
      BY <1>2, ZeroInWindow DEF HistoryInv
    <2>2. off \in Nat /\ off < h
      BY <1>1 DEF HistCell
    <2>3. \A k \in f + 1 .. f + m : k \in 1 .. HistSize - 1 /\ by[k] # NUL
      BY <1>1, <1>2, <1>5, <1>6, <1>7
    <2>4. CASE dir = 1
      <3> DEFINE x == Circular(off + (f + 1))
      <3>1. x \in HistCell
        BY <1>1, <1>2, <1>5, <1>7, <2>2 DEF HistCell, Circular, Wrapped
      <3>2. PICK j \in 0 .. m - 1 : Unrolled(Flat(kept), Wrapped(x + j)) = NUL
        BY <2>1, <3>1
      <3>3. PICK k \in f + 1 .. f + m : k = f + 1 + j
        BY <1>2
      <3>4. Circular(off + k) = Wrapped(x + j)
        BY <1>1, <1>2, <1>5, <1>7, <2>2, <3>3 DEF Circular, Wrapped
      <3>5. off + dir * k = off + k
        BY <2>2, <2>4
      <3>6. by[k] = Unrolled(Flat(kept), Circular(off + dir * k))
        BY <2>3, BytesAre
      <3>7. QED
        BY <2>3, <3>2, <3>4, <3>5, <3>6
    <2>5. CASE dir = -1
      <3> DEFINE x == Circular(off - (f + m))
      <3>1. x \in HistCell
        BY <1>1, <1>2, <1>5, <1>7, <2>2 DEF HistCell, Circular, Wrapped
      <3>2. PICK j \in 0 .. m - 1 : Unrolled(Flat(kept), Wrapped(x + j)) = NUL
        BY <2>1, <3>1
      <3>3. PICK k \in f + 1 .. f + m : k = f + m - j
        BY <1>2
      <3>4. Circular(off - k) = Wrapped(x + j)
        BY <1>1, <1>2, <1>5, <1>7, <2>2, <3>3 DEF Circular, Wrapped
      <3>5. off + dir * k = off - k
        BY <2>2, <2>5
      <3>6. by[k] = Unrolled(Flat(kept), Circular(off + dir * k))
        BY <2>3, BytesAre
      <3>7. QED
        BY <2>3, <3>2, <3>4, <3>5, <3>6
    <2>6. QED
      BY <2>4, <2>5
  <1>8. QED
    BY <1>2, <1>4, <1>5, <1>7

LEMMA GetHistoryTypes ==
    ASSUME HistoryInv, cmd_history \in [HistCell -> Char], NEW dir \in {-1, 1},
           NEW from \in 0 .. HistSize, from = HistSize => cmd_hrail = 0,
           NEW beyond \in {NUL, Letter}, NEW found, found = cmd_GetHistory(from, dir, beyond)
    PROVE  found.line \in Seq(Char) /\ Len(found.line) \in 1 .. LenCmd /\ found.pos \in HistCell
  <1> DEFINE by == Bytes(from, dir, beyond)
  <1>1. PICK off \in HistCell : Entry(from, off)
    BY EntryOf DEF HistoryInv
  <1>2. \E k \in HistCell : by[k] # NUL
    BY <1>1, SomeByte
  <1>3. PICK n \in 1 .. LenCmd : n = Stop(by) - First(by)
    BY <1>1, FoundFits
  <1>4. /\ First(by) \in HistCell
        /\ Stop(by) \in First(by) + 1 .. HistSize
    BY <1>2, SearchEnds
  <1>5. ASSUME NEW k \in HistCell
        PROVE  by[k] \in Char
    <2>1. CASE k = 0
      <3>1. beyond \in Char
        BY DEF Char
      <3>2. from # HistSize => from \in HistCell
        BY Sizes DEF HistCell
      <3>3. by[k] = IF from = HistSize THEN beyond ELSE cmd_history[from]
        BY <2>1 DEF Bytes, PlaceOf
      <3>4. QED
        BY <3>1, <3>2, <3>3
    <2>2. CASE k # 0
      <3>1. k \in 1 .. HistSize - 1
        BY <2>2, Sizes DEF HistCell
      <3>2. PlaceOf(from, dir, k) \in HistCell
        BY <3>1, PlaceIn, Sizes
      <3>3. PlaceOf(from, dir, k) # HistSize
        BY <3>2, Sizes DEF HistCell
      <3>4. by[k] = cmd_history[PlaceOf(from, dir, k)]
        BY <3>3 DEF Bytes
      <3>5. QED
        BY <3>2, <3>4
    <2>3. QED
      BY <2>1, <2>2
  <1> HIDE DEF by
  <1>6. n \in Nat /\ Found(by) \in [1 .. n -> Char]
    <2>1. PICK f \in Nat : f = First(by) /\ f + n <= HistSize
      BY <1>3, <1>4, Sizes DEF HistCell
    <2>2. \A k \in 1 .. n : f + k - 1 \in HistCell
      BY <2>1, Sizes DEF HistCell
    <2>3. \A k \in 1 .. n : by[f + k - 1] \in Char
      BY <1>5, <2>2
    <2>4. Found(by) = [k \in 1 .. n |-> by[f + k - 1]]
      BY <1>3, <2>1 DEF Found
    <2>5. Found(by) \in [1 .. n -> Char]
      BY <2>3, <2>4
    <2>6. n \in Nat
      BY Sizes
    <2>7. QED
      BY <2>5, <2>6
  <1>7. /\ found.line = IF dir < 0 THEN Reverse(Found(by)) ELSE Found(by)
        /\ found.pos = PlaceOf(from, dir, Stop(by))
    BY <1>2, GetHistoryIs DEF by
  <1>8. found.line \in [1 .. n -> Char]
    <2>1. Reverse(Found(by)) \in [1 .. n -> Char]
      BY <1>6, ReverseIs
    <2>2. QED
      BY <1>6, <1>7, <2>1
  <1>9. found.line \in Seq(Char) /\ Len(found.line) = n
    BY <1>6, <1>8
  <1>10. found.pos \in HistCell
    <2>1. PICK f \in Nat : f = First(by)
      BY <1>4, Sizes DEF HistCell
    <2>2. Stop(by) \in f + 1 .. HistSize
      BY <1>4, <2>1
    <2>3. Stop(by) \in 1 .. HistSize
      BY <2>2, Sizes
    <2>4. QED
      BY <1>7, <2>3, PlaceIn
  <1>11. QED
    BY <1>9, <1>10
-----------------------------------------------------------------------------
\* There are no more lines than bytes.
LEMMA FewLines ==
    ASSUME NEW lines \in Seq(Entered)
    PROVE  Len(lines) \in Nat /\ Len(lines) <= Len(Flat(lines))
  <1> DEFINE S == {j \in Nat : j <= Len(lines) => j <= Border(lines, j)}
  <1>1. PICK n \in Nat : n = Len(lines)
    BY LenProperties
  <1>2. 0 \in S
    BY NoLines
  <1>3. ASSUME NEW j \in Nat, j \in S
        PROVE  j + 1 \in S
    <2>1. SUFFICES ASSUME j + 1 <= n PROVE j + 1 <= Border(lines, j + 1)
      BY <1>1
    <2>2. j + 1 \in 1 .. Len(lines) /\ (j + 1) - 1 = j
      BY <1>1, <2>1
    <2>3. /\ lines[j + 1] \in Entered
          /\ Border(lines, j + 1) = Border(lines, j) + Len(lines[j + 1]) + 1
      BY <2>2, FirstLinesMore
    <2>4. j \in 0 .. Len(lines)
      BY <1>1, <2>1
    <2>5. Border(lines, j) \in Nat /\ Len(lines[j + 1]) \in Nat
      BY <2>3, <2>4, LinesSplit, EnteredIs
    <2>6. j <= Border(lines, j)
      BY <1>1, <1>3, <2>1
    <2>7. QED
      BY <2>3, <2>5, <2>6
  <1> HIDE DEF S
  <1>4. n \in S
    BY <1>2, <1>3, SetInduction
  <1>5. n <= Border(lines, n)
    BY <1>1, <1>4 DEF S
  <1>6. QED
    BY <1>1, <1>5, NoLines

\* t is a and b, one behind the other.
Joined(t, a, b) ==
    /\ Len(t) = Len(a) + Len(b)
    /\ \A k \in 1 .. Len(a) : t[k] = a[k]
    /\ \A j \in 1 .. Len(b) : t[Len(a) + j] = b[j]

LEMMA ConcatAt ==
    ASSUME NEW C, NEW a \in Seq(C), NEW b \in Seq(C)
    PROVE  a \o b \in Seq(C) /\ Joined(a \o b, a, b)
  <1>1. PICK p \in Nat : p = Len(a)
    BY LenProperties
  <1>2. PICK q \in Nat : q = Len(b)
    BY LenProperties
  <1>3. /\ a \o b \in Seq(C) /\ Len(a \o b) = p + q
        /\ \A i \in 1 .. p + q : (a \o b)[i] = IF i <= p THEN a[i] ELSE b[i - p]
    BY <1>1, <1>2, ConcatProperties
  <1>4. \A j \in 1 .. q : p + j \in 1 .. p + q /\ ~(p + j <= p) /\ (p + j) - p = j
    OBVIOUS
  <1>5. \A k \in 1 .. p : k \in 1 .. p + q /\ k <= p
    OBVIOUS
  <1>6. QED
    BY <1>1, <1>2, <1>3, <1>4, <1>5 DEF Joined

\* An edit of a line, as the user sees it.
LEMMA InsertAtIs ==
    ASSUME NEW s \in EditLine, NEW cur \in 0 .. Len(s), Len(s) < LenCmd - 1,
           NEW ch \in Char \ {NUL}
    PROVE  /\ InsertAt(s, cur + 1, ch) \in EditLine
           /\ Len(InsertAt(s, cur + 1, ch)) = Len(s) + 1
           /\ \A k \in 1 .. Len(s) + 1 :
                 InsertAt(s, cur + 1, ch)[k] = IF k <= cur THEN s[k]
                                               ELSE IF k = cur + 1 THEN ch ELSE s[k - 1]
  <1> DEFINE C == Char \ {NUL}
             a == SubSeq(s, 1, cur)
             b == SubSeq(s, cur + 1, Len(s))
  <1>1. PICK n \in Nat : n = Len(s) /\ n < LenCmd - 1 /\ s \in Seq(C)
    BY EditLineIs
  <1> HIDE DEF C
  <1>2. cur \in Nat /\ cur <= n /\ ch \in C
    BY <1>1 DEF C
  <1>3. a \in Seq(C) /\ Len(a) = cur /\ \A k \in 1 .. cur : a[k] = s[k]
    <2>1. CASE cur = 0
      BY <1>1, <2>1, SubSeqEmpty
    <2>2. CASE cur # 0
      BY <1>1, <1>2, <2>2, SubSeqProperties
    <2>3. QED
      BY <2>1, <2>2
  <1>4. b \in Seq(C) /\ Len(b) = n - cur /\ \A k \in 1 .. n - cur : b[k] = s[cur + k]
    <2>1. CASE cur = n
      <3>1. b = <<>>
        BY <1>1, <2>1, SubSeqEmpty
      <3>2. QED
        BY <1>1, <2>1, <3>1
    <2>2. CASE cur # n
      <3>1. /\ 1 <= cur + 1 /\ cur + 1 <= n + 1 /\ cur + 1 <= n
            /\ \A k \in 1 .. n - cur : (cur + 1) + k - 1 = cur + k
        BY <1>1, <1>2, <2>2
      <3>2. QED
        BY <1>1, <1>2, <2>2, <3>1, SubSeqProperties
    <2>3. QED
      BY <2>1, <2>2
  <1> HIDE DEF a, b
  <1> DEFINE t == InsertAt(s, cur + 1, ch)
  <1>5. t = (a \o <<ch>>) \o b
    <2>1. (cur + 1) - 1 = cur
      BY <1>2
    <2>2. QED
      BY <2>1 DEF InsertAt, a, b
  <1> DEFINE c == a \o <<ch>>
  <1>6. c \in Seq(C) /\ Len(c) = cur + 1 /\ c[cur + 1] = ch /\ \A k \in 1 .. cur : c[k] = a[k]
    <2>1. c = Append(a, ch)
      BY <1>2, <1>3, AppendIsConcat
    <2>2. QED
      BY <1>2, <1>3, <2>1, AppendProperties
  <1>7. t = c \o b
    BY <1>5
  <1> HIDE DEF t, c
  <1>8. /\ t \in Seq(C) /\ Len(t) = n + 1
        /\ \A k \in 1 .. cur + 1 : t[k] = c[k]
        /\ \A j \in 1 .. n - cur : t[cur + 1 + j] = b[j]
    <2>1. c \in Seq(C) /\ b \in Seq(C)
      BY <1>4, <1>6
    <2>2. t \in Seq(C) /\ Joined(t, c, b)
      BY <1>7, <2>1, ConcatAt
    <2>3. Len(c) = cur + 1 /\ Len(b) = n - cur
      BY <1>4, <1>6
    <2>4. (cur + 1) + (n - cur) = n + 1
      BY <1>1, <1>2
    <2>5. t \in Seq(C) /\ Len(t) = n + 1
      BY <2>2, <2>3, <2>4 DEF Joined
    <2>6. \A k \in 1 .. cur + 1 : t[k] = c[k]
      BY <2>2, <2>3 DEF Joined
    <2>7. \A j \in 1 .. n - cur : t[cur + 1 + j] = b[j]
      BY <2>2, <2>3 DEF Joined
    <2>8. QED
      BY <2>5, <2>6, <2>7
  <1>9. ASSUME NEW k \in 1 .. n + 1
        PROVE  t[k] = IF k <= cur THEN s[k] ELSE IF k = cur + 1 THEN ch ELSE s[k - 1]
    <2>1. CASE k <= cur
      <3>1. k \in 1 .. Len(c) /\ k \in 1 .. cur
        BY <1>2, <1>6, <2>1
      <3>2. t[k] = c[k]
        BY <1>6, <1>8, <3>1
      <3>3. QED
        BY <1>3, <1>6, <2>1, <3>1, <3>2
    <2>2. CASE k = cur + 1
      <3>1. k \in 1 .. Len(c) /\ ~(k <= cur)
        BY <1>2, <1>6, <2>2
      <3>2. t[k] = c[k]
        BY <1>6, <1>8, <3>1
      <3>3. QED
        BY <1>6, <2>2, <3>1, <3>2
    <2>3. CASE k > cur + 1
      <3>1. PICK j \in 1 .. n - cur : k = cur + 1 + j /\ cur + j = k - 1
        BY <1>1, <1>2, <2>3
      <3>2. t[k] = b[j]
        BY <1>8, <3>1
      <3>3. ~(k <= cur) /\ k # cur + 1
        BY <1>2, <2>3
      <3>4. QED
        BY <1>4, <3>1, <3>2, <3>3
    <2>4. QED
      BY <1>2, <2>1, <2>2, <2>3
  <1>10. t \in EditLine
    <2>1. Len(t) \in 0 .. LenCmd - 1
      BY <1>1, <1>8, Sizes
    <2>2. QED
      BY <1>8, <2>1, SeqIsEditLine DEF C
  <1>11. QED
    BY <1>1, <1>8, <1>9, <1>10 DEF t

LEMMA RemoveAtIs ==
    ASSUME NEW s \in EditLine, NEW cur \in 1 .. Len(s)
    PROVE  /\ RemoveAt(s, cur) \in EditLine
           /\ Len(RemoveAt(s, cur)) = Len(s) - 1
           /\ \A k \in 1 .. Len(s) - 1 : RemoveAt(s, cur)[k] = IF k < cur THEN s[k] ELSE s[k + 1]
  <1> DEFINE C == Char \ {NUL}
             a == SubSeq(s, 1, cur - 1)
             b == SubSeq(s, cur + 1, Len(s))
  <1>1. PICK n \in Nat : n = Len(s) /\ n <= LenCmd - 1 /\ s \in Seq(C)
    BY EditLineIs
  <1> HIDE DEF C
  <1>2. cur \in Nat /\ cur <= n /\ 1 <= cur
    BY <1>1
  <1>3. a \in Seq(C) /\ Len(a) = cur - 1 /\ \A k \in 1 .. cur - 1 : a[k] = s[k]
    <2>1. CASE cur = 1
      <3>1. a = <<>>
        BY <1>1, <2>1, SubSeqEmpty
      <3>2. QED
        BY <2>1, <3>1
    <2>2. CASE cur # 1
      <3>1. cur - 1 \in Nat /\ 1 <= cur - 1 /\ cur - 1 <= n
        BY <1>2, <2>2
      <3>2. QED
        BY <1>1, <1>2, <3>1, SubSeqProperties
    <2>3. QED
      BY <2>1, <2>2
  <1>4. b \in Seq(C) /\ Len(b) = n - cur /\ \A k \in 1 .. n - cur : b[k] = s[cur + k]
    <2>1. CASE cur = n
      <3>1. b = <<>>
        BY <1>1, <2>1, SubSeqEmpty
      <3>2. QED
        BY <1>1, <2>1, <3>1
    <2>2. CASE cur # n
      <3>1. /\ 1 <= cur + 1 /\ cur + 1 <= n + 1 /\ cur + 1 <= n
            /\ \A k \in 1 .. n - cur : (cur + 1) + k - 1 = cur + k
        BY <1>1, <1>2, <2>2
      <3>2. QED
        BY <1>1, <1>2, <2>2, <3>1, SubSeqProperties
    <2>3. QED
      BY <2>1, <2>2
  <1> HIDE DEF a, b
  <1> DEFINE t == RemoveAt(s, cur)
  <1>5. t = a \o b
    BY <1>1, <1>2 DEF RemoveAt, a, b
  <1> HIDE DEF t
  <1>6. /\ t \in Seq(C) /\ Len(t) = n - 1
        /\ \A k \in 1 .. cur - 1 : t[k] = a[k]
        /\ \A j \in 1 .. n - cur : t[cur - 1 + j] = b[j]
    <2>1. a \in Seq(C) /\ b \in Seq(C)
      BY <1>4, <1>3
    <2>2. t \in Seq(C) /\ Joined(t, a, b)
      BY <1>5, <2>1, ConcatAt
    <2>3. Len(a) = cur - 1 /\ Len(b) = n - cur
      BY <1>4, <1>3
    <2>4. (cur - 1) + (n - cur) = n - 1
      BY <1>1, <1>2
    <2>5. t \in Seq(C) /\ Len(t) = n - 1
      BY <2>2, <2>3, <2>4 DEF Joined
    <2>6. \A k \in 1 .. cur - 1 : t[k] = a[k]
      BY <2>2, <2>3 DEF Joined
    <2>7. \A j \in 1 .. n - cur : t[cur - 1 + j] = b[j]
      BY <2>2, <2>3 DEF Joined
    <2>8. QED
      BY <2>5, <2>6, <2>7
  <1>7. ASSUME NEW k \in 1 .. n - 1
        PROVE  t[k] = IF k < cur THEN s[k] ELSE s[k + 1]
    <2>1. CASE k < cur
      <3>1. k \in 1 .. cur - 1
        BY <1>2, <2>1
      <3>2. QED
        BY <1>3, <1>6, <2>1, <3>1
    <2>2. CASE ~(k < cur)
      <3>1. PICK j \in 1 .. n - cur : k = cur - 1 + j /\ cur + j = k + 1
        BY <1>1, <1>2, <2>2
      <3>2. t[k] = b[j]
        BY <1>6, <3>1
      <3>3. QED
        BY <1>4, <2>2, <3>1, <3>2
    <2>3. QED
      BY <2>1, <2>2
  <1>8. t \in EditLine
    <2>1. Len(t) \in 0 .. LenCmd - 1
      BY <1>1, <1>2, <1>6, Sizes
    <2>2. QED
      BY <1>6, <2>1, SeqIsEditLine DEF C
  <1>9. QED
    BY <1>1, <1>6, <1>7, <1>8 DEF t
-----------------------------------------------------------------------------
\* What the digits of a line are worth, from a place on.
Worths(f, line, digits, lo, hi) ==
    f = [i \in lo .. hi + 1 |->
            IF i = hi + 1 THEN [value |-> 0, weight |-> 1]
            ELSE IF i \notin digits THEN f[i + 1]
            ELSE [value  |-> f[i + 1].value + (line[i] - Zero) * f[i + 1].weight,
                  weight |-> f[i + 1].weight * Digits]]

Amount == [value : Nat, weight : Nat \ {0}]

LEMMA DigitIs ==
    ASSUME NEW d \in Digit
    PROVE  d - Zero \in 0 .. Digits - 1 /\ d - Zero \in Nat
  BY Sizes DEF Digit, Nine, Zero

LEMMA Product ==
    ASSUME NEW a \in Nat, NEW b \in Nat
    PROVE  a * b \in Nat /\ (a # 0 /\ b # 0 => a * b # 0)
  OBVIOUS

LEMMA MoreWorth ==
    ASSUME NEW a \in Amount, NEW d \in Digit
    PROVE  /\ [value |-> a.value + (d - Zero) * a.weight, weight |-> a.weight * Digits] \in Amount
           /\ a.value < a.weight => a.value + (d - Zero) * a.weight < a.weight * Digits
  <1>1. PICK v \in Nat : v = a.value
    BY DEF Amount
  <1>2. PICK w \in Nat : w = a.weight /\ w # 0
    BY DEF Amount
  <1>3. PICK e \in Nat : e = d - Zero /\ e <= Digits - 1
    BY DigitIs, Sizes
  <1>4. e * w \in Nat /\ w * Digits \in Nat /\ w * Digits # 0
    BY <1>2, Product, Sizes
  <1>5. v + e * w \in Nat /\ w * Digits \in Nat \ {0}
    BY <1>4
  <1>6. ASSUME v < w
        PROVE  v + e * w < w * Digits
    <2>1. PICK c \in Nat : Digits = e + 1 + c
      <3>1. Digits - e - 1 \in Nat /\ Digits = e + 1 + (Digits - e - 1)
        BY <1>3, Sizes
      <3>2. QED
        BY <3>1
    <2>2. w * Digits = e * w + w + w * c
      BY <2>1
    <2>3. w * c \in Nat
      BY Product
    <2>4. QED
      BY <1>4, <1>6, <2>2, <2>3
  <1>7. QED
    BY <1>1, <1>2, <1>3, <1>5, <1>6 DEF Amount

LEMMA WorthsExists ==
    ASSUME NEW hi \in Nat, NEW line, NEW digits, \A i \in digits : line[i] \in Digit
    PROVE  \E f \in [1 .. hi + 1 -> Amount] : Worths(f, line, digits, 1, hi)
  <1> DEFINE P(lo) == \E f \in [lo .. hi + 1 -> Amount] : Worths(f, line, digits, lo, hi)
             S     == {n \in Nat : n <= hi => P(hi + 1 - n)}
  <1>1. 0 \in S
    <2> DEFINE g == [i \in hi + 1 .. hi + 1 |-> [value |-> 0, weight |-> 1]]
    <2>1. [value |-> 0, weight |-> 1] \in Amount
      BY DEF Amount
    <2>2. g \in [hi + 1 .. hi + 1 -> Amount]
      BY <2>1
    <2>3. Worths(g, line, digits, hi + 1, hi)
      <3>1. \A i \in hi + 1 .. hi + 1 : i = hi + 1
        OBVIOUS
      <3>2. QED
        BY <3>1 DEF Worths
    <2>4. hi + 1 - 0 = hi + 1
      OBVIOUS
    <2>5. QED
      BY <2>2, <2>3, <2>4
  <1>2. ASSUME NEW n \in Nat, n \in S
        PROVE  n + 1 \in S
    <2>1. SUFFICES ASSUME n + 1 <= hi PROVE P(hi + 1 - (n + 1))
      OBVIOUS
    <2>2. PICK lo \in Nat : lo = hi + 1 - (n + 1) /\ lo + 1 = hi + 1 - n /\ lo <= hi
      BY <2>1
    <2>3. n <= hi
      BY <2>1
    <2>4. P(lo + 1)
      BY <1>2, <2>2, <2>3
    <2>5. PICK f \in [lo + 1 .. hi + 1 -> Amount] : Worths(f, line, digits, lo + 1, hi)
      BY <2>4
    <2>6. \A i \in lo + 1 .. hi + 1 :
             f[i] = IF i = hi + 1 THEN [value |-> 0, weight |-> 1]
                    ELSE IF i \notin digits THEN f[i + 1]
                    ELSE [value  |-> f[i + 1].value + (line[i] - Zero) * f[i + 1].weight,
                          weight |-> f[i + 1].weight * Digits]
      BY <2>5 DEF Worths
    <2> DEFINE next == IF lo \notin digits THEN f[lo + 1]
                       ELSE [value  |-> f[lo + 1].value + (line[lo] - Zero) * f[lo + 1].weight,
                             weight |-> f[lo + 1].weight * Digits]
               g    == [i \in lo .. hi + 1 |-> IF i = lo THEN next ELSE f[i]]
    <2>7. next \in Amount
      <3>1. f[lo + 1] \in Amount
        BY <2>2
      <3>2. QED
        BY <3>1, MoreWorth
    <2> HIDE DEF next
    <2>8. g \in [lo .. hi + 1 -> Amount]
      BY <2>7
    <2>9. ASSUME NEW i \in lo .. hi + 1
          PROVE  g[i] = IF i = hi + 1 THEN [value |-> 0, weight |-> 1]
                        ELSE IF i \notin digits THEN g[i + 1]
                        ELSE [value  |-> g[i + 1].value + (line[i] - Zero) * g[i + 1].weight,
                              weight |-> g[i + 1].weight * Digits]
      <3>1. CASE i = lo
        <4>1. g[i] = next /\ i # hi + 1 /\ g[i + 1] = f[lo + 1]
          BY <2>2, <3>1
        <4>2. QED
          BY <3>1, <4>1 DEF next
      <3>2. CASE i # lo
        <4>1. i \in lo + 1 .. hi + 1 /\ (i # hi + 1 => i + 1 \in lo + 1 .. hi + 1)
          BY <3>2
        <4>2. g[i] = f[i] /\ (i # hi + 1 => g[i + 1] = f[i + 1])
          BY <4>1
        <4>3. QED
          BY <2>6, <4>1, <4>2
      <3>3. QED
        BY <3>1, <3>2
    <2> HIDE DEF g
    <2>10. Worths(g, line, digits, lo, hi)
      BY <2>8, <2>9 DEF Worths
    <2>11. QED
      BY <2>2, <2>8, <2>10
  <1> HIDE DEF S
  <1>3. hi \in S
    BY <1>1, <1>2, SetInduction
  <1>4. P(hi + 1 - hi) /\ hi + 1 - hi = 1
    BY <1>3 DEF S
  <1>5. QED
    BY <1>4

\* What Worth says of each place.
LEMMA WorthIs ==
    ASSUME NEW hi \in Nat, NEW line, NEW digits, \A i \in digits : line[i] \in Digit,
           NEW f, f = Worth(line, digits, hi)
    PROVE  /\ f[hi + 1] = [value |-> 0, weight |-> 1]
           /\ \A i \in 1 .. hi :
                 f[i] = IF i \notin digits THEN f[i + 1]
                        ELSE [value  |-> f[i + 1].value + (line[i] - Zero) * f[i + 1].weight,
                              weight |-> f[i + 1].weight * Digits]
           /\ \A i \in 1 .. hi + 1 : f[i] \in Amount /\ f[i].value < f[i].weight
  <1>1. f = CHOOSE g : Worths(g, line, digits, 1, hi)
    BY DEF Worth, Worths
  <1>2. Worths(f, line, digits, 1, hi)
    BY <1>1, WorthsExists
  <1>3. \A i \in 1 .. hi + 1 :
           f[i] = IF i = hi + 1 THEN [value |-> 0, weight |-> 1]
                  ELSE IF i \notin digits THEN f[i + 1]
                  ELSE [value  |-> f[i + 1].value + (line[i] - Zero) * f[i + 1].weight,
                        weight |-> f[i + 1].weight * Digits]
    BY <1>2 DEF Worths
  <1>4. hi + 1 \in 1 .. hi + 1 /\ \A i \in 1 .. hi : i \in 1 .. hi + 1 /\ i # hi + 1
    OBVIOUS
  <1>5. /\ f[hi + 1] = [value |-> 0, weight |-> 1]
        /\ \A i \in 1 .. hi :
              f[i] = IF i \notin digits THEN f[i + 1]
                     ELSE [value  |-> f[i + 1].value + (line[i] - Zero) * f[i + 1].weight,
                           weight |-> f[i + 1].weight * Digits]
    BY <1>3, <1>4
  <1> DEFINE Good(i) == f[i] \in Amount /\ f[i].value < f[i].weight
             S       == {n \in Nat : n <= hi => Good(hi + 1 - n)}
  <1>6. 0 \in S
    <2>1. hi + 1 - 0 = hi + 1
      OBVIOUS
    <2>2. QED
      BY <1>5, <2>1 DEF Amount
  <1>7. ASSUME NEW n \in Nat, n \in S
        PROVE  n + 1 \in S
    <2>1. SUFFICES ASSUME n + 1 <= hi PROVE Good(hi + 1 - (n + 1))
      OBVIOUS
    <2>2. PICK i \in 1 .. hi : i = hi + 1 - (n + 1) /\ i + 1 = hi + 1 - n
      BY <2>1
    <2>3. Good(i + 1)
      BY <1>7, <2>1, <2>2
    <2>4. f[i] = IF i \notin digits THEN f[i + 1]
                 ELSE [value  |-> f[i + 1].value + (line[i] - Zero) * f[i + 1].weight,
                       weight |-> f[i + 1].weight * Digits]
      BY <1>5
    <2>5. CASE i \notin digits
      BY <2>2, <2>3, <2>4, <2>5
    <2>6. CASE i \in digits
      <3>1. PICK a \in Amount : a = f[i + 1] /\ a.value < a.weight
        BY <2>3
      <3>2. PICK d \in Digit : d = line[i]
        BY <2>6
      <3>3. f[i] = [value |-> a.value + (d - Zero) * a.weight, weight |-> a.weight * Digits]
        BY <2>4, <2>6, <3>1, <3>2
      <3>4. Good(i)
        BY <3>1, <3>3, MoreWorth
      <3>5. QED
        BY <2>2, <3>4
    <2>7. QED
      BY <2>5, <2>6
  <1> HIDE DEF S
  <1>8. \A n \in Nat : n \in S
    BY <1>6, <1>7, SetInduction
  <1>9. \A i \in 1 .. hi + 1 : Good(i)
    <2>1. SUFFICES ASSUME NEW i \in 1 .. hi + 1 PROVE Good(i)
      OBVIOUS
    <2>2. hi + 1 - i \in Nat /\ hi + 1 - i <= hi /\ hi + 1 - (hi + 1 - i) = i
      OBVIOUS
    <2>3. QED
      BY <1>8, <2>2 DEF S
  <1>10. QED
    BY <1>5, <1>9
-----------------------------------------------------------------------------
\* The digits of the number at the cursor.
LEMMA DigitsAre ==
    ASSUME NEW line, NEW cur \in Nat
    PROVE  \A i \in NumberDigits(line, cur) : i \in 1 .. cur + 1 /\ line[i] \in Digit
  BY DEF NumberDigits, IsDigit

LEMMA DigitOf ==
    ASSUME NEW a \in Int
    PROVE  Zero + (a % Digits) \in Digit /\ Zero + (a % Digits) \in Char \ {NUL}
  <1>1. PICK d \in Nat : d = Digits /\ d > 1
    BY Sizes
  <1>2. PICK e \in Nat : e = a % d /\ e < d
    <2>1. a % d \in 0 .. d - 1
      BY <1>1
    <2>2. QED
      BY <1>1, <2>1
  <1>3. Zero + e \in Digit /\ Zero + e # NUL
    BY <1>1, <1>2 DEF Digit, Nine, Zero, NUL
  <1>4. QED
    BY <1>1, <1>2, <1>3 DEF Char

LEMMA Quotient ==
    ASSUME NEW a \in Int, NEW w \in Nat \ {0}
    PROVE  a \div w \in Int
  OBVIOUS

\* A number is stepped in its place.
LEMMA SteppedNumberTypes ==
    ASSUME NEW s \in EditLine, NEW cur \in Nat, NEW dir \in {-1, 1}
    PROVE  SteppedNumber(s, cur, dir) \in EditLine /\ Len(SteppedNumber(s, cur, dir)) = Len(s)
  <1> DEFINE digits == NumberDigits(s, cur)
             worth  == Worth(s, digits, cur + 1)
             number == (worth[1].value + dir) % worth[1].weight
             new    == SteppedNumber(s, cur, dir)
  <1>1. PICK n \in 0 .. LenCmd - 1 : n = Len(s) /\ DOMAIN s = 1 .. n
    BY EditLineIs
  <1>2. \A i \in digits : i \in 1 .. cur + 1 /\ s[i] \in Digit
    BY DigitsAre
  <1>3. new = [i \in 1 .. n |->
                 IF i \in digits THEN Zero + ((number \div worth[i + 1].weight) % Digits) ELSE s[i]]
    BY <1>1 DEF SteppedNumber
  <1> HIDE DEF digits
  <1>4. \A i \in 1 .. cur + 2 : worth[i] \in Amount
    <2>1. PICK hi \in Nat : hi = cur + 1 /\ hi + 1 = cur + 2
      OBVIOUS
    <2>2. \A i \in 1 .. hi + 1 : worth[i] \in Amount
      BY <1>2, <2>1, WorthIs
    <2>3. QED
      BY <2>1, <2>2
  <1> HIDE DEF worth
  <1>5. number \in Int
    <2>1. 1 \in 1 .. cur + 2
      OBVIOUS
    <2>2. PICK v \in Int : v = worth[1].value + dir
      BY <1>4, <2>1 DEF Amount
    <2>3. PICK w \in Nat \ {0} : w = worth[1].weight
      BY <1>4, <2>1 DEF Amount
    <2>4. v % w \in Int
      OBVIOUS
    <2>5. QED
      BY <2>2, <2>3, <2>4
  <1> HIDE DEF number
  <1>6. ASSUME NEW i \in 1 .. n
        PROVE  (IF i \in digits THEN Zero + ((number \div worth[i + 1].weight) % Digits)
                ELSE s[i]) \in Char \ {NUL}
    <2>1. CASE i \in digits
      <3>1. i + 1 \in 1 .. cur + 2
        BY <1>2, <2>1
      <3>2. PICK w \in Nat \ {0} : w = worth[i + 1].weight
        BY <1>4, <3>1 DEF Amount
      <3>3. PICK a \in Int : a = number \div w
        BY <1>5, Quotient
      <3>4. QED
        BY <2>1, <3>2, <3>3, DigitOf
    <2>2. CASE i \notin digits
      <3>1. s[i] \in Char \ {NUL}
        BY <1>1, EditLineIs
      <3>2. QED
        BY <2>2, <3>1
    <2>3. QED
      BY <2>1, <2>2
  <1>7. new \in [1 .. n -> Char \ {NUL}]
    BY <1>3, <1>6
  <1>8. new \in EditLine
    BY <1>7 DEF EditLine
  <1>9. Len(new) = n
    <2>1. n \in Nat
      BY Sizes
    <2>2. QED
      BY <1>7, <2>1
  <1>10. QED
    BY <1>1, <1>8, <1>9

\* A step of the buffer leaves its length.
LEMMA SteppedIs ==
    ASSUME NEW b \in [Cell -> Char], NEW i \in Cell, NEW dir \in {-1, 1}
    PROVE  /\ Stepped(b, i, dir) \in Char
           /\ Stepped(b, i, dir) = NUL <=> b[i] = NUL
  <1>1. CASE IsDigit(b[i])
    <2>1. PICK d \in Digit : d = b[i]
      BY <1>1 DEF IsDigit
    <2>2. PICK a \in Int : a = d - Zero + dir + Digits
      BY Sizes, DigitIs
    <2>3. Stepped(b, i, dir) = Zero + (a % Digits)
      BY <1>1, <2>1, <2>2 DEF Stepped
    <2>4. d # NUL
      BY DEF Digit, Zero, NUL
    <2>5. QED
      BY <2>1, <2>3, <2>4, DigitOf
  <1>2. CASE ~IsDigit(b[i]) /\ (b[i] # Dot \/ i < cmd_idx)
    BY <1>2 DEF Stepped
  <1>3. CASE ~IsDigit(b[i]) /\ b[i] = Dot /\ ~(i < cmd_idx)
    <2>1. Stepped(b, i, dir) \in {Slash, Nine}
      BY <1>3 DEF Stepped
    <2>2. Nine \in Digit
      BY Sizes DEF Digit, Nine, Zero
    <2>3. Slash \in Char \ {NUL} /\ Nine \in Char \ {NUL}
      BY <2>2 DEF Char, Slash, NUL, Digit, Zero
    <2>4. b[i] # NUL
      BY <1>3 DEF Dot, NUL
    <2>5. QED
      BY <2>1, <2>3, <2>4
  <1>4. QED
    BY <1>1, <1>2, <1>3

LEMMA SameLength ==
    ASSUME NEW b, NEW c, \A i \in Cell : b[i] = NUL <=> c[i] = NUL
    PROVE  TextLen(b) = TextLen(c)
  <1>1. {i \in Cell : b[i] = NUL} = {i \in Cell : c[i] = NUL}
    OBVIOUS
  <1>2. QED
    BY <1>1 DEF TextLen

LEMMA SteppedLineIs ==
    ASSUME NEW b \in [Cell -> Char], NEW dir \in {-1, 1}
    PROVE  /\ SteppedLine(b, dir) \in [Cell -> Char]
           /\ TextLen(SteppedLine(b, dir)) = TextLen(b)
  <1> DEFINE new == SteppedLine(b, dir)
  <1>1. \A i \in Cell : new[i] = b[i] \/ new[i] = Stepped(b, i, dir)
    BY DEF SteppedLine
  <1>2. new = [i \in Cell |-> new[i]]
    BY DEF SteppedLine
  <1> HIDE DEF new
  <1>3. \A i \in Cell : new[i] \in Char /\ (new[i] = NUL <=> b[i] = NUL)
    BY <1>1, SteppedIs
  <1>4. new \in [Cell -> Char]
    BY <1>2, <1>3
  <1>5. QED
    BY <1>3, <1>4, SameLength DEF new

LEMMA InsertedTypes ==
    ASSUME NEW b \in [Cell -> Char], NEW ch \in Char, cmd_idx \in 0 .. LenCmd
    PROVE  Inserted(b, ch) \in [Cell -> Char]
  <1>1. ASSUME NEW i \in Cell
        PROVE  (IF i = cmd_idx THEN ch ELSE IF i > cmd_idx /\ i <= len THEN b[i - 1] ELSE b[i])
                   \in Char
    <2>1. i > cmd_idx => i - 1 \in Cell
      BY Sizes DEF Cell
    <2>2. QED
      BY <2>1
  <1>2. QED
    BY <1>1 DEF Inserted

LEMMA RemovedTypes ==
    ASSUME NEW b \in [Cell -> Char], cmd_idx \in 1 .. LenCmd, len \in 0 .. LenCmd
    PROVE  Removed(b) \in [Cell -> Char]
  <1>1. ASSUME NEW i \in Cell
        PROVE  (IF i = len - 1 THEN NUL
                ELSE IF i >= cmd_idx - 1 /\ i < len - 1 THEN b[i + 1] ELSE b[i]) \in Char
    <2>1. i < len - 1 => i + 1 \in Cell
      BY Sizes DEF Cell
    <2>2. NUL \in Char
      BY DEF Char
    <2>3. QED
      BY <2>1, <2>2
  <1>2. QED
    BY <1>1 DEF Removed

\* The line of a hot key, in front of what was there.
LEMMA HotkeyIs ==
    ASSUME cmd_buffer \in [Cell -> Char]
    PROVE  Copied(HotkeyLine) \in [Cell -> Char] /\ TextLen(Copied(HotkeyLine)) = 1
  <1> DEFINE b == Copied(HotkeyLine)
  <1>1. HotkeyLine \in Seq(Char) /\ Len(HotkeyLine) = 1 /\ HotkeyLine[1] = Letter
    BY DEF HotkeyLine, Char
  <1>2. /\ Buffered(HotkeyLine) \in [Cell -> Char]
        /\ \A i \in Cell : Buffered(HotkeyLine)[i] = IF i < 1 THEN HotkeyLine[i + 1] ELSE NUL
    BY <1>1, BufferedIs
  <1>3. b = [i \in Cell |-> IF i <= 1 THEN Buffered(HotkeyLine)[i] ELSE cmd_buffer[i]]
    BY <1>1 DEF Copied
  <1>4. b \in [Cell -> Char]
    BY <1>2, <1>3
  <1>5. 0 \in Cell /\ 1 \in Cell /\ \A i \in Cell : i < 1 => i = 0
    BY Sizes DEF Cell
  <1>6. b[1] = NUL
    BY <1>2, <1>3, <1>5
  <1>7. b[0] # NUL
    BY <1>1, <1>2, <1>3, <1>5 DEF Letter, NUL
  <1> HIDE DEF b
  <1>8. TextLen(b) = 1
    BY <1>5, <1>6, <1>7, TextLenOf
  <1>9. QED
    BY <1>4, <1>8 DEF b
-----------------------------------------------------------------------------
\* The inductive invariant, without the history.
IsView(view, gaps) ==
    /\ view \in [line : EditLine, cur : Nat, gap : Nat]
    /\ view.cur <= Len(view.line) /\ view.gap <= gaps

\* What the variables are; the marks that belong together; and the view of the user.
ConsoleTypes ==
    /\ cmd_buffer \in [Cell -> Char] /\ cmd_idx \in -LenCmd - 1 .. LenCmd
    /\ cmd_history \in [HistCell -> Char] /\ cmd_hrpos \in 0 .. HistSize
    /\ len \in 0 .. LenCmd /\ {polling, broken, excused} \subseteq BOOLEAN
    /\ keys \in 0 .. MaxKeys

\* An edit is of a line with a zero behind it, at a place in it; a search starts in
\* the ring, or behind it where the next line goes to its start.
PlacesInv ==
    /\ (len = LenCmd => broken) /\ (~broken => TextLen(cmd_buffer) < LenCmd)
    /\ (polling => cmd_idx >= 0)
    /\ (cmd_idx >= 0 /\ cmd_hrpos = HistSize => cmd_hrail = 0)

ViewInv ==
    IsView(ideal, HistSize) /\ (cmd_idx >= 0 => ideal.gap <= Len(kept))

ShellInv == ConsoleTypes /\ HistoryInv /\ PlacesInv /\ ViewInv

LEMMA NoLineIs ==
    <<>> \in EditLine /\ Len(<<>>) = 0 /\ <<>> \in Seq(Char)
  <1>1. <<>> \in Seq(Char \ {NUL}) /\ <<>> \in Seq(Char) /\ Len(<<>>) = 0
    BY EmptySeq
  <1>2. 0 \in 0 .. LenCmd - 1
    BY Sizes
  <1>3. QED
    BY <1>1, <1>2, SeqIsEditLine

LEMMA NowhereIsView ==
    ASSUME NEW n \in Nat
    PROVE  IsView(Nowhere, n)
  BY NoLineIs DEF IsView, Nowhere

LEMMA KeptIs ==
    ASSUME HistoryInv
    PROVE  /\ Len(kept) \in 1 .. HistSize
           /\ \A n \in 1 .. Len(kept) : kept[n] \in Entered
  <1>1. kept \in Seq(Entered) /\ kept # <<>>
    BY DEF HistoryInv
  <1>2. PICK n \in Nat : n = Len(kept)
    BY <1>1, LenProperties
  <1>3. PICK l \in Nat : l = Len(Flat(kept)) /\ l <= HistSize
    BY <1>1, FlatType DEF HistoryInv
  <1>4. n # 0 /\ n <= l
    BY <1>1, <1>2, <1>3, FewLines, EmptySeq
  <1>5. \A k \in 1 .. n : kept[k] \in Entered
    BY <1>1, <1>2, ElementOfSeq
  <1>6. QED
    BY <1>2, <1>3, <1>4, <1>5, Sizes

LEMMA SameHistory ==
    ASSUME HistoryInv, UNCHANGED <<cmd_history, cmd_hrail, kept>>
    PROVE  HistoryInv'
  BY DEF HistoryInv, HistoryIsWhole

\* A key that edits the line.
LEMMA EditKeeps ==
    ASSUME ShellInv, polling, ~broken, keys < MaxKeys, keys' = keys + 1,
           NEW b \in [Cell -> Char], NEW idx \in 0 .. LenCmd, Edited(b, idx),
           cmd_hrpos' \in 0 .. HistSize, cmd_hrpos' = HistSize => cmd_hrail = 0,
           excused' \in BOOLEAN, IsView(ideal', Len(kept))
    PROVE  ShellInv'
  <1>1. /\ cmd_buffer' = b /\ cmd_idx' = idx /\ broken' = (TextLen(b) = LenCmd)
        /\ UNCHANGED <<cmd_history, cmd_hrail, len, polling, kept>>
    BY DEF Edited
  <1>2. HistoryInv'
    BY <1>1, SameHistory DEF ShellInv
  <1>3. ConsoleTypes'
    <2>1. keys + 1 \in 0 .. MaxKeys
      BY Sizes DEF ShellInv, ConsoleTypes
    <2>2. idx \in -LenCmd - 1 .. LenCmd
      BY Sizes
    <2>3. broken' \in BOOLEAN
      BY <1>1
    <2>4. QED
      BY <1>1, <2>1, <2>2, <2>3 DEF ShellInv, ConsoleTypes
  <1>4. PlacesInv'
    <2>1. len # LenCmd
      BY DEF ShellInv, PlacesInv
    <2>2. TextLen(b) # LenCmd => TextLen(b) < LenCmd
      BY TextLenIs, Sizes
    <2>3. TextLen(cmd_buffer)' = TextLen(b)
      BY <1>1 DEF TextLen
    <2>4. idx >= 0
      BY Sizes
    <2>5. QED
      BY <1>1, <2>1, <2>2, <2>3, <2>4 DEF PlacesInv
  <1>5. ViewInv'
    <2>1. PICK n \in Nat : n = Len(kept) /\ n <= HistSize
      BY KeptIs, Sizes DEF ShellInv
    <2>2. IsView(ideal', n)
      BY <2>1
    <2>3. IsView(ideal', HistSize) /\ ideal.gap' <= n
      BY <2>1, <2>2, Sizes DEF IsView
    <2>4. QED
      BY <1>1, <2>1, <2>3 DEF ViewInv
  <1>6. QED
    BY <1>2, <1>3, <1>4, <1>5 DEF ShellInv

\* A key that moves in the line, or does nothing.
LEMMA MoveKeeps ==
    ASSUME ShellInv, polling, ~broken, keys < MaxKeys, keys' = keys + 1,
           NEW idx \in 0 .. LenCmd, Moved(idx), excused' \in BOOLEAN, IsView(ideal', Len(kept))
    PROVE  ShellInv'
  <1>1. /\ cmd_buffer \in [Cell -> Char] /\ cmd_hrpos \in 0 .. HistSize
        /\ cmd_hrpos = HistSize => cmd_hrail = 0
    BY DEF ShellInv, ConsoleTypes, PlacesInv
  <1>2. Edited(cmd_buffer, idx) /\ cmd_hrpos' = cmd_hrpos
    BY DEF Moved
  <1>3. QED
    BY <1>1, <1>2, EditKeeps

LEMMA OverrunKeeps ==
    ASSUME ShellInv, keys < MaxKeys, keys' = keys + 1, Overrun,
           excused' \in BOOLEAN, IsView(ideal', Len(kept)), polling
    PROVE  ShellInv'
  <1>1. /\ broken' = TRUE
        /\ UNCHANGED <<cmd_buffer, cmd_idx, cmd_history, cmd_hrail, cmd_hrpos, len, polling, kept>>
    BY DEF Overrun
  <1>2. HistoryInv'
    BY <1>1, SameHistory DEF ShellInv
  <1>3. ConsoleTypes'
    <2>1. keys + 1 \in 0 .. MaxKeys
      BY Sizes DEF ShellInv, ConsoleTypes
    <2>2. QED
      BY <1>1, <2>1 DEF ShellInv, ConsoleTypes
  <1>4. PlacesInv'
    BY <1>1 DEF ShellInv, PlacesInv
  <1>5. ViewInv'
    <2>1. PICK n \in Nat : n = Len(kept) /\ n <= HistSize
      BY KeptIs, Sizes DEF ShellInv
    <2>2. IsView(ideal', n)
      BY <2>1
    <2>3. IsView(ideal', HistSize) /\ ideal.gap' <= n
      BY <2>1, <2>2, Sizes DEF IsView
    <2>4. QED
      BY <1>1, <2>1, <2>3 DEF ViewInv
  <1>6. QED
    BY <1>2, <1>3, <1>4, <1>5 DEF ShellInv

\* A key that enters the line.
LEMMA RingTypes ==
    ASSUME ConsoleTypes, HistoryInv, NEW s \in Entered, cmd_SetHistory(s)
    PROVE  cmd_history' \in [HistCell -> Char]
  <1> DEFINE place(p) == (p - cmd_hrail + HistSize) % HistSize
             byte(p)  == IF place(p) < Len(s) THEN s[place(p) + 1]
                         ELSE IF place(p) < ErasedTo(Len(s)) THEN NUL ELSE cmd_history[p]
  <1>1. cmd_history' = [p \in HistCell |-> byte(p)]
    BY DEF cmd_SetHistory
  <1>2. ASSUME NEW p \in HistCell
        PROVE  byte(p) \in Char
    <2>1. PICK q \in HistCell : q = place(p)
      BY FromRail DEF HistoryInv
    <2>2. q < Len(s) => q + 1 \in 1 .. Len(s)
      BY EnteredIs, Sizes DEF HistCell
    <2>3. q < Len(s) => s[q + 1] \in Char
      BY <2>2, EnteredIs
    <2>4. cmd_history[p] \in Char /\ NUL \in Char
      BY DEF ConsoleTypes, Char
    <2>5. QED
      BY <2>1, <2>3, <2>4
  <1> HIDE DEF byte
  <1>3. QED
    BY <1>1, <1>2

LEMMA EnterKeeps ==
    ASSUME ShellInv, ~broken, keys < MaxKeys, keys' = keys + 1,
           NEW b \in [Cell -> Char], TextLen(b) < LenCmd, NEW idx \in -LenCmd - 1 .. -1,
           Enter(b, idx), excused' \in BOOLEAN, IsView(ideal', HistSize)
    PROVE  ShellInv'
  <1>1. /\ cmd_buffer' = b /\ cmd_idx' = idx /\ polling' = FALSE
        /\ UNCHANGED <<cmd_hrpos, len, broken>>
    BY DEF Enter
  <1>2. /\ HistoryInv' /\ cmd_history' \in [HistCell -> Char]
    <2>1. CASE TextLen(b) = 0
      <3>1. UNCHANGED <<cmd_history, cmd_hrail, kept>>
        BY <2>1 DEF Enter
      <3>2. QED
        BY <3>1, SameHistory DEF ShellInv, ConsoleTypes
    <2>2. CASE TextLen(b) # 0
      <3>1. PICK s \in Entered : s = Text(b)
        BY <2>2, TextIs
      <3>2. cmd_SetHistory(s) /\ LET all == Append(kept, s)
                                 IN  kept' = LastLines(all, FromWhere(all))
        BY <2>2, <3>1 DEF Enter, LastLines, FromWhere
      <3>3. HistoryInv'
        BY <3>2, SetHistory DEF ShellInv
      <3>4. cmd_history' \in [HistCell -> Char]
        BY <3>2, RingTypes DEF ShellInv
      <3>5. QED
        BY <3>3, <3>4
    <2>3. QED
      BY <2>1, <2>2
  <1>3. ConsoleTypes'
    <2>1. keys + 1 \in 0 .. MaxKeys
      BY Sizes DEF ShellInv, ConsoleTypes
    <2>2. idx \in -LenCmd - 1 .. LenCmd
      BY Sizes
    <2>3. QED
      BY <1>1, <1>2, <2>1, <2>2 DEF ShellInv, ConsoleTypes
  <1>4. ~(idx >= 0)
    BY Sizes
  <1>5. PlacesInv'
    <2>1. TextLen(cmd_buffer)' = TextLen(b)
      BY <1>1 DEF TextLen
    <2>2. QED
      BY <1>1, <1>4, <2>1 DEF ShellInv, PlacesInv
  <1>6. ViewInv'
    BY <1>1, <1>4 DEF ViewInv
  <1>7. QED
    BY <1>2, <1>3, <1>5, <1>6 DEF ShellInv
-----------------------------------------------------------------------------
\* The views of the user, one key at a time.
EditingInv == ShellInv /\ polling /\ ~broken /\ keys < MaxKeys /\ keys' = keys + 1

LEMMA EditingIs ==
    ASSUME EditingInv
    PROVE  /\ cmd_buffer \in [Cell -> Char] /\ cmd_idx \in 0 .. LenCmd /\ len \in 0 .. LenCmd - 1
           /\ cmd_hrpos \in 0 .. HistSize /\ (cmd_hrpos = HistSize => cmd_hrail = 0)
           /\ Len(kept) \in Nat /\ IsView(ideal, Len(kept)) /\ excused \in BOOLEAN
           /\ TextLen(cmd_buffer) < LenCmd
  <1>1. /\ cmd_buffer \in [Cell -> Char] /\ cmd_idx \in -LenCmd - 1 .. LenCmd
        /\ len \in 0 .. LenCmd /\ cmd_hrpos \in 0 .. HistSize /\ excused \in BOOLEAN
    BY DEF EditingInv, ShellInv, ConsoleTypes
  <1>2. /\ len # LenCmd /\ TextLen(cmd_buffer) < LenCmd /\ cmd_idx >= 0
        /\ cmd_idx >= 0 /\ cmd_hrpos = HistSize => cmd_hrail = 0
    BY DEF EditingInv, ShellInv, PlacesInv
  <1>3. Len(kept) \in Nat
    BY KeptIs, Sizes DEF EditingInv, ShellInv
  <1>4. IsView(ideal, Len(kept))
    BY <1>2 DEF EditingInv, ShellInv, ViewInv, IsView
  <1>5. cmd_idx \in 0 .. LenCmd /\ len \in 0 .. LenCmd - 1
    BY <1>1, <1>2, Sizes
  <1>6. QED
    BY <1>1, <1>2, <1>3, <1>4, <1>5

LEMMA TypedView ==
    ASSUME EditingInv, NEW ch \in Char \ {NUL}
    PROVE  IsView(IF Len(ideal.line) < LenCmd - 1
                  THEN [ideal EXCEPT !.line = InsertAt(@, ideal.cur + 1, ch), !.cur = @ + 1]
                  ELSE ideal, Len(kept))
  <1>1. IsView(ideal, Len(kept))
    BY EditingIs
  <1>2. CASE Len(ideal.line) < LenCmd - 1
    <2>1. PICK s \in EditLine : s = ideal.line
      BY <1>1 DEF IsView
    <2>2. PICK n \in Nat : n = Len(s)
      BY EditLineIs
    <2>3. PICK c \in 0 .. Len(s) : c = ideal.cur /\ c \in Nat /\ c <= n
      BY <1>1, <2>1, <2>2 DEF IsView
    <2>4. InsertAt(s, c + 1, ch) \in EditLine /\ Len(InsertAt(s, c + 1, ch)) = n + 1
      BY <1>2, <2>1, <2>2, InsertAtIs
    <2>5. c + 1 \in Nat /\ c + 1 <= n + 1
      BY <2>2, <2>3
    <2>6. QED
      BY <1>1, <1>2, <2>1, <2>3, <2>4, <2>5 DEF IsView
  <1>3. QED
    BY <1>1, <1>2

LEMMA BackspaceView ==
    ASSUME EditingInv
    PROVE  IsView(IF ideal.cur = 0 THEN ideal
                  ELSE [ideal EXCEPT !.line = RemoveAt(@, ideal.cur), !.cur = @ - 1], Len(kept))
  <1>1. IsView(ideal, Len(kept))
    BY EditingIs
  <1>2. CASE ideal.cur # 0
    <2>1. PICK s \in EditLine : s = ideal.line
      BY <1>1 DEF IsView
    <2>2. PICK n \in Nat : n = Len(s)
      BY EditLineIs
    <2>3. PICK c \in 1 .. Len(s) : c = ideal.cur /\ c \in Nat /\ c <= n /\ 1 <= c
      BY <1>1, <1>2, <2>1, <2>2 DEF IsView
    <2>4. RemoveAt(s, c) \in EditLine /\ Len(RemoveAt(s, c)) = n - 1
      BY <2>2, RemoveAtIs
    <2>5. c - 1 \in Nat /\ c - 1 <= n - 1
      BY <2>2, <2>3
    <2>6. QED
      BY <1>1, <1>2, <2>1, <2>3, <2>4, <2>5 DEF IsView
  <1>3. QED
    BY <1>1, <1>2

LEMMA CursorView ==
    ASSUME EditingInv, NEW cur \in Nat, cur <= Len(ideal.line)
    PROVE  IsView([ideal EXCEPT !.cur = cur], Len(kept))
  BY EditingIs DEF IsView

LEMMA RecalledView ==
    ASSUME HistoryInv, ideal.gap \in 0 .. Len(kept), NEW dir \in {-1, 1}
    PROVE  /\ IsView(Recalled(dir), Len(kept))
           /\ LET n == IF dir < 0 THEN IF ideal.gap = 0 THEN Len(kept) ELSE ideal.gap
                                  ELSE IF ideal.gap = Len(kept) THEN 1 ELSE ideal.gap + 1
              IN  /\ n \in 1 .. Len(kept)
                  /\ Recalled(dir) = [line |-> kept[n], cur |-> Len(kept[n]),
                                      gap |-> IF dir < 0 THEN n - 1 ELSE n]
  <1> DEFINE n == IF dir < 0 THEN IF ideal.gap = 0 THEN Len(kept) ELSE ideal.gap
                             ELSE IF ideal.gap = Len(kept) THEN 1 ELSE ideal.gap + 1
  <1>1. PICK k \in Nat : k = Len(kept) /\ k >= 1
    BY KeptIs, Sizes
  <1>2. n \in 1 .. Len(kept) /\ n \in 1 .. k
    BY <1>1
  <1>3. Recalled(dir) = [line |-> kept[n], cur |-> Len(kept[n]),
                         gap |-> IF dir < 0 THEN n - 1 ELSE n]
    BY DEF Recalled
  <1> HIDE DEF n
  <1>4. kept[n] \in EditLine
    BY <1>2, KeptIs DEF Entered
  <1>5. Len(kept[n]) \in Nat
    BY <1>4, EditLineIs
  <1>6. (IF dir < 0 THEN n - 1 ELSE n) \in Nat /\ (IF dir < 0 THEN n - 1 ELSE n) <= k
    BY <1>1, <1>2
  <1>7. IsView(Recalled(dir), Len(kept))
    BY <1>1, <1>3, <1>4, <1>5, <1>6 DEF IsView
  <1>8. QED
    BY <1>2, <1>3, <1>7 DEF n
-----------------------------------------------------------------------------
\* The keys, one by one.
LEMMA TypedKeeps ==
    ASSUME ShellInv, NEW ch \in {Letter, Dot} \cup Digit, Typed(ch)
    PROVE  ShellInv'
  <1>1. EditingInv
    BY DEF Typed, Key, EditingInv
  <1>2. ch \in Char \ {NUL}
    BY DEF Char, NUL, Letter, Dot, Digit, Zero
  <1>3. excused' \in BOOLEAN /\ IsView(ideal', Len(kept))
    <2>1. \/ ideal' = Nowhere
          \/ ideal' = IF Len(ideal.line) < LenCmd - 1
                      THEN [ideal EXCEPT !.line = InsertAt(@, ideal.cur + 1, ch), !.cur = @ + 1]
                      ELSE ideal
      BY DEF Typed, Key, Expect
    <2>2. IsView(ideal', Len(kept))
      BY <1>1, <1>2, <2>1, TypedView, NowhereIsView, EditingIs
    <2>3. excused' \in BOOLEAN
      BY DEF Typed, Key, Expect
    <2>4. QED
      BY <2>2, <2>3
  <1>4. CASE len = LenCmd - 1
    <2>1. Moved(cmd_idx)
      BY <1>4 DEF Typed, Key
    <2>2. QED
      BY <1>1, <1>3, <2>1, MoveKeeps, EditingIs DEF EditingInv
  <1>5. CASE len # LenCmd - 1 /\ cmd_idx = LenCmd
    <2>1. Overrun
      BY <1>5 DEF Typed, Key
    <2>2. QED
      BY <1>1, <1>3, <2>1, OverrunKeeps, EditingIs DEF EditingInv
  <1>6. CASE len # LenCmd - 1 /\ cmd_idx # LenCmd
    <2>1. Edited(Inserted(cmd_buffer, ch), cmd_idx + 1) /\ cmd_hrpos' = cmd_hrpos
      BY <1>6 DEF Typed, Key
    <2>2. Inserted(cmd_buffer, ch) \in [Cell -> Char]
      BY <1>1, <1>2, InsertedTypes, EditingIs
    <2>3. cmd_idx + 1 \in 0 .. LenCmd
      BY <1>1, <1>6, EditingIs, Sizes
    <2>4. QED
      BY <1>1, <1>3, <2>1, <2>2, <2>3, EditKeeps, EditingIs DEF EditingInv
  <1>7. QED
    BY <1>4, <1>5, <1>6

LEMMA BackspaceKeeps ==
    ASSUME ShellInv, Backspace
    PROVE  ShellInv'
  <1>1. EditingInv
    BY DEF Backspace, Key, EditingInv
  <1>2. excused' \in BOOLEAN /\ IsView(ideal', Len(kept))
    <2>1. \/ ideal' = Nowhere
          \/ ideal' = IF ideal.cur = 0 THEN ideal
                      ELSE [ideal EXCEPT !.line = RemoveAt(@, ideal.cur), !.cur = @ - 1]
      BY DEF Backspace, Key, Expect
    <2>2. IsView(ideal', Len(kept))
      BY <1>1, <2>1, BackspaceView, NowhereIsView, EditingIs
    <2>3. excused' \in BOOLEAN
      BY DEF Backspace, Key, Expect
    <2>4. QED
      BY <2>2, <2>3
  <1>3. CASE cmd_idx = 0
    <2>1. Moved(0) /\ 0 \in 0 .. LenCmd
      BY <1>3, Sizes DEF Backspace, Key
    <2>2. QED
      BY <1>1, <1>2, <2>1, MoveKeeps, EditingIs DEF EditingInv
  <1>4. CASE cmd_idx # 0 /\ ~(len > 0)
    <2>1. Overrun
      BY <1>4 DEF Backspace, Key
    <2>2. QED
      BY <1>1, <1>2, <2>1, OverrunKeeps, EditingIs DEF EditingInv
  <1>5. CASE cmd_idx # 0 /\ len > 0
    <2>1. Edited(Removed(cmd_buffer), cmd_idx - 1) /\ cmd_hrpos' = cmd_hrpos
      BY <1>5 DEF Backspace, Key
    <2>2. cmd_idx \in 1 .. LenCmd /\ len \in 0 .. LenCmd
      BY <1>1, <1>5, EditingIs, Sizes
    <2>3. Removed(cmd_buffer) \in [Cell -> Char]
      BY <1>1, <2>2, RemovedTypes, EditingIs
    <2>4. cmd_idx - 1 \in 0 .. LenCmd
      BY <2>2, Sizes
    <2>5. QED
      BY <1>1, <1>2, <2>1, <2>3, <2>4, EditKeeps, EditingIs DEF EditingInv
  <1>6. QED
    BY <1>3, <1>4, <1>5

\* The keys that move in the line.
LEMMA CursorKeeps ==
    ASSUME ShellInv, Right \/ Left \/ Home \/ End
    PROVE  ShellInv'
  <1>1. EditingInv
    BY DEF Right, Left, Home, End, Key, EditingInv
  <1>2. /\ cmd_idx \in 0 .. LenCmd /\ len \in 0 .. LenCmd
        /\ Len(kept) \in Nat /\ IsView(ideal, Len(kept))
    BY <1>1, EditingIs, Sizes
  <1>3. excused' \in BOOLEAN
    BY DEF Right, Left, Home, End, Key, Expect
  <1>4. IsView(ideal', Len(kept))
    <2>1. ideal.cur \in Nat /\ ideal.cur <= Len(ideal.line) /\ ideal.line \in EditLine
      BY <1>2 DEF IsView
    <2>2. PICK l \in Nat : l = Len(ideal.line)
      BY <2>1, EditLineIs
    <2>3. PICK c \in Nat : c = ideal.cur /\ c <= l
      BY <2>1, <2>2
    <2>4. \/ ideal' = Nowhere
          \/ \E d \in {IF c < l THEN c + 1 ELSE c, IF c > 0 THEN c - 1 ELSE c, 0, l} :
                ideal' = [ideal EXCEPT !.cur = d]
      BY <2>2, <2>3 DEF Right, Left, Home, End, Key, Expect
    <2>5. \A d \in {IF c < l THEN c + 1 ELSE c, IF c > 0 THEN c - 1 ELSE c, 0, l} :
             d \in Nat /\ d <= l
      BY <2>2, <2>3
    <2>6. CASE ideal' = Nowhere
      BY <1>2, <2>6, NowhereIsView
    <2>7. ASSUME NEW d \in {IF c < l THEN c + 1 ELSE c, IF c > 0 THEN c - 1 ELSE c, 0, l},
                 ideal' = [ideal EXCEPT !.cur = d]
          PROVE  IsView(ideal', Len(kept))
      <3>1. d \in Nat /\ d <= Len(ideal.line)
        BY <2>2, <2>5
      <3>2. QED
        BY <1>1, <2>7, <3>1, CursorView
    <2>8. QED
      BY <2>4, <2>6, <2>7
  <1>5. \E idx \in 0 .. LenCmd : Moved(idx)
    <2>1. /\ (IF cmd_idx < len THEN cmd_idx + 1 ELSE cmd_idx) \in 0 .. LenCmd
          /\ (IF cmd_idx > 0 THEN cmd_idx - 1 ELSE cmd_idx) \in 0 .. LenCmd
          /\ 0 \in 0 .. LenCmd
          /\ (IF cmd_idx < len THEN len ELSE cmd_idx) \in 0 .. LenCmd
      BY <1>2, Sizes
    <2>2. \/ Moved(IF cmd_idx < len THEN cmd_idx + 1 ELSE cmd_idx)
          \/ Moved(IF cmd_idx > 0 THEN cmd_idx - 1 ELSE cmd_idx)
          \/ Moved(0)
          \/ Moved(IF cmd_idx < len THEN len ELSE cmd_idx)
      BY DEF Right, Left, Home, End, Key
    <2>3. QED
      BY <2>1, <2>2
  <1>6. QED
    BY <1>1, <1>3, <1>4, <1>5, MoveKeeps DEF EditingInv

LEMMA RecallKeeps ==
    ASSUME ShellInv, NEW dir \in {-1, 1}, Recall(dir)
    PROVE  ShellInv'
  <1>1. EditingInv
    BY DEF Recall, Key, EditingInv
  <1>2. HistoryInv /\ cmd_history \in [HistCell -> Char]
    BY DEF ShellInv, ConsoleTypes
  <1>3. PICK beyond \in {NUL, Letter} :
           LET found == cmd_GetHistory(cmd_hrpos, dir, beyond)
           IN  Edited(Buffered(found.line), Len(found.line)) /\ cmd_hrpos' = found.pos
    BY DEF Recall, Key
  <1> DEFINE found == cmd_GetHistory(cmd_hrpos, dir, beyond)
  <1>4. /\ found.line \in Seq(Char) /\ Len(found.line) \in 1 .. LenCmd
        /\ found.pos \in HistCell
    BY <1>1, <1>2, EditingIs, GetHistoryTypes
  <1>5. /\ Edited(Buffered(found.line), Len(found.line)) /\ cmd_hrpos' = found.pos
    BY <1>3
  <1> HIDE DEF found
  <1>6. Buffered(found.line) \in [Cell -> Char]
    BY <1>4, BufferedIs
  <1>7. Len(found.line) \in 0 .. LenCmd
    BY <1>4, Sizes
  <1>8. cmd_hrpos' \in 0 .. HistSize /\ cmd_hrpos' # HistSize
    BY <1>4, <1>5, Sizes DEF HistCell
  <1>9. excused' \in BOOLEAN /\ IsView(ideal', Len(kept))
    <2>1. ideal' = Nowhere \/ ideal' = Recalled(dir)
      BY DEF Recall, Key, Expect
    <2>2. ideal.gap \in 0 .. Len(kept) /\ Len(kept) \in Nat
      BY <1>1, EditingIs DEF IsView
    <2>3. IsView(Nowhere, Len(kept)) /\ IsView(Recalled(dir), Len(kept))
      BY <1>2, <2>2, NowhereIsView, RecalledView
    <2>4. IsView(ideal', Len(kept))
      BY <2>1, <2>3
    <2>5. excused' \in BOOLEAN
      BY DEF Recall, Key, Expect
    <2>6. QED
      BY <2>4, <2>5
  <1>10. QED
    BY <1>1, <1>5, <1>6, <1>7, <1>8, <1>9, EditKeeps DEF EditingInv

LEMMA StepKeeps ==
    ASSUME ShellInv, NEW dir \in {-1, 1}, Step(dir)
    PROVE  ShellInv'
  <1>1. EditingInv
    BY DEF Step, Key, EditingInv
  <1>2. excused' \in BOOLEAN
    BY DEF Step, Key, Expect
  <1>3. /\ IsView(ideal, Len(kept)) /\ Len(kept) \in Nat /\ cmd_idx \in 0 .. LenCmd
        /\ cmd_buffer \in [Cell -> Char] /\ TextLen(cmd_buffer) < LenCmd
    BY <1>1, EditingIs
  <1> DEFINE digit == /\ cmd_idx < LenCmd
                      /\ IsDigit(cmd_buffer[cmd_idx]) \/ cmd_buffer[cmd_idx] = Dot
  <1>4. CASE digit
    <2>1. Enter(SteppedLine(cmd_buffer, dir), -2 - cmd_idx)
      BY <1>4 DEF Step, Key
    <2>2. \/ ideal' = Nowhere
          \/ ideal' = [ideal EXCEPT !.line = SteppedNumber(@, ideal.cur, dir)]
      BY <1>4 DEF Step, Key, Expect
    <2>3. IsView(ideal', HistSize)
      <3>1. IsView(Nowhere, HistSize)
        BY NowhereIsView, Sizes
      <3>2. IsView([ideal EXCEPT !.line = SteppedNumber(@, ideal.cur, dir)], HistSize)
        <4>1. IsView(ideal, HistSize)
          BY DEF ShellInv, ViewInv
        <4>2. PICK s \in EditLine : s = ideal.line
          BY <4>1 DEF IsView
        <4>3. PICK c \in Nat : c = ideal.cur
          BY <4>1 DEF IsView
        <4>4. SteppedNumber(s, c, dir) \in EditLine /\ Len(SteppedNumber(s, c, dir)) = Len(s)
          BY SteppedNumberTypes
        <4>5. QED
          BY <4>1, <4>2, <4>3, <4>4 DEF IsView
      <3>3. QED
        BY <2>2, <3>1, <3>2
    <2>4. /\ SteppedLine(cmd_buffer, dir) \in [Cell -> Char]
          /\ TextLen(SteppedLine(cmd_buffer, dir)) < LenCmd
      BY <1>3, SteppedLineIs
    <2>5. -2 - cmd_idx \in -LenCmd - 1 .. -1
      BY <1>3, <1>4, Sizes
    <2>6. QED
      BY <1>1, <1>2, <2>1, <2>3, <2>4, <2>5, EnterKeeps DEF EditingInv
  <1>5. CASE ~digit
    <2>1. Moved(cmd_idx)
      BY <1>5 DEF Step, Key
    <2>2. ideal' = Nowhere \/ ideal' = ideal
      BY <1>5 DEF Step, Key, Expect
    <2>3. IsView(ideal', Len(kept))
      BY <1>3, <2>2, NowhereIsView
    <2>4. QED
      BY <1>1, <1>2, <1>3, <2>1, <2>3, MoveKeeps DEF EditingInv
  <1>6. QED
    BY <1>4, <1>5

LEMMA EnterKeysKeep ==
    ASSUME ShellInv, ReturnKey \/ Hotkey
    PROVE  ShellInv'
  <1>1. EditingInv
    BY DEF ReturnKey, Hotkey, Key, EditingInv
  <1>2. excused' \in BOOLEAN /\ ideal' = Nowhere
    BY DEF ReturnKey, Hotkey, Key, Expect
  <1>3. IsView(ideal', HistSize)
    BY <1>2, NowhereIsView, Sizes
  <1>4. -1 \in -LenCmd - 1 .. -1
    BY Sizes
  <1>5. CASE Enter(cmd_buffer, -1)
    BY <1>1, <1>2, <1>3, <1>4, <1>5, EnterKeeps, EditingIs DEF EditingInv
  <1>6. CASE Enter(Copied(HotkeyLine), -1)
    <2>1. Copied(HotkeyLine) \in [Cell -> Char] /\ TextLen(Copied(HotkeyLine)) < LenCmd
      BY <1>1, EditingIs, HotkeyIs, Sizes
    <2>2. QED
      BY <1>1, <1>2, <1>3, <1>4, <1>6, <2>1, EnterKeeps DEF EditingInv
  <1>7. QED
    BY <1>5, <1>6 DEF ReturnKey, Hotkey, Key
-----------------------------------------------------------------------------
\* A poll: the newest line is looked up once.
LEMMA StartIs ==
    /\ Buffered(<<>>) \in [Cell -> Char] /\ TextLen(Buffered(<<>>)) = 0
    /\ <<>> \in EditLine /\ Text(Buffered(<<>>)) = <<>>
  BY NoLineIs, BufferedLine, BufferedIs

LEMMA NewestPosIs ==
    ASSUME HistoryInv
    PROVE  NewestPos \in 0 .. HistSize /\ (NewestPos = HistSize => cmd_hrail = 0)
  BY Sizes DEF HistoryInv, NewestPos, HistCell

LEMMA PollKeeps ==
    ASSUME ShellInv, Poll
    PROVE  ShellInv'
  <1>1. /\ ~polling /\ ~broken /\ polling' = TRUE
        /\ UNCHANGED <<cmd_history, cmd_hrail, kept, keys>>
    BY DEF Poll
  <1>2. HistoryInv' /\ HistoryInv
    BY <1>1, SameHistory DEF ShellInv
  <1>3. /\ cmd_buffer \in [Cell -> Char] /\ TextLen(cmd_buffer) < LenCmd
        /\ cmd_idx \in -LenCmd - 1 .. LenCmd /\ cmd_history \in [HistCell -> Char]
        /\ cmd_hrpos \in 0 .. HistSize /\ keys \in 0 .. MaxKeys
        /\ {broken, excused} \subseteq BOOLEAN
    BY <1>1 DEF ShellInv, ConsoleTypes, PlacesInv
  <1>4. TextLen(cmd_buffer) \in 0 .. LenCmd - 1
    BY <1>3, TextLenIs, Sizes
  <1>5. PICK n \in Nat : n = Len(kept) /\ 1 <= n /\ n <= HistSize
    BY <1>2, KeptIs, Sizes
  <1>6. CASE GoOn
    <2>1. /\ cmd_idx >= 0 /\ len' = TextLen(cmd_buffer)
          /\ UNCHANGED <<cmd_buffer, cmd_idx, cmd_hrpos, broken, ideal, excused>>
      BY <1>6 DEF GoOn
    <2>2. ConsoleTypes'
      BY <1>1, <1>3, <1>4, <2>1, Sizes DEF ConsoleTypes
    <2>3. PlacesInv'
      <3>1. TextLen(cmd_buffer)' = TextLen(cmd_buffer)
        BY <2>1 DEF TextLen
      <3>2. len' # LenCmd
        BY <1>3, <2>1, Sizes
      <3>3. QED
        BY <1>1, <1>3, <2>1, <3>1, <3>2 DEF ShellInv, PlacesInv
    <2>4. ViewInv'
      BY <1>1, <2>1 DEF ShellInv, ViewInv
    <2>5. QED
      BY <1>2, <2>2, <2>3, <2>4 DEF ShellInv
  <1>7. CASE Start
    <2>1. /\ cmd_buffer' = Buffered(<<>>) /\ cmd_idx' = 0 /\ cmd_hrpos' = NewestPos
          /\ len' = 0 /\ ideal' = [Nowhere EXCEPT !.gap = n] /\ excused' = FALSE
          /\ broken' = broken
      BY <1>5, <1>7 DEF Start
    <2>2. ConsoleTypes'
      <3>1. 0 \in -LenCmd - 1 .. LenCmd /\ 0 \in 0 .. LenCmd
        BY Sizes
      <3>2. cmd_hrpos' \in 0 .. HistSize
        BY <1>2, <2>1, NewestPosIs
      <3>3. cmd_buffer' \in [Cell -> Char]
        BY <2>1, StartIs
      <3>4. QED
        BY <1>1, <1>3, <2>1, <3>1, <3>2, <3>3 DEF ConsoleTypes
    <2>3. PlacesInv'
      <3>1. TextLen(cmd_buffer)' = 0
        BY <2>1, StartIs DEF TextLen
      <3>2. QED
        BY <1>1, <1>2, <2>1, <3>1, NewestPosIs, Sizes DEF PlacesInv
    <2>4. ViewInv'
      <3>1. IsView(Nowhere, HistSize)
        BY NowhereIsView, Sizes
      <3>2. IsView(ideal', HistSize) /\ ideal.gap' = n
        BY <1>5, <2>1, <3>1 DEF IsView, Nowhere
      <3>3. QED
        BY <1>1, <1>5, <3>2 DEF ViewInv
    <2>5. QED
      BY <1>2, <2>2, <2>3, <2>4 DEF ShellInv
  <1>8. CASE OfferAgain
    <2>1. PICK beyond \in {NUL, Letter} :
             LET found == cmd_GetHistory(NewestPos, -1, beyond)
             IN  cmd_buffer' = Buffered(found.line) /\ cmd_hrpos' = found.pos
      BY <1>8 DEF OfferAgain
    <2> DEFINE found == cmd_GetHistory(NewestPos, -1, beyond)
    <2>2. /\ found.line \in Seq(Char) /\ Len(found.line) \in 1 .. LenCmd
          /\ found.pos \in HistCell
      <3>1. -1 \in {-1, 1}
        OBVIOUS
      <3>2. QED
        BY <1>2, <1>3, <3>1, NewestPosIs, GetHistoryTypes
    <2>3. cmd_buffer' = Buffered(found.line) /\ cmd_hrpos' = found.pos
      BY <2>1
    <2> HIDE DEF found
    <2>4. /\ cmd_idx < -1 /\ cmd_idx' = -2 - cmd_idx /\ len' = TextLen(cmd_buffer')
          /\ broken' = (len' = LenCmd) /\ excused' \in BOOLEAN
          /\ excused' = (NewestPos = HistSize \/ -2 - cmd_idx > Len(Last(kept)))
          /\ ideal' = IF excused' THEN Nowhere
                      ELSE [line |-> Last(kept), cur |-> -2 - cmd_idx, gap |-> Len(kept) - 1]
      BY <1>8 DEF OfferAgain
    <2>5. cmd_buffer' \in [Cell -> Char]
      BY <2>2, <2>3, BufferedIs
    <2>6. cmd_idx' \in 0 .. LenCmd - 1 /\ -2 - cmd_idx \in Nat
      BY <1>3, <2>4, Sizes
    <2>7. len' \in 0 .. LenCmd
      BY <2>4, TextLenIs
    <2>8. broken' \in BOOLEAN
      BY <2>4
    <2>9. cmd_hrpos' \in 0 .. HistSize - 1
      BY <2>2, <2>3 DEF HistCell
    <2>10. ConsoleTypes'
      <3>1. cmd_hrpos' \in 0 .. HistSize /\ cmd_idx' \in -LenCmd - 1 .. LenCmd
        BY <2>6, <2>9, Sizes
      <3>2. QED
        BY <1>1, <1>3, <2>4, <2>5, <2>7, <2>8, <3>1 DEF ConsoleTypes
    <2>11. PlacesInv'
      <3>1. TextLen(cmd_buffer)' = len'
        BY <2>4 DEF TextLen
      <3>2. len' # LenCmd => len' < LenCmd
        BY <2>7, Sizes
      <3>3. cmd_idx' >= 0 /\ cmd_hrpos' # HistSize
        BY <2>6, <2>9, Sizes
      <3>4. QED
        BY <2>4, <3>1, <3>2, <3>3 DEF PlacesInv
    <2>12. ViewInv'
      <3>1. CASE excused'
        <4>1. ideal' = Nowhere
          BY <2>4, <3>1
        <4>2. IsView(Nowhere, HistSize) /\ Nowhere.gap = 0
          BY NowhereIsView, Sizes DEF Nowhere
        <4>3. QED
          BY <1>1, <1>5, <4>1, <4>2 DEF ViewInv
      <3>2. CASE ~excused'
        <4>1. ideal' = [line |-> Last(kept), cur |-> -2 - cmd_idx, gap |-> n - 1]
          BY <1>5, <2>4, <3>2
        <4>2. ~(-2 - cmd_idx > Len(Last(kept)))
          BY <2>4, <3>2
        <4>3. Last(kept) \in EditLine
          BY <1>2, <1>5, KeptIs DEF Last, Entered
        <4>4. PICK l \in Nat : l = Len(Last(kept))
          BY <4>3, EditLineIs
        <4>5. -2 - cmd_idx <= l
          BY <2>6, <4>2, <4>4
        <4>6. n - 1 \in Nat /\ n - 1 <= HistSize /\ n - 1 <= n
          BY <1>5, Sizes
        <4>7. IsView(ideal', HistSize) /\ ideal.gap' = n - 1
          BY <2>6, <4>1, <4>3, <4>4, <4>5, <4>6 DEF IsView
        <4>8. QED
          BY <1>1, <1>5, <4>6, <4>7 DEF ViewInv
      <3>3. QED
        BY <3>1, <3>2
    <2>13. QED
      BY <1>2, <2>10, <2>11, <2>12 DEF ShellInv
  <1>9. QED
    BY <1>6, <1>7, <1>8 DEF Poll

\* The ring after shell_register.
LEMMA NewHistoryIs ==
    /\ NewHistory \in [HistCell -> Char] /\ Len(HelpLine) + 1 = 3 /\ 3 \in HistCell
    /\ <<HelpLine>> \in Seq(Entered) /\ <<HelpLine>> # <<>>
    /\ Len(Flat(<<HelpLine>>)) = 3
    /\ Whole(NewHistory, 3, Flat(<<HelpLine>>))
  <1>1. HelpLine \in Entered /\ Len(HelpLine) = 2
    <2>1. HelpLine \in Seq(Char \ {NUL}) /\ Len(HelpLine) = 2
      <3>1. Letter \in Char \ {NUL}
        BY DEF Char, Letter, NUL
      <3>2. QED
        BY <3>1 DEF HelpLine
    <2>2. Len(HelpLine) \in 0 .. LenCmd - 1 /\ HelpLine # <<>>
      BY <2>1, Sizes, EmptySeq
    <2>3. QED
      BY <2>1, <2>2, SeqIsEditLine DEF Entered
  <1>2. PICK h \in Nat : h = HistSize /\ h > 3
    BY Sizes
  <1>3. 3 \in HistCell /\ 0 \in HistCell
    BY <1>2 DEF HistCell
  <1>4. NewHistory \in [HistCell -> Char] /\ \A p \in HistCell :
           NewHistory[p] = IF p < 2 THEN Letter ELSE NUL
    <2>1. \A p \in HistCell : p < 2 => p + 1 \in {1, 2}
      BY <1>2 DEF HistCell
    <2>2. HelpLine[1] = Letter /\ HelpLine[2] = Letter
      BY DEF HelpLine
    <2>3. NewHistory = [p \in HistCell |-> IF p < 2 THEN Letter ELSE NUL]
      BY <1>1, <2>1, <2>2 DEF NewHistory
    <2>4. Letter \in Char /\ NUL \in Char
      BY DEF Char
    <2>5. QED
      BY <2>3, <2>4
  <1> DEFINE flat == Flat(<<HelpLine>>)
  <1>5. /\ <<HelpLine>> \in Seq(Entered) /\ <<HelpLine>> # <<>>
        /\ flat = Append(HelpLine, NUL)
    <2>1. <<>> \in Seq(Entered) /\ <<HelpLine>> = Append(<<>>, HelpLine)
      OBVIOUS
    <2>2. <<HelpLine>> \in Seq(Entered) /\ flat = Flat(<<>>) \o Append(HelpLine, NUL)
      BY <1>1, <2>1, FlatAppend
    <2>3. Flat(<<>>) = <<>>
      BY FlatEmpty
    <2>4. Append(HelpLine, NUL) \in Seq(Char)
      BY <1>1, ZeroBehind
    <2>5. <<>> \o Append(HelpLine, NUL) = Append(HelpLine, NUL)
      BY <2>4, ConcatEmptySeq
    <2>6. <<HelpLine>> # <<>>
      OBVIOUS
    <2>7. QED
      BY <2>2, <2>3, <2>5, <2>6
  <1> HIDE DEF flat
  <1>6. Len(flat) = 3 /\ flat[1] = Letter /\ flat[2] = Letter /\ flat[3] = NUL
    <2>1. HelpLine[1] = Letter /\ HelpLine[2] = Letter
      BY DEF HelpLine
    <2>2. 1 \in 1 .. 2 /\ 2 \in 1 .. 2 /\ 2 + 1 = 3
      OBVIOUS
    <2>3. /\ Len(flat) = 2 + 1 /\ flat[2 + 1] = NUL
          /\ \A k \in 1 .. 2 : flat[k] = HelpLine[k]
      BY <1>1, <1>5, ZeroBehind
    <2>4. QED
      BY <2>1, <2>2, <2>3
  <1>7. Holds(NewHistory, 3, flat)
    <2>1. SUFFICES ASSUME NEW k \in HistCell
                   PROVE  NewHistory[(3 + k) % HistSize] = Before(flat, HistSize - k)
      BY DEF Holds
    <2>2. PICK q \in HistCell : q = (3 + k) % HistSize /\ q = Wrapped(3 + k)
      <3>1. 3 + k \in 0 .. 2 * HistSize - 1
        BY <1>2 DEF HistCell
      <3>2. QED
        BY <3>1, WrapsAround
    <2>3. q = IF 3 + k < h THEN 3 + k ELSE 3 + k - h
      BY <1>2, <2>2 DEF Wrapped
    <2>4. CASE 3 + k < h
      <3>1. ~(q < 2) /\ ~(HistSize - k <= 3)
        BY <1>2, <2>3, <2>4 DEF HistCell
      <3>2. Before(flat, HistSize - k) = NUL
        BY <1>6, <3>1 DEF Before
      <3>3. QED
        BY <1>4, <2>2, <3>1, <3>2
    <2>5. CASE ~(3 + k < h)
      <3>1. PICK d \in {1, 2, 3} : d = HistSize - k
        BY <1>2, <2>5 DEF HistCell
      <3>2. q = 3 - d
        BY <1>2, <2>3, <2>5, <3>1 DEF HistCell
      <3>3. Before(flat, d) = flat[4 - d]
        BY <1>6 DEF Before
      <3>4. flat[4 - d] = IF d = 1 THEN NUL ELSE Letter
        BY <1>6
      <3>5. q < 2 <=> d # 1
        BY <3>2
      <3>6. QED
        BY <1>4, <2>2, <3>1, <3>3, <3>4, <3>5
    <2>6. QED
      BY <2>4, <2>5
  <1>8. Whole(NewHistory, 3, flat)
    BY <1>3, <1>7, WholeIsHolds
  <1>9. QED
    BY <1>1, <1>3, <1>4, <1>5, <1>6, <1>8 DEF flat

\* The shell when it is registered.
LEMMA RegisteredInv ==
    ASSUME ShellLineInit
    PROVE  ShellInv
  <1>1. /\ cmd_buffer = Buffered(<<>>) /\ cmd_idx = -1
        /\ cmd_history = NewHistory /\ cmd_hrail = 3 /\ cmd_hrpos = 0
        /\ len = 0 /\ polling = FALSE /\ broken = FALSE
        /\ ideal = Nowhere /\ kept = <<HelpLine>> /\ excused = FALSE /\ keys = 0
    BY NewHistoryIs DEF ShellLineInit
  <1>2. ConsoleTypes
    <2>1. -1 \in -LenCmd - 1 .. LenCmd /\ 0 \in 0 .. LenCmd /\ 0 \in 0 .. HistSize /\ 0 \in 0 .. MaxKeys
      BY Sizes
    <2>2. cmd_buffer \in [Cell -> Char]
      BY <1>1, StartIs
    <2>3. cmd_history \in [HistCell -> Char]
      BY <1>1, NewHistoryIs
    <2>4. QED
      BY <1>1, <2>1, <2>2, <2>3 DEF ConsoleTypes
  <1>3. HistoryInv
    <2>1. HistoryIsWhole
      <3>1. Whole(cmd_history, cmd_hrail, Flat(kept))
        BY <1>1, NewHistoryIs
      <3>2. QED
        BY <3>1 DEF HistoryIsWhole, Whole
    <2>2. Len(Flat(kept)) <= HistSize
      <3>1. Len(Flat(kept)) = 3
        BY <1>1, NewHistoryIs
      <3>2. QED
        BY <3>1, Sizes
    <2>3. QED
      BY <1>1, <2>1, <2>2, NewHistoryIs DEF HistoryInv
  <1>4. PlacesInv
    BY <1>1, StartIs, Sizes DEF PlacesInv
  <1>5. ViewInv
    BY <1>1, NowhereIsView, Sizes DEF ViewInv
  <1>6. QED
    BY <1>2, <1>3, <1>4, <1>5 DEF ShellInv
-----------------------------------------------------------------------------
\* All steps.
LEMMA ReopenKeeps ==
    ASSUME Reopen
    PROVE  ShellInv'
  <1>1. /\ cmd_buffer' = Buffered(<<>>) /\ cmd_idx' = -1
        /\ cmd_history' = NewHistory /\ cmd_hrail' = 3 /\ cmd_hrpos' = 0
        /\ len' = 0 /\ polling' = FALSE /\ broken' = FALSE
        /\ ideal' = Nowhere /\ kept' = <<HelpLine>> /\ excused' = FALSE /\ keys' = 0
    BY NewHistoryIs DEF Reopen
  <1>2. ConsoleTypes'
    <2>1. -1 \in -LenCmd - 1 .. LenCmd /\ 0 \in 0 .. LenCmd /\ 0 \in 0 .. HistSize /\ 0 \in 0 .. MaxKeys
      BY Sizes
    <2>2. cmd_buffer' \in [Cell -> Char]
      BY <1>1, StartIs
    <2>3. cmd_history' \in [HistCell -> Char]
      BY <1>1, NewHistoryIs
    <2>4. QED
      BY <1>1, <2>1, <2>2, <2>3 DEF ConsoleTypes
  <1>3. HistoryInv'
    <2>1. HistoryIsWhole'
      <3>1. Whole(cmd_history', cmd_hrail', Flat(kept'))
        BY <1>1, NewHistoryIs
      <3>2. QED
        BY <3>1 DEF HistoryIsWhole, Whole
    <2>2. Len(Flat(kept')) <= HistSize
      <3>1. Len(Flat(kept')) = 3
        BY <1>1, NewHistoryIs
      <3>2. QED
        BY <3>1, Sizes
    <2>3. QED
      BY <1>1, <2>1, <2>2, NewHistoryIs DEF HistoryInv
  <1>4. PlacesInv'
    <2>1. TextLen(cmd_buffer)' = 0
      BY <1>1, StartIs DEF TextLen
    <2>2. QED
      BY <1>1, <2>1, Sizes DEF PlacesInv
  <1>5. ViewInv'
    BY <1>1, NowhereIsView, Sizes DEF ViewInv
  <1>6. QED
    BY <1>2, <1>3, <1>4, <1>5 DEF ShellInv

LEMMA PauseKeeps ==
    ASSUME ShellInv, PollEnds \/ UNCHANGED lineVars
    PROVE  ShellInv'
  <1>1. /\ UNCHANGED <<cmd_buffer, cmd_idx, cmd_history, cmd_hrail, cmd_hrpos, len, broken,
                       ideal, kept, excused, keys>>
        /\ polling' = FALSE \/ polling' = polling
    BY DEF PollEnds, lineVars
  <1>2. HistoryInv'
    BY <1>1, SameHistory DEF ShellInv
  <1>3. ConsoleTypes'
    BY <1>1 DEF ShellInv, ConsoleTypes
  <1>4. PlacesInv'
    <2>1. TextLen(cmd_buffer)' = TextLen(cmd_buffer)
      BY <1>1 DEF TextLen
    <2>2. QED
      BY <1>1, <2>1 DEF ShellInv, PlacesInv
  <1>5. ViewInv'
    BY <1>1 DEF ShellInv, ViewInv
  <1>6. QED
    BY <1>2, <1>3, <1>4, <1>5 DEF ShellInv

LEMMA ShellKeeps ==
    ASSUME ShellInv, [ShellLineNext]_lineVars
    PROVE  ShellInv'
  <1>1. CASE Poll
    BY <1>1, PollKeeps
  <1>2. CASE PollEnds \/ UNCHANGED lineVars
    BY <1>2, PauseKeeps
  <1>3. CASE Reopen
    BY <1>3, ReopenKeeps
  <1>4. CASE \E ch \in {Letter, Dot} \cup Digit : Typed(ch)
    BY <1>4, TypedKeeps
  <1>5. CASE Backspace
    BY <1>5, BackspaceKeeps
  <1>6. CASE Right \/ Left \/ Home \/ End
    BY <1>6, CursorKeeps
  <1>7. CASE \E dir \in {-1, 1} : Recall(dir) \/ Step(dir)
    BY <1>7, RecallKeeps, StepKeeps
  <1>8. CASE ReturnKey \/ Hotkey
    BY <1>8, EnterKeysKeep
  <1>9. QED
    BY <1>1, <1>2, <1>3, <1>4, <1>5, <1>6, <1>7, <1>8 DEF ShellLineNext

LEMMA ShellInvTypes ==
    ASSUME ShellInv
    PROVE  ShellLineTypeOK
  <1>1. /\ ideal.line \in EditLine /\ ideal.cur \in 0 .. Len(ideal.line)
        /\ ideal.gap \in 0 .. HistSize
    <2>1. /\ ideal.line \in EditLine /\ ideal.cur \in Nat /\ ideal.gap \in Nat
          /\ ideal.cur <= Len(ideal.line) /\ ideal.gap <= HistSize
      BY DEF ShellInv, ViewInv, IsView
    <2>2. Len(ideal.line) \in Nat
      BY <2>1, EditLineIs
    <2>3. QED
      BY <2>1, <2>2, Sizes
  <1>2. /\ cmd_hrail \in HistCell /\ kept \in Seq(EditLine \ {<<>>})
    BY DEF ShellInv, HistoryInv, Entered
  <1>3. QED
    BY <1>1, <1>2 DEF ShellInv, ConsoleTypes, PlacesInv, ShellLineTypeOK

\* The marks of the editor and of the ring stay inside the buffers they point into,
\* whatever keys come (shell_ReadLine, cmd_GetHistory and cmd_SetHistory in shell.c).
THEOREM ShellLineTypes == ShellLineSpec => []ShellLineTypeOK
  <1>1. ShellLineInit => ShellInv
    BY RegisteredInv
  <1>2. ShellInv /\ [ShellLineNext]_lineVars => ShellInv'
    BY ShellKeeps
  <1>3. ShellInv => ShellLineTypeOK
    BY ShellInvTypes
  <1>4. QED
    BY <1>1, <1>2, <1>3, PTL DEF ShellLineSpec

\* The ring holds the latest lines that fit, whole and with one zero behind each, and
\* zeros elsewhere, wherever a line wraps (shell.c:545-573).
THEOREM HistoryStaysWhole == ShellLineSpec => []HistoryIsWhole
  <1>1. ShellLineInit => ShellInv
    BY RegisteredInv
  <1>2. ShellInv /\ [ShellLineNext]_lineVars => ShellInv'
    BY ShellKeeps
  <1>3. ShellInv => HistoryIsWhole
    BY DEF ShellInv, HistoryInv
  <1>4. QED
    BY <1>1, <1>2, <1>3, PTL DEF ShellLineSpec
-----------------------------------------------------------------------------
\* The zero behind so many of the lines kept, or before them all.
GapAt(g) == LET l == Len(Flat(kept)) - Border(kept, g)
            IN  IF l = HistSize THEN HistSize - 1 ELSE HistSize - 1 - l

\* A line of the history between its zeros, in numbers.
Between(n, h, l, p, m) ==
    /\ h = HistSize /\ l = Len(Flat(kept)) /\ l <= h
    /\ p = Border(kept, n - 1) /\ m = Len(kept[n]) /\ 1 <= m /\ m + 1 < h
    /\ p + m + 1 = Border(kept, n) /\ p + m + 1 <= l
    /\ GapAt(n) = h - l + p + m
    /\ GapAt(n - 1) = IF p = 0 /\ l = h THEN h - 1 ELSE h - l + p - 1
    /\ n = 1 => p = 0
    /\ n = Len(kept) => p + m + 1 = l

LEMMA GapNumbers ==
    ASSUME NEW h \in Nat, NEW l \in Nat, NEW p \in Nat, NEW m \in Nat, l <= h, p + m + 1 <= l
    PROVE  /\ l - (p + m + 1) # h /\ h - 1 - (l - (p + m + 1)) = h - l + p + m
           /\ l - p = h <=> p = 0 /\ l = h
           /\ h - 1 - (l - p) = h - l + p - 1
           /\ h - l + p + m \in 0 .. h - 1
  OBVIOUS

LEMMA BetweenIs ==
    ASSUME HistoryInv, NEW n \in 1 .. Len(kept)
    PROVE  \E h \in Nat, l \in Nat, p \in Nat, m \in Nat : Between(n, h, l, p, m)
  <1>1. kept \in Seq(Entered) /\ Len(Flat(kept)) <= HistSize
    BY DEF HistoryInv
  <1>2. PICK h \in Nat : h = HistSize /\ h > LenCmd
    BY Sizes
  <1>3. PICK l \in Nat : l = Len(Flat(kept)) /\ l <= h
    BY <1>1, <1>2, FlatType
  <1>4. kept[n] \in Entered /\ Border(kept, n) = Border(kept, n - 1) + Len(kept[n]) + 1
    BY <1>1, FirstLinesMore
  <1>5. PICK m \in Nat : m = Len(kept[n]) /\ 1 <= m /\ m + 1 <= LenCmd
    <2>1. Len(kept[n]) \in 1 .. LenCmd - 1
      BY <1>4, EnteredIs
    <2>2. QED
      BY <2>1, Sizes
  <1>6. PICK k \in Nat : k = Len(kept) /\ n \in Nat /\ n <= k /\ 1 <= n
    BY <1>1, LenProperties
  <1>7. PICK p \in Nat : p = Border(kept, n - 1)
    <2>1. n - 1 \in 0 .. Len(kept)
      BY <1>6
    <2>2. QED
      BY <1>1, <2>1, LinesSplit
  <1>8. Border(kept, n) = p + m + 1
    BY <1>4, <1>5, <1>7
  <1>9. p + m + 1 <= l
    BY <1>1, <1>3, <1>8, LineAt
  <1>10. n = 1 => p = 0
    BY <1>1, <1>7, NoLines
  <1>11. n = Len(kept) => p + m + 1 = l
    BY <1>1, <1>3, <1>8, NoLines
  <1>12. GapAt(n) = h - l + p + m
    <2>1. l - (p + m + 1) # h /\ h - 1 - (l - (p + m + 1)) = h - l + p + m
      BY <1>3, <1>9, GapNumbers
    <2>2. QED
      BY <1>2, <1>3, <1>8, <2>1 DEF GapAt
  <1>13. GapAt(n - 1) = IF p = 0 /\ l = h THEN h - 1 ELSE h - l + p - 1
    <2>1. l - p = h <=> p = 0 /\ l = h
      BY <1>3, <1>9, GapNumbers
    <2>2. h - 1 - (l - p) = h - l + p - 1
      BY <1>3, <1>9, GapNumbers
    <2>3. QED
      BY <1>2, <1>3, <1>7, <2>1, <2>2 DEF GapAt
  <1>14. m + 1 < h
    BY <1>2, <1>5, Sizes
  <1>15. Between(n, h, l, p, m)
    BY <1>2, <1>3, <1>5, <1>7, <1>8, <1>9, <1>10, <1>11, <1>12, <1>13, <1>14 DEF Between
  <1>16. QED
    BY <1>15

\* Its bytes in the unrolled ring.
Lies(n, h, l, p, m) ==
    /\ \A j \in 1 .. m : /\ Unrolled(Flat(kept), h - l + p + j - 1) = kept[n][j]
                         /\ kept[n][j] # NUL
    /\ Unrolled(Flat(kept), h - l + p + m) = NUL
    /\ \A x \in Nat : x < h - l => Unrolled(Flat(kept), x) = NUL

LEMMA BetweenBytes ==
    ASSUME HistoryInv, NEW n \in 1 .. Len(kept), NEW h \in Nat, NEW l \in Nat, NEW p \in Nat,
           NEW m \in Nat, Between(n, h, l, p, m)
    PROVE  Lies(n, h, l, p, m)
  <1>1. kept \in Seq(Entered)
    BY DEF HistoryInv
  <1>2. /\ h = HistSize /\ l = Len(Flat(kept)) /\ l <= h
        /\ p = Border(kept, n - 1) /\ m = Len(kept[n])
        /\ p + m + 1 = Border(kept, n)
    BY DEF Between
  <1>3. /\ \A j \in 1 .. m : Flat(kept)[p + j] = kept[n][j]
        /\ Flat(kept)[p + m + 1] = NUL
    BY <1>1, <1>2, LineAt
  <1>4. \A x : Unrolled(Flat(kept), x) = IF x < h - l THEN NUL ELSE Flat(kept)[x - (h - l) + 1]
    BY <1>2 DEF Unrolled
  <1>5. ASSUME NEW j \in 1 .. m
        PROVE  /\ Unrolled(Flat(kept), h - l + p + j - 1) = kept[n][j]
               /\ kept[n][j] # NUL
    <2>1. /\ ~(h - l + p + j - 1 < h - l)
          /\ (h - l + p + j - 1) - (h - l) + 1 = p + j
      OBVIOUS
    <2>2. Unrolled(Flat(kept), h - l + p + j - 1) = kept[n][j]
      BY <1>3, <1>4, <2>1
    <2>3. kept[n] \in Entered
      BY KeptIs
    <2>4. kept[n][j] # NUL
      BY <1>2, <2>3, EnteredIs
    <2>5. QED
      BY <2>2, <2>4
  <1>6. Unrolled(Flat(kept), h - l + p + m) = NUL
    <2>1. /\ ~(h - l + p + m < h - l)
          /\ (h - l + p + m) - (h - l) + 1 = p + m + 1
      BY <1>2
    <2>2. QED
      BY <1>3, <1>4, <2>1
  <1>7. QED
    BY <1>4, <1>5, <1>6 DEF Lies

LEMMA GapIsZero ==
    ASSUME HistoryInv, NEW g \in 0 .. Len(kept)
    PROVE  GapAt(g) \in HistCell /\ Unrolled(Flat(kept), GapAt(g)) = NUL
  <1>1. PICK k \in Nat : k = Len(kept) /\ k >= 1 /\ g \in Nat /\ g <= k
    BY KeptIs, Sizes
  <1>2. ASSUME NEW n \in 1 .. Len(kept)
        PROVE  GapAt(n) \in HistCell /\ Unrolled(Flat(kept), GapAt(n)) = NUL
    <2>1. PICK h \in Nat, l \in Nat, p \in Nat, m \in Nat : Between(n, h, l, p, m)
      BY BetweenIs
    <2>2. GapAt(n) = h - l + p + m /\ h = HistSize /\ l <= h /\ p + m + 1 <= l
      BY <2>1 DEF Between
    <2>3. h - l + p + m \in 0 .. h - 1
      BY <2>2, GapNumbers
    <2>4. Unrolled(Flat(kept), h - l + p + m) = NUL
      BY <2>1, BetweenBytes DEF Lies
    <2>5. QED
      BY <2>2, <2>3, <2>4 DEF HistCell
  <1>3. CASE g # 0
    <2>1. g \in 1 .. Len(kept)
      BY <1>1, <1>3
    <2>2. QED
      BY <1>2, <2>1
  <1>4. CASE g = 0
    <2>1. 1 \in 1 .. Len(kept) /\ k \in 1 .. Len(kept)
      BY <1>1
    <2>2. PICK h \in Nat, l \in Nat, p \in Nat, m \in Nat : Between(1, h, l, p, m)
      BY <2>1, BetweenIs
    <2>3. /\ h = HistSize /\ l <= h /\ p = 0 /\ l = Len(Flat(kept))
          /\ GapAt(0) = IF l = h THEN h - 1 ELSE h - l - 1
      <3>1. 1 - 1 = 0
        OBVIOUS
      <3>2. QED
        BY <2>2, <3>1 DEF Between
    <2>4. CASE l = h
      <3>1. PICK h2 \in Nat, l2 \in Nat, p2 \in Nat, m2 \in Nat : Between(k, h2, l2, p2, m2)
        BY <2>1, BetweenIs
      <3>2. h2 = h /\ l2 = l /\ GapAt(k) = h2 - l2 + p2 + m2 /\ p2 + m2 + 1 = l2
        BY <1>1, <2>3, <3>1 DEF Between
      <3>3. GapAt(k) = h - 1
        BY <2>4, <3>2
      <3>4. QED
        BY <1>2, <1>4, <2>1, <2>3, <2>4, <3>3
    <2>5. CASE l # h
      <3>1. h - l - 1 \in 0 .. h - 1 /\ h - l - 1 < h - l /\ h - l - 1 \in Nat
        BY <2>3, <2>5
      <3>2. Unrolled(Flat(kept), h - l - 1) = NUL
        BY <2>1, <2>2, <3>1, BetweenBytes DEF Lies
      <3>3. QED
        BY <1>4, <2>3, <2>5, <3>1, <3>2 DEF HistCell
    <2>6. QED
      BY <2>4, <2>5
  <1>5. QED
    BY <1>3, <1>4
-----------------------------------------------------------------------------
\* A search that comes across zeros, a steps of them, then a line, then the zero at
\* the other end of it.
Reaches(off, dir, a, h, l, p, m, zero) ==
    /\ a + m <= h
    /\ \A k \in 1 .. a - 1 : Circular(off + dir * k) < h - l \/ Circular(off + dir * k) = h - 1
    /\ \A j \in 1 .. m : Circular(off + dir * (a + j - 1)) =
                            h - l + p + (IF dir < 0 THEN m + 1 - j ELSE j) - 1
    /\ IF a + m < h THEN Circular(off + dir * (a + m)) = zero ELSE off = zero

\* Backwards, from the zero behind the line or from that before all of them.
LEMMA ReachesBack ==
    ASSUME NEW n, NEW h \in Nat, NEW l \in Nat, NEW p \in Nat, NEW m \in Nat,
           Between(n, h, l, p, m), NEW off,
           off = GapAt(n) \/ (n = Len(kept) /\ off = GapAt(0)),
           GapAt(0) = IF l = h THEN h - 1 ELSE h - l - 1
    PROVE  \E a \in Nat \ {0} : Reaches(off, -1, a, h, l, p, m, GapAt(n - 1))
  <1>1. /\ h = HistSize /\ l <= h /\ 1 <= m /\ m + 1 < h /\ p + m + 1 <= l
        /\ n = Len(kept) => p + m + 1 = l
    BY DEF Between
  <1>2. PICK z \in Int : z = GapAt(n - 1) /\ z = IF p = 0 /\ l = h THEN h - 1 ELSE h - l + p - 1
    BY DEF Between
  <1>3. \/ off = h - l + p + m
        \/ p + m + 1 = l /\ off = IF l = h THEN h - 1 ELSE h - l - 1
    BY <1>1 DEF Between
  <1>4. \A x \in Int : Circular(x) = IF x < 0 THEN x + h ELSE IF x < h THEN x ELSE x - h
    BY <1>1 DEF Circular, Wrapped
  <1>5. off \in Int
    BY <1>3
  <1>6. CASE off = h - l + p + m
    <2>1. \A j \in 1 .. m : /\ off + (-1) * (1 + j - 1) = h - l + p + (m + 1 - j) - 1
                            /\ h - l + p + (m + 1 - j) - 1 \in 0 .. h - 1
      BY <1>1, <1>6
    <2>2. \A j \in 1 .. m : Circular(off + (-1) * (1 + j - 1)) = h - l + p + (m + 1 - j) - 1
      BY <1>1, <1>4, <2>1
    <2>3. off + (-1) * (1 + m) = h - l + p - 1 /\ h - l + p - 1 \in -1 .. h - 1
      BY <1>1, <1>6
    <2>4. Circular(off + (-1) * (1 + m)) = z
      BY <1>1, <1>2, <1>4, <2>3
    <2>5. Reaches(off, -1, 1, h, l, p, m, z)
      BY <1>1, <2>2, <2>4 DEF Reaches
    <2>6. QED
      BY <1>2, <2>5
  <1>7. CASE off # h - l + p + m
    <2>1. p + m + 1 = l /\ l # h /\ off = h - l - 1
      BY <1>3, <1>7
    <2>2. PICK a \in Nat : a = h - l + 1 /\ a + m <= h /\ a # 0
      BY <1>1, <2>1
    <2>3. \A k \in 1 .. a - 1 : /\ off + (-1) * k = h - l - 1 - k
                                /\ h - l - 1 - k \in -1 .. h - l - 1
      BY <1>1, <2>1, <2>2
    <2>4. \A k \in 1 .. a - 1 : Circular(off + (-1) * k) < h - l \/ Circular(off + (-1) * k) = h - 1
      BY <1>1, <1>4, <2>3
    <2>5. \A j \in 1 .. m : /\ off + (-1) * (a + j - 1) = -1 - j
                            /\ -1 - j + h = h - l + p + (m + 1 - j) - 1
                            /\ -1 - j \in Int /\ -1 - j < 0
      BY <1>1, <2>1, <2>2
    <2>6. \A j \in 1 .. m : Circular(off + (-1) * (a + j - 1)) = h - l + p + (m + 1 - j) - 1
      BY <1>4, <2>5
    <2>7. off + (-1) * (a + m) = -2 - m /\ -2 - m \in Int /\ -2 - m < 0
      BY <1>1, <2>1, <2>2
    <2>8. Circular(off + (-1) * (a + m)) = h - 2 - m
      BY <1>4, <2>7
    <2>9. a + m < h => h - 2 - m = z
      BY <1>1, <1>2, <2>1, <2>2
    <2>10. ~(a + m < h) => off = z
      BY <1>1, <1>2, <2>1, <2>2
    <2>11. Reaches(off, -1, a, h, l, p, m, z)
      BY <2>2, <2>4, <2>6, <2>8, <2>9, <2>10 DEF Reaches
    <2>12. QED
      BY <1>2, <2>2, <2>11
  <1>8. QED
    BY <1>6, <1>7

\* Forwards, from the zero before the line or from that behind all of them.
LEMMA ReachesOn ==
    ASSUME NEW n, NEW h \in Nat, NEW l \in Nat, NEW p \in Nat, NEW m \in Nat,
           Between(n, h, l, p, m), NEW off, off = GapAt(n - 1) \/ (n = 1 /\ off = h - 1)
    PROVE  \E a \in Nat \ {0} : Reaches(off, 1, a, h, l, p, m, GapAt(n))
  <1>1. /\ h = HistSize /\ l <= h /\ 1 <= m /\ m + 1 < h /\ p + m + 1 <= l
        /\ n = 1 => p = 0
    BY DEF Between
  <1>2. PICK z \in Int : z = GapAt(n) /\ z = h - l + p + m
    BY DEF Between
  <1>3. \/ off = IF p = 0 /\ l = h THEN h - 1 ELSE h - l + p - 1
        \/ p = 0 /\ off = h - 1
    BY <1>1 DEF Between
  <1>4. \A x \in Int : Circular(x) = IF x < 0 THEN x + h ELSE IF x < h THEN x ELSE x - h
    BY <1>1 DEF Circular, Wrapped
  <1>5. off \in Int
    BY <1>3
  <1>6. CASE off = h - l + p - 1
    <2>1. \A j \in 1 .. m : /\ off + 1 * (1 + j - 1) = h - l + p + j - 1
                            /\ h - l + p + j - 1 \in 0 .. h - 1
      BY <1>1, <1>6
    <2>2. \A j \in 1 .. m : Circular(off + 1 * (1 + j - 1)) = h - l + p + j - 1
      BY <1>1, <1>4, <2>1
    <2>3. off + 1 * (1 + m) = h - l + p + m /\ h - l + p + m \in 0 .. h - 1
      BY <1>1, <1>6
    <2>4. Circular(off + 1 * (1 + m)) = z
      BY <1>1, <1>2, <1>4, <2>3
    <2>5. Reaches(off, 1, 1, h, l, p, m, z)
      BY <1>1, <2>2, <2>4 DEF Reaches
    <2>6. QED
      BY <1>2, <2>5
  <1>7. CASE off # h - l + p - 1
    <2>1. p = 0 /\ off = h - 1
      BY <1>3, <1>7
    <2>2. PICK a \in Nat : a = h - l + 1 /\ a + m <= h /\ a # 0
      BY <1>1
    <2>3. \A k \in 1 .. a - 1 : /\ off + 1 * k = h + k - 1 /\ ~(h + k - 1 < h)
                                /\ (h + k - 1) - h = k - 1 /\ k - 1 < h - l
      BY <1>1, <2>1, <2>2
    <2>4. \A k \in 1 .. a - 1 : Circular(off + 1 * k) < h - l \/ Circular(off + 1 * k) = h - 1
      BY <1>1, <1>4, <2>3
    <2>5. \A j \in 1 .. m : /\ off + 1 * (a + j - 1) = h + (h - l + j - 1)
                            /\ h + (h - l + j - 1) \in Int /\ ~(h + (h - l + j - 1) < h)
                            /\ (h + (h - l + j - 1)) - h = h - l + p + j - 1
      BY <1>1, <2>1, <2>2
    <2>6. ASSUME NEW j \in 1 .. m
          PROVE  Circular(off + 1 * (a + j - 1)) = h - l + p + j - 1
      <3>1. PICK x \in Int : x = h + (h - l + j - 1) /\ ~(x < h) /\ ~(x < 0)
        BY <1>1
      <3>2. Circular(x) = x - h
        BY <1>4, <3>1
      <3>3. QED
        BY <2>5, <3>1, <3>2
    <2>7. /\ off + 1 * (a + m) = h + (h - l + m) /\ h + (h - l + m) \in Int
          /\ ~(h + (h - l + m) < h) /\ (h + (h - l + m)) - h = h - l + p + m
      BY <1>1, <2>1, <2>2
    <2>8. Circular(off + 1 * (a + m)) = z
      BY <1>2, <1>4, <2>7
    <2>9. ~(a + m < h) => off = z
      BY <1>1, <1>2, <2>1, <2>2
    <2>10. Reaches(off, 1, a, h, l, p, m, z)
      BY <2>2, <2>4, <2>6, <2>8, <2>9 DEF Reaches
    <2>11. QED
      BY <1>2, <2>2, <2>10
  <1>8. QED
    BY <1>6, <1>7

\* What the search returns.
Leads(from, dir, off, n, a, h, l, p, m, zero) ==
    /\ dir \in {-1, 1} /\ off \in HistCell /\ from \in HistCell /\ Entry(from, off)
    /\ Unrolled(Flat(kept), off) = NUL
    /\ n \in 1 .. Len(kept) /\ {h, l, p, m} \subseteq Nat /\ Between(n, h, l, p, m)
    /\ zero \in HistCell /\ Unrolled(Flat(kept), zero) = NUL
    /\ a \in Nat \ {0} /\ Reaches(off, dir, a, h, l, p, m, zero)

\* It finds line n, and ends at that zero.
Finds(from, dir, beyond, n, zero) ==
    cmd_GetHistory(from, dir, beyond) = [line |-> kept[n], pos |-> Wrapped(cmd_hrail + zero)]

LEMMA ReachesFinds ==
    ASSUME HistoryInv, NEW from, NEW dir, NEW off, NEW n, NEW a, NEW h, NEW l, NEW p, NEW m,
           NEW zero, Leads(from, dir, off, n, a, h, l, p, m, zero), NEW beyond
    PROVE  Finds(from, dir, beyond, n, zero)
  <1> USE DEF Finds
  <1> /\ dir \in {-1, 1} /\ off \in HistCell /\ from \in HistCell
      /\ n \in 1 .. Len(kept) /\ h \in Nat /\ l \in Nat /\ p \in Nat /\ m \in Nat
      /\ zero \in HistCell /\ a \in Nat \ {0}
    BY DEF Leads
  <1>1. /\ Entry(from, off) /\ Unrolled(Flat(kept), off) = NUL /\ Between(n, h, l, p, m)
        /\ Unrolled(Flat(kept), zero) = NUL /\ Reaches(off, dir, a, h, l, p, m, zero)
    BY DEF Leads
  <1> DEFINE by == Bytes(from, dir, beyond)
             F  == Flat(kept)
  <1>2. /\ h = HistSize /\ l <= h /\ 1 <= m /\ m = Len(kept[n]) /\ p + m + 1 <= l
        /\ a + m <= h
    <2>1. h = HistSize /\ l <= h /\ 1 <= m /\ m = Len(kept[n]) /\ p + m + 1 <= l
      BY <1>1 DEF Between
    <2>2. a + m <= h
      BY <1>1 DEF Reaches
    <2>3. QED
      BY <2>1, <2>2
  <1>3. \A j \in 1 .. m : Unrolled(F, h - l + p + j - 1) = kept[n][j] /\ kept[n][j] # NUL
    <2>1. Lies(n, h, l, p, m)
      BY <1>1, BetweenBytes
    <2>2. QED
      BY <2>1 DEF Lies
  <1>4. \A k \in 1 .. h - 1 : by[k] = Unrolled(F, Circular(off + dir * k))
    BY <1>1, <1>2, BytesAre
  <1>5. by[0] = NUL
    BY <1>1, FirstByteIs
  <1>6. \A x \in HistCell : x < h - l \/ x = h - 1 => Unrolled(F, x) = NUL
    <2>1. \A x \in Nat : x < h - l => Unrolled(F, x) = NUL
      BY <1>1, BetweenBytes DEF Lies
    <2>2. Unrolled(F, h - 1) = NUL
      BY <1>2, LastByte DEF HistoryInv
    <2>3. \A x \in HistCell : x \in Nat
      BY DEF HistCell
    <2>4. QED
      BY <2>1, <2>2, <2>3
  <1>7. ASSUME NEW k \in 1 .. h - 1
        PROVE  Circular(off + dir * k) \in HistCell
    BY <1>1, <1>2, PlaceIs DEF HistoryInv
  <1> HIDE DEF by, F
  <1>8. ASSUME NEW k \in 0 .. a - 1
        PROVE  by[k] = NUL
    <2>1. CASE k = 0
      BY <1>5, <2>1
    <2>2. CASE k # 0
      <3>1. k \in 1 .. h - 1 /\ k \in 1 .. a - 1
        BY <1>2, <2>2
      <3>2. Circular(off + dir * k) < h - l \/ Circular(off + dir * k) = h - 1
        BY <1>1, <3>1 DEF Reaches
      <3>3. QED
        BY <1>4, <1>6, <1>7, <3>1, <3>2
    <2>3. QED
      BY <2>1, <2>2
  <1> DEFINE line(j) == kept[n][IF dir < 0 THEN m + 1 - j ELSE j]
  <1>9. ASSUME NEW j \in 1 .. m
        PROVE  by[a + j - 1] = line(j) /\ line(j) # NUL
    <2>1. PICK i : i = IF dir < 0 THEN m + 1 - j ELSE j
      OBVIOUS
    <2> i \in 1 .. m
      BY <2>1
    <2>2. a + j - 1 \in 1 .. h - 1
      BY <1>2
    <2>3. Circular(off + dir * (a + j - 1)) = h - l + p + i - 1
      BY <1>1, <2>1 DEF Reaches
    <2>4. by[a + j - 1] = Unrolled(F, h - l + p + i - 1)
      BY <1>4, <2>2, <2>3
    <2>5. QED
      BY <1>3, <2>1, <2>4
  <1>10. ASSUME a + m < HistSize
        PROVE  by[a + m] = NUL
    <2>1. a + m \in 1 .. h - 1 /\ a + m < h
      BY <1>2, <1>10
    <2>2. Circular(off + dir * (a + m)) = zero
      BY <1>1, <2>1 DEF Reaches
    <2>3. QED
      BY <1>1, <1>4, <2>1, <2>2 DEF F
  <1> HIDE DEF line
  <1>11. /\ \E k \in HistCell : by[k] # NUL
         /\ Stop(by) = a + m /\ Found(by) = [j \in 1 .. m |-> by[a + j - 1]]
    <2>1. m \in Nat \ {0} /\ a + m <= HistSize
      BY <1>2
    <2>2. \A k \in 0 .. a - 1 : by[k] = NUL
      BY <1>8
    <2>3. \A j \in 1 .. m : by[a + j - 1] # NUL
      BY <1>9
    <2>4. QED
      BY <1>10, <2>1, <2>2, <2>3, SearchFinds
  <1>12. cmd_GetHistory(from, dir, beyond) =
             [line |-> IF dir < 0 THEN Reverse(Found(by)) ELSE Found(by),
              pos  |-> PlaceOf(from, dir, a + m)]
    <2>1. by = Bytes(from, dir, beyond)
      BY DEF by
    <2>2. \E k \in HistCell : by[k] # NUL
      BY <1>11
    <2>3. cmd_GetHistory(from, dir, beyond) =
              [line |-> IF dir < 0 THEN Reverse(Found(by)) ELSE Found(by),
               pos  |-> PlaceOf(from, dir, Stop(by))]
      BY <2>1, <2>2, GetHistoryIs
    <2>4. QED
      BY <1>11, <2>3
  <1>13. kept[n] \in [1 .. m -> Char]
    <2>1. kept[n] \in Seq(Char)
      BY KeptIs, EnteredIs
    <2>2. QED
      BY <1>2, <2>1, LenProperties
  <1>14. Found(by) = [j \in 1 .. m |-> line(j)]
    BY <1>9, <1>11
  <1>15. (IF dir < 0 THEN Reverse(Found(by)) ELSE Found(by)) = kept[n]
    <2>1. CASE dir = 1
      <3>1. \A j \in 1 .. m : line(j) = kept[n][j]
        <4>1. ~(dir < 0)
          BY <2>1
        <4>2. QED
          BY <4>1, Zenon DEF line
      <3>2. QED
        BY <1>13, <1>14, <2>1, <3>1
    <2>2. CASE dir = -1
      <3>1. \A j \in 1 .. m : line(j) = kept[n][m + 1 - j] /\ m + 1 - j \in 1 .. m
        <4>1. dir < 0
          BY <2>2
        <4>2. \A j \in 1 .. m : line(j) = kept[n][m + 1 - j]
          BY <4>1, Zenon DEF line
        <4>3. \A j \in 1 .. m : m + 1 - j \in 1 .. m
          OBVIOUS
        <4>4. QED
          BY <4>2, <4>3
      <3>2. Found(by) \in [1 .. m -> Char] /\ \A j \in 1 .. m : Found(by)[j] = kept[n][m + 1 - j]
        <4>1. \A j \in 1 .. m : kept[n][m + 1 - j] \in Char
          BY <1>13, <3>1
        <4>2. \A j \in 1 .. m : line(j) \in Char
          BY <3>1, <4>1
        <4>3. Found(by) \in [1 .. m -> Char]
          BY <1>14, <4>2
        <4>4. \A j \in 1 .. m : Found(by)[j] = line(j)
          BY <1>14
        <4>5. QED
          BY <3>1, <4>3, <4>4
      <3>3. /\ Reverse(Found(by)) \in [1 .. m -> Char]
            /\ \A i \in 1 .. m : Reverse(Found(by))[i] = Found(by)[m - i + 1]
        <4>1. PICK s \in [1 .. m -> Char] : s = Found(by)
          BY <3>2
        <4>2. /\ Reverse(s) \in [1 .. m -> Char]
              /\ \A i \in 1 .. m : Reverse(s)[i] = s[m - i + 1]
          <5>1. Len(s) = m
            OBVIOUS
          <5>2. Reverse(s) = [i \in 1 .. m |-> s[m - i + 1]]
            BY <5>1 DEF Reverse
          <5>3. \A i \in 1 .. m : m - i + 1 \in 1 .. m
            OBVIOUS
          <5>4. QED
            BY <5>2, <5>3
        <4>3. QED
          BY <4>1, <4>2
      <3>4. \A i \in 1 .. m : m - i + 1 \in 1 .. m /\ m + 1 - (m - i + 1) = i
        OBVIOUS
      <3>5. \A i \in 1 .. m : Reverse(Found(by))[i] = kept[n][i]
        BY <3>2, <3>3, <3>4
      <3>6. Reverse(Found(by)) = kept[n]
        <4>1. PICK s \in [1 .. m -> Char] : s = Reverse(Found(by))
          BY <3>3
        <4>2. PICK t \in [1 .. m -> Char] : t = kept[n]
          BY <1>13
        <4>3. \A i \in 1 .. m : s[i] = t[i]
          BY <3>5, <4>1, <4>2
        <4>4. s = t
          BY <4>3
        <4>5. QED
          BY <4>1, <4>2, <4>4
      <3>7. QED
        BY <2>2, <3>6
    <2>3. QED
      BY <2>1, <2>2
  <1>16. PlaceOf(from, dir, a + m) = Wrapped(cmd_hrail + zero)
    <2>1. CASE a + m < h
      <3>1. a + m \in 1 .. HistSize - 1
        BY <1>2, <2>1
      <3>2. PlaceOf(from, dir, a + m) = Wrapped(cmd_hrail + Circular(off + dir * (a + m)))
        BY <1>1, <3>1, PlaceIs DEF HistoryInv
      <3>3. QED
        BY <1>1, <2>1, <3>2 DEF Reaches
    <2>2. CASE ~(a + m < h)
      <3>1. a + m = h /\ h # 0 /\ off = zero
        BY <1>1, <1>2, <2>2 DEF Reaches
      <3>2. PlaceOf(from, dir, h) = (from + dir * h + h) % h
        BY <1>2, <3>1 DEF PlaceOf
      <3>3. PICK f \in Nat : f = from /\ f < h
        BY <1>2 DEF HistCell
      <3>4. (f + dir * h + h) % h = f
        <4>1. CASE dir = 1
          <5>1. PICK x \in Int : x = f + 1 * h + h /\ 2 * h <= x /\ x < 3 * h /\ x - 2 * h = f
            BY <3>3
          <5>2. QED
            BY <3>1, <4>1, <5>1, AroundFacts
        <4>2. CASE dir = -1
          <5>1. f + (-1) * h + h = f
            BY <3>3
          <5>2. QED
            BY <3>1, <3>3, <4>2, <5>1, AroundFacts
        <4>3. QED
          BY <4>1, <4>2
      <3>5. from = Wrapped(cmd_hrail + off)
        BY <1>1, Sizes DEF Entry, HistCell
      <3>6. QED
        BY <3>1, <3>2, <3>3, <3>4, <3>5
    <2>3. QED
      BY <2>1, <2>2
  <1>17. QED
    BY <1>12, <1>15, <1>16
-----------------------------------------------------------------------------
\* The zero before all lines, and that behind the last.
LEMMA GapEnds ==
    ASSUME HistoryInv
    PROVE  /\ GapAt(Len(kept)) = HistSize - 1
           /\ \E l \in Nat : /\ l = Len(Flat(kept)) /\ l <= HistSize
                             /\ GapAt(0) = IF l = HistSize THEN HistSize - 1 ELSE HistSize - l - 1
  <1>1. PICK k \in Nat : k = Len(kept) /\ k >= 1
    BY KeptIs, Sizes
  <1>2. 1 \in 1 .. Len(kept) /\ k \in 1 .. Len(kept) /\ 1 - 1 = 0
    BY <1>1
  <1>3. PICK h \in Nat, l \in Nat, p \in Nat, m \in Nat : Between(k, h, l, p, m)
    BY <1>2, BetweenIs
  <1>4. GapAt(k) = h - l + p + m /\ p + m + 1 = l /\ h = HistSize
    BY <1>1, <1>3 DEF Between
  <1>5. GapAt(k) = h - 1
    BY <1>4
  <1>6. PICK h2 \in Nat, l2 \in Nat, p2 \in Nat, m2 \in Nat : Between(1, h2, l2, p2, m2)
    BY <1>2, BetweenIs
  <1>7. /\ l2 = Len(Flat(kept)) /\ l2 <= HistSize /\ h2 = HistSize /\ p2 = 0
        /\ GapAt(0) = IF p2 = 0 /\ l2 = h2 THEN h2 - 1 ELSE h2 - l2 + p2 - 1
    BY <1>2, <1>6 DEF Between
  <1>8. GapAt(0) = IF l2 = h2 THEN h2 - 1 ELSE h2 - l2 - 1
    BY <1>7
  <1>9. QED
    BY <1>1, <1>4, <1>5, <1>7, <1>8

\* The search from a zero before or behind a line finds that line.
LEMMA RecallFinds ==
    ASSUME HistoryInv, NEW dir \in {-1, 1}, NEW beyond, NEW g \in 0 .. Len(kept), NEW from,
           from = Wrapped(cmd_hrail + GapAt(g)),
           NEW n \in 1 .. Len(kept),
           n = IF dir < 0 THEN IF g = 0 THEN Len(kept) ELSE g
                          ELSE IF g = Len(kept) THEN 1 ELSE g + 1
    PROVE  cmd_GetHistory(from, dir, beyond) =
               [line |-> kept[n],
                pos  |-> Wrapped(cmd_hrail + GapAt(IF dir < 0 THEN n - 1 ELSE n))]
  <1>1. PICK k \in Nat : k = Len(kept) /\ k >= 1 /\ n \in Nat /\ 1 <= n /\ n <= k
    BY KeptIs, Sizes
  <1>2. PICK off \in HistCell : off = GapAt(g) /\ Unrolled(Flat(kept), off) = NUL
    BY GapIsZero
  <1>3. from \in HistCell /\ Entry(from, off)
    <2>1. from = Wrapped(cmd_hrail + off) /\ cmd_hrail \in HistCell
      BY <1>2 DEF HistoryInv
    <2>2. from \in HistCell
      <3>1. PICK r \in Nat : r = cmd_hrail /\ r < HistSize
        BY <2>1, Sizes DEF HistCell
      <3>2. PICK o \in Nat : o = off /\ o < HistSize
        BY Sizes DEF HistCell
      <3>3. r + o \in 0 .. 2 * HistSize - 1
        BY <3>1, <3>2, Sizes
      <3>4. QED
        BY <2>1, <3>1, <3>2, <3>3, WrapsAround
    <2>3. QED
      BY <2>1, <2>2 DEF Entry
  <1>4. PICK h \in Nat, l \in Nat, p \in Nat, m \in Nat : Between(n, h, l, p, m)
    BY BetweenIs
  <1>5. h = HistSize /\ l = Len(Flat(kept))
    BY <1>4 DEF Between
  <1>6. CASE dir = -1
    <2>1. n - 1 \in 0 .. Len(kept) /\ dir < 0
      BY <1>1, <1>6
    <2>2. PICK zero \in HistCell : zero = GapAt(n - 1) /\ Unrolled(Flat(kept), zero) = NUL
      BY <2>1, GapIsZero
    <2>3. off = GapAt(n) \/ (n = Len(kept) /\ off = GapAt(0))
      BY <1>2, <2>1
    <2>4. GapAt(0) = IF l = h THEN h - 1 ELSE h - l - 1
      BY <1>5, GapEnds
    <2>5. PICK a \in Nat \ {0} : Reaches(off, -1, a, h, l, p, m, GapAt(n - 1))
      BY <1>4, <2>3, <2>4, ReachesBack
    <2>6. Reaches(off, dir, a, h, l, p, m, zero)
      BY <1>6, <2>2, <2>5
    <2>7. Leads(from, dir, off, n, a, h, l, p, m, zero)
      BY <1>2, <1>3, <1>4, <2>2, <2>6 DEF Leads
    <2>8. Finds(from, dir, beyond, n, zero)
      BY <2>7, ReachesFinds
    <2>9. QED
      BY <2>1, <2>2, <2>8 DEF Finds
  <1>7. CASE dir = 1
    <2>1. ~(dir < 0)
      BY <1>7
    <2>2. PICK zero \in HistCell : zero = GapAt(n) /\ Unrolled(Flat(kept), zero) = NUL
      <3>1. n \in 0 .. Len(kept)
        BY <1>1
      <3>2. QED
        BY <3>1, GapIsZero
    <2>3. off = GapAt(n - 1) \/ (n = 1 /\ off = h - 1)
      <3>1. g = Len(kept) => n = 1 /\ off = h - 1
        BY <1>2, <1>5, <2>1, GapEnds
      <3>2. g # Len(kept) => n - 1 = g
        <4>1. g # Len(kept) => n = g + 1
          BY <2>1
        <4>2. g \in Int
          BY <1>1
        <4>3. QED
          BY <4>1, <4>2
      <3>3. QED
        BY <1>2, <3>1, <3>2
    <2>4. PICK a \in Nat \ {0} : Reaches(off, 1, a, h, l, p, m, GapAt(n))
      BY <1>4, <2>3, ReachesOn
    <2>5. Reaches(off, dir, a, h, l, p, m, zero)
      BY <1>7, <2>2, <2>4
    <2>6. Leads(from, dir, off, n, a, h, l, p, m, zero)
      BY <1>2, <1>3, <1>4, <2>2, <2>5 DEF Leads
    <2>7. Finds(from, dir, beyond, n, zero)
      BY <2>6, ReachesFinds
    <2>8. QED
      BY <2>1, <2>2, <2>7 DEF Finds
  <1>8. QED
    BY <1>6, <1>7
-----------------------------------------------------------------------------
\* Edits of a buffer that holds a line and zeros behind it.
LEMMA LineInBuffer ==
    ASSUME NEW s \in EditLine
    PROVE  /\ Buffered(s) \in [Cell -> Char]
           /\ \A i \in Cell : Buffered(s)[i] = IF i < Len(s) THEN s[i + 1] ELSE NUL
           /\ TextLen(Buffered(s)) = Len(s) /\ Text(Buffered(s)) = s
  <1>1. s \in Seq(Char)
    BY EditLineIs, SeqMonotonic
  <1>2. QED
    BY <1>1, BufferedIs, BufferedLine

LEMMA CellIs ==
    ASSUME NEW i \in Cell
    PROVE  i \in Nat /\ i <= LenCmd - 1 /\ i < LenCmd
  BY Sizes DEF Cell

LEMMA InsertedIs ==
    ASSUME NEW s \in EditLine, NEW ch \in Char \ {NUL}, NEW n \in Nat, n = Len(s),
           n < LenCmd - 1, NEW c \in 0 .. n, c = cmd_idx, NEW l \in Nat, l = len,
           l = n \/ (c = n /\ l < n)
    PROVE  Inserted(Buffered(s), ch) = Buffered(InsertAt(s, c + 1, ch))
  <1>1. PICK t \in EditLine : /\ t = InsertAt(s, c + 1, ch) /\ Len(t) = n + 1
                              /\ \A k \in 1 .. n + 1 :
                                    t[k] = IF k <= c THEN s[k] ELSE IF k = c + 1 THEN ch ELSE s[k - 1]
    BY InsertAtIs
  <1>2. PICK b \in [Cell -> Char] : /\ b = Buffered(s)
                                    /\ \A i \in Cell : b[i] = IF i < n THEN s[i + 1] ELSE NUL
    BY LineInBuffer
  <1>3. Inserted(b, ch) = [i \in Cell |-> IF i = c THEN ch ELSE IF i > c /\ i <= l THEN b[i - 1] ELSE b[i]]
    BY DEF Inserted
  <1>4. Buffered(t) = [i \in Cell |-> IF i < n + 1 THEN t[i + 1] ELSE NUL]
    BY <1>1 DEF Buffered
  <1>5. ASSUME NEW i \in Cell
        PROVE  (IF i = c THEN ch ELSE IF i > c /\ i <= l THEN b[i - 1] ELSE b[i])
                   = IF i < n + 1 THEN t[i + 1] ELSE NUL
    <2>1. i \in Nat /\ i <= LenCmd - 1
      BY CellIs
    <2>2. CASE i < c
      <3>1. i < n /\ i < n + 1 /\ i + 1 \in 1 .. n + 1 /\ i + 1 <= c
        BY <2>1, <2>2
      <3>2. t[i + 1] = s[i + 1] /\ b[i] = s[i + 1]
        BY <1>1, <1>2, <3>1
      <3>3. QED
        BY <2>1, <2>2, <3>1, <3>2
    <2>3. CASE i = c
      <3>1. i < n + 1 /\ i + 1 \in 1 .. n + 1 /\ ~(i + 1 <= c) /\ i + 1 = c + 1
        BY <2>3
      <3>2. t[i + 1] = ch
        BY <1>1, <3>1
      <3>3. QED
        BY <2>3, <3>1, <3>2
    <2>4. CASE c < i /\ i <= n
      <3>1. /\ i < n + 1 /\ i + 1 \in 1 .. n + 1 /\ ~(i + 1 <= c) /\ i + 1 # c + 1
            /\ (i + 1) - 1 = i /\ i <= l /\ i # c
            /\ i - 1 \in Nat /\ i - 1 < n /\ i - 1 <= LenCmd - 1 /\ (i - 1) + 1 = i
        <4>1. l = n
          BY <2>1, <2>4
        <4>2. i # c /\ i + 1 # c + 1 /\ ~(i + 1 <= c) /\ i \in Int /\ i >= 1
          BY <2>1, <2>4
        <4>3. i < n + 1 /\ i + 1 \in 1 .. n + 1 /\ i <= l
          BY <2>1, <2>4, <4>1, <4>2
        <4>4. /\ (i + 1) - 1 = i /\ i - 1 \in Nat /\ i - 1 < n
              /\ i - 1 <= LenCmd - 1 /\ (i - 1) + 1 = i
          <5>1. i - 1 < n /\ i - 1 \in Nat /\ (i - 1) + 1 = i /\ (i + 1) - 1 = i
            BY <2>4, <4>2
          <5>2. i - 1 <= LenCmd - 1
            BY <2>1, Sizes
          <5>3. QED
            BY <5>1, <5>2
        <4>5. QED
          BY <4>2, <4>3, <4>4
      <3>2. i - 1 \in Cell
        BY <3>1, Sizes DEF Cell
      <3>3. t[i + 1] = s[i] /\ b[i - 1] = s[i]
        BY <1>1, <1>2, <3>1, <3>2
      <3>4. QED
        BY <2>4, <3>1, <3>3
    <2>5. CASE n < i
      <3>1. ~(i < n + 1) /\ ~(i < n) /\ i # c /\ ~(i <= l)
        BY <2>1, <2>5
      <3>2. b[i] = NUL
        BY <1>2, <3>1
      <3>3. QED
        BY <3>1, <3>2
    <2>6. QED
      BY <2>1, <2>2, <2>3, <2>4, <2>5
  <1>6. QED
    BY <1>1, <1>2, <1>3, <1>4, <1>5

LEMMA RemovedIs ==
    ASSUME NEW s \in EditLine, NEW n \in Nat, n = Len(s), NEW c \in 1 .. n, c = cmd_idx, n = len
    PROVE  Removed(Buffered(s)) = Buffered(RemoveAt(s, c))
  <1>1. PICK t \in EditLine : /\ t = RemoveAt(s, c) /\ Len(t) = n - 1
                              /\ \A k \in 1 .. n - 1 : t[k] = IF k < c THEN s[k] ELSE s[k + 1]
    <2>1. c \in 1 .. Len(s)
      OBVIOUS
    <2>2. /\ RemoveAt(s, c) \in EditLine /\ Len(RemoveAt(s, c)) = Len(s) - 1
          /\ \A k \in 1 .. Len(s) - 1 : RemoveAt(s, c)[k] = IF k < c THEN s[k] ELSE s[k + 1]
      BY <2>1, RemoveAtIs
    <2>3. QED
      BY <2>2
  <1>2. PICK b \in [Cell -> Char] : /\ b = Buffered(s)
                                    /\ \A i \in Cell : b[i] = IF i < n THEN s[i + 1] ELSE NUL
    BY LineInBuffer
  <1>3. n <= LenCmd - 1
    <2>1. Len(s) \in 0 .. LenCmd - 1
      BY EditLineIs
    <2>2. QED
      BY <2>1, Sizes
  <1>4. Removed(b) = [i \in Cell |-> IF i = n - 1 THEN NUL
                                     ELSE IF i >= c - 1 /\ i < n - 1 THEN b[i + 1] ELSE b[i]]
    BY DEF Removed
  <1>5. Buffered(t) = [i \in Cell |-> IF i < n - 1 THEN t[i + 1] ELSE NUL]
    BY <1>1 DEF Buffered
  <1>6. ASSUME NEW i \in Cell
        PROVE  (IF i = n - 1 THEN NUL ELSE IF i >= c - 1 /\ i < n - 1 THEN b[i + 1] ELSE b[i])
                   = IF i < n - 1 THEN t[i + 1] ELSE NUL
    <2>1. i \in Nat /\ i <= LenCmd - 1
      BY CellIs
    <2>2. CASE i < c - 1
      <3>1. i < n /\ i < n - 1 /\ i + 1 \in 1 .. n - 1 /\ i + 1 < c /\ ~(i >= c - 1) /\ i # n - 1
        BY <2>1, <2>2
      <3>2. t[i + 1] = s[i + 1] /\ b[i] = s[i + 1]
        BY <1>1, <1>2, <3>1
      <3>3. QED
        BY <3>1, <3>2
    <2>3. CASE i >= c - 1 /\ i < n - 1
      <3>1. i + 1 \in 1 .. n - 1 /\ ~(i + 1 < c) /\ i # n - 1 /\ i + 1 < n /\ i + 1 <= LenCmd - 1
        <4>1. i + 1 \in 1 .. n - 1 /\ i # n - 1 /\ i + 1 < n
          BY <2>1, <2>3
        <4>2. ~(i + 1 < c)
          BY <2>1, <2>3
        <4>3. i + 1 <= LenCmd - 1
          BY <1>3, <2>1, <4>1, Sizes
        <4>4. QED
          BY <4>1, <4>2, <4>3
      <3>2. i + 1 \in Cell
        BY <2>1, <3>1, Sizes DEF Cell
      <3>3. t[i + 1] = s[(i + 1) + 1] /\ b[i + 1] = s[(i + 1) + 1]
        BY <1>1, <1>2, <3>1, <3>2
      <3>4. QED
        BY <2>3, <3>1, <3>3
    <2>4. CASE i = n - 1
      BY <2>1, <2>4
    <2>5. CASE n - 1 < i
      <3>1. ~(i < n - 1) /\ ~(i < n) /\ i # n - 1
        BY <2>1, <2>5
      <3>2. b[i] = NUL
        BY <1>2, <3>1
      <3>3. QED
        BY <3>1, <3>2
    <2>6. QED
      BY <2>1, <2>2, <2>3, <2>4, <2>5
  <1>7. QED
    BY <1>1, <1>2, <1>4, <1>5, <1>6
-----------------------------------------------------------------------------
\* The line is that of the user, and a search goes on from the zero the user is at.
Shown(b, idx, view) == b = Buffered(view.line) /\ idx = view.cur

\* The place of the search is the zero behind the lines that the view says.
Placed(pos, gap) == pos # HistSize => pos = Wrapped(cmd_hrail + GapAt(gap))

\* The invariant of LineAsEdited: at the prompt and in between two polls.
LineInv ==
    ~excused /\ ~broken =>
        /\ cmd_idx >= 0 => Shown(cmd_buffer, cmd_idx, ideal) /\ Placed(cmd_hrpos, ideal.gap)
        /\ cmd_idx < -1 => Shown(cmd_buffer, -2 - cmd_idx, ideal)

\* A key that leaves the history alone.
LEMMA LineKeeps ==
    ASSUME cmd_idx' >= 0, UNCHANGED <<cmd_hrail, kept>>,
           ~excused' /\ ~broken' =>
               Shown(cmd_buffer', cmd_idx', ideal') /\ Placed(cmd_hrpos', ideal'.gap),
           cmd_idx' \in Nat
    PROVE  LineInv'
  <1>1. ~(cmd_idx' < -1)
    OBVIOUS
  <1>2. GapAt(ideal.gap)' = GapAt(ideal'.gap)
    BY DEF GapAt, Border, FirstLines, Flat
  <1>3. Placed(cmd_hrpos, ideal.gap)' = Placed(cmd_hrpos', ideal'.gap)
    BY <1>2 DEF Placed, Wrapped
  <1>4. Shown(cmd_buffer, cmd_idx, ideal)' = Shown(cmd_buffer', cmd_idx', ideal')
    BY DEF Shown, Buffered
  <1>5. QED
    BY <1>1, <1>3, <1>4 DEF LineInv

\* What a supported key starts from.
LEMMA EditedLine ==
    ASSUME EditingInv, LineInv, ~excused
    PROVE  \E s \in EditLine, n \in Nat, c \in Nat :
              /\ s = ideal.line /\ n = Len(s) /\ n <= LenCmd - 1 /\ c = ideal.cur /\ c <= n
              /\ cmd_buffer = Buffered(s) /\ cmd_idx = c /\ TextLen(cmd_buffer) = n
              /\ Placed(cmd_hrpos, ideal.gap)
  <1>1. ~broken /\ cmd_idx \in 0 .. LenCmd /\ IsView(ideal, Len(kept))
    BY EditingIs DEF EditingInv
  <1>2. Shown(cmd_buffer, cmd_idx, ideal) /\ Placed(cmd_hrpos, ideal.gap)
    BY <1>1, Sizes DEF LineInv
  <1>3. PICK s \in EditLine : s = ideal.line
    BY <1>1 DEF IsView
  <1>4. PICK n \in Nat : n = Len(s) /\ n <= LenCmd - 1
    BY EditLineIs, Sizes
  <1>5. PICK c \in Nat : c = ideal.cur /\ c <= n
    BY <1>1, <1>3, <1>4 DEF IsView
  <1>6. cmd_buffer = Buffered(s) /\ cmd_idx = c
    BY <1>2, <1>3, <1>5 DEF Shown
  <1>7. TextLen(cmd_buffer) = n
    BY <1>4, <1>6, LineInBuffer
  <1>8. QED
    BY <1>2, <1>3, <1>4, <1>5, <1>6, <1>7
-----------------------------------------------------------------------------
\* The keys, one by one.
LEMMA TypedLine ==
    ASSUME ShellInv, LineInv, NEW ch \in {Letter, Dot} \cup Digit, Typed(ch)
    PROVE  LineInv'
  <1>1. EditingInv
    BY DEF Typed, Key, EditingInv
  <1>2. ch \in Char \ {NUL}
    BY DEF Char, NUL, Letter, Dot, Digit, Zero
  <1>3. /\ cmd_idx' >= 0 /\ cmd_idx' \in Nat /\ UNCHANGED <<cmd_hrail, kept>>
        /\ \/ broken'
           \/ len = LenCmd - 1 /\ Moved(cmd_idx)
           \/ /\ len # LenCmd - 1 /\ cmd_hrpos' = cmd_hrpos
              /\ Edited(Inserted(cmd_buffer, ch), cmd_idx + 1)
    <2>1. cmd_idx \in Nat /\ cmd_idx + 1 \in Nat
      BY <1>1, EditingIs, Sizes
    <2>2. \/ len = LenCmd - 1 /\ Moved(cmd_idx)
          \/ Overrun
          \/ /\ len # LenCmd - 1 /\ cmd_hrpos' = cmd_hrpos
             /\ Edited(Inserted(cmd_buffer, ch), cmd_idx + 1)
      BY DEF Typed, Key
    <2>3. /\ cmd_idx' = cmd_idx \/ cmd_idx' = cmd_idx + 1
          /\ UNCHANGED <<cmd_hrail, kept>>
          /\ Overrun => broken'
      BY <2>2 DEF Moved, Edited, Overrun
    <2>4. QED
      BY <2>1, <2>2, <2>3
  <1>4. ASSUME ~excused', ~broken'
        PROVE  Shown(cmd_buffer', cmd_idx', ideal') /\ Placed(cmd_hrpos', ideal'.gap)
    <2>1. /\ ~excused
          /\ Fresh \/ (/\ len < TextLen(cmd_buffer) /\ TextLen(cmd_buffer) < LenCmd - 1
                       /\ cmd_idx = TextLen(cmd_buffer))
          /\ ideal' = IF Len(ideal.line) < LenCmd - 1
                      THEN [ideal EXCEPT !.line = InsertAt(@, ideal.cur + 1, ch), !.cur = @ + 1]
                      ELSE ideal
      BY <1>4 DEF Typed, Key, Expect
    <2>2. PICK s \in EditLine, n \in Nat, c \in Nat :
              /\ s = ideal.line /\ n = Len(s) /\ n <= LenCmd - 1 /\ c = ideal.cur /\ c <= n
              /\ cmd_buffer = Buffered(s) /\ cmd_idx = c /\ TextLen(cmd_buffer) = n
              /\ Placed(cmd_hrpos, ideal.gap)
      BY <1>1, <2>1, EditedLine
    <2>3. PICK l \in Nat : l = len
      BY <1>1, EditingIs, Sizes
    <2>4. l = n \/ (l < n /\ n < LenCmd - 1 /\ c = n)
      BY <2>1, <2>2, <2>3 DEF Fresh
    <2>5. CASE len = LenCmd - 1
      <3>1. ~(n < LenCmd - 1)
        BY <2>3, <2>4, <2>5, Sizes
      <3>2. ideal' = ideal
        BY <2>1, <2>2, <3>1
      <3>3. cmd_buffer' = cmd_buffer /\ cmd_idx' = cmd_idx /\ cmd_hrpos' = cmd_hrpos
        BY <1>3, <1>4, <2>5 DEF Moved, Edited
      <3>4. QED
        BY <2>2, <3>2, <3>3 DEF Shown
    <2>6. CASE len # LenCmd - 1
      <3>1. n < LenCmd - 1
        BY <2>2, <2>3, <2>4, <2>6, Sizes
      <3>2. /\ ideal' = [ideal EXCEPT !.line = InsertAt(s, c + 1, ch), !.cur = c + 1]
            /\ IsView(ideal, Len(kept))
        BY <1>1, <2>1, <2>2, <3>1, EditingIs
      <3>3. ideal'.line = InsertAt(s, c + 1, ch) /\ ideal'.cur = c + 1 /\ ideal'.gap = ideal.gap
        BY <3>2 DEF IsView
      <3>4. cmd_buffer' = Inserted(Buffered(s), ch) /\ cmd_idx' = c + 1 /\ cmd_hrpos' = cmd_hrpos
        BY <1>3, <1>4, <2>2, <2>6 DEF Edited
      <3>5. Inserted(Buffered(s), ch) = Buffered(InsertAt(s, c + 1, ch))
        <4>1. c \in 0 .. n /\ (l = n \/ (c = n /\ l < n))
          BY <2>2, <2>4
        <4>2. QED
          BY <1>2, <2>2, <2>3, <3>1, <4>1, InsertedIs
      <3>6. QED
        BY <2>2, <3>3, <3>4, <3>5 DEF Shown
    <2>7. QED
      BY <2>5, <2>6
  <1>5. QED
    BY <1>3, <1>4, LineKeeps

LEMMA BackspaceLine ==
    ASSUME ShellInv, LineInv, Backspace
    PROVE  LineInv'
  <1>1. EditingInv
    BY DEF Backspace, Key, EditingInv
  <1>2. PICK x \in 0 .. LenCmd : x = cmd_idx
    BY <1>1, EditingIs
  <1>3. /\ cmd_idx' >= 0 /\ cmd_idx' \in Nat /\ UNCHANGED <<cmd_hrail, kept>>
        /\ x = 0 => Moved(0)
        /\ x # 0 /\ len > 0 => /\ Edited(Removed(cmd_buffer), x - 1) /\ cmd_hrpos' = cmd_hrpos
        /\ x # 0 /\ ~(len > 0) => broken'
    <2>1. /\ x = 0 => Moved(0)
          /\ x # 0 /\ len > 0 => Edited(Removed(cmd_buffer), x - 1) /\ cmd_hrpos' = cmd_hrpos
          /\ x # 0 /\ ~(len > 0) => Overrun
      BY <1>2 DEF Backspace, Key
    <2>2. x \in Nat /\ (x # 0 => x - 1 \in Nat)
      BY Sizes
    <2>3. /\ cmd_idx' = 0 \/ cmd_idx' = x \/ (x # 0 /\ cmd_idx' = x - 1)
          /\ UNCHANGED <<cmd_hrail, kept>>
          /\ Overrun => broken'
      BY <1>2, <2>1 DEF Moved, Edited, Overrun
    <2>4. cmd_idx' \in Nat
      BY <2>2, <2>3
    <2>5. QED
      BY <2>1, <2>3, <2>4
  <1>4. ASSUME ~excused', ~broken'
        PROVE  Shown(cmd_buffer', cmd_idx', ideal') /\ Placed(cmd_hrpos', ideal'.gap)
    <2>1. /\ ~excused /\ Fresh
          /\ ideal' = IF ideal.cur = 0 THEN ideal
                      ELSE [ideal EXCEPT !.line = RemoveAt(@, ideal.cur), !.cur = @ - 1]
      BY <1>4 DEF Backspace, Key, Expect
    <2>2. PICK s \in EditLine, n \in Nat, c \in Nat :
              /\ s = ideal.line /\ n = Len(s) /\ n <= LenCmd - 1 /\ c = ideal.cur /\ c <= n
              /\ cmd_buffer = Buffered(s) /\ cmd_idx = c /\ TextLen(cmd_buffer) = n
              /\ Placed(cmd_hrpos, ideal.gap)
      BY <1>1, <2>1, EditedLine
    <2>3. len = n /\ x = c
      BY <1>2, <2>1, <2>2 DEF Fresh
    <2>4. CASE c = 0
      <3>1. cmd_buffer' = cmd_buffer /\ cmd_idx' = 0 /\ cmd_hrpos' = cmd_hrpos /\ ideal' = ideal
        BY <1>3, <2>1, <2>2, <2>3, <2>4 DEF Moved, Edited
      <3>2. QED
        BY <2>2, <2>4, <3>1 DEF Shown
    <2>5. CASE c # 0
      <3>1. len > 0 /\ c \in 1 .. n
        BY <2>2, <2>3, <2>5
      <3>2. /\ ideal' = [ideal EXCEPT !.line = RemoveAt(s, c), !.cur = c - 1]
            /\ IsView(ideal, Len(kept))
        BY <1>1, <2>1, <2>2, <2>5, EditingIs
      <3>3. ideal'.line = RemoveAt(s, c) /\ ideal'.cur = c - 1 /\ ideal'.gap = ideal.gap
        BY <3>2 DEF IsView
      <3>4. cmd_buffer' = Removed(Buffered(s)) /\ cmd_idx' = c - 1 /\ cmd_hrpos' = cmd_hrpos
        BY <1>3, <2>2, <2>3, <2>5, <3>1 DEF Edited
      <3>5. Removed(Buffered(s)) = Buffered(RemoveAt(s, c))
        BY <2>2, <2>3, <3>1, RemovedIs
      <3>6. QED
        BY <2>2, <3>3, <3>4, <3>5 DEF Shown
    <2>6. QED
      BY <2>4, <2>5
  <1>5. QED
    BY <1>3, <1>4, LineKeeps

\* The keys that move in the line, and up and down on what is not a number.
LEMMA MovedLine ==
    ASSUME EditingInv, LineInv, NEW idx \in Nat, Moved(idx), NEW cur, NEW sound,
           Expect([ideal EXCEPT !.cur = cur], sound),
           ~excused /\ sound => idx = cur
    PROVE  LineInv'
  <1>1. /\ cmd_buffer' = cmd_buffer /\ cmd_idx' = idx /\ cmd_hrpos' = cmd_hrpos
        /\ UNCHANGED <<cmd_hrail, kept>>
    BY DEF Moved, Edited
  <1>2. ASSUME ~excused', ~broken'
        PROVE  Shown(cmd_buffer', cmd_idx', ideal') /\ Placed(cmd_hrpos', ideal'.gap)
    <2>1. ~excused /\ sound /\ ideal' = [ideal EXCEPT !.cur = cur]
      BY <1>2 DEF Expect
    <2>2. PICK s \in EditLine, n \in Nat, c \in Nat :
              /\ s = ideal.line /\ n = Len(s) /\ n <= LenCmd - 1 /\ c = ideal.cur /\ c <= n
              /\ cmd_buffer = Buffered(s) /\ cmd_idx = c /\ TextLen(cmd_buffer) = n
              /\ Placed(cmd_hrpos, ideal.gap)
      BY <2>1, EditedLine
    <2>3. ideal'.line = s /\ ideal'.cur = cur /\ ideal'.gap = ideal.gap
      BY <2>1, <2>2, EditingIs DEF IsView
    <2>4. QED
      BY <1>1, <2>1, <2>2, <2>3 DEF Shown
  <1>3. cmd_idx' >= 0 /\ cmd_idx' \in Nat
    BY <1>1
  <1>4. QED
    BY <1>1, <1>2, <1>3, LineKeeps

LEMMA CursorLine ==
    ASSUME ShellInv, LineInv, Right \/ Left \/ Home \/ End
    PROVE  LineInv'
  <1>1. EditingInv
    BY DEF Right, Left, Home, End, Key, EditingInv
  <1>2. PICK x \in Nat : x = cmd_idx
    BY <1>1, EditingIs, Sizes
  <1>3. PICK l \in Nat : l = len
    BY <1>1, EditingIs, Sizes
  <1>4. ASSUME ~excused
        PROVE  \E n \in Nat : /\ n = Len(ideal.line) /\ x = ideal.cur /\ x <= n
                              /\ Fresh => l = n
    BY <1>1, <1>2, <1>3, <1>4, EditedLine DEF Fresh
  <1>5. CASE Right
    <2> DEFINE idx == IF x < l THEN x + 1 ELSE x
               cur == IF ideal.cur < Len(ideal.line) THEN ideal.cur + 1 ELSE ideal.cur
    <2>1. Moved(idx) /\ Expect([ideal EXCEPT !.cur = cur], Fresh)
      BY <1>2, <1>3, <1>5 DEF Right, Key
    <2>2. ~excused /\ Fresh => idx = cur
      BY <1>4
    <2>3. idx \in Nat
      OBVIOUS
    <2> HIDE DEF idx, cur
    <2>4. QED
      BY <1>1, <2>1, <2>2, <2>3, MovedLine
  <1>6. CASE Left
    <2> DEFINE idx == IF x > 0 THEN x - 1 ELSE x
               cur == IF ideal.cur > 0 THEN ideal.cur - 1 ELSE ideal.cur
    <2>1. Moved(idx) /\ Expect([ideal EXCEPT !.cur = cur], TRUE)
      BY <1>2, <1>6 DEF Left, Key
    <2>2. ~excused /\ TRUE => idx = cur
      BY <1>4
    <2>3. idx \in Nat
      OBVIOUS
    <2> HIDE DEF idx, cur
    <2>4. QED
      BY <1>1, <2>1, <2>2, <2>3, MovedLine
  <1>7. CASE Home
    <2>1. Moved(0) /\ Expect([ideal EXCEPT !.cur = 0], TRUE)
      BY <1>7 DEF Home, Key
    <2>2. QED
      BY <1>1, <2>1, MovedLine
  <1>8. CASE End
    <2> DEFINE idx == IF x < l THEN l ELSE x
    <2>1. Moved(idx) /\ Expect([ideal EXCEPT !.cur = Len(ideal.line)], Fresh)
      BY <1>2, <1>3, <1>8 DEF End, Key
    <2>2. ~excused /\ Fresh => idx = Len(ideal.line)
      BY <1>4
    <2>3. idx \in Nat
      OBVIOUS
    <2> HIDE DEF idx
    <2>4. QED
      BY <1>1, <2>1, <2>2, <2>3, MovedLine
  <1>9. QED
    BY <1>5, <1>6, <1>7, <1>8

LEMMA RecallLine ==
    ASSUME ShellInv, LineInv, NEW dir \in {-1, 1}, Recall(dir)
    PROVE  LineInv'
  <1>1. EditingInv
    BY DEF Recall, Key, EditingInv
  <1>2. HistoryInv /\ cmd_history \in [HistCell -> Char]
    BY DEF ShellInv, ConsoleTypes
  <1>3. PICK beyond \in {NUL, Letter} :
           LET found == cmd_GetHistory(cmd_hrpos, dir, beyond)
           IN  Edited(Buffered(found.line), Len(found.line)) /\ cmd_hrpos' = found.pos
    BY DEF Recall, Key
  <1>4. PICK found : found = cmd_GetHistory(cmd_hrpos, dir, beyond)
    OBVIOUS
  <1>5. /\ cmd_buffer' = Buffered(found.line) /\ cmd_idx' = Len(found.line)
        /\ cmd_hrpos' = found.pos /\ UNCHANGED <<cmd_hrail, kept>>
    BY <1>3, <1>4 DEF Edited
  <1>6. cmd_idx' \in Nat /\ cmd_idx' >= 0
    <2>1. Len(found.line) \in 1 .. LenCmd
      BY <1>1, <1>2, <1>4, EditingIs, GetHistoryTypes
    <2>2. QED
      BY <1>5, <2>1, Sizes
  <1>7. ASSUME ~excused', ~broken'
        PROVE  Shown(cmd_buffer', cmd_idx', ideal') /\ Placed(cmd_hrpos', ideal'.gap)
    <2>1. ~excused /\ cmd_hrpos # HistSize /\ ideal' = Recalled(dir)
      BY <1>7 DEF Recall, Key, Expect
    <2>2. PICK g \in 0 .. Len(kept) : g = ideal.gap
      BY <1>1, EditingIs DEF IsView
    <2>3. cmd_hrpos = Wrapped(cmd_hrail + GapAt(g))
      BY <1>1, <2>1, <2>2, EditedLine DEF Placed
    <2>4. PICK n \in 1 .. Len(kept) :
             /\ n = IF dir < 0 THEN IF g = 0 THEN Len(kept) ELSE g
                               ELSE IF g = Len(kept) THEN 1 ELSE g + 1
             /\ Recalled(dir) = [line |-> kept[n], cur |-> Len(kept[n]),
                                 gap |-> IF dir < 0 THEN n - 1 ELSE n]
      BY <1>2, <2>2, RecalledView
    <2>5. found = [line |-> kept[n],
                   pos  |-> Wrapped(cmd_hrail + GapAt(IF dir < 0 THEN n - 1 ELSE n))]
      BY <1>2, <1>4, <2>3, <2>4, RecallFinds
    <2>6. QED
      BY <1>5, <2>1, <2>4, <2>5 DEF Shown, Placed
  <1>8. QED
    BY <1>5, <1>6, <1>7, LineKeeps
-----------------------------------------------------------------------------
\* The start of a poll.
LEMMA NewestPlaced ==
    ASSUME HistoryInv, NewestPos # HistSize
    PROVE  NewestPos = Wrapped(cmd_hrail + GapAt(Len(kept)))
  <1>1. PICK r \in Nat : r = cmd_hrail /\ r < HistSize
    BY Sizes DEF HistoryInv, HistCell
  <1>2. PICK h \in Nat : h = HistSize
    BY Sizes
  <1>3. r # 0 /\ NewestPos = r - 1
    BY <1>1, <1>2 DEF NewestPos
  <1>4. GapAt(Len(kept)) = h - 1
    BY <1>2, GapEnds
  <1>5. ~(r + (h - 1) < h) /\ (r + (h - 1)) - h = r - 1
    BY <1>1, <1>2, <1>3
  <1>6. QED
    BY <1>1, <1>2, <1>3, <1>4, <1>5 DEF Wrapped

LEMMA PollLine ==
    ASSUME ShellInv, LineInv, Poll
    PROVE  LineInv'
  <1>1. UNCHANGED <<cmd_history, cmd_hrail, kept, keys>> /\ ~broken /\ HistoryInv
    BY DEF Poll, ShellInv
  <1>2. CASE GoOn
    <2>1. /\ cmd_idx >= 0 /\ cmd_idx \in -LenCmd - 1 .. LenCmd
          /\ UNCHANGED <<cmd_buffer, cmd_idx, cmd_hrpos, broken, ideal, excused>>
      BY <1>2 DEF GoOn, ShellInv, ConsoleTypes
    <2>2. cmd_idx' >= 0 /\ cmd_idx' \in Nat
      BY <2>1, Sizes
    <2>3. ASSUME ~excused', ~broken'
          PROVE  Shown(cmd_buffer', cmd_idx', ideal') /\ Placed(cmd_hrpos', ideal'.gap)
      <3>1. Shown(cmd_buffer, cmd_idx, ideal) /\ Placed(cmd_hrpos, ideal.gap)
        BY <2>1, <2>3 DEF LineInv
      <3>2. QED
        BY <2>1, <3>1
    <2>4. QED
      BY <1>1, <2>2, <2>3, LineKeeps
  <1>3. CASE Start
    <2>1. /\ cmd_buffer' = Buffered(<<>>) /\ cmd_idx' = 0 /\ cmd_hrpos' = NewestPos
          /\ ideal' = [Nowhere EXCEPT !.gap = Len(kept)]
      BY <1>3 DEF Start
    <2>2. ideal'.line = <<>> /\ ideal'.cur = 0 /\ ideal'.gap = Len(kept)
      BY <2>1 DEF Nowhere
    <2>3. Shown(cmd_buffer', cmd_idx', ideal')
      BY <2>1, <2>2 DEF Shown
    <2>4. Placed(cmd_hrpos', ideal'.gap)
      BY <1>1, <2>1, <2>2, NewestPlaced DEF Placed
    <2>5. cmd_idx' >= 0 /\ cmd_idx' \in Nat
      BY <2>1
    <2>6. QED
      BY <1>1, <2>3, <2>4, <2>5, LineKeeps
  <1>4. CASE OfferAgain
    <2>1. PICK beyond \in {NUL, Letter} :
             LET found == cmd_GetHistory(NewestPos, -1, beyond)
             IN  cmd_buffer' = Buffered(found.line) /\ cmd_hrpos' = found.pos
      BY <1>4 DEF OfferAgain
    <2>2. PICK found : found = cmd_GetHistory(NewestPos, -1, beyond)
      OBVIOUS
    <2>3. cmd_buffer' = Buffered(found.line) /\ cmd_hrpos' = found.pos
      BY <2>1, <2>2
    <2>4. /\ cmd_idx < -1 /\ cmd_idx' = -2 - cmd_idx
          /\ excused' = (NewestPos = HistSize \/ -2 - cmd_idx > Len(Last(kept)))
          /\ ideal' = IF excused' THEN Nowhere
                      ELSE [line |-> Last(kept), cur |-> -2 - cmd_idx, gap |-> Len(kept) - 1]
      BY <1>4 DEF OfferAgain
    <2>5. cmd_idx' >= 0 /\ cmd_idx' \in Nat
      <3>1. cmd_idx \in -LenCmd - 1 .. LenCmd
        BY DEF ShellInv, ConsoleTypes
      <3>2. QED
        BY <2>4, <3>1, Sizes
    <2>6. ASSUME ~excused', ~broken'
          PROVE  Shown(cmd_buffer', cmd_idx', ideal') /\ Placed(cmd_hrpos', ideal'.gap)
      <3>1. PICK n \in Nat : n = Len(kept) /\ n >= 1
        BY <1>1, KeptIs, Sizes
      <3>2. /\ NewestPos # HistSize
            /\ ideal' = [line |-> kept[n], cur |-> cmd_idx', gap |-> n - 1]
        BY <2>4, <2>6, <3>1 DEF Last
      <3>3. NewestPos = Wrapped(cmd_hrail + GapAt(n))
        BY <1>1, <3>1, <3>2, NewestPlaced
      <3>4. /\ n \in 1 .. Len(kept) /\ n \in 0 .. Len(kept) /\ -1 \in {-1, 1} /\ -1 < 0
            /\ n = IF -1 < 0 THEN IF n = 0 THEN Len(kept) ELSE n
                             ELSE IF n = Len(kept) THEN 1 ELSE n + 1
        BY <3>1
      <3>5. cmd_GetHistory(NewestPos, -1, beyond) =
                [line |-> kept[n],
                 pos  |-> Wrapped(cmd_hrail + GapAt(IF -1 < 0 THEN n - 1 ELSE n))]
        BY <1>1, <3>3, <3>4, RecallFinds
      <3>6. found = [line |-> kept[n], pos |-> Wrapped(cmd_hrail + GapAt(n - 1))]
        BY <2>2, <3>4, <3>5
      <3>7. QED
        BY <2>3, <3>2, <3>6 DEF Shown, Placed
    <2>7. QED
      BY <1>1, <2>5, <2>6, LineKeeps
  <1>5. QED
    BY <1>2, <1>3, <1>4 DEF Poll

LEMMA PauseLine ==
    ASSUME ShellInv, LineInv, PollEnds \/ UNCHANGED lineVars
    PROVE  LineInv'
  <1>1. UNCHANGED <<cmd_buffer, cmd_idx, cmd_history, cmd_hrail, cmd_hrpos, len, broken,
                    ideal, kept, excused, keys>>
    BY DEF PollEnds, lineVars
  <1>2. GapAt(ideal.gap)' = GapAt(ideal.gap)
    BY <1>1 DEF GapAt, Border, FirstLines, Flat
  <1>3. Placed(cmd_hrpos, ideal.gap)' = Placed(cmd_hrpos, ideal.gap)
    BY <1>1, <1>2 DEF Placed, Wrapped
  <1>4. /\ Shown(cmd_buffer, cmd_idx, ideal)' = Shown(cmd_buffer, cmd_idx, ideal)
        /\ Shown(cmd_buffer, -2 - cmd_idx, ideal)' = Shown(cmd_buffer, -2 - cmd_idx, ideal)
    BY <1>1 DEF Shown, Buffered
  <1>5. QED
    BY <1>1, <1>3, <1>4 DEF LineInv

\* No line is being edited.
LEMMA NoLine ==
    ASSUME ReturnKey \/ Hotkey \/ Reopen
    PROVE  LineInv'
  <1>1. cmd_idx' = -1
    BY DEF ReturnKey, Hotkey, Reopen, Key, Enter
  <1>2. QED
    BY <1>1 DEF LineInv
-----------------------------------------------------------------------------
\* The arithmetic of a number and its digits.
LEMMA QuotientIs ==
    ASSUME NEW w \in Nat \ {0}, NEW q \in Int, NEW r \in 0 .. w - 1, NEW a \in Int, a = q * w + r
    PROVE  a \div w = q /\ a % w = r
  OBVIOUS

\* a is q times w and r over.
Apart(a, q, w, r) == a = q * w + r

LEMMA QuotientOf ==
    ASSUME NEW w \in Nat \ {0}, NEW q \in Int, NEW r \in 0 .. w - 1, NEW a \in Int, Apart(a, q, w, r)
    PROVE  a \div w = q /\ a % w = r
  BY DEF Apart

LEMMA Division ==
    ASSUME NEW a \in Int, NEW w \in Nat \ {0}
    PROVE  a \div w \in Int /\ a % w \in 0 .. w - 1 /\ a = (a \div w) * w + (a % w)
  OBVIOUS

LEMMA MoreRounds ==
    ASSUME NEW w \in Nat \ {0}, NEW e \in Int, NEW m \in Int, NEW y \in Int, y = e + m * w
    PROVE  y % w = e % w
  <1>1. PICK q \in Int, r \in 0 .. w - 1 : e = q * w + r /\ r = e % w
    BY Division
  <1>2. PICK x \in Int : x = q + m
    OBVIOUS
  <1>3. x * w = q * w + m * w
    BY <1>2
  <1>4. y = x * w + r
    <2>1. PICK qw \in Int, mw \in Int, xw \in Int : qw = q * w /\ mw = m * w /\ xw = x * w
      OBVIOUS
    <2>2. e = qw + r /\ xw = qw + mw /\ y = e + mw
      BY <1>1, <1>3, <2>1
    <2>3. y = xw + r
      BY <2>2
    <2>4. QED
      BY <2>1, <2>3
  <1>5. y % w = r
    <2>1. \A a \in Int : a = x * w + r => a % w = r
      BY QuotientIs
    <2>2. QED
      BY <1>4, <2>1
  <1>6. QED
    BY <1>1, <1>5

LEMMA RestOf ==
    ASSUME NEW w \in Nat \ {0}, NEW e \in Int, NEW m \in Int, NEW y \in Int, Apart(y, m, w, e)
    PROVE  y % w = e % w
  <1>1. y = e + m * w
    <2>1. PICK x \in Int : x = m * w
      OBVIOUS
    <2>2. y = x + e
      BY <2>1 DEF Apart
    <2>3. QED
      BY <2>1, <2>2
  <1>2. QED
    BY <1>1, MoreRounds

LEMMA DigitTakes ==
    ASSUME NEW a \in Nat, NEW v \in Nat, NEW w \in Nat, NEW d \in Nat, NEW base \in Nat
    PROVE  a * (w * base) + (v + d * w) = (a * base + d) * w + v
  OBVIOUS

LEMMA RoundAbout ==
    ASSUME NEW b \in Nat, NEW w \in Nat, NEW base \in Nat
    PROVE  b * (w * base) = (b * base) * w
  OBVIOUS

\* A suffix is the most, or nothing, when its first digit and the rest of it are.
LEMMA FullSuffix ==
    ASSUME NEW w \in Nat \ {0}, NEW v \in 0 .. w - 1, NEW base \in Nat \ {0},
           NEW d \in 0 .. base - 1
    PROVE  /\ v + d * w = w * base - 1 <=> d = base - 1 /\ v = w - 1
           /\ v + d * w = 0 <=> d = 0 /\ v = 0
  <1>1. PICK t \in Nat : t = base - 1 - d
    OBVIOUS
  <1>2. w * base = t * w + w + d * w
    <2>1. base = t + 1 + d
      BY <1>1
    <2>2. QED
      BY <2>1
  <1>3. t = 0 <=> d = base - 1
    BY <1>1
  <1>4. v + d * w = w * base - 1 <=> v = t * w + w - 1
    <2>1. PICK x \in Int : x = d * w
      OBVIOUS
    <2>2. PICK y \in Int : y = t * w
      OBVIOUS
    <2>3. PICK z \in Int : z = w * base
      OBVIOUS
    <2>4. z = y + w + x
      BY <1>2, <2>1, <2>2, <2>3
    <2>5. v + x = z - 1 <=> v = y + w - 1
      BY <2>4
    <2>6. QED
      BY <2>1, <2>2, <2>3, <2>5
  <1>5. t # 0 => t * w >= w
    OBVIOUS
  <1>6. v = t * w + w - 1 <=> t = 0 /\ v = w - 1
    <2>1. CASE t = 0
      BY <2>1
    <2>2. CASE t # 0
      <3>1. PICK y \in Int : y = t * w /\ y >= w
        BY <1>5, <2>2
      <3>2. v # y + w - 1
        BY <3>1
      <3>3. QED
        BY <2>2, <3>1, <3>2
    <2>3. QED
      BY <2>1, <2>2
  <1>7. v + d * w = 0 <=> d = 0 /\ v = 0
    <2>1. CASE d = 0
      BY <2>1
    <2>2. CASE d # 0
      <3>1. PICK y \in Int : y = d * w /\ y >= w
        BY <2>2
      <3>2. v + y # 0
        BY <3>1
      <3>3. QED
        BY <2>2, <3>1, <3>2
    <2>3. QED
      BY <2>1, <2>2
  <1>8. QED
    BY <1>3, <1>4, <1>6, <1>7

\* A number made of a digit above a suffix, and what it has for that digit.
Above(number, d, m, base, w, v, dir) == number = (d + m * base) * w + (v + dir)
Lifts(number, w, base, v, d, dir) ==
    (number \div w) % base = IF v = (IF dir > 0 THEN w - 1 ELSE 0)
                             THEN (d + dir + base) % base ELSE d

\* A digit of the number one more or one less, above whole rounds and before a suffix.
LEMMA SteppedDigit ==
    ASSUME NEW w \in Nat \ {0}, NEW v \in 0 .. w - 1, NEW base \in Nat \ {0},
           NEW d \in 0 .. base - 1, NEW m \in Int, NEW dir \in {-1, 1}, NEW number \in Int,
           Above(number, d, m, base, w, v, dir)
    PROVE  Lifts(number, w, base, v, d, dir)
  <1>1. SUFFICES ASSUME number = (d + m * base) * w + (v + dir)
                PROVE  (number \div w) % base = IF v = (IF dir > 0 THEN w - 1 ELSE 0)
                                                THEN (d + dir + base) % base ELSE d
    BY DEF Above, Lifts
  <1> DEFINE full == v = IF dir > 0 THEN w - 1 ELSE 0
  <1>2. full <=> v = IF dir > 0 THEN w - 1 ELSE 0
    OBVIOUS
  <1> HIDE DEF full
  <1>3. d % base = d
    <2>1. Apart(d, 0, base, d)
      BY DEF Apart
    <2>2. QED
      BY <2>1, QuotientOf
  <1>4. CASE ~full
    <2>1. v + dir \in 0 .. w - 1
      <3>1. CASE dir = 1
        BY <1>2, <1>4, <3>1
      <3>2. CASE dir = -1
        BY <1>2, <1>4, <3>2
      <3>3. QED
        BY <3>1, <3>2
    <2>2. PICK q \in Int : q = d + m * base
      OBVIOUS
    <2>3. number \div w = q
      <3>1. Apart(number, q, w, v + dir)
        BY <1>1, <2>2 DEF Apart
      <3>2. PICK r \in 0 .. w - 1 : r = v + dir
        BY <2>1
      <3>3. QED
        BY <3>1, <3>2, QuotientOf
    <2>4. q % base = d
      <3>1. PICK x \in Int : x = m * base
        OBVIOUS
      <3>2. q = x + d
        BY <2>2, <3>1
      <3>3. Apart(q, m, base, d)
        BY <3>1, <3>2 DEF Apart
      <3>4. QED
        BY <1>3, <2>2, <3>3, RestOf
    <2>5. QED
      BY <1>2, <1>4, <2>3, <2>4
  <1>5. CASE full
    <2>1. PICK r \in 0 .. w - 1 : r = IF dir > 0 THEN 0 ELSE w - 1
      OBVIOUS
    <2>2. v + dir = dir * w + r
      <3>1. CASE dir = 1
        BY <1>2, <1>5, <2>1, <3>1
      <3>2. CASE dir = -1
        BY <1>2, <1>5, <2>1, <3>2
      <3>3. QED
        BY <3>1, <3>2
    <2>3. PICK e \in Int : e = d + dir
      OBVIOUS
    <2>4. PICK q \in Int : q = e + m * base
      OBVIOUS
    <2>5. number = q * w + r
      <3>1. PICK x \in Int : x = d + m * base
        OBVIOUS
      <3>2. q = x + dir
        BY <2>3, <2>4, <3>1
      <3>3. q * w = x * w + dir * w
        BY <3>2
      <3>4. QED
        BY <1>1, <2>2, <3>1, <3>3
    <2>6. number \div w = q
      <3>1. Apart(number, q, w, r)
        BY <2>5 DEF Apart
      <3>2. QED
        BY <2>1, <2>4, <3>1, QuotientOf
    <2>7. q % base = e % base
      <3>1. PICK x \in Int : x = m * base
        OBVIOUS
      <3>2. q = x + e
        BY <2>4, <3>1
      <3>3. Apart(q, m, base, e)
        BY <3>1, <3>2 DEF Apart
      <3>4. QED
        BY <2>3, <2>4, <3>3, RestOf
    <2>8. (d + dir + base) % base = e % base
      <3>1. PICK y \in Int : y = d + dir + base
        OBVIOUS
      <3>2. Apart(y, 1, base, e)
        <4>1. y = 1 * base + e
          BY <2>3, <3>1
        <4>2. QED
          BY <4>1 DEF Apart
      <3>3. y % base = e % base
        BY <2>3, <3>1, <3>2, RestOf
      <3>4. QED
        BY <3>1, <3>3
    <2>9. QED
      BY <1>2, <1>5, <2>6, <2>7, <2>8
  <1>6. QED
    BY <1>4, <1>5
-----------------------------------------------------------------------------
\* What the suffixes of a number are worth, in numbers.
Weighs(v, w, line, digits, hi) ==
    /\ v \in [1 .. hi + 1 -> Nat] /\ w \in [1 .. hi + 1 -> Nat \ {0}]
    /\ v[hi + 1] = 0 /\ w[hi + 1] = 1
    /\ \A i \in 1 .. hi : IF i \in digits
                          THEN /\ v[i] = v[i + 1] + (line[i] - Zero) * w[i + 1]
                               /\ w[i] = w[i + 1] * Digits
                          ELSE v[i] = v[i + 1] /\ w[i] = w[i + 1]
    /\ \A i \in 1 .. hi + 1 : v[i] \in 0 .. w[i] - 1

LEMMA WeighsIs ==
    ASSUME NEW hi \in Nat, NEW line, NEW digits, \A i \in digits : line[i] \in Digit,
           NEW f, f = Worth(line, digits, hi)
    PROVE  Weighs([i \in 1 .. hi + 1 |-> f[i].value], [i \in 1 .. hi + 1 |-> f[i].weight],
                  line, digits, hi)
  <1> DEFINE v == [i \in 1 .. hi + 1 |-> f[i].value]
             w == [i \in 1 .. hi + 1 |-> f[i].weight]
  <1>1. /\ f[hi + 1] = [value |-> 0, weight |-> 1]
        /\ \A i \in 1 .. hi :
              f[i] = IF i \notin digits THEN f[i + 1]
                     ELSE [value  |-> f[i + 1].value + (line[i] - Zero) * f[i + 1].weight,
                           weight |-> f[i + 1].weight * Digits]
        /\ \A i \in 1 .. hi + 1 : f[i] \in Amount /\ f[i].value < f[i].weight
    BY WorthIs
  <1>2. \A i \in 1 .. hi + 1 : v[i] = f[i].value /\ w[i] = f[i].weight
    OBVIOUS
  <1>3. \A i \in 1 .. hi + 1 : f[i].value \in Nat /\ f[i].weight \in Nat \ {0}
    BY <1>1 DEF Amount
  <1>4. v \in [1 .. hi + 1 -> Nat] /\ w \in [1 .. hi + 1 -> Nat \ {0}]
    BY <1>3
  <1>5. v[hi + 1] = 0 /\ w[hi + 1] = 1
    <2>1. hi + 1 \in 1 .. hi + 1
      OBVIOUS
    <2>2. QED
      BY <1>1, <1>2, <2>1
  <1>6. ASSUME NEW i \in 1 .. hi
        PROVE  IF i \in digits
               THEN /\ v[i] = v[i + 1] + (line[i] - Zero) * w[i + 1]
                    /\ w[i] = w[i + 1] * Digits
               ELSE v[i] = v[i + 1] /\ w[i] = w[i + 1]
    <2>1. i \in 1 .. hi + 1 /\ i + 1 \in 1 .. hi + 1
      OBVIOUS
    <2>2. /\ v[i] = f[i].value /\ w[i] = f[i].weight
          /\ v[i + 1] = f[i + 1].value /\ w[i + 1] = f[i + 1].weight
      BY <1>2, <2>1
    <2> HIDE DEF v, w
    <2>3. CASE i \in digits
      <3>1. PICK x, y : /\ x = f[i + 1].value + (line[i] - Zero) * f[i + 1].weight
                        /\ y = f[i + 1].weight * Digits
        OBVIOUS
      <3>2. f[i] = [value |-> x, weight |-> y]
        BY <1>1, <2>3, <3>1
      <3>3. f[i].value = x /\ f[i].weight = y
        BY <3>2
      <3>4. v[i] = x /\ w[i] = y
        BY <2>2, <3>3
      <3>5. QED
        BY <2>2, <2>3, <3>1, <3>4
    <2>4. CASE i \notin digits
      BY <1>1, <2>2, <2>4
    <2>5. QED
      BY <2>3, <2>4
  <1>7. \A i \in 1 .. hi + 1 : v[i] \in 0 .. w[i] - 1
    BY <1>1, <1>2, <1>3
  <1> HIDE DEF v, w
  <1>8. Weighs(v, w, line, digits, hi)
    BY <1>4, <1>5, <1>6, <1>7 DEF Weighs
  <1>9. QED
    BY <1>8 DEF v, w

\* All digits of a suffix carry; it is one of digits and points.
AllCarry(line, lo, hi, dir) ==
    \A k \in lo .. hi : line[k] = (IF dir > 0 THEN Nine ELSE Zero) \/ line[k] = Dot

Run(line, lo, hi) == \A k \in lo .. hi : IsDigit(line[k]) \/ line[k] = Dot

Marks(digits, line, hi) ==
    /\ \A i \in digits : line[i] \in Digit /\ i \in 1 .. hi
    /\ \A i \in 1 .. hi : i \in digits <=> IsDigit(line[i]) /\ Run(line, i, hi)

\* Before a suffix lie whole rounds of it.
LEMMA WholeRounds ==
    ASSUME NEW hi \in Nat, NEW line, NEW digits, Marks(digits, line, hi),
           NEW v, NEW w, Weighs(v, w, line, digits, hi), NEW p \in 1 .. hi + 1
    PROVE  \E a \in Nat, b \in Nat : v[1] = a * w[p] + v[p] /\ w[1] = b * w[p]
  <1> DEFINE P(i) == \E a \in Nat, b \in Nat : v[1] = a * w[i] + v[i] /\ w[1] = b * w[i]
             S    == {n \in Nat : n <= hi => P(n + 1)}
  <1>1. v \in [1 .. hi + 1 -> Nat] /\ w \in [1 .. hi + 1 -> Nat \ {0}]
    BY DEF Weighs
  <1>2. 0 \in S
    <2>1. v[1] \in Nat /\ w[1] \in Nat
      BY <1>1
    <2>2. v[1] = 0 * w[1] + v[1] /\ w[1] = 1 * w[1]
      BY <2>1
    <2>3. P(0 + 1)
      BY <2>2
    <2>4. QED
      BY <2>3
  <1>3. ASSUME NEW n \in Nat, n \in S
        PROVE  n + 1 \in S
    <2>1. SUFFICES ASSUME n + 1 <= hi PROVE P((n + 1) + 1)
      OBVIOUS
    <2>2. PICK i \in 1 .. hi : i = n + 1
      BY <2>1
    <2>3. i \in 1 .. hi + 1 /\ i + 1 \in 1 .. hi + 1 /\ n <= hi
      BY <2>1, <2>2
    <2>4. P(i)
      BY <1>3, <2>2, <2>3
    <2>5. PICK a \in Nat, b \in Nat : v[1] = a * w[i] + v[i] /\ w[1] = b * w[i]
      BY <2>4
    <2>6. PICK v2 \in Nat, w2 \in Nat : v2 = v[i + 1] /\ w2 = w[i + 1]
      BY <1>1, <2>3
    <2>7. CASE i \notin digits
      <3>1. v[i] = v2 /\ w[i] = w2
        BY <2>6, <2>7 DEF Weighs
      <3>2. QED
        BY <2>2, <2>5, <2>6, <3>1
    <2>8. CASE i \in digits
      <3>1. PICK d \in Nat : d = line[i] - Zero
        BY <2>8, DigitIs DEF Marks
      <3>2. v[i] = v2 + d * w2 /\ w[i] = w2 * Digits
        BY <2>6, <2>8, <3>1 DEF Weighs
      <3>3. /\ a * (w2 * Digits) + (v2 + d * w2) = (a * Digits + d) * w2 + v2
            /\ b * (w2 * Digits) = (b * Digits) * w2
        BY Sizes, DigitTakes, RoundAbout
      <3>4. PICK a2 \in Nat, b2 \in Nat : a2 = a * Digits + d /\ b2 = b * Digits
        <4>1. a * Digits + d \in Nat /\ b * Digits \in Nat
          BY Sizes
        <4>2. QED
          BY <4>1
      <3>5. v[1] = a2 * w2 + v2 /\ w[1] = b2 * w2
        BY <2>5, <3>2, <3>3, <3>4
      <3>6. QED
        BY <2>2, <2>6, <3>5
    <2>9. QED
      BY <2>7, <2>8
  <1> HIDE DEF S
  <1>4. \A n \in Nat : n \in S
    BY <1>2, <1>3, SetInduction
  <1>5. p - 1 \in Nat /\ p - 1 <= hi /\ (p - 1) + 1 = p
    OBVIOUS
  <1>6. P(p)
    BY <1>4, <1>5 DEF S
  <1>7. QED
    BY <1>6
-----------------------------------------------------------------------------
\* The digits that carry.
LEMMA NoDigit ==
    ~IsDigit(Dot) /\ IsDigit(Nine) /\ IsDigit(Zero) /\ Dot # NUL /\ Dot # Nine /\ Dot # Zero
  BY Sizes DEF IsDigit, Digit, Nine, Zero, Dot, NUL

LEMMA AllCarryIs ==
    ASSUME NEW hi \in Nat, NEW line, NEW digits, Marks(digits, line, hi),
           NEW v, NEW w, Weighs(v, w, line, digits, hi), NEW dir \in {-1, 1},
           NEW p \in 1 .. hi + 1, Run(line, p, hi)
    PROVE  AllCarry(line, p, hi, dir) <=> v[p] = IF dir > 0 THEN w[p] - 1 ELSE 0
  <1> DEFINE Most(i) == IF dir > 0 THEN w[i] - 1 ELSE 0
             P(i)    == Run(line, i, hi) => (AllCarry(line, i, hi, dir) <=> v[i] = Most(i))
             S       == {n \in Nat : n <= hi => P(hi + 1 - n)}
  <1>1. v \in [1 .. hi + 1 -> Nat] /\ w \in [1 .. hi + 1 -> Nat \ {0}]
    BY DEF Weighs
  <1>2. 0 \in S
    <2>1. v[hi + 1] = 0 /\ w[hi + 1] = 1
      BY DEF Weighs
    <2>2. v[hi + 1] = Most(hi + 1)
      BY <2>1
    <2>3. AllCarry(line, hi + 1, hi, dir)
      <3>1. \A k \in hi + 1 .. hi : FALSE
        OBVIOUS
      <3>2. QED
        BY <3>1 DEF AllCarry
    <2>4. hi + 1 - 0 = hi + 1
      OBVIOUS
    <2>5. QED
      BY <2>2, <2>3, <2>4
  <1>3. ASSUME NEW n \in Nat, n \in S
        PROVE  n + 1 \in S
    <2>1. SUFFICES ASSUME n + 1 <= hi PROVE P(hi + 1 - (n + 1))
      OBVIOUS
    <2>2. PICK i \in 1 .. hi : i = hi + 1 - (n + 1) /\ i + 1 = hi + 1 - n
      BY <2>1
    <2>3. n <= hi /\ i \in 1 .. hi + 1 /\ i + 1 \in 1 .. hi + 1
      BY <2>1
    <2>4. P(i + 1)
      BY <1>3, <2>2, <2>3
    <2>5. SUFFICES ASSUME Run(line, i, hi) PROVE AllCarry(line, i, hi, dir) <=> v[i] = Most(i)
      BY <2>2
    <2>6. /\ \A k \in i .. hi : k = i \/ k \in i + 1 .. hi
          /\ i + 1 .. hi \subseteq i .. hi /\ i \in i .. hi
      OBVIOUS
    <2>7. Run(line, i + 1, hi) /\ (IsDigit(line[i]) \/ line[i] = Dot)
      BY <2>5, <2>6 DEF Run
    <2>8. /\ AllCarry(line, i, hi, dir) <=>
                (line[i] = (IF dir > 0 THEN Nine ELSE Zero) \/ line[i] = Dot)
                    /\ AllCarry(line, i + 1, hi, dir)
          /\ AllCarry(line, i + 1, hi, dir) <=> v[i + 1] = Most(i + 1)
      <3>1. AllCarry(line, i, hi, dir) <=>
                (line[i] = (IF dir > 0 THEN Nine ELSE Zero) \/ line[i] = Dot)
                    /\ AllCarry(line, i + 1, hi, dir)
        BY <2>6 DEF AllCarry
      <3>2. QED
        BY <2>4, <2>7, <3>1
    <2>9. CASE line[i] = Dot
      <3>1. i \notin digits
        BY <2>9, NoDigit DEF Marks
      <3>2. v[i] = v[i + 1] /\ w[i] = w[i + 1]
        BY <3>1 DEF Weighs
      <3>3. QED
        BY <2>8, <2>9, <3>2
    <2>10. CASE IsDigit(line[i])
      <3>1. i \in digits
        BY <2>5, <2>10 DEF Marks
      <3>2. PICK d \in 0 .. Digits - 1 : d = line[i] - Zero
        BY <2>10, DigitIs DEF IsDigit
      <3>3. PICK w2 \in Nat \ {0}, v2 \in Nat : w2 = w[i + 1] /\ v2 = v[i + 1] /\ v2 \in 0 .. w2 - 1
        BY <1>1, <2>3 DEF Weighs
      <3>4. v[i] = v2 + d * w2 /\ w[i] = w2 * Digits
        BY <3>1, <3>2, <3>3 DEF Weighs
      <3>5. /\ v2 + d * w2 = w2 * Digits - 1 <=> d = Digits - 1 /\ v2 = w2 - 1
            /\ v2 + d * w2 = 0 <=> d = 0 /\ v2 = 0
        <4>1. PICK base \in Nat \ {0} : base = Digits
          BY Sizes
        <4>2. /\ v2 + d * w2 = w2 * base - 1 <=> d = base - 1 /\ v2 = w2 - 1
              /\ v2 + d * w2 = 0 <=> d = 0 /\ v2 = 0
          <5>1. v2 \in 0 .. w2 - 1 /\ d \in 0 .. base - 1
            BY <3>3, <4>1
          <5>2. QED
            BY <5>1, FullSuffix
        <4>3. QED
          BY <4>1, <4>2
      <3>6. /\ line[i] = Nine <=> d = Digits - 1
            /\ line[i] = Zero <=> d = 0
            /\ line[i] # Dot
        <4>1. PICK e \in Digit : e = line[i]
          BY <2>10 DEF IsDigit
        <4>2. e = Nine <=> d = Digits - 1
          BY <3>2, <4>1, Sizes DEF Digit, Nine, Zero
        <4>3. e = Zero <=> d = 0
          BY <3>2, <4>1, Sizes DEF Digit, Zero
        <4>4. QED
          BY <2>10, <4>1, <4>2, <4>3, NoDigit
      <3>7. CASE dir = 1
        <4>1. dir > 0
          BY <3>7
        <4>2. AllCarry(line, i, hi, dir) <=> d = Digits - 1 /\ v2 = w2 - 1
          BY <2>8, <3>3, <3>6, <4>1
        <4>3. QED
          BY <3>4, <3>5, <4>1, <4>2
      <3>8. CASE dir = -1
        <4>1. ~(dir > 0)
          BY <3>8
        <4>2. AllCarry(line, i, hi, dir) <=> d = 0 /\ v2 = 0
          BY <2>8, <3>3, <3>6, <4>1
        <4>3. QED
          BY <3>4, <3>5, <4>1, <4>2
      <3>9. QED
        BY <3>7, <3>8
    <2>11. QED
      BY <2>7, <2>9, <2>10
  <1> HIDE DEF S
  <1>4. \A n \in Nat : n \in S
    BY <1>2, <1>3, SetInduction
  <1>5. hi + 1 - p \in Nat /\ hi + 1 - p <= hi /\ hi + 1 - (hi + 1 - p) = p
    OBVIOUS
  <1>6. P(p)
    BY <1>4, <1>5 DEF S
  <1>7. QED
    BY <1>6

\* A digit of the number that the user sees one more or one less.
LEMMA NumberDigit ==
    ASSUME NEW cur \in Nat, NEW line, NEW dir \in {-1, 1}, NEW worth,
           worth = Worth(line, NumberDigits(line, cur), cur + 1),
           NEW p \in NumberDigits(line, cur)
    PROVE  LET number == (worth[1].value + dir) % worth[1].weight
               d      == line[p] - Zero
           IN  (number \div worth[p + 1].weight) % Digits =
                   IF AllCarry(line, p + 1, cur + 1, dir) THEN (d + dir + Digits) % Digits ELSE d
  <1> DEFINE digits == NumberDigits(line, cur)
             number == (worth[1].value + dir) % worth[1].weight
  <1>1. PICK hi \in Nat : hi = cur + 1
    OBVIOUS
  <1>2. \A i \in digits : i \in 1 .. hi /\ line[i] \in Digit
    BY <1>1, DigitsAre
  <1>3. PICK v, w : /\ v = [i \in 1 .. hi + 1 |-> worth[i].value]
                    /\ w = [i \in 1 .. hi + 1 |-> worth[i].weight]
    OBVIOUS
  <1>4. Weighs(v, w, line, digits, hi)
    BY <1>1, <1>2, <1>3, WeighsIs
  <1>5. Marks(digits, line, hi)
    <2>1. \A i \in 1 .. hi : i \in digits <=> IsDigit(line[i]) /\ Run(line, i, hi)
      BY <1>1 DEF NumberDigits, Run
    <2>2. QED
      BY <1>2, <2>1 DEF Marks
  <1> HIDE DEF digits
  <1>6. p \in 1 .. hi /\ p \in 1 .. hi + 1 /\ p + 1 \in 1 .. hi + 1 /\ 1 \in 1 .. hi + 1 /\ p \in digits
    <2>1. p \in digits
      BY DEF digits
    <2>2. p \in 1 .. hi
      BY <1>2, <2>1
    <2>3. QED
      BY <2>1, <2>2
  <1>7. Run(line, p + 1, hi)
    <2>1. \A k \in p + 1 .. hi : k \in p .. hi
      BY <1>6
    <2>2. QED
      BY <1>5, <1>6, <2>1 DEF Marks, Run
  <1>8. AllCarry(line, p + 1, hi, dir) <=> v[p + 1] = IF dir > 0 THEN w[p + 1] - 1 ELSE 0
    BY <1>4, <1>5, <1>6, <1>7, AllCarryIs
  <1>9. PICK a \in Nat, b \in Nat : v[1] = a * w[p] + v[p] /\ w[1] = b * w[p]
    BY <1>4, <1>5, <1>6, WholeRounds
  <1>10. PICK w2 \in Nat \ {0}, v2 \in Nat : w2 = w[p + 1] /\ v2 = v[p + 1] /\ v2 \in 0 .. w2 - 1
    BY <1>4, <1>6 DEF Weighs
  <1>11. PICK d \in 0 .. Digits - 1 : d = line[p] - Zero
    BY <1>2, <1>6, DigitIs
  <1>12. v[p] = v2 + d * w2 /\ w[p] = w2 * Digits
    BY <1>4, <1>6, <1>10, <1>11 DEF Weighs
  <1>13. PICK v1 \in Nat, w1 \in Nat \ {0} : /\ v1 = v[1] /\ w1 = w[1]
                                             /\ v1 = worth[1].value /\ w1 = worth[1].weight
    BY <1>3, <1>4, <1>6 DEF Weighs
  <1>14. number = (v1 + dir) % w1
    BY <1>13
  <1> HIDE DEF number
  <1>15. PICK q \in Int : number = (v1 + dir) - q * w1
    <2>1. PICK x \in Int : x = v1 + dir
      OBVIOUS
    <2>2. x \div w1 \in Int /\ x % w1 \in 0 .. w1 - 1 /\ x = (x \div w1) * w1 + (x % w1)
      BY Division
    <2>3. PICK q \in Int : q = x \div w1
      BY <2>2
    <2>4. PICK r \in Int : r = x % w1
      BY <2>2
    <2>5. x = q * w1 + r
      BY <2>2, <2>3, <2>4
    <2>6. PICK y \in Int : y = q * w1
      OBVIOUS
    <2>7. r = x - y
      BY <2>5, <2>6
    <2>8. QED
      BY <1>14, <2>1, <2>4, <2>6, <2>7
  <1>16. PICK m \in Int : m = a - q * b
    OBVIOUS
  <1>17. number = (d + m * Digits) * w2 + (v2 + dir)
    <2>1. PICK base \in Nat : base = Digits
      BY Sizes
    <2>2. v1 = a * (w2 * base) + (v2 + d * w2) /\ w1 = b * (w2 * base)
      BY <1>9, <1>12, <1>13, <2>1
    <2>3. PICK r \in Nat : r = w2 * base
      OBVIOUS
    <2>4. number = ((a * r + (v2 + d * w2)) + dir) - q * (b * r)
      BY <1>15, <2>2, <2>3
    <2>5. m * r = a * r - q * (b * r)
      BY <1>16
    <2>6. PICK x \in Int, y \in Int, z \in Int, u \in Int :
             x = a * r /\ y = q * (b * r) /\ z = d * w2 /\ u = m * r
      <3>1. a * r \in Int /\ q * (b * r) \in Int /\ d * w2 \in Int /\ m * r \in Int
        BY Sizes
      <3>2. QED
        BY <3>1
    <2>7. number = u + z + (v2 + dir)
      BY <2>4, <2>5, <2>6
    <2>8. (d + m * base) * w2 = u + z
      BY <2>3, <2>6, Sizes
    <2>9. QED
      BY <2>1, <2>7, <2>8
  <1>18. (number \div w2) % Digits =
             IF AllCarry(line, p + 1, hi, dir) THEN (d + dir + Digits) % Digits ELSE d
    <2>1. number \in Int
      <3>1. q * w1 \in Int
        OBVIOUS
      <3>2. QED
        BY <1>15, <3>1
    <2>2. PICK base \in Nat \ {0} : base = Digits
      BY Sizes
    <2>3. v2 \in 0 .. w2 - 1 /\ d \in 0 .. base - 1
      BY <1>10, <2>2
    <2>4. Above(number, d, m, base, w2, v2, dir)
      BY <1>17, <2>2 DEF Above
    <2>5. Lifts(number, w2, base, v2, d, dir)
      <3>1. number \in Int /\ w2 \in Nat \ {0} /\ base \in Nat \ {0} /\ m \in Int
        BY <1>10, <1>16, <2>1, <2>2
      <3>2. QED
        BY <2>3, <2>4, <3>1, SteppedDigit
    <2>6. (number \div w2) % base = IF v2 = (IF dir > 0 THEN w2 - 1 ELSE 0)
                                    THEN (d + dir + base) % base ELSE d
      BY <2>5 DEF Lifts
    <2>7. AllCarry(line, p + 1, hi, dir) <=> v2 = IF dir > 0 THEN w2 - 1 ELSE 0
      BY <1>8, <1>10
    <2>8. PICK y : y = (number \div w2) % base
      OBVIOUS
    <2>9. PICK z : z = (d + dir + base) % base
      OBVIOUS
    <2>10. y = IF AllCarry(line, p + 1, hi, dir) THEN z ELSE d
      BY <2>6, <2>7, <2>8, <2>9, Zenon
    <2>11. QED
      BY <2>2, <2>8, <2>9, <2>10, Zenon
  <1>19. w2 = worth[p + 1].weight
    BY <1>3, <1>6, <1>10
  <1>20. QED
    BY <1>1, <1>11, <1>18, <1>19 DEF number
-----------------------------------------------------------------------------
\* The carry in the buffer goes as far as that of the number.
LEMMA CarriesFull ==
    ASSUME NEW s \in EditLine, NEW c \in Nat, c = cmd_idx, c < Len(s), IsDigit(s[c + 1]),
           NEW dir \in {-1, 1}, NEW i \in Nat
    PROVE  (\A k \in i + 1 .. c : Carries(Buffered(s), k, dir)) <=> AllCarry(s, i + 2, c + 1, dir)
  <1> DEFINE most   == IF dir > 0 THEN Nine ELSE Zero
             on(ch) == ch = most \/ ch = Dot
  <1>1. PICK b : b = Buffered(s)
    OBVIOUS
  <1>2. ASSUME NEW k \in i + 1 .. c
        PROVE  Carries(b, k, dir) <=> on(s[k + 1])
    <2>1. k \in Nat /\ k <= c /\ k + 1 \in Nat
      OBVIOUS
    <2>2. PICK n \in Nat : n = Len(s) /\ n <= LenCmd - 1
      BY EditLineIs, Sizes
    <2>3. k < n /\ k <= LenCmd - 1
      BY <2>1, <2>2, Sizes
    <2>4. k \in Cell
      BY <2>1, <2>3, Sizes DEF Cell
    <2>5. b[k] = s[k + 1]
      BY <1>1, <2>2, <2>3, <2>4, LineInBuffer
    <2>6. CASE k = c
      BY <2>5, <2>6, NoDigit DEF Carries
    <2>7. CASE k # c
      <3>1. k < c
        BY <2>1, <2>7
      <3>2. QED
        BY <2>5, <3>1 DEF Carries
    <2>8. QED
      BY <2>6, <2>7
  <1>3. ASSUME NEW j \in i + 2 .. c + 1
        PROVE  \E k \in i + 1 .. c : j = k + 1
    <2>1. PICK k \in Int : k = j - 1
      OBVIOUS
    <2>2. k \in i + 1 .. c /\ j = k + 1
      BY <2>1
    <2>3. QED
      BY <2>2
  <1>4. \A k \in i + 1 .. c : k + 1 \in i + 2 .. c + 1
    OBVIOUS
  <1>5. AllCarry(s, i + 2, c + 1, dir) <=> \A j \in i + 2 .. c + 1 : on(s[j])
    BY DEF AllCarry
  <1> HIDE DEF on
  <1>6. (\A k \in i + 1 .. c : on(s[k + 1])) <=> \A j \in i + 2 .. c + 1 : on(s[j])
    BY <1>3, <1>4
  <1>7. QED
    BY <1>1, <1>2, <1>5, <1>6

\* What a cell of the buffer becomes is what the place of the line becomes.
LEMMA CellSteps ==
    ASSUME NEW s \in EditLine, NEW c \in Nat, c = cmd_idx, c < Len(s), IsDigit(s[c + 1]),
           NEW dir \in {-1, 1}, NEW i \in Cell, i < Len(s)
    PROVE  SteppedLine(Buffered(s), dir)[i] = SteppedNumber(s, c, dir)[i + 1]
  <1>1. PICK b : b = Buffered(s)
    OBVIOUS
  <1>2. i \in Nat /\ i + 1 \in Nat /\ (i + 1) + 1 = i + 2 /\ i + 1 \in DOMAIN s
    <2>1. i \in Nat
      BY CellIs
    <2>2. PICK n \in Nat : n = Len(s) /\ DOMAIN s = 1 .. n
      BY EditLineIs
    <2>3. QED
      BY <2>1, <2>2
  <1>3. b[i] = s[i + 1]
    BY <1>1, LineInBuffer
  <1> DEFINE digits == NumberDigits(s, c)
             worth  == Worth(s, digits, c + 1)
             number == (worth[1].value + dir) % worth[1].weight
             full   == AllCarry(s, i + 2, c + 1, dir)
             full2  == AllCarry(s, (i + 1) + 1, c + 1, dir)
  <1>4. SteppedLine(b, dir)[i] = IF i <= c /\ full THEN Stepped(b, i, dir) ELSE s[i + 1]
    <2>1. SteppedLine(b, dir)[i] =
             IF i <= c /\ \A k \in i + 1 .. c : Carries(b, k, dir) THEN Stepped(b, i, dir) ELSE b[i]
      BY DEF SteppedLine
    <2>2. (\A k \in i + 1 .. c : Carries(b, k, dir)) <=> full
      BY <1>1, <1>2, CarriesFull
    <2>3. QED
      BY <1>3, <2>1, <2>2
  <1>5. SteppedNumber(s, c, dir)[i + 1] =
            IF i + 1 \in digits THEN Zero + ((number \div worth[(i + 1) + 1].weight) % Digits)
            ELSE s[i + 1]
    BY <1>2 DEF SteppedNumber
  <1>6. CASE i + 1 \in digits
    <2>1. i + 1 \in 1 .. c + 1 /\ s[i + 1] \in Digit /\ i <= c
      <3>1. i + 1 \in 1 .. c + 1 /\ s[i + 1] \in Digit
        BY <1>6, DigitsAre
      <3>2. QED
        BY <1>2, <3>1
    <2>2. PICK d : d = s[i + 1] - Zero
      OBVIOUS
    <2>3. s[i + 1] = Zero + d
      <3>1. PICK x \in Int : x = s[i + 1]
        BY <2>1, Sizes DEF Digit, Zero, Nine
      <3>2. QED
        BY <2>2, <3>1 DEF Zero
    <2>4. (number \div worth[(i + 1) + 1].weight) % Digits =
              IF full2 THEN (d + dir + Digits) % Digits ELSE d
      BY <1>6, <2>2, NumberDigit
    <2>5. Stepped(b, i, dir) = Zero + ((d + dir + Digits) % Digits)
      BY <1>3, <2>1, <2>2 DEF Stepped, IsDigit
    <2>6. full2 = full
      BY <1>2
    <2> HIDE DEF number, digits, worth, full, full2
    <2>7. QED
      BY <1>1, <1>4, <1>5, <1>6, <2>1, <2>3, <2>4, <2>5, <2>6
  <1>7. CASE i + 1 \notin digits
    <2>1. CASE i <= c /\ full
      <3>1. \A k \in i + 2 .. c + 1 : IsDigit(s[k]) \/ s[k] = Dot
        BY <2>1, NoDigit DEF AllCarry
      <3>2. i + 1 \in 1 .. c + 1
        BY <1>2, <2>1
      <3>3. ~IsDigit(s[i + 1])
        <4>1. SUFFICES ASSUME IsDigit(s[i + 1]) PROVE FALSE
          OBVIOUS
        <4>2. \A k \in i + 1 .. c + 1 : k = i + 1 \/ k \in i + 2 .. c + 1
          BY <1>2
        <4>3. \A k \in i + 1 .. c + 1 : IsDigit(s[k]) \/ s[k] = Dot
          BY <3>1, <4>1, <4>2
        <4>4. QED
          BY <1>7, <3>2, <4>1, <4>3 DEF NumberDigits
      <3>4. i < c
        <4>1. i # c
          BY <3>3
        <4>2. QED
          BY <1>2, <2>1, <4>1
      <3>5. Stepped(b, i, dir) = s[i + 1]
        BY <1>3, <3>3, <3>4 DEF Stepped
      <3> HIDE DEF number, digits, worth, full
      <3>6. QED
        BY <1>1, <1>4, <1>5, <1>7, <2>1, <3>5
    <2> HIDE DEF number, digits, worth, full
    <2>2. CASE ~(i <= c /\ full)
      BY <1>1, <1>4, <1>5, <1>7, <2>2
    <2>3. QED
      BY <2>1, <2>2
  <1>8. QED
    BY <1>6, <1>7

LEMMA LineSteps ==
    ASSUME NEW s \in EditLine, NEW c \in Nat, c = cmd_idx, c < Len(s), IsDigit(s[c + 1]),
           NEW dir \in {-1, 1}
    PROVE  SteppedLine(Buffered(s), dir) = Buffered(SteppedNumber(s, c, dir))
  <1>1. PICK t \in EditLine : t = SteppedNumber(s, c, dir) /\ Len(t) = Len(s)
    BY SteppedNumberTypes
  <1>2. PICK b : b = Buffered(s)
    OBVIOUS
  <1>3. PICK n \in Nat : n = Len(s)
    BY EditLineIs
  <1>4. /\ SteppedLine(b, dir) = [i \in Cell |-> SteppedLine(b, dir)[i]]
        /\ Buffered(t) = [i \in Cell |-> IF i < n THEN t[i + 1] ELSE NUL]
    BY <1>1, <1>3 DEF SteppedLine, Buffered
  <1>5. ASSUME NEW i \in Cell
        PROVE  SteppedLine(b, dir)[i] = IF i < n THEN t[i + 1] ELSE NUL
    <2>1. CASE i < n
      BY <1>1, <1>2, <1>3, <2>1, CellSteps
    <2>2. CASE ~(i < n)
      <3>1. ~(i <= c)
        BY <1>3, <2>2, CellIs
      <3>2. b[i] = NUL
        BY <1>2, <1>3, <2>2, LineInBuffer
      <3>3. SteppedLine(b, dir)[i] = b[i]
        BY <3>1 DEF SteppedLine
      <3>4. QED
        BY <2>2, <3>2, <3>3
    <2>3. QED
      BY <2>1, <2>2
  <1>6. SteppedLine(b, dir) = Buffered(t)
    BY <1>4, <1>5
  <1>7. QED
    BY <1>1, <1>2, <1>6

LEMMA StepLine ==
    ASSUME ShellInv, LineInv, NEW dir \in {-1, 1}, Step(dir)
    PROVE  LineInv'
  <1>1. EditingInv
    BY DEF Step, Key, EditingInv
  <1>2. PICK x \in Nat : x = cmd_idx
    BY <1>1, EditingIs, Sizes
  <1> DEFINE digit == x < LenCmd /\ (IsDigit(cmd_buffer[x]) \/ cmd_buffer[x] = Dot)
  <1>3. CASE digit
    <2>1. /\ Enter(SteppedLine(cmd_buffer, dir), -2 - cmd_idx)
          /\ Expect([ideal EXCEPT !.line = SteppedNumber(@, ideal.cur, dir)],
                    Fresh /\ cmd_buffer[cmd_idx] # Dot)
      BY <1>2, <1>3 DEF Step, Key
    <2>2. cmd_buffer' = SteppedLine(cmd_buffer, dir) /\ cmd_idx' = -2 - x
      BY <1>2, <2>1 DEF Enter
    <2>3. ASSUME ~excused'
          PROVE  cmd_buffer' = Buffered(ideal'.line) /\ x = ideal'.cur
      <3>1. /\ ~excused /\ cmd_buffer[x] # Dot
            /\ ideal' = [ideal EXCEPT !.line = SteppedNumber(@, ideal.cur, dir)]
        BY <1>2, <2>1, <2>3 DEF Expect
      <3>2. PICK s \in EditLine, n \in Nat, c \in Nat :
                /\ s = ideal.line /\ n = Len(s) /\ n <= LenCmd - 1 /\ c = ideal.cur /\ c <= n
                /\ cmd_buffer = Buffered(s) /\ cmd_idx = c /\ TextLen(cmd_buffer) = n
                /\ Placed(cmd_hrpos, ideal.gap)
        BY <1>1, <3>1, EditedLine
      <3>3. ideal'.line = SteppedNumber(s, c, dir) /\ ideal'.cur = c
        <4>1. IsView(ideal, Len(kept))
          BY <1>1, EditingIs
        <4>2. QED
          BY <3>1, <3>2, <4>1 DEF IsView
      <3>4. x = c /\ c < n /\ IsDigit(s[c + 1])
        <4>1. x = c /\ x \in Cell /\ IsDigit(cmd_buffer[x])
          BY <1>2, <1>3, <3>1, <3>2, Sizes DEF Cell
        <4>2. cmd_buffer[x] = IF x < n THEN s[x + 1] ELSE NUL
          BY <3>2, <4>1, LineInBuffer
        <4>3. ~IsDigit(NUL)
          BY Sizes DEF IsDigit, Digit, Zero, Nine, NUL
        <4>4. QED
          BY <4>1, <4>2, <4>3
      <3>5. SteppedLine(Buffered(s), dir) = Buffered(SteppedNumber(s, c, dir))
        BY <3>2, <3>4, LineSteps
      <3>6. QED
        BY <2>2, <3>2, <3>3, <3>4, <3>5
    <2>4. -2 - cmd_idx' = x /\ ~(cmd_idx' >= 0)
      BY <2>2
    <2>5. ASSUME ~excused'
          PROVE  Shown(cmd_buffer, -2 - cmd_idx, ideal)'
      BY <2>3, <2>4, <2>5 DEF Shown, Buffered
    <2>6. QED
      BY <2>4, <2>5 DEF LineInv
  <1>4. CASE ~digit
    <2>1. Moved(x) /\ Expect(ideal, Fresh)
      BY <1>2, <1>4 DEF Step, Key
    <2>2. /\ cmd_buffer' = cmd_buffer /\ cmd_idx' = cmd_idx /\ cmd_hrpos' = cmd_hrpos
          /\ UNCHANGED <<cmd_hrail, kept>>
      BY <1>2, <2>1 DEF Moved, Edited
    <2>3. cmd_idx' >= 0 /\ cmd_idx' \in Nat
      BY <1>2, <2>2
    <2>4. ASSUME ~excused', ~broken'
          PROVE  Shown(cmd_buffer', cmd_idx', ideal') /\ Placed(cmd_hrpos', ideal'.gap)
      <3>1. ideal' = ideal /\ ~excused /\ ~broken
        BY <1>1, <2>1, <2>4 DEF Expect, EditingInv
      <3>2. Shown(cmd_buffer, cmd_idx, ideal) /\ Placed(cmd_hrpos, ideal.gap)
        BY <1>2, <3>1 DEF LineInv
      <3>3. QED
        BY <2>2, <3>1, <3>2
    <2>5. QED
      BY <2>2, <2>3, <2>4, LineKeeps
  <1>5. QED
    BY <1>3, <1>4

LEMMA LineInvKeeps ==
    ASSUME ShellInv, LineInv, [ShellLineNext]_lineVars
    PROVE  LineInv'
  <1>1. CASE Poll
    BY <1>1, PollLine
  <1>2. CASE PollEnds \/ UNCHANGED lineVars
    BY <1>2, PauseLine
  <1>3. CASE ReturnKey \/ Hotkey \/ Reopen
    BY <1>3, NoLine
  <1>4. CASE \E ch \in {Letter, Dot} \cup Digit : Typed(ch)
    BY <1>4, TypedLine
  <1>5. CASE Backspace
    BY <1>5, BackspaceLine
  <1>6. CASE Right \/ Left \/ Home \/ End
    BY <1>6, CursorLine
  <1>7. CASE \E dir \in {-1, 1} : Recall(dir) \/ Step(dir)
    BY <1>7, RecallLine, StepLine
  <1>8. QED
    BY <1>1, <1>2, <1>3, <1>4, <1>5, <1>6, <1>7 DEF ShellLineNext

LEMMA LineInvEdited ==
    ASSUME ShellInv, LineInv
    PROVE  LineAsEdited
  <1>1. SUFFICES ASSUME ~excused, ~broken, cmd_idx # -1
                 PROVE  /\ Text(cmd_buffer) = ideal.line
                        /\ (IF cmd_idx < 0 THEN -2 - cmd_idx ELSE cmd_idx) = ideal.cur
    BY DEF LineAsEdited
  <1>2. PICK x \in Int : x = cmd_idx
    BY Sizes DEF ShellInv, ConsoleTypes
  <1>3. ideal.line \in EditLine
    BY DEF ShellInv, ViewInv, IsView
  <1>4. CASE x >= 0
    <2>1. Shown(cmd_buffer, cmd_idx, ideal) /\ ~(x < 0)
      BY <1>1, <1>2, <1>4 DEF LineInv
    <2>2. QED
      BY <1>2, <1>3, <2>1, LineInBuffer DEF Shown
  <1>5. CASE x < 0
    <2>1. x < -1
      BY <1>1, <1>2, <1>5
    <2>2. Shown(cmd_buffer, -2 - cmd_idx, ideal)
      BY <1>1, <1>2, <2>1 DEF LineInv
    <2>3. QED
      BY <1>2, <1>3, <1>5, <2>2, LineInBuffer DEF Shown
  <1>6. QED
    BY <1>2, <1>4, <1>5

\* What is entered is what the user has edited: after insertions and deletions anywhere
\* in the line, recalled lines and numbers that were stepped, also several of them in
\* one poll, unless a key needs a length that an earlier one of the same poll has
\* changed (shell.c:273) or a search starts behind the ring (shell.c:258).
THEOREM LineStaysAsEdited == ShellLineSpec => []LineAsEdited
  <1>1. ShellLineInit => ShellInv /\ LineInv
    <2>1. ShellLineInit => cmd_idx = -1
      BY DEF ShellLineInit
    <2>2. cmd_idx = -1 => LineInv
      BY DEF LineInv
    <2>3. QED
      BY <2>1, <2>2, RegisteredInv
  <1>2. ShellInv /\ LineInv /\ [ShellLineNext]_lineVars => (ShellInv /\ LineInv)'
    BY ShellKeeps, LineInvKeeps
  <1>3. ShellInv /\ LineInv => LineAsEdited
    BY LineInvEdited
  <1>4. QED
    BY <1>1, <1>2, <1>3, PTL DEF ShellLineSpec
-----------------------------------------------------------------------------
(* The tasks of a console.                                                   *)

\* What killing tasks and adding one keeps: a list of so many at most.
TaskLists(m) == {s \in Seq(TaskName) : Len(s) <= m}

LEMMA ListsAre ==
    ASSUME NEW m \in Nat
    PROVE  SeqOf(TaskName, m) = TaskLists(m)
  <1>1. ASSUME NEW s \in SeqOf(TaskName, m)
        PROVE  s \in TaskLists(m)
    <2>1. PICK k \in 0 .. m : s \in [1 .. k -> TaskName]
      BY DEF SeqOf
    <2>2. s \in Seq(TaskName) /\ Len(s) = k
      BY <2>1, SMTT(20)
    <2>3. QED
      BY <2>2 DEF TaskLists
  <1>2. ASSUME NEW s \in TaskLists(m)
        PROVE  s \in SeqOf(TaskName, m)
    <2>1. s \in [1 .. Len(s) -> TaskName] /\ Len(s) \in 0 .. m
      BY LenProperties DEF TaskLists
    <2>2. QED
      BY <2>1 DEF SeqOf
  <1>3. QED
    BY <1>1, <1>2

LEMMA TakenOut ==
    ASSUME NEW s \in Seq(TaskName), NEW i \in 1 .. Len(s)
    PROVE  RemoveAt(s, i) \in Seq(TaskName) /\ Len(RemoveAt(s, i)) = Len(s) - 1
  <1> DEFINE a == SubSeq(s, 1, i - 1)
             b == SubSeq(s, i + 1, Len(s))
  <1>1. PICK n \in Nat : n = Len(s)
    BY LenProperties
  <1>2. /\ \A k \in 1 .. i - 1 : s[k] \in TaskName
        /\ \A k \in i + 1 .. n : s[k] \in TaskName
    BY <1>1, ElementOfSeq
  <1>3. a \in Seq(TaskName) /\ Len(a) = i - 1
    BY <1>1, <1>2, SubSeqProperties
  <1>4. b \in Seq(TaskName) /\ Len(b) = n - i
    BY <1>1, <1>2, SubSeqProperties
  <1> HIDE DEF a, b
  <1>5. a \o b \in Seq(TaskName) /\ Len(a \o b) = n - 1
    <2>1. a \o b \in Seq(TaskName) /\ Len(a \o b) = Len(a) + Len(b)
      BY <1>3, <1>4, ConcatProperties
    <2>2. i \in Nat /\ (i - 1) + (n - i) = n - 1
      BY <1>1
    <2>3. QED
      BY <1>3, <1>4, <2>1, <2>2
  <1>6. QED
    BY <1>1, <1>5 DEF RemoveAt, a, b

LEMMA FittingIs ==
    ASSUME NEW s \in Seq(TaskName), NEW word
    PROVE  Fitting(s, word) # 0 => Fitting(s, word) \in 1 .. Len(s)
  <1> DEFINE I == {i \in 1 .. Len(s) : word \in {s[i], "all"}}
  <1>1. Fitting(s, word) = IF I # {} THEN Min(I) ELSE 0
    BY DEF Fitting, SelectInSeq
  <1>2. I # {} => Min(I) \in I
    <2>1. I \subseteq Nat
      OBVIOUS
    <2> HIDE DEF I
    <2>2. QED
      BY <2>1, LeastOf
  <1>3. QED
    BY <1>1, <1>2

\* What a word does: the function that Killed folds over the words.
Kills(rest, word) ==
    IF rest.stop THEN rest
    ELSE IF Fitting(rest.list, word) = 0 THEN [rest EXCEPT !.stop = TRUE]
    ELSE [rest EXCEPT !.list = RemoveAt(@, Fitting(@, word))]

Rests(m) == [list : TaskLists(m), stop : BOOLEAN]

LEMMA KillsRests ==
    ASSUME NEW m \in Nat, NEW rest \in Rests(m), NEW word
    PROVE  Kills(rest, word) \in Rests(m)
  <1>1. PICK s \in Seq(TaskName) : s = rest.list /\ Len(s) <= m
    BY DEF Rests, TaskLists
  <1>2. CASE rest.stop
    BY <1>2 DEF Kills
  <1>3. CASE ~rest.stop /\ Fitting(s, word) = 0
    BY <1>1, <1>3 DEF Kills, Rests
  <1>4. CASE ~rest.stop /\ Fitting(s, word) # 0
    <2>1. PICK i \in 1 .. Len(s) : i = Fitting(s, word)
      BY <1>4, FittingIs
    <2>2. PICK t \in Seq(TaskName) : t = RemoveAt(s, i) /\ Len(t) = Len(s) - 1
      BY TakenOut
    <2>3. Len(s) \in Nat
      BY LenProperties
    <2>4. t \in TaskLists(m)
      BY <1>1, <2>2, <2>3 DEF TaskLists
    <2>5. Kills(rest, word) = [rest EXCEPT !.list = t]
      BY <1>1, <1>4, <2>1, <2>2 DEF Kills
    <2>6. QED
      BY <2>4, <2>5 DEF Rests
  <1>5. QED
    BY <1>1, <1>2, <1>3, <1>4

\* The fold, on the sets of places it comes to.
Folds2(f, words, base) ==
    f = [s \in SUBSET DOMAIN words |->
            IF s = {} THEN base ELSE Kills(f[s \ {Max(s)}], words[Max(s)])]

LEMMA FoldIs ==
    ASSUME NEW list, NEW words
    PROVE  Killed(list, words) =
              (CHOOSE f : Folds2(f, words, [list |-> list, stop |-> FALSE]))[DOMAIN words].list
  BY DEF Killed, FoldLeft, MapThenFoldSet, Folds2, Kills

LEMMA KilledIs ==
    ASSUME NEW m \in Nat, NEW list \in TaskLists(m), NEW W, NEW words \in SeqOf(W, 2)
    PROVE  Killed(list, words) \in TaskLists(m)
  <1> DEFINE base == [list |-> list, stop |-> FALSE]
             one  == Kills(base, words[1])
             two  == Kills(one, words[2])
             next == Kills(base, words[2])
             D    == DOMAIN words
  <1>1. base \in Rests(m)
    BY DEF Rests
  <1> HIDE DEF base
  <1>2. one \in Rests(m)
    BY <1>1, KillsRests
  <1> HIDE DEF one
  <1>3. two \in Rests(m)
    BY <1>2, KillsRests
  <1> HIDE DEF two, next
  <1>4. D = {} \/ D = {1} \/ D = {1, 2}
    <2>1. PICK k \in 0 .. 2 : words \in [1 .. k -> W]
      BY DEF SeqOf
    <2>2. k = 0 \/ k = 1 \/ k = 2
      OBVIOUS
    <2>3. 1 .. 0 = {} /\ 1 .. 1 = {1} /\ 1 .. 2 = {1, 2}
      OBVIOUS
    <2>4. QED
      BY <2>1, <2>2, <2>3
  <1>5. Max({1}) = 1 /\ Max({2}) = 2 /\ Max({1, 2}) = 2
    BY DEF Max
  <1> HIDE DEF D
  <1> DEFINE w == [s \in SUBSET D |-> IF s = {} THEN base
                                      ELSE IF s = {1} THEN one
                                      ELSE IF s = {2} THEN next ELSE two]
  <1>6. ASSUME NEW s \in SUBSET D
        PROVE  w[s] = IF s = {} THEN base ELSE Kills(w[s \ {Max(s)}], words[Max(s)])
    <2>1. s = {} \/ s = {1} \/ s = {2} \/ s = {1, 2}
      BY <1>4
    <2>2. CASE s = {}
      BY <2>2
    <2>3. CASE s = {1}
      <3>1. s \ {Max(s)} = {} /\ Max(s) = 1
        BY <1>5, <2>3
      <3>2. w[s] = one /\ w[{}] = base
        BY <2>3
      <3>3. QED
        BY <2>3, <3>1, <3>2 DEF one
    <2>4. CASE s = {2}
      <3>1. s \ {Max(s)} = {} /\ Max(s) = 2
        BY <1>5, <2>4
      <3>2. w[s] = next /\ w[{}] = base
        BY <2>4
      <3>3. QED
        BY <2>4, <3>1, <3>2 DEF next
    <2>5. CASE s = {1, 2}
      <3>1. s \ {Max(s)} = {1} /\ Max(s) = 2 /\ {1} \in SUBSET D
        BY <1>5, <2>5
      <3>2. w[s] = two /\ w[{1}] = one
        BY <2>5, <3>1
      <3>3. QED
        BY <2>5, <3>1, <3>2 DEF two
    <2>6. QED
      BY <2>1, <2>2, <2>3, <2>4, <2>5
  <1>7. Folds2(w, words, base)
    <2> HIDE DEF w
    <2>1. w = [s \in SUBSET D |-> w[s]]
      BY DEF w
    <2>2. QED
      BY <1>6, <2>1 DEF Folds2, D
  <1>8. PICK f : /\ Folds2(f, words, base)
                 /\ f = CHOOSE g : Folds2(g, words, base)
    BY <1>7
  <1>9. \A s \in SUBSET D :
           f[s] = IF s = {} THEN base ELSE Kills(f[s \ {Max(s)}], words[Max(s)])
    BY <1>8 DEF Folds2, D
  <1>10. f[{}] = base
    BY <1>9
  <1>11. D # {} => f[{1}] = one
    <2>1. {1} \ {Max({1})} = {}
      BY <1>5
    <2>2. D # {} => f[{1}] = Kills(f[{}], words[1])
      BY <1>4, <1>5, <1>9, <2>1
    <2>3. QED
      BY <1>10, <2>2 DEF one
  <1>12. D = {1, 2} => f[{1, 2}] = two
    <2>1. {1, 2} \ {Max({1, 2})} = {1}
      BY <1>5
    <2>2. D = {1, 2} => f[{1, 2}] = Kills(f[{1}], words[2])
      BY <1>5, <1>9, <2>1
    <2>3. QED
      BY <1>11, <2>2 DEF two
  <1>13. f[D] \in Rests(m)
    BY <1>1, <1>2, <1>3, <1>4, <1>10, <1>11, <1>12
  <1>14. Killed(list, words) = f[D].list
    BY <1>8, FoldIs DEF D, base
  <1>15. QED
    BY <1>13, <1>14 DEF Rests
-----------------------------------------------------------------------------
(* The invariant of the command queues: the loop over the tasks of a console *)
(* never has more of them to call than there are, and has none left once it  *)
(* has gone to another console.                                              *)

CmdInv ==
    /\ cmd_list \in [Console -> TaskLists(MaxTasks)]
    /\ cmd_flag \in [Console -> BOOLEAN] /\ locked \in [Console -> BOOLEAN]
    /\ trap \in [Console -> TaskName \cup {Nothing}]
    /\ console \in Console \cup {Nothing}
    /\ todo \in Nat
    /\ todo > 0 => console # Nothing /\ todo <= Len(cmd_list[console])

LEMMA CmdInvTypes == CmdInv => CmdQueueTypeOK
  BY CmdQueueAssumption, ListsAre DEF CmdInv, CmdQueueTypeOK

LEMMA CmdInvInit == CmdQueueInit => CmdInv
  <1> SUFFICES ASSUME CmdQueueInit
               PROVE  CmdInv
    OBVIOUS
  <1>1. <<>> \in TaskLists(MaxTasks)
    BY CmdQueueAssumption, EmptySeq DEF TaskLists
  <1>2. QED
    BY <1>1 DEF CmdQueueInit, CmdInv

\* What a line is, as far as the commands look at it.
LEMMA WordsOfLine ==
    ASSUME NEW line \in CmdLine
    PROVE  \E W : line.words \in SeqOf(W, 2)
  <1>1. CASE line \in {Call(n) : n \in TaskName}
    <2>1. line.words = <<>>
      BY <1>1 DEF Call
    <2>2. <<>> \in [1 .. 0 -> TaskName]
      OBVIOUS
    <2>3. <<>> \in SeqOf(TaskName, 2)
      BY <2>2 DEF SeqOf
    <2>4. QED
      BY <2>1, <2>3
  <1>2. CASE line \in {Pause(word) : word \in {Nothing, "on", "off"}}
    <2>1. PICK word : line.words = <<word>>
      BY <1>2 DEF Pause
    <2>2. <<word>> \in [1 .. 1 -> {word}]
      OBVIOUS
    <2>3. <<word>> \in SeqOf({word}, 2)
      BY <2>2 DEF SeqOf
    <2>4. QED
      BY <2>1, <2>3
  <1>3. CASE line \in {Kill(words) : words \in SeqOf(TaskName \cup {"all"}, 2)}
    BY <1>3 DEF Kill
  <1>4. QED
    BY <1>1, <1>2, <1>3 DEF CmdLine

\* A command changes the list of its console and its flag, and nothing else the
\* invariant speaks of; the list keeps its bound.
LEMMA LineRuns ==
    ASSUME CmdInv, NEW c \in Console, NEW line \in CmdLine, cmd_queue_exec(c, line)
    PROVE  /\ cmd_list' \in [Console -> TaskLists(MaxTasks)]
           /\ cmd_flag' \in [Console -> BOOLEAN]
           /\ trap' = trap /\ locked' = locked
  <1>1. /\ cmd_list \in [Console -> TaskLists(MaxTasks)]
        /\ cmd_flag \in [Console -> BOOLEAN] /\ MaxTasks \in Nat
    BY CmdQueueAssumption DEF CmdInv
  <1>2. trap' = trap /\ locked' = locked
    BY DEF cmd_queue_exec
  <1>3. CASE RunLine(c, line)
    <2>1. CASE UNCHANGED cmd_list
      BY <1>1, <1>2, <1>3, <2>1 DEF RunLine
    <2>2. CASE /\ line.cmd \in TaskName /\ Len(cmd_list[c]) < MaxTasks
               /\ cmd_list' = [cmd_list EXCEPT ![c] = <<line.cmd>> \o @]
      <3>1. PICK s \in Seq(TaskName) : s = cmd_list[c]
        BY <1>1 DEF TaskLists
      <3>2. <<line.cmd>> \in Seq(TaskName) /\ Len(<<line.cmd>>) = 1
        BY <2>2
      <3>3. <<line.cmd>> \o s \in Seq(TaskName) /\ Len(<<line.cmd>> \o s) = 1 + Len(s)
        BY <3>1, <3>2, ConcatProperties
      <3>4. Len(s) \in Nat /\ Len(s) < MaxTasks
        BY <2>2, <3>1, LenProperties
      <3>5. <<line.cmd>> \o s \in TaskLists(MaxTasks)
        BY <1>1, <3>3, <3>4 DEF TaskLists
      <3>6. QED
        BY <1>1, <1>2, <1>3, <2>2, <3>1, <3>5 DEF RunLine
    <2>3. QED
      BY <1>3, <2>1, <2>2 DEF RunLine
  <1>4. CASE cmd_pause_func(c, line)
    <2>1. (IF line.words[1] = Nothing THEN ~cmd_flag[c] ELSE line.words[1] = "on") \in BOOLEAN
      OBVIOUS
    <2>2. QED
      BY <1>1, <1>2, <1>4, <2>1 DEF cmd_pause_func
  <1>5. CASE cmd_kill_func(c, line)
    <2>1. Killed(cmd_list[c], line.words) \in TaskLists(MaxTasks)
      BY <1>1, KilledIs, WordsOfLine
    <2>2. QED
      BY <1>1, <1>2, <1>5, <2>1 DEF cmd_kill_func
  <1>6. QED
    BY <1>3, <1>4, <1>5 DEF cmd_queue_exec

LEMMA CmdInvNext == CmdInv /\ [CmdQueueNext]_cmdVars => CmdInv'
  <1> SUFFICES ASSUME CmdInv, [CmdQueueNext]_cmdVars
               PROVE  CmdInv'
    OBVIOUS
  <1>1. /\ cmd_list \in [Console -> TaskLists(MaxTasks)]
        /\ cmd_flag \in [Console -> BOOLEAN] /\ locked \in [Console -> BOOLEAN]
        /\ trap \in [Console -> TaskName \cup {Nothing}]
        /\ console \in Console \cup {Nothing} /\ todo \in Nat
        /\ todo > 0 => console # Nothing /\ todo <= Len(cmd_list[console])
        /\ Nothing \notin Console
    BY CmdQueueAssumption DEF CmdInv
  <1>2. ASSUME NEW c \in Console, Update(c)
        PROVE  CmdInv'
    <2>1. PICK s \in Seq(TaskName) : s = cmd_list[c]
      BY <1>1 DEF TaskLists
    <2>2. Len(s) \in Nat
      BY LenProperties
    <2>3. todo' \in Nat /\ todo' <= Len(s) /\ console' = c /\ cmd_list' = cmd_list
      BY <1>2, <2>1, <2>2 DEF Update
    <2>4. QED
      BY <1>1, <1>2, <2>1, <2>3 DEF Update, CmdInv
  <1>3. CASE CallTask
    <2>1. /\ todo > 0 /\ todo' = todo - 1 /\ console' = console
          /\ cmd_flag' = cmd_flag /\ trap' = trap /\ locked' = locked
      BY <1>3 DEF CallTask
    <2>2. console \in Console
      BY <1>1, <2>1
    <2>3. PICK s \in Seq(TaskName) : s = cmd_list[console] /\ Len(s) <= MaxTasks
      BY <1>1, <2>2 DEF TaskLists
    <2>4. Len(s) \in Nat /\ todo <= Len(s) /\ MaxTasks \in Nat
      BY <1>1, <2>1, <2>3, LenProperties, CmdQueueAssumption
    <2>5. CASE UNCHANGED cmd_list
      <3>1. todo' \in Nat /\ todo' <= Len(s)
        BY <1>1, <2>1, <2>4
      <3>2. QED
        BY <1>1, <2>1, <2>2, <2>3, <2>5, <3>1 DEF CmdInv
    <2>6. CASE cmd_list' = [cmd_list EXCEPT ![console] = RemoveAt(@, Len(@) - todo + 1)]
      <3>1. PICK i \in 1 .. Len(s) : i = Len(s) - todo + 1
        <4>1. todo \in Nat /\ todo > 0 /\ Len(s) \in Nat /\ todo <= Len(s)
          BY <1>1, <2>1, <2>4
        <4>2. Len(s) - todo + 1 \in 1 .. Len(s)
          BY <4>1
        <4>3. QED
          BY <4>2
      <3>2. PICK t \in Seq(TaskName) : t = RemoveAt(s, i) /\ Len(t) = Len(s) - 1
        BY TakenOut
      <3>3. t \in TaskLists(MaxTasks)
        BY <2>3, <2>4, <3>2 DEF TaskLists
      <3>4. todo' \in Nat /\ todo' <= Len(t)
        BY <1>1, <2>1, <2>4, <3>2
      <3>5. cmd_list' = [cmd_list EXCEPT ![console] = t]
        BY <2>3, <2>6, <3>1, <3>2
      <3>6. cmd_list' \in [Console -> TaskLists(MaxTasks)] /\ cmd_list'[console] = t
        BY <1>1, <2>2, <3>3, <3>5
      <3>7. QED
        BY <1>1, <2>1, <2>2, <3>4, <3>6 DEF CmdInv
    <2>7. QED
      BY <1>3, <2>5, <2>6 DEF CallTask
  <1>4. CASE EnterLine
    <2>1. console \in Console /\ todo = 0 /\ console' = Nothing /\ todo' = todo
      BY <1>1, <1>4 DEF EnterLine
    <2>2. CASE \E line \in CmdLine : cmd_queue_exec(console, line)
      <3>1. PICK line \in CmdLine : cmd_queue_exec(console, line)
        BY <2>2
      <3>2. /\ cmd_list' \in [Console -> TaskLists(MaxTasks)]
            /\ cmd_flag' \in [Console -> BOOLEAN] /\ trap' = trap /\ locked' = locked
        BY <2>1, <3>1, LineRuns
      <3>3. QED
        BY <1>1, <2>1, <3>2 DEF CmdInv
    <2>3. CASE UNCHANGED <<cmd_list, cmd_flag, trap, locked>>
      BY <1>1, <2>1, <2>3 DEF CmdInv
    <2>4. QED
      BY <1>4, <2>2, <2>3 DEF EnterLine
  <1>5. ASSUME NEW c \in Console, Calls(c)
        PROVE  CmdInv'
    <2>1. console = Nothing /\ console' = Nothing /\ todo' = todo /\ ~(todo > 0)
      BY <1>1, <1>5 DEF Calls
    <2>2. CASE \E line \in CmdLine : cmd_queue_exec(c, line)
      <3>1. PICK line \in CmdLine : cmd_queue_exec(c, line)
        BY <2>2
      <3>2. /\ cmd_list' \in [Console -> TaskLists(MaxTasks)]
            /\ cmd_flag' \in [Console -> BOOLEAN] /\ trap' = trap /\ locked' = locked
        BY <3>1, LineRuns
      <3>3. QED
        BY <1>1, <2>1, <3>2 DEF CmdInv
    <2>3. CASE /\ \E cmd \in TaskName \cup {Nothing} : trap' = [trap EXCEPT ![c] = cmd]
               /\ UNCHANGED <<cmd_list, cmd_flag, locked>>
      BY <1>1, <2>1, <2>3 DEF CmdInv
    <2>4. CASE /\ \E on \in BOOLEAN : locked' = [locked EXCEPT ![c] = on]
               /\ UNCHANGED <<cmd_list, cmd_flag, trap>>
      <3>1. locked' \in [Console -> BOOLEAN]
        BY <1>1, <2>4
      <3>2. QED
        BY <1>1, <2>1, <2>4, <3>1 DEF CmdInv
    <2>5. QED
      BY <1>5, <2>2, <2>3, <2>4 DEF Calls
  <1>6. CASE UNCHANGED cmdVars
    BY <1>1, <1>6 DEF CmdInv, cmdVars
  <1>7. QED
    BY <1>2, <1>3, <1>4, <1>5, <1>6 DEF CmdQueueNext

\* The loop that calls the tasks of a console, which are removed while it runs
\* and are not locked, never looks past the end of their list, and no command,
\* kill with any words included, makes the list grow beyond its bound
\* (cmd_queue_update, cmd_kill_func).
THEOREM CmdQueueTypes == CmdQueueSpec => []CmdQueueTypeOK
  <1>1. CmdQueueInit => CmdInv
    BY CmdInvInit
  <1>2. CmdInv /\ [CmdQueueNext]_cmdVars => CmdInv'
    BY CmdInvNext
  <1>3. CmdInv => CmdQueueTypeOK
    BY CmdInvTypes
  <1>4. QED
    BY <1>1, <1>2, <1>3, PTL DEF CmdQueueSpec
====
