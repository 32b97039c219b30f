-------------------------- MODULE EvaluationProofs --------------------------
(***************************************************************************)
(* Proofs about Evaluation.  A bitmap is the set of the bits that are set, *)
(* whatever the size of its words.  The callbacks of mkdse, mkbdexcsearch  *)
(* and mkeval keep the order of the pool's critical sections, so what is   *)
(* proved of MtRunner is true of them.  With this, the maps in which mkdse *)
(* looks up simulations still have those that are being run, and what the  *)
(* programs write is complete.                                             *)
(***************************************************************************)
EXTENDS Evaluation, MtRunnerProofs, WellFoundedInduction

-----------------------------------------------------------------------------
(* Division                                                                  *)

LEMMA DivMod ==
  ASSUME NEW d \in Nat \ {0}, NEW a \in Nat
  PROVE  /\ a \div d \in Nat /\ a % d \in 0 .. d - 1
         /\ a = (a \div d) * d + (a % d)
OBVIOUS

LEMMA DivBelow ==
  ASSUME NEW d \in Nat \ {0}, NEW n \in Nat, NEW a \in 0 .. n * d - 1
  PROVE  a \div d \in 0 .. n - 1
OBVIOUS

\* The number of words and the last of them
LEMMA LengthOf ==
  ASSUME NEW size \in Nat \ {0}
  PROVE  /\ Length(size) \in Nat \ {0}
         /\ (Length(size) - 1) * ElemSize < size
         /\ size <= Length(size) * ElemSize
         /\ size % ElemSize # 0 =>
              size = (Length(size) - 1) * ElemSize + (size % ElemSize)
         /\ size % ElemSize = 0 => size = Length(size) * ElemSize
<1>1. ElemSize \in Nat \ {0}
  BY ElemSizeAssumption
<1> DEFINE q == size \div ElemSize
           r == size % ElemSize
<1>2. q \in Nat /\ r \in 0 .. ElemSize - 1 /\ size = q * ElemSize + r
  BY <1>1, DivMod
<1> HIDE DEF q, r
<1>3. CASE r = 0
  <2>1. q # 0
    BY <1>1, <1>2, <1>3
  <2>2. size + ElemSize - 1 = q * ElemSize + (ElemSize - 1)
    BY <1>1, <1>2, <1>3
  <2>3. (size + ElemSize - 1) \div ElemSize = q
    BY <1>1, <1>2, <2>2
  <2> QED
    BY <1>1, <1>2, <1>3, <2>1, <2>3 DEF Length, q, r
<1>4. CASE r # 0
  <2>1. size + ElemSize - 1 = (q + 1) * ElemSize + (r - 1)
    BY <1>1, <1>2, <1>4
  <2>2. (size + ElemSize - 1) \div ElemSize = q + 1
    BY <1>1, <1>2, <1>4, <2>1
  <2> QED
    BY <1>1, <1>2, <1>4, <2>2 DEF Length, q, r
<1> QED
  BY <1>3, <1>4

\* Each bit has its place in one of the words.
LEMMA PlaceOf ==
  ASSUME NEW size \in Nat \ {0}, NEW o \in 0 .. size - 1
  PROVE  /\ o \div ElemSize \in 0 .. Length(size) - 1
         /\ o % ElemSize \in Word
         /\ o = (o \div ElemSize) * ElemSize + (o % ElemSize)
<1>1. ElemSize \in Nat \ {0}
  BY ElemSizeAssumption
<1>2. Length(size) \in Nat \ {0} /\ size <= Length(size) * ElemSize
  BY LengthOf
<1>3. o \in Nat /\ o \in 0 .. Length(size) * ElemSize - 1
  <2>1. Length(size) * ElemSize \in Nat
    BY <1>1, <1>2
  <2> QED
    BY <1>2, <2>1
<1>4. o \div ElemSize \in 0 .. Length(size) - 1
  <2>1. Length(size) \in Nat
    BY <1>2
  <2> QED
    BY <1>1, <1>3, <2>1, DivBelow
<1> QED
  BY <1>1, <1>3, <1>4, DivMod DEF Word

-----------------------------------------------------------------------------
(* Bitmaps as sets of numbers                                                *)

\* The bitmap of this size in which the bits of B are set
BitmapOf(size, B) ==
  [size |-> size,
   bits |-> [i \in 0 .. Length(size) - 1 |->
               {r \in Word : i * ElemSize + r \in B \/ i * ElemSize + r >= size}]]

\* The constructor sets no bit, only those behind the end.
LEMMA NewBitmapEmpty ==
  ASSUME NEW size \in Nat \ {0}
  PROVE  NewBitmap(size) = BitmapOf(size, {})
<1>1. ElemSize \in Nat \ {0}
  BY ElemSizeAssumption
<1> DEFINE n == Length(size)
           upper == size % ElemSize
<1>2. /\ n \in Nat \ {0} /\ (n - 1) * ElemSize < size /\ size <= n * ElemSize
      /\ upper # 0 => size = (n - 1) * ElemSize + upper
      /\ upper = 0 => size = n * ElemSize
  BY LengthOf
<1>3. upper \in 0 .. ElemSize - 1
  BY <1>1, DivMod
<1> HIDE DEF n, upper
<1>4. ASSUME NEW i \in 0 .. n - 1
      PROVE  (IF upper # 0 /\ i = n - 1 THEN upper .. ElemSize - 1 ELSE {})
               = {r \in Word : i * ElemSize + r \in {} \/ i * ElemSize + r >= size}
  <2>1. CASE i = n - 1
    <3>1. \A r \in Word : i * ElemSize + r >= size <=> upper # 0 /\ r >= upper
      BY <1>1, <1>2, <1>3, <2>1 DEF Word
    <3>2. (upper .. ElemSize - 1) = {r \in Word : r >= upper}
      BY <1>1, <1>3 DEF Word
    <3> QED
      BY <2>1, <3>1, <3>2
  <2>2. CASE i # n - 1
    <3>1. i + 1 <= n - 1 /\ i + 1 \in Nat
      BY <1>2, <2>2
    <3>2. (i + 1) * ElemSize <= (n - 1) * ElemSize
      BY <1>1, <1>2, <3>1
    <3>3. \A r \in Word : i * ElemSize + r < size
      BY <1>1, <1>2, <3>2 DEF Word
    <3> QED
      BY <1>1, <2>2, <3>3 DEF Word
  <2> QED
    BY <2>1, <2>2
<1> QED
  BY <1>4 DEF NewBitmap, BitmapOf, n, upper

LEMMA SetBitAdds ==
  ASSUME NEW size \in Nat \ {0}, NEW B \in SUBSET Nat, NEW o \in 0 .. size - 1
  PROVE  SetBit(BitmapOf(size, B), o) = BitmapOf(size, B \cup {o})
<1>1. ElemSize \in Nat \ {0}
  BY ElemSizeAssumption
<1> DEFINE n == Length(size)
           q == o \div ElemSize
           s == o % ElemSize
           Of(i, C) == {r \in Word : i * ElemSize + r \in C \/ i * ElemSize + r >= size}
<1>2. n \in Nat \ {0} /\ size <= n * ElemSize
  BY LengthOf
<1>3. q \in 0 .. n - 1 /\ s \in Word /\ o = q * ElemSize + s
  BY PlaceOf
<1> HIDE DEF n, q, s
<1>5. \A i \in 0 .. n - 1 : \A r \in Word : i * ElemSize + r = o <=> i = q /\ r = s
  <2> SUFFICES ASSUME NEW i \in 0 .. n - 1, NEW r \in Word, i * ElemSize + r = o
               PROVE  i = q /\ r = s
    BY <1>3
  <2>1. r \in 0 .. ElemSize - 1 /\ i \in Nat
    BY <1>2 DEF Word
  <2>2. (i * ElemSize + r) \div ElemSize = i /\ (i * ElemSize + r) % ElemSize = r
    BY <1>1, <2>1
  <2> QED
    BY <2>2 DEF q, s
<1>6. \A i \in 0 .. n - 1 :
        Of(i, B \cup {o}) = IF i = q THEN Of(i, B) \cup {s} ELSE Of(i, B)
  BY <1>3, <1>5
<1>7. [i \in 0 .. n - 1 |-> Of(i, B \cup {o})]
        = [[i \in 0 .. n - 1 |-> Of(i, B)] EXCEPT ![q] = @ \cup {s}]
  <2> HIDE DEF Of
  <2> QED
    BY <1>3, <1>6
<1>8. BitmapOf(size, B) = [size |-> size, bits |-> [i \in 0 .. n - 1 |-> Of(i, B)]]
  BY DEF BitmapOf, n
<1>9. BitmapOf(size, B \cup {o})
        = [size |-> size, bits |-> [i \in 0 .. n - 1 |-> Of(i, B \cup {o})]]
  BY DEF BitmapOf, n
<1>10. SetBit(BitmapOf(size, B), o)
         = [size |-> size, bits |-> [[i \in 0 .. n - 1 |-> Of(i, B)] EXCEPT ![q] = @ \cup {s}]]
  <2>1. PICK f : f = [i \in 0 .. n - 1 |-> Of(i, B)]
    OBVIOUS
  <2>2. PICK m : m = [size |-> size, bits |-> f]
    OBVIOUS
  <2>3. SetBit(m, o) = [m EXCEPT !.bits[q] = @ \cup {s}]
    BY DEF SetBit, q, s
  <2>4. [m EXCEPT !.bits[q] = @ \cup {s}] = [size |-> size, bits |-> [f EXCEPT ![q] = @ \cup {s}]]
    BY <2>2
  <2> HIDE DEF Of
  <2> QED
    BY <1>8, <2>1, <2>2, <2>3, <2>4
<1> QED
  BY <1>7, <1>9, <1>10

\* all() compares whole words.
LEMMA AllSet ==
  ASSUME NEW size \in Nat \ {0}, NEW B \in SUBSET (0 .. size - 1)
  PROVE  All(BitmapOf(size, B)) <=> B = 0 .. size - 1
<1>1. ElemSize \in Nat \ {0}
  BY ElemSizeAssumption
<1> DEFINE n == Length(size)
           Of(i) == {r \in Word : i * ElemSize + r \in B \/ i * ElemSize + r >= size}
<1>2. n \in Nat \ {0} /\ size <= n * ElemSize
  BY LengthOf
<1> HIDE DEF n
<1>3. All(BitmapOf(size, B)) <=> \A i \in 0 .. n - 1 : Of(i) = Word
  BY DEF All, BitmapOf, n
<1>4. ASSUME \A i \in 0 .. n - 1 : Of(i) = Word, NEW o \in 0 .. size - 1
      PROVE  o \in B
  <2> DEFINE q == o \div ElemSize
             s == o % ElemSize
  <2>1. q \in 0 .. n - 1 /\ s \in Word /\ o = q * ElemSize + s
    BY PlaceOf DEF n
  <2> HIDE DEF q, s
  <2>2. s \in Of(q)
    BY <1>4, <2>1
  <2> QED
    BY <2>1, <2>2
<1>5. ASSUME B = 0 .. size - 1, NEW i \in 0 .. n - 1
      PROVE  Of(i) = Word
  <2>1. \A r \in Word : i * ElemSize + r \in Nat
    BY <1>1, <1>2 DEF Word
  <2> QED
    BY <1>5, <2>1
<1> QED
  BY <1>3, <1>4, <1>5

\* Of a set of subsets, one has no strict subset that belongs to it, too.
LEMMA MinimalSubset ==
  ASSUME NEW S, IsFiniteSet(S), NEW T \in SUBSET (SUBSET S), T # {}
  PROVE  \E s \in T : \A r \in T : r \subseteq s => r = s
<1> DEFINE R == StrictSubsetOrdering(S)
<1>1. IsWellFoundedOn(R, FiniteSubsetsOf(S)) /\ FiniteSubsetsOf(S) = SUBSET S
  BY FS_StrictSubsetOrderingWellFounded, FS_FiniteSubsetsOfFinite
<1>2. PICK s \in T : \A r \in T : <<r, s>> \notin R
  <2> HIDE DEF R
  <2> QED
    BY <1>1, WFMin
<1>3. ASSUME NEW r \in T, r \subseteq s, r # s PROVE <<r, s>> \in R
  <2>1. r \in SUBSET S /\ s \in SUBSET S
    OBVIOUS
  <2> QED
    BY <1>3, <2>1 DEF StrictSubsetOrdering
<1>4. \A r \in T : r \subseteq s => r = s
  <2> HIDE DEF R
  <2> QED
    BY <1>2, <1>3
<1> HIDE DEF R
<1> QED
  BY <1>4

\* Bits that are set one after the other, in whatever order
SetBits(size, S, h) ==
  h = [s \in SUBSET S |->
         IF s = {} THEN NewBitmap(size)
         ELSE SetBit(h[s \ {CHOOSE x \in s : TRUE}], (CHOOSE x \in s : TRUE)[2] - 1)]

LEMMA SetBitsAre ==
  ASSUME NEW size \in Nat \ {0}, NEW S, IsFiniteSet(S),
         \A c \in S : c[2] - 1 \in 0 .. size - 1
  PROVE  FoldSet(LAMBDA cts, map : SetBit(map, cts[2] - 1), NewBitmap(size), S)
           = BitmapOf(size, {c[2] - 1 : c \in S})
<1> DEFINE B(s) == {c[2] - 1 : c \in s}
           x(s) == CHOOSE c \in s : TRUE
           Value(s, h) == IF s = {} THEN NewBitmap(size)
                          ELSE SetBit(h[s \ {x(s)}], x(s)[2] - 1)
<1>1. PICK g : g = [s \in SUBSET S |-> BitmapOf(size, B(s))]
  OBVIOUS
<1>2. \A s \in SUBSET S : s # {} => x(s) \in s
  OBVIOUS
<1>3. \A s \in SUBSET S : s # {} =>
        SetBit(BitmapOf(size, B(s \ {x(s)})), x(s)[2] - 1) = BitmapOf(size, B(s))
  <2> SUFFICES ASSUME NEW s \in SUBSET S, s # {}
               PROVE  SetBit(BitmapOf(size, B(s \ {x(s)})), x(s)[2] - 1) = BitmapOf(size, B(s))
    OBVIOUS
  <2>1. PICK c \in s : c = x(s)
    BY <1>2
  <2> HIDE DEF x
  <2>2. B(s \ {c}) \in SUBSET Nat /\ c[2] - 1 \in 0 .. size - 1
    OBVIOUS
  <2>3. SetBit(BitmapOf(size, B(s \ {c})), c[2] - 1)
          = BitmapOf(size, B(s \ {c}) \cup {c[2] - 1})
    <3> HIDE DEF B
    <3> QED
      BY <2>2, SetBitAdds
  <2>4. B(s \ {c}) \cup {c[2] - 1} = B(s)
    OBVIOUS
  <2> QED
    BY <2>1, <2>3, <2>4
<1>4. \A s \in SUBSET S : g[s] = Value(s, g)
  <2> SUFFICES ASSUME NEW s \in SUBSET S PROVE g[s] = Value(s, g)
    OBVIOUS
  <2>1. CASE s = {}
    <3>1. B(s) = {}
      BY <2>1
    <3>2. g[s] = BitmapOf(size, B(s))
      <4> HIDE DEF B
      <4> QED
        BY <1>1
    <3> HIDE DEF B
    <3> QED
      BY <2>1, <3>1, <3>2, NewBitmapEmpty
  <2>2. CASE s # {}
    <3>1. s \ {x(s)} \in SUBSET S
      OBVIOUS
    <3> HIDE DEF B, x
    <3> QED
      BY <1>1, <1>3, <2>2, <3>1
  <2> QED
    BY <2>1, <2>2
<1>5. ASSUME NEW h, SetBits(size, S, h) PROVE h[S] = g[S]
  <2>1. \A s \in SUBSET S : h[s] = Value(s, h)
    BY <1>5 DEF SetBits
  <2> DEFINE T == {s \in SUBSET S : h[s] # g[s]}
  <2> SUFFICES ASSUME T # {} PROVE FALSE
    OBVIOUS
  <2>2. T \in SUBSET (SUBSET S)
    OBVIOUS
  <2>3. PICK s \in T : \A r \in T : r \subseteq s => r = s
    <3> HIDE DEF T
    <3> QED
      BY <2>2, MinimalSubset
  <2>4. s \in SUBSET S /\ h[s] # g[s]
    OBVIOUS
  <2>5. s # {}
    BY <1>4, <2>1, <2>4
  <2>6. s \ {x(s)} \in SUBSET S /\ s \ {x(s)} # s /\ s \ {x(s)} \subseteq s
    BY <1>2, <2>4, <2>5
  <2>7. h[s \ {x(s)}] = g[s \ {x(s)}]
    <3> HIDE DEF x
    <3> QED
      BY <2>3, <2>6
  <2> HIDE DEF x, T
  <2> QED
    BY <1>4, <2>1, <2>4, <2>5, <2>7
<1>6. SetBits(size, S, g)
  <2>1. g = [s \in SUBSET S |-> g[s]]
    <3> HIDE DEF B
    <3> QED
      BY <1>1
  <2>2. g = [s \in SUBSET S |-> Value(s, g)]
    <3> HIDE DEF Value
    <3> QED
      BY <1>4, <2>1
  <2> QED
    BY <2>2 DEF SetBits
<1>7. \E it : it = [s \in SUBSET S |->
         IF s = {} THEN NewBitmap(size)
         ELSE LET c == CHOOSE y \in s : TRUE
              IN  SetBit(it[s \ {c}], c[2] - 1)]
  BY <1>6 DEF SetBits
<1>8. PICK it :
        /\ it = [s \in SUBSET S |->
             IF s = {} THEN NewBitmap(size)
             ELSE LET c == CHOOSE y \in s : TRUE
                  IN  SetBit(it[s \ {c}], c[2] - 1)]
        /\ FoldSet(LAMBDA cts, map : SetBit(map, cts[2] - 1), NewBitmap(size), S) = it[S]
  BY <1>7 DEF FoldSet, MapThenFoldSet
<1>9. SetBits(size, S, it)
  BY <1>8 DEF SetBits
<1>10. it[S] = g[S] /\ g[S] = BitmapOf(size, B(S))
  <2> HIDE DEF B
  <2> QED
    BY <1>1, <1>5, <1>9
<1> QED
  BY <1>8, <1>10

-----------------------------------------------------------------------------
(* Simulations and their sets                                               *)

LEMMA InputFacts ==
  ASSUME input \in Inputs
  PROVE  /\ NEvals \in Nat \ {0}
         /\ Evals = 1 .. NEvals
         /\ input.sets \in Seq(Seq(BOOLEAN))
         /\ Seeds = 1 .. Len(input.sets) /\ Len(input.sets) \in Nat
         /\ \A n \in Seeds : /\ Len(input.sets[n]) \in Nat \ {0}
                             /\ DOMAIN input.sets[n] = 1 .. Len(input.sets[n])
<1>1. /\ input.allocators \in Seq(Nat) /\ input.allocators # << >>
      /\ input.sets \in Seq(Seq(BOOLEAN))
      /\ \A n \in DOMAIN input.sets : input.sets[n] # << >>
  BY InputsAssumption
<1>2. Len(input.allocators) \in Nat \ {0}
  BY <1>1, EmptySeq, LenProperties
<1>3. DOMAIN input.sets = 1 .. Len(input.sets) /\ Len(input.sets) \in Nat
  BY <1>1, LenProperties
<1>4. ASSUME NEW n \in DOMAIN input.sets
      PROVE  /\ Len(input.sets[n]) \in Nat \ {0}
             /\ DOMAIN input.sets[n] = 1 .. Len(input.sets[n])
  <2>1. input.sets[n] \in Seq(BOOLEAN) /\ input.sets[n] # << >>
    BY <1>1, <1>3, ElementOfSeq
  <2> QED
    BY <2>1, EmptySeq, LenProperties
<1> QED
  BY <1>1, <1>2, <1>3, <1>4 DEF NEvals, Evals, Seeds

\* A set of simulations is finished when all of its tasksets are.
LEMMA SetFinishedIsAll ==
  ASSUME input \in Inputs, NEW n \in Seeds, NEW bits
  PROVE  SetFinished(n, bits) <=> CtssOf(n) \subseteq bits
<1> DEFINE size == Len(input.sets[n])
           S == CtssOf(n) \cap bits
           B == {c[2] - 1 : c \in S}
<1>1. size \in Nat \ {0} /\ DOMAIN input.sets[n] = 1 .. size
  BY InputFacts
<1>2. CtssOf(n) = {<<n, u>> : u \in 1 .. size}
  BY <1>1 DEF CtssOf
<1>3. IsFiniteSet(S)
  <2> HIDE DEF size
  <2>1. IsFiniteSet({n})
    BY FS_Singleton
  <2>2. 1 \in Int /\ size \in Int
    BY <1>1
  <2>3. IsFiniteSet(1 .. size)
    BY <2>2, FS_Interval
  <2>4. IsFiniteSet({n} \X (1 .. size))
    BY <2>1, <2>3, FS_Product
  <2>5. S \subseteq {n} \X (1 .. size)
    BY <1>2
  <2> QED
    BY <2>4, <2>5, FS_Subset
<1>4. \A c \in S : c[2] - 1 \in 0 .. size - 1
  BY <1>1, <1>2
<1>5. B \in SUBSET (0 .. size - 1)
  BY <1>4
<1>6. B = 0 .. size - 1 <=> CtssOf(n) \subseteq bits
  <2>1. ASSUME B = 0 .. size - 1, NEW u \in 1 .. size PROVE <<n, u>> \in bits
    <3>1. u - 1 \in 0 .. size - 1
      BY <1>1
    <3>2. PICK c \in S : c[2] - 1 = u - 1
      BY <2>1, <3>1
    <3>3. PICK v \in 1 .. size : c = <<n, v>>
      BY <1>2
    <3>4. v = u
      BY <1>1, <3>2, <3>3
    <3> QED
      BY <3>3, <3>4
  <2>2. ASSUME CtssOf(n) \subseteq bits, NEW o \in 0 .. size - 1 PROVE o \in B
    <3>1. o + 1 \in 1 .. size /\ (o + 1) - 1 = o
      BY <1>1
    <3>2. <<n, o + 1>> \in S /\ <<n, o + 1>>[2] - 1 = o
      BY <1>2, <2>2, <3>1
    <3> QED
      BY <3>2
  <2> HIDE DEF size
  <2> QED
    BY <1>2, <1>5, <2>1, <2>2
<1>7. FinishedMap(n, bits) = BitmapOf(size, B)
  <2>1. FinishedMap(n, bits)
          = FoldSet(LAMBDA cts, map : SetBit(map, cts[2] - 1), NewBitmap(size), S)
    BY DEF FinishedMap
  <2> HIDE DEF size, S
  <2> QED
    BY <1>1, <1>3, <1>4, <2>1, SetBitsAre
<1> HIDE DEF B
<1> QED
  BY <1>1, <1>5, <1>6, <1>7, AllSet DEF SetFinished

CtsOf(sim) == <<sim[1], sim[2]>>

\* The work of mkdse are the simulations, ...
LEMMA SimOfItem ==
  ASSUME input \in Inputs, Is("mkdse"), plan = PlanOf(input), NEW item \in Work
  PROVE  /\ item[1] \in Seeds /\ SimOf(item)[1] = item[1]
         /\ CtsOf(SimOf(item)) \in CtssOf(item[1])
         /\ SimOf(item) \in SimsOf(CtsOf(SimOf(item)))
         /\ SimOf(item) \in SimsOfSet(item[1])
<1>1. PICK n \in DOMAIN plan : \E i \in 1 .. plan[n] : item = <<n, i>>
  BY DEF Work, WorkOf
<1>2. PICK i \in 1 .. plan[n] : item = <<n, i>>
  BY <1>1
<1>3. n \in Seeds /\ plan[n] = Len(input.sets[n]) * NEvals
  BY DEF PlanOf, Is, Seeds, NEvals
<1> DEFINE size == Len(input.sets[n])
<1>4. /\ NEvals \in Nat \ {0} /\ Evals = 1 .. NEvals
      /\ size \in Nat \ {0} /\ DOMAIN input.sets[n] = 1 .. size
  BY <1>3, InputFacts
<1> DEFINE q == (i - 1) \div NEvals
           r == (i - 1) % NEvals
<1>5. i - 1 \in Nat /\ i - 1 \in 0 .. size * NEvals - 1
  BY <1>3, <1>4
<1>6. q \in 0 .. size - 1 /\ r \in 0 .. NEvals - 1
  <2>1. size \in Nat
    BY <1>4
  <2> HIDE DEF size
  <2> QED
    BY <1>4, <1>5, <2>1, DivMod, DivBelow
<1>7. SimOf(item) = <<n, q + 1, r + 1>>
  BY <1>2 DEF SimOf
<1> HIDE DEF q, r, size
<1>8. q + 1 \in 1 .. size /\ r + 1 \in Evals
  BY <1>4, <1>6
<1>9. <<n, q + 1>> \in CtssOf(n)
  BY <1>4, <1>8 DEF CtssOf
<1>10. <<n, q + 1, r + 1>> \in SimsOf(<<n, q + 1>>)
  BY <1>8 DEF SimsOf
<1> QED
  BY <1>2, <1>3, <1>7, <1>9, <1>10 DEF CtsOf, SimsOfSet

\* ... each of them once.
LEMMA SimOfInjective ==
  ASSUME input \in Inputs, NEW x \in Work, NEW y \in Work, plan \in Seq(Nat),
         SimOf(x) = SimOf(y)
  PROVE  x = y
<1>1. PICK n, i : /\ n \in DOMAIN plan /\ i \in 1 .. plan[n]
                  /\ x = <<n, i>>
  BY DEF Work, WorkOf
<1>2. PICK m, h : /\ m \in DOMAIN plan /\ h \in 1 .. plan[m]
                  /\ y = <<m, h>>
  BY DEF Work, WorkOf
<1>3. PICK d \in Nat \ {0} : d = NEvals
  BY InputFacts
<1>4. PICK a \in Nat, b \in Nat : a = i - 1 /\ b = h - 1
  <2>1. plan[n] \in Nat /\ plan[m] \in Nat
    BY <1>1, <1>2, ElementOfSeq, LenProperties
  <2> QED
    BY <1>1, <1>2, <2>1
<1>5. n = m /\ (a \div d) + 1 = (b \div d) + 1 /\ (a % d) + 1 = (b % d) + 1
  BY <1>1, <1>2, <1>3, <1>4 DEF SimOf
<1>6. /\ a \div d \in Nat /\ a % d \in Nat /\ a = (a \div d) * d + (a % d)
      /\ b \div d \in Nat /\ b % d \in Nat /\ b = (b \div d) * d + (b % d)
  BY DivMod
<1>7. a \div d = b \div d /\ a % d = b % d
  BY <1>5, <1>6
<1>8. i = h
  <2>1. a = b
    BY <1>6, <1>7
  <2>2. i \in Int /\ h \in Int
    BY <1>1, <1>2
  <2> QED
    BY <1>4, <2>1, <2>2
<1> QED
  BY <1>1, <1>2, <1>5, <1>8

-----------------------------------------------------------------------------
(* The inductive invariant                                                   *)

\* What has been generated and not been processed yet
OpenWork == Generated \ (Range(aggregated) \ {processing})

\* The simulations that are looked up later: those of open work, and those of a set
\* that is registered and not returned to the pool yet
LiveSims == {SimOf(x) : x \in OpenWork} \cup UNION {SimsOfSet(n) : n \in calls + 1 .. registered}

Mapped(sim) ==
  /\ sim \in DOMAIN mkSimToCts /\ sim \notin notified
  /\ CtsOf(sim) \in DOMAIN ctsToSs /\ CtsOf(sim) \notin notified
  /\ sim[1] \in simulationSets

MapsRight ==
  /\ registered \in 0 .. Len(plan)
  /\ calls <= Len(plan) => registered \in calls .. calls + 1
  /\ \A sim \in LiveSims : Mapped(sim)
  /\ \A sim \in DOMAIN mkSimToCts : mkSimToCts[sim] = CtsOf(sim)
  /\ \A cts \in DOMAIN ctsToSs : ctsToSs[cts] = cts[1]
  /\ \A bit \in notified : bit[1] \in 0 .. calls

ProcessingRight == processing = Null \/ processing \in Range(aggregated)

\* A worker runs the simulation it has in hand, before it has a result.
RunningRight ==
  \A w \in Workers : currentSim[w] # Null =>
    currentSim[w] = held[w] /\ SimOf(held[w]) \notin simulated

EvInv ==
  /\ input \in Inputs /\ plan = PlanOf(input)
  /\ currentSim \in [Workers -> Work \cup {Null}]
  /\ ~ Is("tseval") => IInv
  /\ IF Is("mkdse") THEN MapsRight /\ ProcessingRight /\ RunningRight
     ELSE currentSim = [w \in Workers |-> Null]

-----------------------------------------------------------------------------
(* The threads of the programs are those of the pool                        *)

LEMMA PoolStep ==
  ASSUME ~ Is("tseval"), [EvaluationNext]_all
  PROVE  [Next]_vars
<1>1. CASE GeneratorThread
  BY <1>1 DEF GeneratorThread, RegisterTaskset, GenerationThread, TsevalGeneratorThread,
              ReturnTaskset, Next, Generator
<1>2. CASE \E w \in Workers : WorkerThread(w)
  <2> PICK w \in Workers : WorkerThread(w)
    BY <1>2
  <2>1. CASE GetWork(w) \/ PutResultOf(w)
    BY <2>1 DEF PutResultOf, Next, Worker
  <2>2. CASE StartSimulation(w) \/ FinishSimulation(w)
    BY <2>2 DEF StartSimulation, FinishSimulation
  <2> QED
    BY <2>1, <2>2 DEF WorkerThread, ExecuteTaskSet
<1>3. CASE AggregatorThread
  BY <1>3 DEF AggregatorThread, TakeResult, ProcessResult, ProcessSimulation,
              ProcessBreakdowns, ProcessEval, Next
<1>4. CASE Wakes
  BY <1>4 DEF Wakes, Next
<1>5. CASE FinishInitialisation
  BY <1>5 DEF FinishInitialisation
<1>6. CASE MainThread
  BY <1>6 DEF MainThread, ReturnFromRunMulti, JoinInitialisation, Next, Main
<1>7. CASE (Returned /\ initAt = "joined" /\ UNCHANGED evalVars) \/ UNCHANGED all
  BY <1>7 DEF Next, all
<1> QED
  BY <1>1, <1>2, <1>3, <1>4, <1>5, <1>6, <1>7 DEF EvaluationNext

\* The input and the plan that follows from it are what they were.
LEMMA InputKept ==
  ASSUME [EvaluationNext]_all
  PROVE  input' = input /\ plan' = plan
<1>1. CASE GeneratorThread
  BY <1>1 DEF GeneratorThread, RegisterTaskset, GenerationThread, TsevalGeneratorThread,
              ReturnTaskset, Generate, PutWork, FinishGeneration, evalVars, vars
<1>2. CASE \E w \in Workers : WorkerThread(w)
  BY <1>2 DEF WorkerThread, GetWork, StartSimulation, FinishSimulation, PutResultOf,
              PutResult, ExecuteTaskSet, evalVars, vars
<1>3. CASE AggregatorThread
  BY <1>3 DEF AggregatorThread, TakeResult, GetResult, ProcessResult, ProcessSimulation,
              ProcessBreakdowns, ProcessEval, vars
<1>4. CASE Wakes
  BY <1>4 DEF Wakes, WorkerWakes, AggregatorWakes, evalVars
<1>5. CASE FinishInitialisation
  BY <1>5 DEF FinishInitialisation, vars
<1>6. CASE MainThread
  BY <1>6 DEF MainThread, JoinGenerator, FinishWork, JoinAggregator, ReturnFromRunMulti,
              JoinInitialisation, evalVars, vars
<1>7. CASE (Returned /\ initAt = "joined" /\ UNCHANGED evalVars) \/ UNCHANGED all
  BY <1>7 DEF Returned, all, evalVars, vars
<1> QED
  BY <1>1, <1>2, <1>3, <1>4, <1>5, <1>6, <1>7 DEF EvaluationNext

-----------------------------------------------------------------------------
(* Open work and the maps of mkdse                                          *)

LEMMA SetMembers ==
  /\ \A n : \A cts \in CtssOf(n) : cts[1] = n
  /\ \A n : \A sim \in SimsOfSet(n) :
       sim[1] = n /\ CtsOf(sim) \in CtssOf(n) /\ sim \in SimsOf(CtsOf(sim))
  /\ \A a, b, c, d, e : <<a, b>> # <<c, d, e>>
<1>1. \A n : \A cts \in CtssOf(n) : cts[1] = n /\ \E u \in DOMAIN input.sets[n] : cts = <<n, u>>
  BY DEF CtssOf
<1>2. ASSUME NEW n, NEW sim \in SimsOfSet(n)
      PROVE  sim[1] = n /\ CtsOf(sim) \in CtssOf(n) /\ sim \in SimsOf(CtsOf(sim))
  <2>1. PICK cts \in CtssOf(n) : sim \in SimsOf(cts)
    BY DEF SimsOfSet
  <2>2. PICK u : cts = <<n, u>>
    BY <1>1
  <2>3. PICK e \in Evals : sim = <<n, u, e>>
    BY <2>1, <2>2 DEF SimsOf
  <2>4. CtsOf(sim) = cts
    BY <2>2, <2>3 DEF CtsOf
  <2> QED
    BY <2>1, <2>3, <2>4
<1> QED
  BY <1>1, <1>2

\* What the invariants say of the pool, for mkdse
LEMMA DseFacts ==
  ASSUME EvInv, Is("mkdse")
  PROVE  /\ IInv /\ input \in Inputs /\ plan = PlanOf(input) /\ plan \in Seq(Nat)
         /\ Seeds = 1 .. Len(plan) /\ Len(input.sets) = Len(plan) /\ Len(plan) \in Nat
         /\ calls \in Nat
         /\ \A x \in Work : x[1] \in Seeds
         /\ OpenWork \subseteq Generated /\ Generated \subseteq Work
         /\ aggregated \in Seq(Work) /\ resultPool \in Seq(Work)
         /\ held \in [Workers -> Work \cup {Null}] /\ Null \notin Work
         /\ Range(aggregated) \subseteq Generated
         /\ MapsRight /\ ProcessingRight /\ RunningRight
<1>1. /\ IInv /\ input \in Inputs /\ plan = PlanOf(input)
      /\ MapsRight /\ ProcessingRight /\ RunningRight
  BY DEF EvInv, Is
<1>2. /\ plan \in Seq(Nat) /\ Len(plan) \in Nat /\ calls \in Nat
      /\ aggregated \in Seq(Work) /\ resultPool \in Seq(Work)
      /\ held \in [Workers -> Work \cup {Null}] /\ Null \notin Work
  BY <1>1, Types DEF IInv
<1>3. DOMAIN plan = Seeds
  BY <1>1 DEF PlanOf, Seeds
<1>4. Seeds = 1 .. Len(plan) /\ Len(input.sets) = Len(plan)
  <2>1. DOMAIN plan = 1 .. Len(plan)
    BY <1>2, LenProperties
  <2>2. Seeds = 1 .. Len(input.sets) /\ Len(input.sets) \in Nat
    BY <1>1, InputFacts
  <2>3. \A a, b \in Nat : 1 .. a = 1 .. b => a = b
    <3> SUFFICES ASSUME NEW a \in Nat, NEW b \in Nat, 1 .. a = 1 .. b, a < b PROVE FALSE
      OBVIOUS
    <3>1. b \in 1 .. b /\ b \notin 1 .. a
      OBVIOUS
    <3> QED
      BY <3>1
  <2> QED
    BY <1>2, <1>3, <2>1, <2>2, <2>3
<1>5. \A x \in Work : x[1] \in Seeds
  BY <1>1, SimOfItem
<1>6. OpenWork \subseteq Generated /\ Generated \subseteq Work
  BY DEF OpenWork, Generated
<1>7. Range(aggregated) \subseteq Generated
  <2>1. Range(aggregated) \subseteq Range(Results)
    BY <1>2, ConcatInjective DEF Results
  <2> QED
    BY <1>1, <2>1 DEF IInv, Conserved, Started
<1> QED
  BY <1>1, <1>2, <1>4, <1>5, <1>6, <1>7

\* As long as no more work is open, the maps stay right.
LEMMA MapsKept ==
  ASSUME EvInv, Is("mkdse"), OpenWork' \subseteq OpenWork,
         UNCHANGED <<input, plan, calls, registered, mkSimToCts, ctsToSs, simulationSets,
                     notified>>
  PROVE  MapsRight'
<1>1. LiveSims' \subseteq LiveSims
  <2>1. \A x : SimOf(x)' = SimOf(x)
    BY DEF SimOf, NEvals
  <2>2. \A n : SimsOfSet(n)' = SimsOfSet(n)
    BY DEF SimsOfSet, SimsOf, CtssOf, Evals, NEvals
  <2> QED
    BY <2>1, <2>2 DEF LiveSims
<1>2. \A sim : Mapped(sim)' <=> Mapped(sim)
  BY DEF Mapped, CtsOf
<1>3. MapsRight
  BY DseFacts
<1> QED
  BY <1>1, <1>2, <1>3 DEF MapsRight, CtsOf

\* A set is registered before any of its work is returned, and after all work of the
\* others: none of its simulations has been seen.
LEMMA RegisterMaps ==
  ASSUME EvInv, RegisterTaskset
  PROVE  MapsRight'
<1> DEFINE n == registered + 1
<1>0. Is("mkdse")
  BY DEF RegisterTaskset
<1>1. /\ registered = calls /\ calls \in Nat /\ n \in Seeds /\ n = calls + 1
      /\ registered' = n /\ n \in 0 .. Len(plan)
      /\ UNCHANGED <<input, plan, calls, aggregated, processing, notified>>
  BY <1>0, DseFacts DEF RegisterTaskset, vars, generatorVars
<1>2. /\ simulationSets' = simulationSets \cup {n}
      /\ ctsToSs' = [cts \in CtssOf(n) \cup DOMAIN ctsToSs |->
                       IF cts \in CtssOf(n) THEN n ELSE ctsToSs[cts]]
      /\ mkSimToCts' = [sim \in SimsOfSet(n) \cup DOMAIN mkSimToCts |->
                          IF sim \in SimsOfSet(n) THEN CtsOf(sim) ELSE mkSimToCts[sim]]
  BY DEF RegisterTaskset, CtsOf
<1> HIDE DEF n
<1>3. MapsRight
  BY <1>0, DseFacts
<1>4. /\ DOMAIN mkSimToCts' = SimsOfSet(n) \cup DOMAIN mkSimToCts
      /\ DOMAIN ctsToSs' = CtssOf(n) \cup DOMAIN ctsToSs
      /\ \A sim \in DOMAIN mkSimToCts' : mkSimToCts'[sim] = CtsOf(sim)
      /\ \A cts \in DOMAIN ctsToSs' : ctsToSs'[cts] = cts[1]
  <2>1. \A cts \in CtssOf(n) : cts[1] = n
    BY SetMembers
  <2>2. PICK S, T : S = CtssOf(n) /\ T = SimsOfSet(n)
    OBVIOUS
  <2>3. PICK f, g : f = ctsToSs /\ g = mkSimToCts
    OBVIOUS
  <2>4. /\ ctsToSs' = [cts \in S \cup DOMAIN f |-> IF cts \in S THEN n ELSE f[cts]]
        /\ mkSimToCts' = [sim \in T \cup DOMAIN g |-> IF sim \in T THEN CtsOf(sim) ELSE g[sim]]
    BY <1>2, <2>2, <2>3
  <2>5. (\A cts \in DOMAIN f : f[cts] = cts[1]) /\ (\A sim \in DOMAIN g : g[sim] = CtsOf(sim))
    BY <1>3, <2>3 DEF MapsRight
  <2>6. DOMAIN ctsToSs' = S \cup DOMAIN f /\ DOMAIN mkSimToCts' = T \cup DOMAIN g
    BY <2>4
  <2>7. ASSUME NEW cts \in DOMAIN ctsToSs' PROVE ctsToSs'[cts] = cts[1]
    BY <2>1, <2>2, <2>4, <2>5, <2>6
  <2>8. ASSUME NEW sim \in DOMAIN mkSimToCts' PROVE mkSimToCts'[sim] = CtsOf(sim)
    BY <2>4, <2>5, <2>6
  <2> QED
    BY <2>2, <2>3, <2>6, <2>7, <2>8
<1>5. LiveSims' \subseteq LiveSims \cup SimsOfSet(n)
  <2>1. \A x : SimOf(x)' = SimOf(x)
    BY <1>1 DEF SimOf, NEvals
  <2>2. \A m : SimsOfSet(m)' = SimsOfSet(m)
    BY <1>1 DEF SimsOfSet, SimsOf, CtssOf, Evals, NEvals
  <2>3. OpenWork' = OpenWork
    BY <1>1 DEF OpenWork, Generated, Work
  <2>4. calls' + 1 .. registered' = {n}
    BY <1>1
  <2> QED
    BY <2>1, <2>2, <2>3, <2>4 DEF LiveSims
<1>6. ASSUME NEW sim \in LiveSims' PROVE Mapped(sim)'
  <2>1. CASE sim \in LiveSims
    <3>1. Mapped(sim)
      BY <1>3, <2>1 DEF MapsRight
    <3> QED
      BY <1>1, <1>2, <1>4, <3>1 DEF Mapped, CtsOf
  <2>2. CASE sim \in SimsOfSet(n)
    <3>1. sim[1] = n /\ CtsOf(sim) \in CtssOf(n) /\ CtsOf(sim)[1] = n
      BY <2>2, SetMembers
    <3>2. \A bit \in notified : bit[1] # n
      BY <1>1, <1>3 DEF MapsRight
    <3>3. sim \in DOMAIN mkSimToCts' /\ CtsOf(sim) \in DOMAIN ctsToSs' /\ sim[1] \in simulationSets'
      BY <1>2, <1>4, <2>2, <3>1
    <3>4. sim \notin notified' /\ CtsOf(sim) \notin notified'
      BY <1>1, <3>1, <3>2
    <3> QED
      BY <3>3, <3>4 DEF Mapped, CtsOf
  <2> QED
    BY <1>5, <2>1, <2>2
<1>7. /\ registered' \in 0 .. Len(plan')
      /\ calls' <= Len(plan') => registered' \in calls' .. calls' + 1
      /\ \A bit \in notified' : bit[1] \in 0 .. calls'
  BY <1>1, <1>3 DEF MapsRight
<1> QED
  BY <1>4, <1>6, <1>7 DEF MapsRight, CtsOf

\* The work that is returned was registered.
LEMMA ReturnMaps ==
  ASSUME EvInv, Is("mkdse"), ReturnTaskset
  PROVE  MapsRight'
<1>1. /\ calls' = calls + 1 /\ calls \in Nat /\ calls \in 0 .. Len(plan) + 1
      /\ calls < Len(plan) => registered = calls + 1
      /\ UNCHANGED <<input, plan, registered, aggregated, processing, mkSimToCts, ctsToSs,
                     simulationSets, notified>>
      /\ Len(plan) \in Nat
  BY DseFacts DEF ReturnTaskset, Generate, IInv, TypeOK
<1>2. MapsRight
  BY DseFacts
<1>3. LiveSims' \subseteq LiveSims
  <2>1. \A x : SimOf(x)' = SimOf(x)
    BY <1>1 DEF SimOf, NEvals
  <2>2. \A m : SimsOfSet(m)' = SimsOfSet(m)
    BY <1>1 DEF SimsOfSet, SimsOf, CtssOf, Evals, NEvals
  <2>3. calls' + 1 .. registered' \subseteq calls + 1 .. registered
    BY <1>1, <1>2 DEF MapsRight
  <2>4. ASSUME NEW x \in OpenWork' PROVE SimOf(x) \in LiveSims
    <3>1. x \in Work /\ x[1] <= calls + 1 /\ x \notin Range(aggregated) \ {processing}
      BY <1>1, <2>4 DEF OpenWork, Generated, Work
    <3>2. x[1] \in 1 .. Len(plan) /\ SimOf(x) \in SimsOfSet(x[1])
      BY <3>1, DseFacts, SimOfItem
    <3>3. CASE x[1] <= calls
      BY <3>1, <3>3 DEF LiveSims, OpenWork, Generated
    <3>4. CASE x[1] = calls + 1
      <4>1. x[1] \in calls + 1 .. registered
        BY <1>1, <3>2, <3>4
      <4> QED
        BY <3>2, <4>1 DEF LiveSims
    <3> QED
      BY <1>1, <3>1, <3>2, <3>3, <3>4
  <2> QED
    BY <2>1, <2>2, <2>3, <2>4 DEF LiveSims
<1>4. \A sim : Mapped(sim)' <=> Mapped(sim)
  BY <1>1 DEF Mapped, CtsOf
<1>5. /\ registered' \in 0 .. Len(plan')
      /\ calls' <= Len(plan') => registered' \in calls' .. calls' + 1
      /\ \A bit \in notified' : bit[1] \in 0 .. calls'
  <2>1. calls' <= Len(plan') => calls < Len(plan) /\ registered = calls'
    BY <1>1
  <2>2. \A bit \in notified : bit[1] \in 0 .. calls + 1
    BY <1>1, <1>2 DEF MapsRight
  <2> QED
    BY <1>1, <1>2, <2>1, <2>2 DEF MapsRight
<1> QED
  BY <1>1, <1>2, <1>3, <1>4, <1>5 DEF MapsRight, CtsOf

\* The result that is taken out of the pool stays open.
LEMMA TakeMaps ==
  ASSUME EvInv, Is("mkdse"), TakeResult
  PROVE  MapsRight' /\ ProcessingRight'
<1>1. /\ processing = Null /\ GetResult
      /\ processing' = IF aggregated' # aggregated THEN Last(aggregated') ELSE Null
      /\ UNCHANGED <<input, dseVars>>
      /\ UNCHANGED <<plan, calls>>
  BY DEF TakeResult, GetResult, generatorVars
<1>2. UNCHANGED <<input, plan, calls, registered, mkSimToCts, ctsToSs, simulationSets, notified>>
  BY <1>1 DEF dseVars
<1>3. /\ aggregated \in Seq(Work) /\ resultPool \in Seq(Work) /\ Null \notin Work
      /\ Generated \subseteq Work
  BY DseFacts
<1>4. CASE aggregated' = aggregated
  <2>1. OpenWork' \subseteq OpenWork
    BY <1>1, <1>4 DEF OpenWork, Generated, Work
  <2> QED
    BY <1>1, <1>2, <1>4, <2>1, MapsKept DEF ProcessingRight
<1>5. CASE aggregated' # aggregated
  <2>1. resultPool # << >> /\ aggregated' = Append(aggregated, Head(resultPool))
    BY <1>1, <1>5 DEF GetResult
  <2>2. PICK h \in Work : h = Head(resultPool)
    BY <1>3, <2>1, HeadTailProperties
  <2>3. h \in Range(resultPool)
    BY <1>3, <2>1, <2>2, HeadAndTail
  <2>4. h \notin Range(aggregated)
    <3>1. Range(aggregated) \cap Range(resultPool) = {}
      BY <1>3, DseFacts, ConcatInjective DEF Results, IInv, Conserved
    <3> QED
      BY <2>3, <3>1
  <2>5. Range(aggregated') = Range(aggregated) \cup {h}
    BY <1>3, <2>1, <2>2, AppendInjectiveRange
  <2>6. processing' = h
    <3>1. /\ Len(Append(aggregated, h)) = Len(aggregated) + 1
          /\ Append(aggregated, h)[Len(aggregated) + 1] = h
      BY <1>3, AppendProperties
    <3> QED
      BY <1>1, <1>5, <2>1, <2>2, <3>1 DEF Last
  <2>7. OpenWork' \subseteq OpenWork
    <3>1. Generated' = Generated
      BY <1>2 DEF Generated, Work
    <3> QED
      BY <2>4, <2>5, <2>6, <3>1 DEF OpenWork
  <2> QED
    BY <1>2, <2>5, <2>6, <2>7, MapsKept DEF ProcessingRight
<1> QED
  BY <1>4, <1>5

\* A result is struck off; its taskset and its set are only when nothing of them is
\* open any more.
LEMMA ProcessMaps ==
  ASSUME EvInv, ProcessSimulation
  PROVE  MapsRight' /\ ProcessingRight'
<1>0. Is("mkdse") /\ processing # Null
  BY DEF ProcessSimulation
<1>1. PICK p : p = processing
  OBVIOUS
<1>2. /\ p \in Range(aggregated) /\ p \in Generated /\ p \in Work /\ p \in OpenWork
  BY <1>0, <1>1, DseFacts DEF ProcessingRight, OpenWork
<1>3. MapsRight /\ input \in Inputs /\ plan = PlanOf(input) /\ plan \in Seq(Nat) /\ calls \in Nat
  BY <1>0, DseFacts
<1>4. PICK sim : sim = SimOf(p)
  OBVIOUS
<1>5. sim \in LiveSims /\ Mapped(sim)
  BY <1>2, <1>3, <1>4 DEF LiveSims, MapsRight
<1>6. PICK cts, n : cts = CtsOf(sim) /\ n = sim[1]
  OBVIOUS
<1>7. /\ mkSimToCts[sim] = cts /\ ctsToSs[cts] = n
      /\ n \in Seeds /\ n = p[1] /\ cts[1] = n /\ n \in 0 .. calls
  <2>1. mkSimToCts[sim] = cts /\ cts[1] = n /\ ctsToSs[cts] = n
    BY <1>3, <1>5, <1>6 DEF MapsRight, Mapped, CtsOf
  <2>2. n = p[1] /\ n \in Seeds
    BY <1>0, <1>2, <1>3, <1>4, <1>6, SimOfItem
  <2>3. p[1] \in 0 .. calls
    <3>1. p[1] <= calls
      BY <1>2 DEF Generated
    <3>2. p[1] \in 1 .. Len(plan)
      BY <1>0, <1>2, DseFacts
    <3> QED
      BY <1>3, <3>1, <3>2
  <2> QED
    BY <2>1, <2>2, <2>3
<1>8. PICK bits : bits = notified \cup {sim}
  OBVIOUS
<1>9. PICK ctsBits : ctsBits = IF CtsFinished(cts, bits) THEN bits \cup {cts} ELSE bits
  OBVIOUS
<1>10. PICK over \in BOOLEAN : over <=> CtsFinished(cts, bits) /\ SetFinished(n, ctsBits)
  OBVIOUS
<1>11. PICK goneCtss, goneSims :
         /\ goneCtss = IF over THEN CtssOf(n) ELSE ctsBits \cap {cts}
         /\ goneSims = IF over THEN SimsOfSet(n) ELSE {sim}
  OBVIOUS
<1>12. /\ mkSimToCts' = Restrict(mkSimToCts, DOMAIN mkSimToCts \ goneSims)
       /\ ctsToSs' = Restrict(ctsToSs, DOMAIN ctsToSs \ goneCtss)
       /\ IF over THEN simulationSets' = simulationSets \ {n}
                       /\ notified' = ctsBits \ (CtssOf(n) \cup SimsOfSet(n))
          ELSE notified' = ctsBits /\ simulationSets' = simulationSets
       /\ processing' = Null
       /\ UNCHANGED <<vars, input, registered>>
  BY <1>1, <1>4, <1>7, <1>8, <1>9, <1>10, <1>11 DEF ProcessSimulation
<1>13. UNCHANGED <<plan, calls, aggregated, input, registered>>
  BY <1>12 DEF vars, generatorVars
<1>14. ASSUME NEW t \in LiveSims'
       PROVE  /\ t \in LiveSims /\ t # sim
              /\ CtsOf(t) \in CtssOf(t[1]) /\ t \in SimsOf(CtsOf(t)) /\ t \in SimsOfSet(t[1])
  <2>1. \A x : SimOf(x)' = SimOf(x)
    BY <1>13 DEF SimOf, NEvals
  <2>2. \A m : SimsOfSet(m)' = SimsOfSet(m)
    BY <1>13 DEF SimsOfSet, SimsOf, CtssOf, Evals, NEvals
  <2>3. CASE \E x \in OpenWork' : t = SimOf(x)
    <3>1. PICK x \in OpenWork' : t = SimOf(x)
      BY <2>3
    <3>2. x \in OpenWork /\ x \in Work /\ x # p
      <4>1. Generated' = Generated /\ Null \notin Work /\ Generated \subseteq Work
        BY <1>0, <1>13, DseFacts DEF Generated, Work
      <4>2. x \in Generated /\ x \notin Range(aggregated)
        BY <1>12, <1>13, <4>1 DEF OpenWork
      <4> QED
        BY <1>2, <4>1, <4>2 DEF OpenWork
    <3>3. t # sim
      BY <1>2, <1>3, <1>4, <3>1, <3>2, SimOfInjective
    <3>4. t \in LiveSims
      BY <3>1, <3>2 DEF LiveSims
    <3>5. t[1] = x[1] /\ CtsOf(t) \in CtssOf(t[1]) /\ t \in SimsOf(CtsOf(t)) /\ t \in SimsOfSet(t[1])
      BY <1>0, <1>3, <3>1, <3>2, SimOfItem
    <3> QED
      BY <3>3, <3>4, <3>5
  <2>4. CASE \E m \in calls + 1 .. registered : t \in SimsOfSet(m)
    <3>1. PICK m \in calls + 1 .. registered : t \in SimsOfSet(m)
      BY <2>4
    <3>2. t[1] = m /\ CtsOf(t) \in CtssOf(m) /\ t \in SimsOf(CtsOf(t))
      BY <3>1, SetMembers
    <3>3. m # n
      BY <1>3, <1>7 DEF MapsRight
    <3>4. t \in LiveSims
      BY <3>1 DEF LiveSims
    <3> QED
      BY <1>6, <3>1, <3>2, <3>3, <3>4
  <2> QED
    BY <1>13, <2>1, <2>2, <2>3, <2>4 DEF LiveSims
<1>15. ASSUME NEW t \in LiveSims' PROVE Mapped(t)'
  <2>1. /\ Mapped(t) /\ t # sim
        /\ CtsOf(t) \in CtssOf(t[1]) /\ t \in SimsOf(CtsOf(t)) /\ t \in SimsOfSet(t[1])
    BY <1>3, <1>14 DEF MapsRight
  <2>2. \A s, u : CtsOf(u) # s \/ \A e : s # <<u[1], u[2], e>>
    BY DEF CtsOf
  <2>3. sim # CtsOf(t) /\ cts # t
    <3>1. \E a, b, c : sim = <<a, b, c>>
      BY <1>4 DEF SimOf
    <3>2. \E a, b, c : t = <<a, b, c>>
      BY <2>1 DEF SimsOf, CtsOf
    <3> QED
      BY <1>6, <3>1, <3>2, SetMembers DEF CtsOf
  <2>4. t \notin bits /\ CtsOf(t) \notin bits
    BY <1>8, <2>1, <2>3 DEF Mapped
  <2>5. CtsFinished(cts, bits) => CtsOf(t) # cts
    BY <2>1, <2>4 DEF CtsFinished
  <2>6. t \notin ctsBits /\ CtsOf(t) \notin ctsBits
    BY <1>9, <2>3, <2>4, <2>5
  <2>7. over => t[1] # n
    <3> SUFFICES ASSUME over, t[1] = n PROVE FALSE
      OBVIOUS
    <3>1. CtssOf(n) \subseteq ctsBits
      BY <1>3, <1>7, <1>10, SetFinishedIsAll
    <3> QED
      BY <2>1, <2>6, <3>1
  <2>8. over => t \notin SimsOfSet(n) /\ CtsOf(t) \notin CtssOf(n)
    <3>1. CtsOf(t)[1] = t[1]
      BY DEF CtsOf
    <3> QED
      BY <2>7, <3>1, SetMembers
  <2>9. t \notin goneSims /\ CtsOf(t) \notin goneCtss
    BY <1>11, <2>1, <2>6, <2>8
  <2>10. t \in DOMAIN mkSimToCts' /\ CtsOf(t) \in DOMAIN ctsToSs'
    BY <1>12, <2>1, <2>9 DEF Mapped, Restrict
  <2>11. t \notin notified' /\ CtsOf(t) \notin notified' /\ t[1] \in simulationSets'
    BY <1>12, <2>1, <2>6, <2>7 DEF Mapped
  <2> QED
    BY <2>10, <2>11 DEF Mapped, CtsOf
<1>16. /\ \A s \in DOMAIN mkSimToCts' : mkSimToCts'[s] = CtsOf(s)
       /\ \A c \in DOMAIN ctsToSs' : ctsToSs'[c] = c[1]
  BY <1>3, <1>12 DEF MapsRight, Restrict
<1>17. \A bit \in notified' : bit[1] \in 0 .. calls'
  <2>1. \A bit \in ctsBits : bit[1] \in 0 .. calls
    BY <1>3, <1>6, <1>7, <1>8, <1>9 DEF MapsRight
  <2>2. notified' \subseteq ctsBits
    BY <1>12
  <2> QED
    BY <1>13, <2>1, <2>2
<1>18. registered' \in 0 .. Len(plan') /\ (calls' <= Len(plan') => registered' \in calls' .. calls' + 1)
  BY <1>3, <1>13 DEF MapsRight
<1> QED
  BY <1>12, <1>15, <1>16, <1>17, <1>18 DEF MapsRight, ProcessingRight, CtsOf

\* What changes neither the maps nor what is open leaves the maps right.
LEMMA FrameMaps ==
  ASSUME EvInv, Is("mkdse"),
         UNCHANGED <<input, plan, calls, registered, mkSimToCts, ctsToSs, simulationSets,
                     notified, aggregated, processing>>
  PROVE  MapsRight' /\ ProcessingRight'
<1>1. OpenWork' = OpenWork
  BY DEF OpenWork, Generated, Work
<1>2. ProcessingRight
  BY DseFacts
<1> QED
  BY <1>1, <1>2, MapsKept DEF ProcessingRight

LEMMA NextMaps ==
  ASSUME EvInv, Is("mkdse"), [EvaluationNext]_all
  PROVE  MapsRight' /\ ProcessingRight'
<1> DEFINE looked == <<input, plan, calls, registered, mkSimToCts, ctsToSs, simulationSets,
                       notified, aggregated, processing>>
<1>0. ~ Is("tseval") /\ ~ Is("mkeval") /\ ~ Is("mkbdexcsearch")
  BY DEF Is
<1>1. CASE RegisterTaskset
  BY <1>1, RegisterMaps, DseFacts DEF RegisterTaskset, ProcessingRight, vars
<1>2. CASE ReturnTaskset
  BY <1>2, ReturnMaps, DseFacts DEF ReturnTaskset, Generate, ProcessingRight
<1>3. CASE (PutWork \/ FinishGeneration) /\ UNCHANGED evalVars
  <2>1. UNCHANGED looked
    BY <1>3 DEF PutWork, FinishGeneration, evalVars, dseVars
  <2> QED
    BY <2>1, FrameMaps
<1>4. CASE \E w \in Workers : WorkerThread(w)
  <2>1. UNCHANGED looked
    BY <1>0, <1>4 DEF WorkerThread, GetWork, StartSimulation, FinishSimulation, PutResultOf,
                      PutResult, ExecuteTaskSet, evalVars, dseVars, vars, generatorVars
  <2> QED
    BY <2>1, FrameMaps
<1>5. CASE TakeResult
  BY <1>5, TakeMaps
<1>6. CASE ProcessResult
  BY <1>0, <1>6, ProcessMaps DEF ProcessResult, ProcessBreakdowns, ProcessEval
<1>7. CASE Wakes \/ FinishInitialisation \/ MainThread
  <2>1. UNCHANGED looked
    BY <1>0, <1>7 DEF Wakes, WorkerWakes, AggregatorWakes, FinishInitialisation, MainThread,
                      JoinGenerator, FinishWork, JoinAggregator, ReturnFromRunMulti,
                      JoinInitialisation, evalVars, dseVars, vars, generatorVars
  <2> QED
    BY <2>1, FrameMaps
<1>8. CASE (Returned /\ initAt = "joined" /\ UNCHANGED evalVars) \/ UNCHANGED all
  <2>1. UNCHANGED looked
    BY <1>8 DEF Returned, all, evalVars, dseVars, vars, generatorVars
  <2> QED
    BY <2>1, FrameMaps
<1> QED
  BY <1>0, <1>1, <1>2, <1>3, <1>4, <1>5, <1>6, <1>7, <1>8
  DEF EvaluationNext, GeneratorThread, GenerationThread, TsevalGeneratorThread, AggregatorThread

-----------------------------------------------------------------------------
(* The simulations that are being run                                       *)

LEMMA FrameRunning ==
  ASSUME EvInv, Is("mkdse"), UNCHANGED <<input, plan, currentSim, simulated>>,
         \A w \in Workers : currentSim[w] # Null => held'[w] = held[w]
  PROVE  RunningRight' /\ currentSim' \in [Workers -> Work' \cup {Null}]
<1>1. Work' = Work /\ \A x : SimOf(x)' = SimOf(x)
  BY DEF Work, SimOf, NEvals
<1>2. currentSim \in [Workers -> Work \cup {Null}] /\ RunningRight
  BY DseFacts DEF EvInv
<1> QED
  BY <1>1, <1>2 DEF RunningRight, SimOf, NEvals

LEMMA NextRunning ==
  ASSUME EvInv, Is("mkdse"), [EvaluationNext]_all
  PROVE  RunningRight' /\ currentSim' \in [Workers -> Work' \cup {Null}]
<1>0. ~ Is("tseval") /\ ~ Is("mkeval") /\ ~ Is("mkbdexcsearch")
  BY DEF Is
<1>1. /\ UNCHANGED <<input, plan>> /\ Work' = Work /\ \A x : SimOf(x)' = SimOf(x)
  BY InputKept DEF Work, SimOf, NEvals
<1>2. /\ currentSim \in [Workers -> Work \cup {Null}] /\ RunningRight
      /\ held \in [Workers -> Work \cup {Null}] /\ Null \notin Work
      /\ input \in Inputs /\ plan \in Seq(Nat)
  BY DseFacts DEF EvInv
<1>3. /\ \A w \in Workers : held[w] # Null <=> workerAt[w] = "work"
      /\ \A v, w \in Workers : held[v] = held[w] /\ v # w => held[v] = Null
  BY DseFacts DEF IInv, Control, Conserved
<1>4. CASE \E w \in Workers : WorkerThread(w)
  <2> PICK w \in Workers : WorkerThread(w)
    BY <1>4
  <2>1. CASE GetWork(w) /\ UNCHANGED evalVars
    <3>1. currentSim[w] = Null
      BY <1>2, <1>3, <2>1 DEF GetWork, RunningRight
    <3>2. UNCHANGED <<currentSim, simulated>>
      BY <2>1 DEF evalVars, dseVars
    <3>3. \A v \in Workers : v # w => held'[v] = held[v]
      BY <1>2, <2>1 DEF GetWork, TakeWork
    <3> QED
      BY <1>1, <3>1, <3>2, <3>3, FrameRunning
  <2>2. CASE StartSimulation(w)
    <3>1. /\ currentSim' = [currentSim EXCEPT ![w] = held[w]] /\ SimOf(held[w]) \notin simulated
          /\ held' = held /\ simulated' = simulated
      BY <2>2 DEF StartSimulation, vars
    <3>2. currentSim' \in [Workers -> Work' \cup {Null}]
      BY <1>1, <1>2, <3>1
    <3>3. RunningRight'
      BY <1>1, <1>2, <3>1 DEF RunningRight
    <3> QED
      BY <3>2, <3>3
  <2>3. CASE FinishSimulation(w)
    <3>1. /\ workerAt[w] = "work" /\ currentSim' = [currentSim EXCEPT ![w] = Null]
          /\ simulated' = simulated \cup {SimOf(held[w])} /\ held' = held
      BY <2>3 DEF FinishSimulation, ClearCurrentSim, vars
    <3>2. currentSim' \in [Workers -> Work' \cup {Null}]
      BY <1>1, <1>2, <3>1
    <3>3. ASSUME NEW v \in Workers, currentSim'[v] # Null
          PROVE  currentSim'[v] = held[v] /\ SimOf(held[v]) \notin simulated'
      <4>1. v # w /\ currentSim'[v] = currentSim[v]
        BY <1>2, <3>1, <3>3
      <4>2. currentSim[v] = held[v] /\ SimOf(held[v]) \notin simulated
        BY <1>2, <3>3, <4>1 DEF RunningRight
      <4>3. PICK x \in Work, y \in Work : x = held[v] /\ y = held[w] /\ x # y
        BY <1>2, <1>3, <3>1, <3>3, <4>1, <4>2
      <4>4. SimOf(x) # SimOf(y)
        BY <1>2, <4>3, SimOfInjective
      <4> QED
        BY <3>1, <4>1, <4>2, <4>3, <4>4
    <3>4. RunningRight'
      BY <1>1, <3>1, <3>3 DEF RunningRight
    <3> QED
      BY <3>2, <3>4
  <2>4. CASE PutResultOf(w)
    <3>1. SimOf(held[w]) \in simulated /\ UNCHANGED <<currentSim, simulated>>
      BY <2>4 DEF PutResultOf, dseVars
    <3>2. currentSim[w] = Null
      BY <1>2, <3>1 DEF RunningRight
    <3>3. \A v \in Workers : v # w => held'[v] = held[v]
      BY <1>2, <2>4 DEF PutResultOf, PutResult
    <3> QED
      BY <1>1, <3>1, <3>2, <3>3, FrameRunning
  <2> QED
    BY <1>0, <2>1, <2>2, <2>3, <2>4 DEF WorkerThread, ExecuteTaskSet
<1>5. CASE ~ \E w \in Workers : WorkerThread(w)
  <2> DEFINE looked == <<currentSim, simulated, held>>
  <2>1. UNCHANGED looked
    <3>1. CASE GeneratorThread
      BY <3>1 DEF GeneratorThread, RegisterTaskset, GenerationThread, TsevalGeneratorThread,
                  ReturnTaskset, Generate, PutWork, FinishGeneration, evalVars, dseVars, vars
    <3>2. CASE AggregatorThread
      BY <3>2 DEF AggregatorThread, TakeResult, GetResult, ProcessResult, ProcessSimulation,
                  ProcessBreakdowns, ProcessEval, dseVars, vars
    <3>3. CASE Wakes
      BY <3>3 DEF Wakes, WorkerWakes, AggregatorWakes, evalVars, dseVars
    <3>4. CASE FinishInitialisation
      BY <3>4 DEF FinishInitialisation, vars
    <3>5. CASE MainThread
      BY <3>5 DEF MainThread, JoinGenerator, FinishWork, JoinAggregator, ReturnFromRunMulti,
                  JoinInitialisation, evalVars, dseVars, vars
    <3>6. CASE (Returned /\ initAt = "joined" /\ UNCHANGED evalVars) \/ UNCHANGED all
      BY <3>6 DEF Returned, all, evalVars, dseVars, vars
    <3> QED
      BY <1>5, <3>1, <3>2, <3>3, <3>4, <3>5, <3>6 DEF EvaluationNext
  <2> QED
    BY <1>1, <2>1, FrameRunning
<1> QED
  BY <1>4, <1>5

-----------------------------------------------------------------------------
(* What follows for the programs                                            *)

LEMMA EvaluationInitInv ==
  ASSUME EvaluationInit
  PROVE  EvInv
<1>1. /\ input \in Inputs /\ Init /\ plan = PlanOf(input) /\ registered = 0
      /\ simulationSets = {} /\ ctsToSs = << >> /\ mkSimToCts = << >> /\ notified = {}
      /\ currentSim = [w \in Workers |-> Null] /\ processing = Null
  BY DEF EvaluationInit
<1>2. IInv
  BY <1>1, InitInv
<1>3. calls = 0 /\ plan \in Seq(Nat) /\ Len(plan) \in Nat
  BY <1>1, <1>2, Types DEF Init, IInv
<1>4. LiveSims = {}
  <2>1. \A item \in Work : item[1] \in Nat \ {0}
    BY <1>3, WorkItems DEF Work
  <2>2. Generated = {}
    BY <1>3, <2>1 DEF Generated
  <2>3. OpenWork = {} /\ calls + 1 .. registered = {}
    BY <1>1, <1>3, <2>2 DEF OpenWork
  <2> QED
    BY <2>3 DEF LiveSims
<1>5. DOMAIN mkSimToCts = {} /\ DOMAIN ctsToSs = {}
  BY <1>1
<1>6. MapsRight
  BY <1>1, <1>3, <1>4, <1>5 DEF MapsRight
<1>7. \A w \in Workers : currentSim[w] = Null
  BY <1>1
<1>8. RunningRight /\ ProcessingRight
  BY <1>1, <1>7 DEF RunningRight, ProcessingRight
<1> QED
  BY <1>1, <1>2, <1>6, <1>8 DEF EvInv

LEMMA EvaluationNextInv ==
  ASSUME EvInv, [EvaluationNext]_all
  PROVE  EvInv'
<1>1. /\ input' = input /\ plan' = plan /\ Work' = Work
      /\ \A program : Is(program)' <=> Is(program)
  BY InputKept DEF Work, Is
<1>2. /\ input \in Inputs /\ plan = PlanOf(input)
      /\ currentSim \in [Workers -> Work \cup {Null}]
  BY DEF EvInv
<1>3. input' \in Inputs /\ plan' = PlanOf(input)'
  BY <1>1, <1>2 DEF PlanOf
<1>4. ~ Is("tseval") => IInv'
  BY PoolStep, NextInv DEF EvInv
<1>5. CASE Is("mkdse")
  <2>1. MapsRight' /\ ProcessingRight' /\ RunningRight'
        /\ currentSim' \in [Workers -> Work' \cup {Null}]
    BY <1>5, NextMaps, NextRunning
  <2> QED
    BY <1>1, <1>3, <1>4, <1>5, <2>1 DEF EvInv
<1>6. CASE ~ Is("mkdse")
  <2>0. currentSim = [w \in Workers |-> Null]
    BY <1>6 DEF EvInv
  <2>1. currentSim' = currentSim
    <3>1. CASE GeneratorThread
      BY <1>6, <3>1 DEF GeneratorThread, RegisterTaskset, GenerationThread,
                        TsevalGeneratorThread, ReturnTaskset, evalVars, dseVars
    <3>2. CASE \E w \in Workers : WorkerThread(w)
      BY <1>6, <3>2 DEF WorkerThread, StartSimulation, FinishSimulation, PutResultOf,
                        ExecuteTaskSet, evalVars, dseVars
    <3>3. CASE AggregatorThread
      BY <3>3 DEF AggregatorThread, TakeResult, ProcessResult, ProcessSimulation,
                  ProcessBreakdowns, ProcessEval, dseVars
    <3>4. CASE Wakes \/ FinishInitialisation \/ MainThread
      BY <3>4 DEF Wakes, FinishInitialisation, MainThread, ReturnFromRunMulti,
                  JoinInitialisation, evalVars, dseVars
    <3>5. CASE (Returned /\ initAt = "joined" /\ UNCHANGED evalVars) \/ UNCHANGED all
      BY <3>5 DEF all, evalVars, dseVars
    <3> QED
      BY <3>1, <3>2, <3>3, <3>4, <3>5 DEF EvaluationNext
  <2>2. currentSim' = [w \in Workers |-> Null]
    BY <2>0, <2>1
  <2>3. currentSim' \in [Workers -> Work' \cup {Null}]
    BY <2>2
  <2> QED
    BY <1>1, <1>3, <1>4, <1>6, <2>2, <2>3 DEF EvInv
<1> QED
  BY <1>5, <1>6

\* The inductive invariant holds for every number of workers and whatever is simulated.
THEOREM EvaluationInv == EvaluationSpec => []EvInv
<1>1. EvaluationInit => EvInv
  BY EvaluationInitInv
<1>2. EvInv /\ [EvaluationNext]_all => EvInv'
  BY EvaluationNextInv
<1> QED
  BY <1>1, <1>2, PTL DEF EvaluationSpec

\* What a worker simulates is open, and the maps have what is open.
LEMMA RunningIsMapped ==
  ASSUME EvInv
  PROVE  SignalsFindSets
<1>1. SUFFICES ASSUME NEW w \in Workers, currentSim[w] # Null
      PROVE  LET sim == SimOf(currentSim[w])
             IN  /\ sim \in DOMAIN mkSimToCts
                 /\ mkSimToCts[sim] \in DOMAIN ctsToSs
                 /\ ctsToSs[mkSimToCts[sim]] \in simulationSets
  BY DEF SignalsFindSets
<1>2. Is("mkdse")
  BY <1>1 DEF EvInv
<1>3. PICK x : x = currentSim[w]
  OBVIOUS
<1>4. x = held[w] /\ x # Null
  BY <1>1, <1>2, <1>3, DseFacts DEF RunningRight
<1>5. x \in InHand
  BY <1>4 DEF InHand
<1>6. x \in Generated /\ x \notin Range(Results)
  BY <1>2, <1>5, DseFacts DEF IInv, Conserved, Started
<1>7. Range(aggregated) \subseteq Range(Results)
  BY <1>2, DseFacts, ConcatInjective DEF Results
<1>8. x \in OpenWork
  BY <1>6, <1>7 DEF OpenWork
<1>9. PICK sim : sim = SimOf(x)
  OBVIOUS
<1>10. MapsRight /\ sim \in LiveSims
  BY <1>2, <1>8, <1>9, DseFacts DEF LiveSims
<1>11. Mapped(sim)
  BY <1>10 DEF MapsRight
<1>12. mkSimToCts[sim] = CtsOf(sim) /\ ctsToSs[CtsOf(sim)] = sim[1]
  <2>1. CtsOf(sim)[1] = sim[1]
    BY DEF CtsOf
  <2> QED
    BY <1>10, <1>11, <2>1 DEF MapsRight, Mapped
<1> QED
  BY <1>3, <1>9, <1>11, <1>12 DEF Mapped

\* Whenever mgtLock is free, the signal handler of mkdse finds the concrete taskset
\* and the set of each simulation that is being run, and the set is not deleted.
THEOREM EvaluationSignalsFindSets == EvaluationSpec => []SignalsFindSets
<1> QED
  BY RunningIsMapped, EvaluationInv, PTL

\* In mkdse, mkbdexcsearch and mkeval the callbacks do not disturb the pool: every
\* step is one of the pool, or leaves it alone, so it keeps its promises.
THEOREM EvaluationPool ==
  EvaluationSpec => [](~ Is("tseval") => WorkConserved /\ NoLostWakeup /\ BoundedOvertaking)
<1>1. EvInv => (~ Is("tseval") => WorkConserved /\ NoLostWakeup /\ BoundedOvertaking)
  BY ConservedInPlaces DEF EvInv, IInv
<1> QED
  BY <1>1, EvaluationInv, PTL
-----------------------------------------------------------------------------
(* The sets of mkdse and what is written of them                            *)

\* What the maps, the sets and the bitmaps hold when L is what is still to be processed
OpenCtss(L) == {CtsOf(s) : s \in L}
OpenSets(L) == {s[1] : s \in L}
BitsOf(L) ==
  UNION {(SimsOfSet(n) \ L) \cup (CtssOf(n) \ OpenCtss(L)) : n \in OpenSets(L)}

MapsExact ==
  /\ mkSimToCts = [sim \in LiveSims |-> CtsOf(sim)]
  /\ ctsToSs = [cts \in OpenCtss(LiveSims) |-> cts[1]]
  /\ simulationSets = OpenSets(LiveSims)
  /\ notified = BitsOf(LiveSims)

\* When nUtils is read, it covers all sets.
UtilisationsKnown ==
  /\ uMax \in Nat /\ nUtils \in Nat
  /\ \A n \in 1 .. registered : Len(input.sets[n]) <= uMax
  /\ announced => registered = Len(plan)
  /\ initAt # "waiting" => \A n \in Seeds : Len(input.sets[n]) <= nUtils

\* What the simulations of a set find
RightRow(n) == [e \in Evals |-> [u \in DOMAIN input.sets[n] |-> Passes(Base(<<n, u, e>>))]]

Records == [seed : Seeds, nUtils : Nat, row : {RightRow(n) : n \in Seeds}]

WrittenSeeds == {written[i].seed : i \in DOMAIN written}

WrittenRight ==
  /\ written \in Seq(Records)
  /\ \A i \in DOMAIN written :
       /\ written[i].row = RightRow(written[i].seed)
       /\ Len(input.sets[written[i].seed]) <= written[i].nUtils
  /\ \A i, j \in DOMAIN written : written[i].seed = written[j].seed => i = j
  /\ WrittenSeeds = 1 .. registered \ simulationSets

ResultsSimulated == \A x \in Range(Results) : SimOf(x) \in simulated

DseInv ==
  /\ calls > Len(plan) => registered = Len(plan)
  /\ aggregatorAt = "done" => processing = Null
  /\ ResultsSimulated
  /\ MapsExact
  /\ UtilisationsKnown
  /\ WrittenRight

LogInv == EvInv /\ (Is("mkdse") => DseInv)

-----------------------------------------------------------------------------
(* ... every simulation is the work of one item, ...                        *)

LEMMA SimOfOnto ==
  ASSUME input \in Inputs, Is("mkdse"), plan = PlanOf(input), plan \in Seq(Nat),
         NEW n \in Seeds, NEW sim \in SimsOfSet(n)
  PROVE  \E x \in Work : SimOf(x) = sim /\ x[1] = n
<1>1. PICK u, e : /\ u \in DOMAIN input.sets[n] /\ e \in Evals
                  /\ sim = <<n, u, e>>
  <2>1. PICK cts \in CtssOf(n) : sim \in SimsOf(cts)
    BY DEF SimsOfSet
  <2> QED
    BY <2>1 DEF CtssOf, SimsOf
<1>2. \A m \in Seeds : plan[m] = Len(input.sets[m]) * NEvals /\ m \in DOMAIN plan
  BY DEF PlanOf, Is, Seeds, NEvals
<1>3. /\ NEvals \in Nat \ {0} /\ Evals = 1 .. NEvals
      /\ \A m \in Seeds : Len(input.sets[m]) \in Nat \ {0}
      /\ DOMAIN input.sets[n] = 1 .. Len(input.sets[n])
      /\ Seeds = 1 .. Len(input.sets) /\ Len(input.sets) \in Nat
  BY InputFacts
<1>4. PICK d \in Nat \ {0} : d = NEvals
  BY <1>3
<1>5. PICK size \in Nat \ {0} : size = Len(input.sets[n])
  BY <1>3
<1>6. PICK q \in 0 .. size - 1, r \in 0 .. d - 1 : u = q + 1 /\ e = r + 1
  <2>1. u - 1 \in 0 .. size - 1 /\ e - 1 \in 0 .. d - 1 /\ u = (u - 1) + 1 /\ e = (e - 1) + 1
    BY <1>1, <1>3, <1>4, <1>5
  <2> QED
    BY <2>1
<1>7. PICK i \in Nat : i = q * d + r + 1
  OBVIOUS
<1>8. i \in 1 .. size * d
  <2>1. (q + 1) * d <= size * d
    BY <1>6
  <2> QED
    BY <1>6, <1>7, <2>1
<1>9. (i - 1) \div d = q /\ (i - 1) % d = r
  <2>1. i - 1 = q * d + r
    BY <1>7
  <2> QED
    BY <1>6, <2>1
<1>10. SimOf(<<n, i>>) = sim
  BY <1>1, <1>4, <1>6, <1>9 DEF SimOf
<1>11. \A l \in 1 .. n : plan[l] > 0
  <2> SUFFICES ASSUME NEW l \in 1 .. n PROVE plan[l] > 0
    OBVIOUS
  <2>1. l \in Seeds
    BY <1>3
  <2>2. PICK a \in Nat \ {0} : a = Len(input.sets[l])
    BY <1>3, <2>1
  <2>3. plan[l] = a * d
    BY <1>2, <1>4, <2>1, <2>2
  <2>4. a * d > 0
    OBVIOUS
  <2> QED
    BY <2>3, <2>4
<1>12. <<n, i>> \in Work
  <2>1. n \in {m \in DOMAIN plan : \A l \in 1 .. m : plan[l] > 0}
    BY <1>2, <1>11
  <2>2. i \in 1 .. plan[n]
    BY <1>2, <1>4, <1>5, <1>8
  <2> QED
    BY <2>1, <2>2 DEF Work, WorkOf
<1> QED
  BY <1>10, <1>12

\* A simulation set has simulations of each of its concrete tasksets.
LEMMA SetShape ==
  ASSUME input \in Inputs, NEW n \in Seeds
  PROVE  /\ SimsOfSet(n) # {} /\ CtssOf(n) # {}
         /\ \A cts \in CtssOf(n) :
              /\ \A s \in SimsOf(cts) : CtsOf(s) = cts /\ s \in SimsOfSet(n)
              /\ SimsOf(cts) # {}
<1>1. 1 \in Evals /\ 1 \in DOMAIN input.sets[n]
  BY InputFacts
<1>2. ASSUME NEW cts \in CtssOf(n)
      PROVE  /\ \A s \in SimsOf(cts) : CtsOf(s) = cts /\ s \in SimsOfSet(n)
             /\ SimsOf(cts) # {}
  <2>1. PICK u : cts = <<n, u>>
    BY DEF CtssOf
  <2>2. \A s \in SimsOf(cts) : \E e \in Evals : s = <<n, u, e>>
    BY <2>1 DEF SimsOf
  <2>3. \A s \in SimsOf(cts) : CtsOf(s) = cts
    BY <2>1, <2>2 DEF CtsOf
  <2> QED
    BY <1>1, <2>3 DEF SimsOf, SimsOfSet
<1>3. CtssOf(n) # {}
  <2>1. <<n, 1>> \in CtssOf(n)
    BY <1>1 DEF CtssOf
  <2> QED
    BY <2>1
<1>4. SimsOfSet(n) # {}
  <2>1. PICK cts \in CtssOf(n) : TRUE
    BY <1>3
  <2>2. PICK s \in SimsOf(cts) : TRUE
    BY <1>2
  <2> QED
    BY <1>2, <2>2
<1> QED
  BY <1>2, <1>3, <1>4

-----------------------------------------------------------------------------
(* What is still to be processed                                            *)

LEMMA LiveMembers ==
  ASSUME EvInv, Is("mkdse"), calls > Len(plan) => registered = Len(plan),
         NEW s \in LiveSims
  PROVE  /\ s[1] \in Seeds /\ s[1] \in 1 .. registered
         /\ s \in SimsOfSet(s[1]) /\ CtsOf(s) \in CtssOf(s[1]) /\ s \in SimsOf(CtsOf(s))
<1>1. /\ input \in Inputs /\ plan = PlanOf(input) /\ plan \in Seq(Nat)
      /\ Seeds = 1 .. Len(plan) /\ Len(plan) \in Nat /\ calls \in Nat
      /\ OpenWork \subseteq Generated /\ Generated \subseteq Work /\ MapsRight
  BY DseFacts
<1>2. /\ registered \in Nat /\ registered <= Len(plan)
      /\ calls <= Len(plan) => registered >= calls
  BY <1>1 DEF MapsRight
<1>3. CASE \E x \in OpenWork : s = SimOf(x)
  <2>1. PICK x \in OpenWork : s = SimOf(x)
    BY <1>3
  <2>2. x \in Work /\ x[1] <= calls
    BY <1>1 DEF Generated
  <2>3. /\ x[1] \in Seeds /\ s[1] = x[1] /\ CtsOf(s) \in CtssOf(x[1])
        /\ s \in SimsOf(CtsOf(s)) /\ s \in SimsOfSet(x[1])
    BY <1>1, <2>1, <2>2, SimOfItem
  <2>4. x[1] \in 1 .. registered
    BY <1>1, <1>2, <2>2, <2>3
  <2> QED
    BY <2>3, <2>4
<1>4. CASE \E m \in calls + 1 .. registered : s \in SimsOfSet(m)
  <2>1. PICK m \in calls + 1 .. registered : s \in SimsOfSet(m)
    BY <1>4
  <2>2. s[1] = m /\ CtsOf(s) \in CtssOf(m) /\ s \in SimsOf(CtsOf(s))
    BY <2>1, SetMembers
  <2>3. m \in 1 .. Len(plan) /\ m \in 1 .. registered
    BY <1>1, <1>2
  <2> QED
    BY <1>1, <2>1, <2>2, <2>3
<1> QED
  BY <1>3, <1>4 DEF LiveSims

\* The functions of the input are what they were.
LEMMA InputFunctions ==
  ASSUME input' = input
  PROVE  /\ \A x : SimOf(x)' = SimOf(x)
         /\ \A m : SimsOfSet(m)' = SimsOfSet(m)
         /\ \A m : CtssOf(m)' = CtssOf(m)
         /\ \A c : SimsOf(c)' = SimsOf(c)
         /\ \A c : CtsOf(c)' = CtsOf(c)
         /\ \A m : RightRow(m)' = RightRow(m)
         /\ Seeds' = Seeds /\ Evals' = Evals
<1>1. Evals' = Evals /\ NEvals' = NEvals /\ Seeds' = Seeds
  BY DEF Evals, NEvals, Seeds
<1>2. /\ \A x : SimOf(x)' = SimOf(x)
      /\ \A m : CtssOf(m)' = CtssOf(m)
      /\ \A c : SimsOf(c)' = SimsOf(c)
      /\ \A c : CtsOf(c)' = CtsOf(c)
  BY <1>1 DEF SimOf, CtssOf, SimsOf, CtsOf
<1>3. \A m : SimsOfSet(m)' = SimsOfSet(m)
  BY <1>1 DEF SimsOfSet, SimsOf, CtssOf
<1>4. theAllocators' = theAllocators
  BY DEF theAllocators
<1>5. \A m : RightRow(m)' = RightRow(m)
  BY <1>1, <1>4 DEF RightRow, Passes, Base
<1> QED
  BY <1>1, <1>2, <1>3, <1>5

LEMMA FrameLive ==
  ASSUME UNCHANGED <<input, plan, calls, registered, aggregated, processing>>
  PROVE  LiveSims' = LiveSims
<1>1. OpenWork' = OpenWork
  BY DEF OpenWork, Generated, Work
<1> QED
  BY <1>1, InputFunctions DEF LiveSims

LEMMA RegisterLive ==
  ASSUME EvInv, RegisterTaskset
  PROVE  /\ registered + 1 \in Seeds /\ registered' = registered + 1
         /\ registered = calls /\ registered \in Nat /\ calls < Len(plan)
         /\ UNCHANGED <<input, plan, calls, aggregated, resultPool, processing, notified>>
         /\ LiveSims' = LiveSims \cup SimsOfSet(registered + 1)
<1>1. Is("mkdse") /\ UNCHANGED vars
  BY DEF RegisterTaskset
<1>2. /\ Seeds = 1 .. Len(plan) /\ Len(input.sets) = Len(plan) /\ Len(plan) \in Nat
      /\ calls \in Nat
  BY <1>1, DseFacts
<1>3. /\ registered = calls /\ calls < Len(plan) /\ registered' = registered + 1
      /\ UNCHANGED <<input, plan, calls, aggregated, resultPool, processing, notified>>
  BY <1>1, <1>2 DEF RegisterTaskset, vars, generatorVars
<1>4. registered + 1 \in Seeds /\ registered \in Nat
  BY <1>2, <1>3
<1>5. OpenWork' = OpenWork
  BY <1>3 DEF OpenWork, Generated, Work
<1>6. calls + 1 .. registered = {} /\ calls' + 1 .. registered' = {registered + 1}
  BY <1>2, <1>3
<1>7. LiveSims = {SimOf(x) : x \in OpenWork}
  BY <1>6 DEF LiveSims
<1>8. LiveSims' = {SimOf(x) : x \in OpenWork} \cup SimsOfSet(registered + 1)
  <2>1. LiveSims' = {SimOf(x) : x \in OpenWork} \cup UNION {SimsOfSet(n) : n \in {registered + 1}}
    BY <1>3, <1>5, <1>6, InputFunctions DEF LiveSims
  <2> QED
    BY <2>1
<1> QED
  BY <1>3, <1>4, <1>7, <1>8

\* The list that is returned has the simulations of the registered set.
LEMMA ReturnLive ==
  ASSUME EvInv, Is("mkdse"), ReturnTaskset
  PROVE  LiveSims' = LiveSims
<1>1. /\ calls' = calls + 1 /\ calls \in Nat /\ calls <= Len(plan)
      /\ calls < Len(plan) => registered = calls + 1
      /\ UNCHANGED <<input, plan, registered, aggregated, processing>>
      /\ Len(plan) \in Nat
  BY DseFacts DEF ReturnTaskset, Generate, IInv, Control
<1>2. /\ MapsRight /\ input \in Inputs /\ plan = PlanOf(input) /\ plan \in Seq(Nat)
      /\ Seeds = 1 .. Len(plan) /\ \A x \in Work : x[1] \in Seeds
      /\ Range(aggregated) \subseteq Generated
  BY DseFacts
<1>3. registered \in Nat /\ registered <= Len(plan) /\ registered >= calls
  BY <1>1, <1>2 DEF MapsRight
<1>4. Work' = Work
  BY <1>1 DEF Work
<1> DEFINE New == {x \in Work : x[1] = calls + 1}
<1>5. OpenWork' = OpenWork \cup New
  <2>1. Generated' = Generated \cup New
    BY <1>1, <1>2, <1>4 DEF Generated
  <2>2. New \cap Range(aggregated) = {}
    BY <1>1, <1>2 DEF Generated
  <2> QED
    BY <1>1, <2>1, <2>2 DEF OpenWork
<1>6. {SimOf(x) : x \in New} = UNION {SimsOfSet(n) : n \in calls + 1 .. registered}
  <2>1. CASE calls < Len(plan)
    <3>1. calls + 1 .. registered = {calls + 1} /\ calls + 1 \in Seeds
      BY <1>1, <1>2, <2>1
    <3>2. UNION {SimsOfSet(n) : n \in calls + 1 .. registered} = SimsOfSet(calls + 1)
      BY <3>1
    <3>3. \A x \in New : SimOf(x) \in SimsOfSet(calls + 1)
      BY <1>2, SimOfItem
    <3>4. \A s \in SimsOfSet(calls + 1) : \E x \in New : SimOf(x) = s
      BY <1>2, <3>1, SimOfOnto
    <3> QED
      BY <3>2, <3>3, <3>4
  <2>2. CASE calls = Len(plan)
    <3>1. calls + 1 .. registered = {}
      BY <1>1, <1>3, <2>2
    <3>2. New = {}
      BY <1>1, <1>2, <2>2
    <3> QED
      BY <3>1, <3>2
  <2>3. calls < Len(plan) \/ calls = Len(plan)
    BY <1>1
  <2> QED
    BY <2>1, <2>2, <2>3
<1>7. calls' + 1 .. registered' = {}
  BY <1>1, <1>3
<1> HIDE DEF New
<1> QED
  BY <1>1, <1>5, <1>6, <1>7, InputFunctions DEF LiveSims

\* The result that is taken out of the pool stays to be processed.
LEMMA TakeLive ==
  ASSUME EvInv, Is("mkdse"), TakeResult
  PROVE  /\ LiveSims' = LiveSims /\ Results' = Results
         /\ aggregatorAt' = "done" => processing' = Null
<1>1. /\ processing = Null /\ GetResult
      /\ processing' = IF aggregated' # aggregated THEN Last(aggregated') ELSE Null
      /\ UNCHANGED <<input, dseVars, plan, calls>>
  BY DEF TakeResult, GetResult, generatorVars
<1>2. UNCHANGED <<input, plan, calls, registered>>
  BY <1>1 DEF dseVars
<1>3. /\ aggregated \in Seq(Work) /\ resultPool \in Seq(Work) /\ Null \notin Work
      /\ Generated \subseteq Work
  BY DseFacts
<1>4. CASE resultPool = << >>
  <2>1. UNCHANGED <<aggregated, resultPool, processing>>
    BY <1>1, <1>4 DEF GetResult
  <2> QED
    BY <1>1, <1>2, <2>1, FrameLive DEF Results
<1>5. CASE resultPool # << >>
  <2>1. /\ aggregated' = Append(aggregated, Head(resultPool)) /\ resultPool' = Tail(resultPool)
        /\ aggregatorAt' = "get"
    BY <1>1, <1>5 DEF GetResult
  <2>2. PICK h \in Work : h = Head(resultPool)
    BY <1>3, <1>5, HeadTailProperties
  <2>3. h \in Range(resultPool)
    BY <1>3, <1>5, <2>2, HeadAndTail
  <2>4. h \notin Range(aggregated)
    <3>1. Range(aggregated) \cap Range(resultPool) = {}
      BY <1>3, DseFacts, ConcatInjective DEF Results, IInv, Conserved
    <3> QED
      BY <2>3, <3>1
  <2>5. Range(aggregated') = Range(aggregated) \cup {h}
    BY <1>3, <2>1, <2>2, AppendInjectiveRange
  <2>6. processing' = h
    <3>1. /\ Len(Append(aggregated, h)) = Len(aggregated) + 1
          /\ Append(aggregated, h)[Len(aggregated) + 1] = h
          /\ Len(aggregated) \in Nat
      BY <1>3, AppendProperties, LenProperties
    <3>2. aggregated' # aggregated
      BY <2>1, <2>2, <3>1
    <3> QED
      BY <1>1, <2>1, <2>2, <3>1, <3>2 DEF Last
  <2>7. OpenWork' = OpenWork
    <3>1. Generated' = Generated
      BY <1>2 DEF Generated, Work
    <3>2. Null \notin Generated
      BY <1>3
    <3>3. Range(aggregated') \ {processing'} = Range(aggregated)
      BY <2>4, <2>5, <2>6
    <3>4. Generated \ (Range(aggregated) \ {processing}) = Generated \ Range(aggregated)
      BY <1>1, <3>2
    <3> QED
      BY <3>1, <3>3, <3>4 DEF OpenWork
  <2>8. LiveSims' = LiveSims
    BY <1>2, <2>7, InputFunctions DEF LiveSims
  <2>9. Results' = Results
    BY <1>3, <1>5, <2>1, MoveItem DEF Results
  <2> QED
    BY <2>1, <2>8, <2>9
<1> QED
  BY <1>4, <1>5

\* Processing a result strikes off its simulation and no other.
LEMMA ProcessLive ==
  ASSUME EvInv, Is("mkdse"), processing # Null, processing' = Null,
         UNCHANGED <<input, plan, calls, registered, aggregated>>
  PROVE  /\ SimOf(processing) \in LiveSims
         /\ LiveSims' = LiveSims \ {SimOf(processing)}
<1>1. PICK p : p = processing
  OBVIOUS
<1>2. /\ input \in Inputs /\ plan = PlanOf(input) /\ plan \in Seq(Nat)
      /\ Generated \subseteq Work /\ Range(aggregated) \subseteq Generated
      /\ Null \notin Work /\ ProcessingRight /\ MapsRight /\ calls \in Nat
      /\ Seeds = 1 .. Len(plan) /\ Len(plan) \in Nat
  BY DseFacts
<1>3. p \in Range(aggregated) /\ p \in OpenWork /\ p \in Work /\ p \in Generated
  BY <1>1, <1>2 DEF ProcessingRight, OpenWork
<1>4. OpenWork' = OpenWork \ {p}
  <2>1. Generated' = Generated
    BY DEF Generated, Work
  <2>2. Range(aggregated) \ {Null} = Range(aggregated)
    BY <1>2
  <2> QED
    BY <1>1, <1>3, <2>1, <2>2 DEF OpenWork
<1>5. \A x \in OpenWork : SimOf(x) = SimOf(p) => x = p
  BY <1>2, <1>3, SimOfInjective DEF OpenWork
<1>6. SimOf(p) \notin UNION {SimsOfSet(n) : n \in calls + 1 .. registered}
  <2> SUFFICES ASSUME NEW n \in calls + 1 .. registered, SimOf(p) \in SimsOfSet(n) PROVE FALSE
    OBVIOUS
  <2>1. SimOf(p)[1] = n /\ SimOf(p)[1] = p[1]
    BY <1>2, <1>3, SetMembers, SimOfItem
  <2>2. p[1] <= calls /\ p[1] \in Nat
    BY <1>2, <1>3, SimOfItem DEF Generated
  <2>3. registered \in Nat
    BY <1>2 DEF MapsRight
  <2> QED
    BY <1>2, <2>1, <2>2, <2>3
<1>7. {SimOf(x) : x \in OpenWork \ {p}} = {SimOf(x) : x \in OpenWork} \ {SimOf(p)}
  BY <1>5
<1>8. LiveSims' = {SimOf(x) : x \in OpenWork \ {p}}
                    \cup UNION {SimsOfSet(n) : n \in calls + 1 .. registered}
  BY <1>4, InputFunctions DEF LiveSims
<1>9. LiveSims' = LiveSims \ {SimOf(p)}
  BY <1>6, <1>7, <1>8 DEF LiveSims
<1> QED
  BY <1>1, <1>3, <1>9 DEF LiveSims

-----------------------------------------------------------------------------
(* The maps, the sets and the bitmaps for what is still to be processed     *)

\* Simulations, concrete tasksets and sets are told apart.
LEMMA BitsMembers ==
  ASSUME NEW L, \A s \in L : s \in SimsOfSet(s[1])
  PROVE  /\ \A n \in OpenSets(L) : \A s \in SimsOfSet(n) : s \in BitsOf(L) <=> s \notin L
         /\ \A n \in OpenSets(L) : \A c \in CtssOf(n) : c \in BitsOf(L) <=> c \notin OpenCtss(L)
<1>1. \A m, n : \A s \in SimsOfSet(m) : \A c \in CtssOf(n) : s # c
  <2> SUFFICES ASSUME NEW m, NEW n, NEW s \in SimsOfSet(m), NEW c \in CtssOf(n), s = c
               PROVE  FALSE
    OBVIOUS
  <2>1. \E u, e : s = <<m, u, e>>
    <3>1. PICK d \in CtssOf(m) : s \in SimsOf(d)
      BY DEF SimsOfSet
    <3> QED
      BY <3>1 DEF CtssOf, SimsOf
  <2>2. \E u : c = <<n, u>>
    BY DEF CtssOf
  <2> QED
    BY <2>1, <2>2, SetMembers
<1>2. ASSUME NEW n \in OpenSets(L), NEW s \in SimsOfSet(n)
      PROVE  s \in BitsOf(L) <=> s \notin L
  BY <1>1 DEF BitsOf
<1>3. ASSUME NEW n \in OpenSets(L), NEW c \in CtssOf(n)
      PROVE  c \in BitsOf(L) <=> c \notin OpenCtss(L)
  BY <1>1 DEF BitsOf
<1> QED
  BY <1>2, <1>3

LEMMA BitsIff ==
  ASSUME NEW L, NEW b
  PROVE  b \in BitsOf(L) <=>
           \E m \in OpenSets(L) : \/ b \in SimsOfSet(m) \ L
                                  \/ b \in CtssOf(m) \ OpenCtss(L)
<1> DEFINE Of(m) == (SimsOfSet(m) \ L) \cup (CtssOf(m) \ OpenCtss(L))
<1>1. BitsOf(L) = UNION {Of(m) : m \in OpenSets(L)}
  BY DEF BitsOf
<1>2. b \in UNION {Of(m) : m \in OpenSets(L)} <=> \E m \in OpenSets(L) : b \in Of(m)
  <2> HIDE DEF Of
  <2> QED
    OBVIOUS
<1> QED
  BY <1>1, <1>2

\* A set whose simulations are all to be processed has no bits.
LEMMA RegisterSets ==
  ASSUME input \in Inputs, NEW L, \A s \in L : s \in SimsOfSet(s[1]),
         NEW n \in Seeds, n \notin OpenSets(L), NEW M, M = L \cup SimsOfSet(n)
  PROVE  /\ OpenSets(M) = OpenSets(L) \cup {n}
         /\ OpenCtss(M) = OpenCtss(L) \cup CtssOf(n)
         /\ BitsOf(M) = BitsOf(L)
<1>1. /\ SimsOfSet(n) # {}
      /\ \A cts \in CtssOf(n) : \E s \in SimsOfSet(n) : CtsOf(s) = cts
      /\ \A s \in SimsOfSet(n) : s[1] = n /\ CtsOf(s) \in CtssOf(n)
  BY SetShape, SetMembers
<1>2. OpenSets(M) = OpenSets(L) \cup {n}
  BY <1>1 DEF OpenSets
<1>3. OpenCtss(M) = OpenCtss(L) \cup CtssOf(n)
  BY <1>1 DEF OpenCtss
<1>4. \A m \in OpenSets(L) : SimsOfSet(m) \ M = SimsOfSet(m) \ L
  <2> SUFFICES ASSUME NEW m \in OpenSets(L), NEW s \in SimsOfSet(m), s \in SimsOfSet(n)
               PROVE  FALSE
    OBVIOUS
  <2>1. s[1] = m /\ s[1] = n
    BY SetMembers
  <2> QED
    BY <2>1
<1>5. \A m \in OpenSets(L) : CtssOf(m) \ OpenCtss(M) = CtssOf(m) \ OpenCtss(L)
  <2> SUFFICES ASSUME NEW m \in OpenSets(L), NEW c \in CtssOf(m), c \in CtssOf(n)
               PROVE  FALSE
    BY <1>3
  <2>1. c[1] = m /\ c[1] = n
    BY SetMembers
  <2> QED
    BY <2>1
<1>6. SimsOfSet(n) \ M = {} /\ CtssOf(n) \ OpenCtss(M) = {}
  BY <1>3
<1>7. BitsOf(M) = BitsOf(L)
  <2>1. ASSUME NEW b \in BitsOf(M) PROVE b \in BitsOf(L)
    <3>1. PICK m \in OpenSets(M) : b \in SimsOfSet(m) \ M \/ b \in CtssOf(m) \ OpenCtss(M)
      BY BitsIff
    <3>2. m \in OpenSets(L)
      BY <1>2, <1>6, <3>1
    <3> QED
      BY <1>4, <1>5, <3>1, <3>2, BitsIff
  <2>2. ASSUME NEW b \in BitsOf(L) PROVE b \in BitsOf(M)
    <3>1. PICK m \in OpenSets(L) : b \in SimsOfSet(m) \ L \/ b \in CtssOf(m) \ OpenCtss(L)
      BY BitsIff
    <3> QED
      BY <1>2, <1>4, <1>5, <3>1, BitsIff
  <2> QED
    BY <2>1, <2>2
<1> QED
  BY <1>2, <1>3, <1>7

\* What ProcessSimulation finds when L is to be processed, ...
Struck(L, sim, cts, n, ctsBits, over, M) ==
  /\ \A s \in L : /\ s[1] \in Seeds /\ s \in SimsOfSet(s[1])
                  /\ CtsOf(s) \in CtssOf(s[1]) /\ s \in SimsOf(CtsOf(s))
  /\ sim \in L /\ cts = CtsOf(sim) /\ n = sim[1]
  /\ LET bits == BitsOf(L) \cup {sim}
     IN  /\ ctsBits = IF CtsFinished(cts, bits) THEN bits \cup {cts} ELSE bits
         /\ over <=> CtsFinished(cts, bits) /\ SetFinished(n, ctsBits)
  /\ M = L \ {sim} /\ over \in BOOLEAN

\* ... and what it leaves.
LEMMA ProcessSets ==
  ASSUME input \in Inputs, NEW L, NEW sim, NEW cts, NEW n, NEW ctsBits, NEW over, NEW M,
         Struck(L, sim, cts, n, ctsBits, over, M)
  PROVE  /\ over <=> n \notin OpenSets(M)
         /\ OpenSets(M) = OpenSets(L) \ (IF over THEN {n} ELSE {})
         /\ OpenCtss(M) = OpenCtss(L) \ (IF over THEN CtssOf(n) ELSE ctsBits \cap {cts})
         /\ M = L \ (IF over THEN SimsOfSet(n) ELSE {sim})
         /\ BitsOf(M) = IF over THEN ctsBits \ (CtssOf(n) \cup SimsOfSet(n)) ELSE ctsBits
<1> PICK bits : bits = BitsOf(L) \cup {sim}
  OBVIOUS
<1>0. /\ \A s \in L : /\ s[1] \in Seeds /\ s \in SimsOfSet(s[1])
                      /\ CtsOf(s) \in CtssOf(s[1]) /\ s \in SimsOf(CtsOf(s))
      /\ sim \in L /\ cts = CtsOf(sim) /\ n = sim[1]
      /\ ctsBits = IF CtsFinished(cts, bits) THEN bits \cup {cts} ELSE bits
      /\ over <=> CtsFinished(cts, bits) /\ SetFinished(n, ctsBits)
      /\ M = L \ {sim} /\ over \in BOOLEAN
  BY DEF Struck
<1> USE <1>0
<1>1. /\ n \in Seeds /\ n \in OpenSets(L) /\ cts \in CtssOf(n) /\ sim \in SimsOfSet(n)
      /\ sim \in SimsOf(cts) /\ cts \in OpenCtss(L)
  BY DEF OpenSets, OpenCtss
<1>2. /\ \A m \in OpenSets(L) : \A s \in SimsOfSet(m) : s \in BitsOf(L) <=> s \notin L
      /\ \A m \in OpenSets(L) : \A c \in CtssOf(m) : c \in BitsOf(L) <=> c \notin OpenCtss(L)
  BY BitsMembers
<1>3. /\ \A m : \A c \in CtssOf(m) : c[1] = m /\ c # sim
      /\ \A m : \A s \in SimsOfSet(m) : s[1] = m /\ CtsOf(s) \in CtssOf(m)
      /\ \A s \in SimsOf(cts) : CtsOf(s) = cts /\ s \in SimsOfSet(n)
  <2>1. \A m : \A c \in CtssOf(m) : c # sim
    <3>1. PICK u, e : sim = <<n, u, e>>
      <4>1. PICK d \in CtssOf(n) : sim \in SimsOf(d)
        BY <1>1 DEF SimsOfSet
      <4> QED
        BY <4>1 DEF CtssOf, SimsOf
    <3>2. \A m : \A c \in CtssOf(m) : \E v : c = <<m, v>>
      BY DEF CtssOf
    <3> QED
      BY <3>1, <3>2, SetMembers
  <2> QED
    BY <1>1, <2>1, SetMembers, SetShape
\* The simulations
<1>4. \A s \in SimsOfSet(n) : s \in bits <=> s \notin M
  BY <1>1, <1>2
<1>5. \A c \in CtssOf(n) : c \in bits <=> c \notin OpenCtss(L)
  BY <1>1, <1>2, <1>3
\* The concrete taskset is finished when none of its simulations is left.
<1>6. CtsFinished(cts, bits) <=> cts \notin OpenCtss(M)
  <2>1. CtsFinished(cts, bits) <=> \A s \in SimsOf(cts) : s \notin M
    BY <1>3, <1>4 DEF CtsFinished
  <2>2. \A s \in M : s \in SimsOf(cts) <=> CtsOf(s) = cts
    BY <1>3
  <2> QED
    BY <2>1, <2>2 DEF OpenCtss
<1>7. \A c : c # cts => (c \in OpenCtss(M) <=> c \in OpenCtss(L))
  BY DEF OpenCtss
<1>8. OpenCtss(M) \subseteq OpenCtss(L) /\ OpenSets(M) \subseteq OpenSets(L)
  BY DEF OpenCtss, OpenSets
<1>9. \A c \in CtssOf(n) : c \in ctsBits <=> c \notin OpenCtss(M)
  <2> SUFFICES ASSUME NEW c \in CtssOf(n) PROVE c \in ctsBits <=> c \notin OpenCtss(M)
    OBVIOUS
  <2>1. CASE c = cts
    BY <1>1, <1>5, <1>6, <2>1
  <2>2. CASE c # cts
    BY <1>5, <1>7, <2>2
  <2> QED
    BY <2>1, <2>2
\* The set is finished when none of its concrete tasksets is left.
<1>10. SetFinished(n, ctsBits) <=> \A c \in CtssOf(n) : c \notin OpenCtss(M)
  <2>1. SetFinished(n, ctsBits) <=> CtssOf(n) \subseteq ctsBits
    BY <1>1, SetFinishedIsAll
  <2> QED
    BY <1>9, <2>1
<1>11. (\A c \in CtssOf(n) : c \notin OpenCtss(M)) <=> n \notin OpenSets(M)
  <2>1. ASSUME NEW s \in M, s[1] = n PROVE CtsOf(s) \in CtssOf(n) /\ CtsOf(s) \in OpenCtss(M)
    BY <2>1 DEF OpenCtss
  <2>2. ASSUME NEW c \in CtssOf(n), c \in OpenCtss(M) PROVE n \in OpenSets(M)
    <3>1. PICK s \in M : c = CtsOf(s)
      BY <2>2 DEF OpenCtss
    <3>2. s[1] = n
      BY <1>3, <3>1 DEF CtsOf
    <3> QED
      BY <3>1, <3>2 DEF OpenSets
  <2> QED
    BY <2>1, <2>2 DEF OpenSets
<1>12. over <=> n \notin OpenSets(M)
  BY <1>1, <1>6, <1>10, <1>11
<1>13. OpenSets(M) = OpenSets(L) \ (IF over THEN {n} ELSE {})
  <2>1. \A m : m # n => (m \in OpenSets(M) <=> m \in OpenSets(L))
    BY DEF OpenSets
  <2> QED
    BY <1>1, <1>8, <1>12, <2>1
<1>14. M = L \ (IF over THEN SimsOfSet(n) ELSE {sim})
  <2>1. over => \A s \in L : s \in SimsOfSet(n) => s = sim
    <3> SUFFICES ASSUME over, NEW s \in L, s \in SimsOfSet(n), s # sim PROVE FALSE
      OBVIOUS
    <3>1. s[1] = n /\ s \in M
      BY <1>3
    <3> QED
      BY <1>12, <3>1 DEF OpenSets
  <2> QED
    BY <1>1, <2>1
<1>15. OpenCtss(M) = OpenCtss(L) \ (IF over THEN CtssOf(n) ELSE ctsBits \cap {cts})
  <2>1. CASE over
    <3>1. \A c \in CtssOf(n) : c \notin OpenCtss(M)
      BY <1>11, <1>12, <2>1
    <3> QED
      BY <1>1, <1>7, <1>8, <2>1, <3>1
  <2>2. CASE ~ over
    <3>1. cts \in ctsBits <=> cts \notin OpenCtss(M)
      BY <1>1, <1>9
    <3> QED
      BY <1>7, <1>8, <2>2, <3>1
  <2> QED
    BY <2>1, <2>2
\* The bits of a set that is not finished
<1>16. \A m \in OpenSets(L) : \A b \in SimsOfSet(m) :
         b \notin M <=> b \in ctsBits
  <2> SUFFICES ASSUME NEW m \in OpenSets(L), NEW b \in SimsOfSet(m)
               PROVE  b \notin M <=> b \in ctsBits
    OBVIOUS
  <2>1. b # cts
    <3>1. b[1] = m
      BY <1>3
    <3>2. \E u, e : b = <<m, u, e>>
      <4>1. PICK d \in CtssOf(m) : b \in SimsOf(d)
        BY DEF SimsOfSet
      <4> QED
        BY <4>1 DEF CtssOf, SimsOf
    <3>3. \E u : cts = <<n, u>>
      BY <1>1 DEF CtssOf
    <3> QED
      BY <3>2, <3>3, SetMembers
  <2> QED
    BY <1>2, <2>1
<1>17. \A m \in OpenSets(L) : \A b \in CtssOf(m) :
         b \notin OpenCtss(M) <=> b \in ctsBits
  <2> SUFFICES ASSUME NEW m \in OpenSets(L), NEW b \in CtssOf(m)
               PROVE  b \notin OpenCtss(M) <=> b \in ctsBits
    OBVIOUS
  <2>1. CASE b = cts
    BY <1>1, <1>9, <2>1
  <2>2. CASE b # cts
    BY <1>2, <1>3, <1>7, <2>2
  <2> QED
    BY <2>1, <2>2
<1>18. \A b \in ctsBits : \E m \in OpenSets(L) : b \in SimsOfSet(m) \/ b \in CtssOf(m)
  <2>1. \A b \in BitsOf(L) : \E m \in OpenSets(L) : b \in SimsOfSet(m) \/ b \in CtssOf(m)
    BY DEF BitsOf
  <2> QED
    BY <1>1, <2>1
<1>19. \A m, k : \A b : (b \in SimsOfSet(m) \/ b \in CtssOf(m))
                          /\ (b \in SimsOfSet(k) \/ b \in CtssOf(k)) => m = k
  BY <1>3
<1>20. \A b : b \in BitsOf(M) <=>
         \E m \in OpenSets(M) : b \in ctsBits /\ (b \in SimsOfSet(m) \/ b \in CtssOf(m))
  <2>1. \A b : b \in BitsOf(M) <=>
          \E m \in OpenSets(M) : \/ b \in SimsOfSet(m) /\ b \notin M
                                 \/ b \in CtssOf(m) /\ b \notin OpenCtss(M)
    BY BitsIff
  <2> QED
    BY <1>8, <1>16, <1>17, <2>1
<1>21. BitsOf(M) = IF over THEN ctsBits \ (CtssOf(n) \cup SimsOfSet(n)) ELSE ctsBits
  <2>1. CASE over
    <3>1. OpenSets(M) = OpenSets(L) \ {n}
      BY <1>13, <2>1
    <3>2. \A b : b \in BitsOf(M) <=> b \in ctsBits /\ b \notin CtssOf(n) /\ b \notin SimsOfSet(n)
      BY <1>18, <1>19, <1>20, <3>1
    <3> QED
      BY <2>1, <3>2
  <2>2. CASE ~ over
    <3>1. OpenSets(M) = OpenSets(L)
      BY <1>13, <2>2
    <3>2. \A b : b \in BitsOf(M) <=> b \in ctsBits
      BY <1>18, <1>20, <3>1
    <3> QED
      BY <2>2, <3>2
  <2> QED
    BY <2>1, <2>2
<1> QED
  BY <1>12, <1>13, <1>14, <1>15, <1>21

LEMMA FrameExact ==
  ASSUME input' = input, NEW L, L = LiveSims',
         mkSimToCts' = [sim \in L |-> CtsOf(sim)],
         ctsToSs' = [cts \in OpenCtss(L) |-> cts[1]],
         simulationSets' = OpenSets(L), notified' = BitsOf(L)
  PROVE  MapsExact'
<1>1. OpenCtss(L) = OpenCtss(LiveSims)' /\ OpenSets(L) = OpenSets(LiveSims)'
  BY DEF OpenCtss, OpenSets, CtsOf
<1>2. BitsOf(L) = BitsOf(LiveSims)'
  BY <1>1, InputFunctions DEF BitsOf
<1>3. mkSimToCts' = [sim \in LiveSims' |-> CtsOf(sim)']
  BY DEF CtsOf
<1> QED
  BY <1>1, <1>2, <1>3 DEF MapsExact

LEMMA RegisterExact ==
  ASSUME EvInv, RegisterTaskset, MapsExact
  PROVE  MapsExact'
<1>0. Is("mkdse")
  BY DEF RegisterTaskset
<1>1. PICK n, L, M : n = registered + 1 /\ L = LiveSims /\ M = L \cup SimsOfSet(n)
  OBVIOUS
<1>2. /\ n \in Seeds /\ registered = calls /\ registered \in Nat /\ calls < Len(plan)
      /\ UNCHANGED <<input, notified>> /\ M = LiveSims'
      /\ input \in Inputs /\ Len(plan) \in Nat
  BY <1>0, <1>1, RegisterLive, DseFacts
<1>3. \A s \in L : s \in SimsOfSet(s[1]) /\ s[1] \in 1 .. registered
  BY <1>0, <1>1, <1>2, LiveMembers
<1>4. n \notin OpenSets(L)
  BY <1>1, <1>2, <1>3 DEF OpenSets
<1>5. /\ OpenSets(M) = OpenSets(L) \cup {n}
      /\ OpenCtss(M) = OpenCtss(L) \cup CtssOf(n)
      /\ BitsOf(M) = BitsOf(L)
  BY <1>1, <1>2, <1>3, <1>4, RegisterSets
<1>6. /\ simulationSets' = simulationSets \cup {n}
      /\ ctsToSs' = [cts \in CtssOf(n) \cup DOMAIN ctsToSs |->
                       IF cts \in CtssOf(n) THEN n ELSE ctsToSs[cts]]
      /\ mkSimToCts' = [sim \in SimsOfSet(n) \cup DOMAIN mkSimToCts |->
                          IF sim \in SimsOfSet(n) THEN CtsOf(sim) ELSE mkSimToCts[sim]]
  BY <1>1 DEF RegisterTaskset, CtsOf
<1>7. /\ mkSimToCts = [sim \in L |-> CtsOf(sim)] /\ ctsToSs = [cts \in OpenCtss(L) |-> cts[1]]
      /\ simulationSets = OpenSets(L) /\ notified = BitsOf(L)
  BY <1>1 DEF MapsExact
<1>8. mkSimToCts' = [sim \in M |-> CtsOf(sim)]
  <2>1. PICK S : S = SimsOfSet(n)
    OBVIOUS
  <2>2. mkSimToCts' = [sim \in S \cup L |-> IF sim \in S THEN CtsOf(sim) ELSE CtsOf(sim)]
    BY <1>6, <1>7, <2>1
  <2> QED
    BY <1>1, <2>1, <2>2
<1>9. ctsToSs' = [cts \in OpenCtss(M) |-> cts[1]]
  <2>1. PICK S, T : S = CtssOf(n) /\ T = OpenCtss(L)
    OBVIOUS
  <2>2. ctsToSs' = [cts \in S \cup T |-> IF cts \in S THEN n ELSE cts[1]]
    BY <1>6, <1>7, <2>1
  <2>3. \A cts \in S : cts[1] = n
    BY <2>1, SetMembers
  <2>4. [cts \in S \cup T |-> IF cts \in S THEN n ELSE cts[1]] = [cts \in S \cup T |-> cts[1]]
    BY <2>3
  <2>5. OpenCtss(M) = S \cup T
    BY <1>5, <2>1
  <2> QED
    BY <2>2, <2>4, <2>5
<1> QED
  BY <1>2, <1>5, <1>6, <1>7, <1>8, <1>9, FrameExact

\* The set of the result in hand is over when nothing of it is left; it is the one that
\* is written and deleted then.
LEMMA ProcessExact ==
  ASSUME EvInv, ProcessSimulation, MapsExact, calls > Len(plan) => registered = Len(plan)
  PROVE  /\ MapsExact' /\ LiveSims' \subseteq LiveSims
         /\ UNCHANGED <<input, plan, calls, registered, aggregated, resultPool, simulated>>
         /\ \E n \in Seeds :
              /\ n \in simulationSets /\ n \in 1 .. registered
              /\ \/ /\ n \notin OpenSets(LiveSims') /\ simulationSets' = simulationSets \ {n}
                    /\ written' = Append(written, FoundOf(n))
                 \/ UNCHANGED <<simulationSets, written>>
<1>0. Is("mkdse") /\ processing # Null
  BY DEF ProcessSimulation
<1>1. PICK sim, L, M : sim = SimOf(processing) /\ L = LiveSims /\ M = L \ {sim}
  OBVIOUS
<1>2. /\ processing' = Null /\ UNCHANGED <<vars, input, registered, simulated>>
      /\ UNCHANGED <<plan, calls, aggregated, resultPool>>
  BY DEF ProcessSimulation, vars, generatorVars
<1>3. sim \in L /\ M = LiveSims'
  BY <1>0, <1>1, <1>2, ProcessLive
<1>4. \A s \in L : /\ s[1] \in Seeds /\ s[1] \in 1 .. registered /\ s \in SimsOfSet(s[1])
                   /\ CtsOf(s) \in CtssOf(s[1]) /\ s \in SimsOf(CtsOf(s))
  BY <1>0, <1>1, LiveMembers
<1>5. /\ mkSimToCts = [s \in L |-> CtsOf(s)] /\ ctsToSs = [c \in OpenCtss(L) |-> c[1]]
      /\ simulationSets = OpenSets(L) /\ notified = BitsOf(L)
  BY <1>1 DEF MapsExact
<1>6. PICK cts, n : cts = CtsOf(sim) /\ n = sim[1]
  OBVIOUS
<1>7. mkSimToCts[sim] = cts /\ ctsToSs[cts] = n /\ n \in OpenSets(L)
  <2>1. cts \in OpenCtss(L) /\ cts[1] = n
    BY <1>3, <1>6 DEF OpenCtss, CtsOf
  <2> QED
    BY <1>3, <1>5, <1>6, <2>1 DEF OpenSets
<1>8. PICK bits : bits = notified \cup {sim}
  OBVIOUS
<1>9. PICK ctsBits : ctsBits = IF CtsFinished(cts, bits) THEN bits \cup {cts} ELSE bits
  OBVIOUS
<1>10. PICK over \in BOOLEAN : over <=> CtsFinished(cts, bits) /\ SetFinished(n, ctsBits)
  OBVIOUS
<1>11. /\ mkSimToCts' = Restrict(mkSimToCts,
                                 DOMAIN mkSimToCts \ (IF over THEN SimsOfSet(n) ELSE {sim}))
       /\ ctsToSs' = Restrict(ctsToSs, DOMAIN ctsToSs \
                                (IF over THEN CtssOf(n) ELSE ctsBits \cap {cts}))
       /\ IF over THEN /\ simulationSets' = simulationSets \ {n}
                       /\ notified' = ctsBits \ (CtssOf(n) \cup SimsOfSet(n))
                       /\ written' = Append(written, FoundOf(n))
          ELSE notified' = ctsBits /\ simulationSets' = simulationSets /\ written' = written
  BY <1>1, <1>7, <1>8, <1>9, <1>10 DEF ProcessSimulation
<1>12. input \in Inputs
  BY <1>0, DseFacts
<1>13. bits = BitsOf(L) \cup {sim}
  BY <1>5, <1>8
<1>14. /\ over <=> n \notin OpenSets(M)
       /\ OpenSets(M) = OpenSets(L) \ (IF over THEN {n} ELSE {})
       /\ OpenCtss(M) = OpenCtss(L) \ (IF over THEN CtssOf(n) ELSE ctsBits \cap {cts})
       /\ M = L \ (IF over THEN SimsOfSet(n) ELSE {sim})
       /\ BitsOf(M) = IF over THEN ctsBits \ (CtssOf(n) \cup SimsOfSet(n)) ELSE ctsBits
  <2>1. \A s \in L : /\ s[1] \in Seeds /\ s \in SimsOfSet(s[1])
                     /\ CtsOf(s) \in CtssOf(s[1]) /\ s \in SimsOf(CtsOf(s))
    BY <1>4
  <2>2. M = L \ {sim}
    BY <1>1
  <2>3. Struck(L, sim, cts, n, ctsBits, over, M)
    BY <1>3, <1>6, <1>9, <1>10, <1>13, <2>1, <2>2 DEF Struck
  <2> QED
    BY <1>12, <2>3, ProcessSets
<1>15. mkSimToCts' = [s \in M |-> CtsOf(s)]
  <2>1. DOMAIN mkSimToCts \ (IF over THEN SimsOfSet(n) ELSE {sim}) = M
    BY <1>5, <1>14
  <2>2. mkSimToCts' = [s \in M |-> mkSimToCts[s]]
    BY <1>11, <2>1 DEF Restrict
  <2>3. \A s \in M : mkSimToCts[s] = CtsOf(s)
    BY <1>1, <1>5
  <2> QED
    BY <2>2, <2>3
<1>16. ctsToSs' = [c \in OpenCtss(M) |-> c[1]]
  <2>1. DOMAIN ctsToSs \ (IF over THEN CtssOf(n) ELSE ctsBits \cap {cts}) = OpenCtss(M)
    BY <1>5, <1>14
  <2>2. ctsToSs' = [c \in OpenCtss(M) |-> ctsToSs[c]]
    BY <1>11, <2>1 DEF Restrict
  <2>3. \A c \in OpenCtss(M) : ctsToSs[c] = c[1]
    BY <1>5, <1>14
  <2> QED
    BY <2>2, <2>3
<1>17. simulationSets' = OpenSets(M) /\ notified' = BitsOf(M)
  BY <1>5, <1>11, <1>14
<1>18. MapsExact'
  BY <1>2, <1>3, <1>15, <1>16, <1>17, FrameExact
<1>19. n \in Seeds /\ n \in 1 .. registered /\ n \in simulationSets
  BY <1>3, <1>4, <1>5, <1>6, <1>7
<1>20. \/ n \notin OpenSets(LiveSims') /\ simulationSets' = simulationSets \ {n}
          /\ written' = Append(written, FoundOf(n))
       \/ UNCHANGED <<simulationSets, written>>
  BY <1>3, <1>11, <1>14
<1> QED
  BY <1>1, <1>2, <1>3, <1>18, <1>19, <1>20

-----------------------------------------------------------------------------
(* The simulations whose results a set uses                                 *)

LEMMA MaxOfTwo ==
  ASSUME NEW a \in Nat, NEW b \in Nat
  PROVE  Max({a, b}) \in Nat /\ Max({a, b}) >= a /\ Max({a, b}) >= b
<1>1. \E x \in {a, b} : \A y \in {a, b} : x >= y
  OBVIOUS
<1>2. Max({a, b}) \in {a, b} /\ \A y \in {a, b} : Max({a, b}) >= y
  BY <1>1 DEF Max
<1> QED
  BY <1>2

LEMMA MaxOfPlaces ==
  ASSUME NEW u \in Nat, NEW X \in SUBSET (1 .. u), X # {}
  PROVE  Max(X) \in X
<1>1. PICK S, T : S = 1 .. u /\ T = {v .. u : v \in X}
  OBVIOUS
<1>2. PICK s \in T : \A r \in T : r \subseteq s => r = s
  <2>1. IsFiniteSet(S)
    BY <1>1, FS_Interval
  <2>2. \A v \in X : v .. u \subseteq 1 .. u
    OBVIOUS
  <2>3. T \in SUBSET (SUBSET S) /\ T # {}
    BY <1>1, <2>2
  <2> QED
    BY <2>1, <2>3, MinimalSubset
<1>3. PICK v \in X : s = v .. u
  BY <1>1, <1>2
<1>4. \A w \in X : v >= w
  <2> SUFFICES ASSUME NEW w \in X, w > v PROVE FALSE
    OBVIOUS
  <2>1. w .. u \subseteq v .. u /\ v \in v .. u /\ v \notin w .. u
    OBVIOUS
  <2> QED
    BY <1>1, <1>2, <1>3, <2>1
<1> QED
  BY <1>4 DEF Max

\* A dummy reports a simulation of its own set.
LEMMA BaseInSet ==
  ASSUME input \in Inputs, NEW n \in Seeds, NEW u \in DOMAIN input.sets[n], NEW e \in Evals
  PROVE  Base(<<n, u, e>>) \in SimsOfSet(n)
<1>1. u \in 1 .. Len(input.sets[n]) /\ Len(input.sets[n]) \in Nat
      /\ DOMAIN input.sets[n] = 1 .. Len(input.sets[n])
  BY InputFacts
<1>2. ~ input.sets[n][1]
  BY InputsAssumption DEF Seeds
<1> DEFINE X == {v \in 1 .. u : v \in DOMAIN input.sets[n] => ~ input.sets[n][v]}
<1>3. 1 \in X /\ u \in Nat
  BY <1>1, <1>2
<1>4. Max(X) \in X
  <2>1. X \in SUBSET (1 .. u) /\ X # {}
    BY <1>3
  <2> HIDE DEF X
  <2> QED
    BY <1>3, <2>1, MaxOfPlaces
<1>5. Base(<<n, u, e>>) = <<n, Max(X), e>>
  BY Zenon DEF Base
<1>6. Max(X) \in DOMAIN input.sets[n]
  BY <1>1, <1>4
<1> HIDE DEF X
<1>7. <<n, Max(X)>> \in CtssOf(n)
  BY <1>6 DEF CtssOf
<1>8. <<n, Max(X), e>> \in SimsOf(<<n, Max(X)>>)
  BY DEF SimsOf
<1> QED
  BY <1>5, <1>7, <1>8 DEF SimsOfSet

-----------------------------------------------------------------------------
(* What is written of a set                                                 *)

\* When nothing of a set is to be processed any more, all its results are in.
LEMMA SetSimulated ==
  ASSUME EvInv, Is("mkdse"), ResultsSimulated,
         NEW n \in Seeds, n \in 1 .. registered, n \notin OpenSets(LiveSims'),
         processing' = Null, UNCHANGED <<input, plan, calls, registered, aggregated>>
  PROVE  SimsOfSet(n) \subseteq simulated
<1>1. /\ input \in Inputs /\ plan = PlanOf(input) /\ plan \in Seq(Nat)
      /\ Null \notin Work /\ calls \in Nat /\ Len(plan) \in Nat
      /\ aggregated \in Seq(Work) /\ resultPool \in Seq(Work) /\ MapsRight
  BY DseFacts
<1>2. registered \in Nat
  BY <1>1 DEF MapsRight
<1>3. LiveSims' = {SimOf(x) : x \in OpenWork'}
                    \cup UNION {SimsOfSet(m) : m \in calls + 1 .. registered}
  BY InputFunctions DEF LiveSims
<1>4. \A s \in SimsOfSet(n) : s[1] = n /\ s \notin LiveSims'
  BY SetMembers DEF OpenSets
<1>5. n \in Nat /\ n <= calls
  <2>1. n \notin calls + 1 .. registered
    <3> SUFFICES ASSUME n \in calls + 1 .. registered PROVE FALSE
      OBVIOUS
    <3>1. SimsOfSet(n) \subseteq LiveSims'
      BY <1>3
    <3> QED
      BY <1>1, <1>4, <3>1, SetShape
  <2> QED
    BY <1>1, <1>2, <2>1
<1>6. Generated' = Generated
  BY DEF Generated, Work
<1> SUFFICES ASSUME NEW s \in SimsOfSet(n) PROVE s \in simulated
  OBVIOUS
<1>7. PICK x \in Work : SimOf(x) = s /\ x[1] = n
  BY <1>1, SimOfOnto
<1>8. x \in Generated
  BY <1>5, <1>7 DEF Generated
<1>9. x \notin OpenWork'
  BY <1>3, <1>4, <1>7
<1>10. x \in Range(aggregated)
  BY <1>6, <1>8, <1>9 DEF OpenWork
<1>11. Range(aggregated) \subseteq Range(Results)
  BY <1>1, ConcatInjective DEF Results
<1> QED
  BY <1>7, <1>10, <1>11 DEF ResultsSimulated

\* What is found then is what the simulations found.
LEMMA FoundRight ==
  ASSUME input \in Inputs, NEW n \in Seeds, SimsOfSet(n) \subseteq simulated
  PROVE  /\ FoundOf(n) = [seed |-> n, nUtils |-> nUtils, row |-> RightRow(n)]
<1>1. ASSUME NEW e \in Evals, NEW u \in DOMAIN input.sets[n]
      PROVE  GetSuccess(<<n, u, e>>) = Passes(Base(<<n, u, e>>))
  <2>1. PICK b : b = Base(<<n, u, e>>)
    OBVIOUS
  <2>2. b \in simulated
    BY <2>1, BaseInSet
  <2>3. GetSuccess(<<n, u, e>>) = (b \in simulated /\ Passes(b))
    BY <2>1 DEF GetSuccess
  <2>4. Passes(b) \in BOOLEAN
    BY DEF Passes
  <2> QED
    BY <2>1, <2>2, <2>3, <2>4
<1>2. [e \in Evals |-> [u \in DOMAIN input.sets[n] |-> GetSuccess(<<n, u, e>>)]] = RightRow(n)
  BY <1>1 DEF RightRow
<1> QED
  BY <1>2 DEF FoundOf

\* A record that is added leaves the records right.
LEMMA WriteRight ==
  ASSUME WrittenRight, input' = input, registered' = registered, registered \in Nat,
         NEW n \in Seeds, n \in simulationSets, n \in 1 .. registered,
         simulationSets' = simulationSets \ {n}, nUtils \in Nat,
         Len(input.sets[n]) <= nUtils,
         written' = Append(written, [seed |-> n, nUtils |-> nUtils, row |-> RightRow(n)])
  PROVE  WrittenRight'
<1>1. PICK found : found = [seed |-> n, nUtils |-> nUtils, row |-> RightRow(n)]
  OBVIOUS
<1>2. found \in Records
  BY <1>1 DEF Records
<1>3. written \in Seq(Records) /\ written' = Append(written, found)
  BY <1>1 DEF WrittenRight
<1>4. PICK len \in Nat : len = Len(written) /\ DOMAIN written = 1 .. len
  BY <1>3, LenProperties
<1>5. /\ written' \in Seq(Records) /\ DOMAIN written' = 1 .. len + 1
      /\ written'[len + 1] = found
      /\ \A i \in 1 .. len : written'[i] = written[i]
  <2> HIDE DEF Records
  <2>1. /\ Append(written, found) \in Seq(Records) /\ Len(Append(written, found)) = len + 1
        /\ \A i \in 1 .. len : Append(written, found)[i] = written[i]
        /\ Append(written, found)[len + 1] = found
    BY <1>2, <1>3, <1>4, AppendProperties
  <2> QED
    BY <1>3, <2>1, LenProperties
<1>6. /\ Records' = Records /\ \A m : RightRow(m)' = RightRow(m)
  BY InputFunctions DEF Records
<1>7. \A i \in 1 .. len : /\ written[i].row = RightRow(written[i].seed)
                          /\ Len(input.sets[written[i].seed]) <= written[i].nUtils
                          /\ written[i].seed # n
  <2>1. \A i \in 1 .. len : written[i].seed \in WrittenSeeds
    BY <1>4 DEF WrittenSeeds
  <2> QED
    BY <1>4, <2>1 DEF WrittenRight
<1>8. \A i, j \in 1 .. len : written[i].seed = written[j].seed => i = j
  BY <1>4 DEF WrittenRight
<1>9. \A i \in 1 .. len + 1 : i \in 1 .. len \/ i = len + 1
  OBVIOUS
<1>10. found.seed = n /\ found.row = RightRow(n) /\ found.nUtils = nUtils
  BY <1>1
<1>11. \A i \in DOMAIN written' :
         /\ written'[i].row = RightRow(written'[i].seed)
         /\ Len(input.sets[written'[i].seed]) <= written'[i].nUtils
  BY <1>5, <1>7, <1>9, <1>10
<1>12. \A i, j \in DOMAIN written' : written'[i].seed = written'[j].seed => i = j
  BY <1>5, <1>7, <1>8, <1>9, <1>10
<1>13. WrittenSeeds' = 1 .. registered' \ simulationSets'
  <2>1. WrittenSeeds' = {written'[i].seed : i \in 1 .. len + 1}
    BY <1>5 DEF WrittenSeeds
  <2>2. WrittenSeeds = {written[i].seed : i \in 1 .. len}
    BY <1>4 DEF WrittenSeeds
  <2>3. WrittenSeeds' = WrittenSeeds \cup {n}
    <3>1. \A m : m \in WrittenSeeds' => m \in WrittenSeeds \cup {n}
      BY <1>5, <1>9, <1>10, <2>1, <2>2
    <3>2. \A m \in WrittenSeeds : m \in WrittenSeeds'
      <4>1. \A i \in 1 .. len : i \in 1 .. len + 1
        OBVIOUS
      <4> QED
        BY <1>5, <2>1, <2>2, <4>1
    <3>3. n \in WrittenSeeds'
      <4>1. len + 1 \in 1 .. len + 1
        OBVIOUS
      <4> QED
        BY <1>5, <1>10, <2>1, <4>1
    <3> QED
      BY <3>1, <3>2, <3>3
  <2> QED
    BY <2>3 DEF WrittenRight
<1> QED
  BY <1>5, <1>6, <1>11, <1>12, <1>13 DEF WrittenRight

\* As long as nothing is written, the records stay right.
LEMMA FrameWritten ==
  ASSUME WrittenRight, UNCHANGED <<input, written>>,
         1 .. registered' \ simulationSets' = 1 .. registered \ simulationSets
  PROVE  WrittenRight'
<1>1. Records' = Records /\ \A m : RightRow(m)' = RightRow(m)
  BY InputFunctions DEF Records
<1>2. WrittenSeeds' = WrittenSeeds
  BY DEF WrittenSeeds
<1> QED
  BY <1>1, <1>2 DEF WrittenRight

-----------------------------------------------------------------------------
(* DseInv is kept by every step                                             *)

\* Steps that leave alone what is to be processed, and write nothing
LEMMA DseKept ==
  ASSUME EvInv, DseInv, LiveSims' = LiveSims, UtilisationsKnown', ResultsSimulated',
         UNCHANGED <<input, plan, registered, mkSimToCts, ctsToSs, simulationSets, notified,
                     written>>,
         calls' > Len(plan) => registered = Len(plan),
         aggregatorAt' = "done" => processing' = Null
  PROVE  DseInv'
<1>1. MapsExact'
  <2>1. PICK L : L = LiveSims
    OBVIOUS
  <2> QED
    BY <2>1, FrameExact DEF DseInv, MapsExact
<1>2. WrittenRight'
  BY FrameWritten DEF DseInv
<1> QED
  BY <1>1, <1>2 DEF DseInv, ResultsSimulated

LEMMA UtilisationsKept ==
  ASSUME DseInv, UNCHANGED <<input, plan, registered, uMax, nUtils>>,
         announced' => announced, initAt' # "waiting" => initAt # "waiting"
  PROVE  UtilisationsKnown'
BY InputFunctions DEF DseInv, UtilisationsKnown

\* The utilisations are not known before all sets are registered.
LEMMA RegisterDse ==
  ASSUME EvInv, DseInv, RegisterTaskset
  PROVE  DseInv'
<1>0. Is("mkdse")
  BY DEF RegisterTaskset
<1>1. PICK n : n = registered + 1
  OBVIOUS
<1>2. /\ n \in Seeds /\ registered' = n /\ registered = calls /\ registered \in Nat
      /\ calls < Len(plan) /\ Len(plan) \in Nat /\ input \in Inputs
      /\ UNCHANGED <<input, plan, calls, aggregated, resultPool, processing, notified>>
  BY <1>0, <1>1, RegisterLive, DseFacts
<1>3. /\ UNCHANGED <<announced, initAt, nUtils, simulated, written, aggregatorAt>>
      /\ uMax' = Max({uMax, Len(input.sets[n])})
      /\ simulationSets' = simulationSets \cup {n}
  BY <1>1 DEF RegisterTaskset, vars
<1>4. MapsExact'
  BY RegisterExact DEF DseInv
<1>5. UtilisationsKnown'
  <2>1. UtilisationsKnown /\ Len(input.sets[n]) \in Nat
    BY <1>2, InputFacts DEF DseInv
  <2>2. uMax' \in Nat /\ uMax' >= uMax /\ uMax' >= Len(input.sets[n])
    BY <1>3, <2>1, MaxOfTwo DEF UtilisationsKnown
  <2>3. \A m \in 1 .. n : m = n \/ m \in 1 .. registered
    BY <1>1, <1>2
  <2>4. \A m \in 1 .. registered : Len(input.sets[m]) \in Nat
    <3>1. 1 .. registered \subseteq Seeds
      BY <1>0, <1>2, DseFacts
    <3> QED
      BY <1>2, <3>1, InputFacts
  <2>5. \A m \in 1 .. n : Len(input.sets[m]) <= uMax'
    BY <2>1, <2>2, <2>3, <2>4 DEF UtilisationsKnown
  <2>6. ~ announced
    BY <1>2, <2>1 DEF UtilisationsKnown
  <2> QED
    BY <1>2, <1>3, <2>1, <2>2, <2>5, <2>6 DEF UtilisationsKnown, Seeds
<1>6. WrittenRight'
  <2>1. n \notin 1 .. registered /\ 1 .. n = (1 .. registered) \cup {n}
    BY <1>1, <1>2
  <2> QED
    BY <1>2, <1>3, <2>1, FrameWritten DEF DseInv
<1>7. ResultsSimulated'
  BY <1>2, <1>3, InputFunctions DEF DseInv, ResultsSimulated, Results
<1> QED
  BY <1>2, <1>3, <1>4, <1>5, <1>6, <1>7 DEF DseInv, ResultsSimulated

\* The end is announced when the last set is registered.
LEMMA ReturnDse ==
  ASSUME EvInv, DseInv, Is("mkdse"), ReturnTaskset
  PROVE  DseInv'
<1>1. /\ calls' = calls + 1 /\ calls \in Nat /\ calls <= Len(plan)
      /\ calls < Len(plan) => registered = calls + 1
      /\ announced' = (announced \/ AnnounceEnd)
      /\ UNCHANGED <<input, plan, registered, initAt, nUtils, uMax, mkSimToCts, ctsToSs,
                     simulationSets, notified, written, simulated, processing, aggregated,
                     resultPool, aggregatorAt>>
      /\ Len(plan) \in Nat /\ Len(input.sets) = Len(plan) /\ MapsRight
  BY DseFacts DEF ReturnTaskset, Generate, IInv, Control
<1>2. calls + 1 >= Len(plan) => registered = Len(plan)
  BY <1>1 DEF MapsRight
<1>3. UtilisationsKnown'
  <2>1. announced' => registered = Len(plan)
    BY <1>1, <1>2 DEF AnnounceEnd, DseInv, UtilisationsKnown
  <2> QED
    BY <1>1, <2>1 DEF DseInv, UtilisationsKnown, Seeds
<1>4. ResultsSimulated'
  BY <1>1, InputFunctions DEF DseInv, ResultsSimulated, Results
<1> QED
  BY <1>1, <1>2, <1>3, <1>4, ReturnLive, DseKept DEF DseInv

LEMMA FinishInitialisationDse ==
  ASSUME EvInv, DseInv, Is("mkdse"), FinishInitialisation
  PROVE  DseInv'
<1>1. /\ announced /\ nUtils' = uMax
      /\ UNCHANGED <<input, plan, calls, registered, announced, uMax, mkSimToCts, ctsToSs,
                     simulationSets, notified, written, simulated, processing, aggregated,
                     resultPool, aggregatorAt>>
  BY DEF FinishInitialisation, vars, generatorVars
<1>2. Seeds = 1 .. Len(plan)
  BY DseFacts
<1>3. UtilisationsKnown'
  BY <1>1, <1>2 DEF DseInv, UtilisationsKnown, Seeds
<1>4. ResultsSimulated'
  BY <1>1, InputFunctions DEF DseInv, ResultsSimulated, Results
<1> QED
  BY <1>1, <1>3, <1>4, FrameLive, DseKept DEF DseInv

\* A worker leaves the maps alone; what it puts into the pool has been simulated.
LEMMA WorkerDse ==
  ASSUME EvInv, DseInv, Is("mkdse"), NEW w \in Workers, WorkerThread(w)
  PROVE  DseInv'
<1>0. ~ Is("tseval")
  BY DEF Is
<1>1. UNCHANGED <<input, plan, calls, registered, mkSimToCts, ctsToSs, simulationSets,
                  notified, written, processing, aggregated, announced, initAt, nUtils, uMax>>
  BY <1>0 DEF WorkerThread, GetWork, StartSimulation, FinishSimulation, PutResultOf, PutResult,
              ExecuteTaskSet, evalVars, dseVars, vars, generatorVars
<1>2. aggregatorAt' = "done" => aggregatorAt = "done"
  BY <1>0 DEF WorkerThread, GetWork, StartSimulation, FinishSimulation, PutResultOf, PutResult,
              ExecuteTaskSet, NotifyAggregator, vars
<1>3. UtilisationsKnown'
  BY <1>1, UtilisationsKept
<1>4. \A x : SimOf(x)' = SimOf(x)
  BY <1>1, InputFunctions
<1>5. ResultsSimulated
  BY DEF DseInv
<1>6. ResultsSimulated'
  <2>1. CASE GetWork(w) /\ UNCHANGED evalVars
    BY <1>4, <1>5, <2>1 DEF GetWork, evalVars, ResultsSimulated, Results
  <2>2. CASE StartSimulation(w) \/ FinishSimulation(w)
    <3>1. simulated \subseteq simulated' /\ Results' = Results
      BY <2>2 DEF StartSimulation, FinishSimulation, vars, Results
    <3> QED
      BY <1>4, <1>5, <3>1 DEF ResultsSimulated
  <2>3. CASE PutResultOf(w)
    <3>1. /\ resultPool' = Append(resultPool, held[w]) /\ aggregated' = aggregated
          /\ SimOf(held[w]) \in simulated /\ simulated' = simulated /\ workerAt[w] = "work"
      BY <2>3 DEF PutResultOf, PutResult
    <3>2. /\ aggregated \in Seq(Work) /\ resultPool \in Seq(Work)
          /\ held \in [Workers -> Work \cup {Null}]
          /\ held[w] # Null
      BY <3>1, DseFacts DEF IInv, Control
    <3>3. PICK h \in Work : h = held[w]
      BY <3>2
    <3>4. Results' = Append(Results, h) /\ Results \in Seq(Work)
      BY <3>1, <3>2, <3>3, AppendToConcat, ConcatProperties DEF Results
    <3>5. Range(Results') = Range(Results) \cup {h}
      BY <3>3, <3>4, AppendInjectiveRange
    <3> QED
      BY <1>4, <1>5, <3>1, <3>3, <3>5 DEF ResultsSimulated
  <2> QED
    BY <1>0, <2>1, <2>2, <2>3 DEF WorkerThread, ExecuteTaskSet
<1> QED
  BY <1>1, <1>2, <1>3, <1>6, FrameLive, DseKept DEF DseInv

LEMMA TakeDse ==
  ASSUME EvInv, DseInv, Is("mkdse"), TakeResult
  PROVE  DseInv'
<1>1. UNCHANGED <<input, plan, calls, registered, mkSimToCts, ctsToSs, simulationSets,
                  notified, written, announced, initAt, nUtils, uMax, simulated>>
  BY DEF TakeResult, GetResult, dseVars, generatorVars
<1>2. UtilisationsKnown'
  BY <1>1, UtilisationsKept
<1>3. ResultsSimulated'
  <2>1. Results' = Results
    BY TakeLive
  <2> QED
    BY <1>1, <2>1, InputFunctions DEF DseInv, ResultsSimulated
<1> QED
  BY <1>1, <1>2, <1>3, TakeLive, DseKept DEF DseInv

\* A set is written when all its results are in and the utilisations are known.
LEMMA ProcessDse ==
  ASSUME EvInv, DseInv, ProcessSimulation
  PROVE  DseInv'
<1>0. Is("mkdse") /\ processing' = Null /\ initAt # "waiting"
  BY DEF ProcessSimulation, InitialisationAwaited
<1>1. /\ MapsExact'
      /\ UNCHANGED <<input, plan, calls, registered, aggregated, resultPool, simulated>>
      /\ \E n \in Seeds :
           /\ n \in simulationSets /\ n \in 1 .. registered
           /\ \/ /\ n \notin OpenSets(LiveSims') /\ simulationSets' = simulationSets \ {n}
                 /\ written' = Append(written, FoundOf(n))
              \/ UNCHANGED <<simulationSets, written>>
  BY ProcessExact DEF DseInv
<1>2. UNCHANGED <<announced, initAt, nUtils, uMax>>
  BY DEF ProcessSimulation
<1>3. UtilisationsKnown'
  BY <1>1, <1>2, UtilisationsKept
<1>4. ResultsSimulated'
  BY <1>1, InputFunctions DEF DseInv, ResultsSimulated, Results
<1>5. WrittenRight'
  <2>1. PICK n \in Seeds :
          /\ n \in simulationSets /\ n \in 1 .. registered
          /\ \/ /\ n \notin OpenSets(LiveSims') /\ simulationSets' = simulationSets \ {n}
                /\ written' = Append(written, FoundOf(n))
             \/ UNCHANGED <<simulationSets, written>>
    BY <1>1
  <2>2. CASE /\ n \notin OpenSets(LiveSims') /\ simulationSets' = simulationSets \ {n}
             /\ written' = Append(written, FoundOf(n))
    <3>1. SimsOfSet(n) \subseteq simulated
      BY <1>0, <1>1, <2>1, <2>2, SetSimulated DEF DseInv
    <3>2. input \in Inputs /\ registered \in Nat
      BY <1>0, DseFacts DEF MapsRight
    <3>3. FoundOf(n) = [seed |-> n, nUtils |-> nUtils, row |-> RightRow(n)]
      BY <3>1, <3>2, FoundRight
    <3>4. nUtils \in Nat /\ Len(input.sets[n]) <= nUtils
      BY <1>0 DEF DseInv, UtilisationsKnown
    <3> QED
      BY <1>1, <2>1, <2>2, <3>2, <3>3, <3>4, WriteRight DEF DseInv
  <2>3. CASE UNCHANGED <<simulationSets, written>>
    BY <1>1, <2>3, FrameWritten DEF DseInv
  <2> QED
    BY <2>1, <2>2, <2>3
<1> QED
  BY <1>0, <1>1, <1>3, <1>4, <1>5 DEF DseInv

\* The threads that wait for others touch none of it.
LEMMA OtherDse ==
  ASSUME EvInv, DseInv, Is("mkdse"),
         \/ (PutWork \/ FinishGeneration) /\ UNCHANGED evalVars
         \/ Wakes \/ MainThread
         \/ Returned /\ initAt = "joined" /\ UNCHANGED evalVars
         \/ UNCHANGED all
  PROVE  DseInv'
<1>0. ~ Is("tseval")
  BY DEF Is
<1>1. /\ UNCHANGED <<input, plan, calls, registered, mkSimToCts, ctsToSs, simulationSets,
                     notified, written, processing, aggregated, resultPool, simulated,
                     announced, nUtils, uMax>>
      /\ aggregatorAt' = "done" => aggregatorAt = "done"
      /\ initAt' # "waiting" => initAt # "waiting"
  <2>1. CASE (PutWork \/ FinishGeneration) /\ UNCHANGED evalVars
    BY <2>1 DEF PutWork, FinishGeneration, evalVars, dseVars
  <2>2. CASE Wakes
    BY <2>2 DEF Wakes, WorkerWakes, AggregatorWakes, evalVars, dseVars, generatorVars
  <2>3. CASE MainThread
    BY <1>0, <2>3 DEF MainThread, JoinGenerator, FinishWork, JoinAggregator,
                      ReturnFromRunMulti, JoinInitialisation, NotifyAggregator, evalVars,
                      dseVars, vars, generatorVars
  <2>4. CASE (Returned /\ initAt = "joined" /\ UNCHANGED evalVars) \/ UNCHANGED all
    BY <2>4 DEF Returned, all, evalVars, dseVars, vars, generatorVars
  <2> QED
    BY <2>1, <2>2, <2>3, <2>4
<1>2. UtilisationsKnown'
  BY <1>1, UtilisationsKept
<1>3. ResultsSimulated'
  BY <1>1, InputFunctions DEF DseInv, ResultsSimulated, Results
<1> QED
  BY <1>1, <1>2, <1>3, FrameLive, DseKept DEF DseInv

LEMMA NextDse ==
  ASSUME LogInv, [EvaluationNext]_all, Is("mkdse")
  PROVE  DseInv'
<1>1. EvInv /\ DseInv /\ ~ Is("tseval") /\ ~ Is("mkeval") /\ ~ Is("mkbdexcsearch")
  BY DEF LogInv, Is
<1>2. CASE GeneratorThread
  BY <1>1, <1>2, RegisterDse, ReturnDse, OtherDse
  DEF GeneratorThread, GenerationThread, TsevalGeneratorThread
<1>3. CASE \E w \in Workers : WorkerThread(w)
  BY <1>1, <1>3, WorkerDse
<1>4. CASE AggregatorThread
  BY <1>1, <1>4, TakeDse, ProcessDse
  DEF AggregatorThread, ProcessResult, ProcessBreakdowns, ProcessEval
<1>5. CASE FinishInitialisation
  BY <1>1, <1>5, FinishInitialisationDse
<1>6. CASE Wakes \/ MainThread \/ UNCHANGED all
             \/ (Returned /\ initAt = "joined" /\ UNCHANGED evalVars)
  BY <1>1, <1>6, OtherDse
<1> QED
  BY <1>2, <1>3, <1>4, <1>5, <1>6 DEF EvaluationNext

LEMMA InitDse ==
  ASSUME EvaluationInit, EvInv, Is("mkdse")
  PROVE  DseInv
<1>1. /\ Init /\ registered = 0 /\ announced = FALSE /\ initAt = "waiting"
      /\ nUtils = 0 /\ uMax = 0 /\ simulationSets = {} /\ ctsToSs = << >>
      /\ mkSimToCts = << >> /\ notified = {} /\ processing = Null /\ written = << >>
  BY DEF EvaluationInit
<1>2. calls = 0 /\ Len(plan) \in Nat /\ plan \in Seq(Nat) /\ Null \notin Work
  BY <1>1, DseFacts DEF Init
<1>3. LiveSims = {}
  <2>1. \A item \in Work : item[1] \in Nat \ {0}
    BY <1>2, WorkItems DEF Work
  <2>2. Generated = {}
    BY <1>2, <2>1 DEF Generated
  <2>3. OpenWork = {} /\ calls + 1 .. registered = {}
    BY <1>1, <1>2, <2>2 DEF OpenWork
  <2> QED
    BY <2>3 DEF LiveSims
<1>4. MapsExact
  <2>1. OpenSets(LiveSims) = {} /\ OpenCtss(LiveSims) = {} /\ BitsOf(LiveSims) = {}
    BY <1>3 DEF OpenSets, OpenCtss, BitsOf
  <2>2. /\ mkSimToCts = [sim \in {} |-> CtsOf(sim)]
        /\ ctsToSs = [cts \in {} |-> cts[1]]
    BY <1>1
  <2> QED
    BY <1>1, <1>3, <2>1, <2>2 DEF MapsExact
<1>5. UtilisationsKnown
  <2>1. 1 .. registered = {}
    BY <1>1
  <2> QED
    BY <1>1, <2>1 DEF UtilisationsKnown
<1>6. WrittenRight
  <2>1. DOMAIN written = {} /\ 1 .. registered = {}
    BY <1>1
  <2>2. written \in Seq(Records)
    BY <1>1, EmptySeq
  <2> QED
    BY <1>1, <2>1, <2>2 DEF WrittenRight, WrittenSeeds
<1>7. ResultsSimulated
  <2>1. Results = << >>
    <3>1. << >> \in Seq(Work)
      BY EmptySeq
    <3> QED
      BY <1>1, <3>1, ConcatEmptySeq DEF Init, Results
  <2>2. Range(Results) = {}
    BY <2>1 DEF Range
  <2> QED
    BY <2>2 DEF ResultsSimulated
<1> QED
  BY <1>1, <1>2, <1>4, <1>5, <1>6, <1>7 DEF DseInv, Init

\* What the signal handler and the logs of mkdse rest on, for all inputs and workers
THEOREM EvaluationLogInv == EvaluationSpec => []LogInv
<1>1. EvaluationInit => LogInv
  BY EvaluationInitInv, InitDse DEF LogInv
<1>2. LogInv /\ [EvaluationNext]_all => LogInv'
  <2> SUFFICES ASSUME LogInv, [EvaluationNext]_all PROVE LogInv'
    OBVIOUS
  <2>1. EvInv' /\ (Is("mkdse")' => Is("mkdse"))
    BY EvaluationNextInv, InputKept DEF LogInv, Is
  <2>2. Is("mkdse") => DseInv'
    BY NextDse
  <2> QED
    BY <2>1, <2>2 DEF LogInv
<1> QED
  BY <1>1, <1>2, PTL DEF EvaluationSpec

-----------------------------------------------------------------------------
(* What mkdse writes                                                        *)

\* Nothing is to be processed any more when the aggregator has ended.
LEMMA NothingLive ==
  ASSUME EvInv, DseInv, Is("mkdse"), aggregatorAt = "done"
  PROVE  LiveSims = {} /\ registered = Len(plan)
<1>1. /\ input \in Inputs /\ plan = PlanOf(input) /\ plan \in Seq(Nat) /\ Len(plan) \in Nat
      /\ Seeds = 1 .. Len(plan) /\ calls \in Nat /\ MapsRight /\ IInv /\ Null \notin Work
  BY DseFacts
<1>2. Work = Range(aggregated) /\ processing = Null
  BY <1>1, NothingLeft DEF DseInv
<1>3. OpenWork = {}
  BY <1>1, <1>2 DEF OpenWork, Generated
<1>4. Work \subseteq Generated
  BY <1>1 DEF IInv, Control
<1>5. calls >= Len(plan)
  <2> SUFFICES ASSUME calls < Len(plan) PROVE FALSE
    BY <1>1
  <2>1. Len(plan) \in Seeds
    BY <1>1
  <2>2. PICK x \in Work : x[1] = Len(plan)
    BY <1>1, <2>1, SimOfOnto, SetShape
  <2> QED
    BY <1>1, <1>4, <2>2 DEF Generated
<1>6. registered = Len(plan)
  BY <1>1, <1>5 DEF MapsRight, DseInv
<1>7. calls + 1 .. registered = {}
  BY <1>1, <1>5, <1>6
<1> QED
  BY <1>3, <1>6, <1>7 DEF LiveSims

\* A set is written at most once, with the results of all its simulations, when the
\* number of utilisations is known; the sets that are registered and not written are
\* the ones kept.  When run() returns, all are written and nothing is kept.
SetsWritten ==
  /\ \A i \in DOMAIN written :
       LET n == written[i].seed
       IN  /\ n \in Seeds
           /\ Len(input.sets[n]) <= written[i].nUtils
           /\ \A e \in Evals : \A u \in DOMAIN input.sets[n] :
                written[i].row[e][u] <=> Passes(Base(<<n, u, e>>))
  /\ \A i, j \in DOMAIN written : written[i].seed = written[j].seed => i = j
  /\ WrittenSeeds = 1 .. registered \ simulationSets
  /\ mainAt = "returned" =>
       /\ WrittenSeeds = Seeds
       /\ simulationSets = {} /\ ctsToSs = << >> /\ mkSimToCts = << >> /\ notified = {}

LEMMA WrittenSets ==
  ASSUME EvInv, DseInv, Is("mkdse")
  PROVE  SetsWritten
<1>1. WrittenRight /\ Seeds = 1 .. Len(plan)
  BY DseFacts DEF DseInv
<1>2. ASSUME NEW i \in DOMAIN written
      PROVE  LET n == written[i].seed
             IN  /\ n \in Seeds
                 /\ Len(input.sets[n]) <= written[i].nUtils
                 /\ \A e \in Evals : \A u \in DOMAIN input.sets[n] :
                      written[i].row[e][u] <=> Passes(Base(<<n, u, e>>))
  <2>1. PICK n, row : n = written[i].seed /\ row = written[i].row
    OBVIOUS
  <2>2. n \in Seeds
    <3> HIDE DEF Records
    <3>1. written \in Seq(Records)
      BY <1>1 DEF WrittenRight
    <3>2. written[i] \in Records
      BY <1>2, <3>1, LenProperties, ElementOfSeq
    <3> QED
      BY <2>1, <3>2 DEF Records
  <2>3. row = RightRow(n) /\ Len(input.sets[n]) <= written[i].nUtils
    BY <1>1, <2>1 DEF WrittenRight
  <2>4. \A e \in Evals : \A u \in DOMAIN input.sets[n] :
          row[e][u] = Passes(Base(<<n, u, e>>))
    BY <2>3 DEF RightRow
  <2> QED
    BY <2>1, <2>2, <2>3, <2>4
<1>3. ASSUME mainAt = "returned"
      PROVE  /\ WrittenSeeds = Seeds
             /\ simulationSets = {} /\ ctsToSs = << >> /\ mkSimToCts = << >> /\ notified = {}
  <2>1. aggregatorAt = "done"
    BY <1>3, DseFacts DEF IInv, Control
  <2>2. LiveSims = {} /\ registered = Len(plan)
    BY <2>1, NothingLive
  <2>3. OpenSets(LiveSims) = {} /\ OpenCtss(LiveSims) = {} /\ BitsOf(LiveSims) = {}
    BY <2>2 DEF OpenSets, OpenCtss, BitsOf
  <2>4. MapsExact
    BY DEF DseInv
  <2>5. /\ mkSimToCts = [sim \in {} |-> CtsOf(sim)] /\ ctsToSs = [cts \in {} |-> cts[1]]
        /\ simulationSets = {} /\ notified = {}
    BY <2>2, <2>3, <2>4 DEF MapsExact
  <2>6. WrittenSeeds = Seeds
    BY <1>1, <2>2, <2>5 DEF WrittenRight
  <2> QED
    BY <2>5, <2>6
<1> QED
  BY <1>1, <1>2, <1>3 DEF SetsWritten, WrittenRight

\* What mkdse writes is complete: each set once, with what its simulations found.
THEOREM EvaluationSetsWritten == EvaluationSpec => [](Is("mkdse") => SetsWritten)
<1>1. LogInv => (Is("mkdse") => SetsWritten)
  BY WrittenSets DEF LogInv
<1> QED
  BY <1>1, EvaluationLogInv, PTL

-----------------------------------------------------------------------------
(* What mkbdexcsearch and mkeval write                                      *)

\* The results that have been aggregated are written in their order.
SearchInv ==
  /\ processing # Null =>
       aggregated # << >> /\ processing = aggregated[Len(aggregated)]
  /\ aggregatorAt = "done" => processing = Null
  /\ written \in Seq(Range(written))
  /\ Len(written) = Len(aggregated) - (IF processing = Null THEN 0 ELSE 1)
  /\ \A i \in DOMAIN written : written[i].seed = aggregated[i][1]

\* The seeds of which mkeval has written that the allocator kept the constraints, or not
Kept(e) == {n \in WrittenSeeds : ~ MkFail(n, e)}
Failed(e) == {n \in WrittenSeeds : MkFail(n, e)}

CountsRight ==
  /\ {"results", "schedTestPass"} \subseteq DOMAIN tally
  /\ tally.results = [e \in Evals |-> [mkfails |-> Cardinality(Failed(e)),
                                       mksuccs |-> Cardinality(Kept(e))]]
  /\ tally.schedTestPass = Cardinality(WrittenSeeds \cap input.sufficient)

SearchPrograms == {"mkbdexcsearch", "mkeval"}

CountInv ==
  EvInv /\ (input.program \in SearchPrograms => SearchInv) /\ (Is("mkeval") => CountsRight)

Searches == input.program \in SearchPrograms

\* Outside mkdse there is one piece of work for each seed.
LEMMA OnePieceEach ==
  ASSUME input \in Inputs, plan = PlanOf(input), plan \in Seq(Nat), ~ Is("mkdse")
  PROVE  /\ \A x \in Work : x[1] \in Seeds /\ x = <<x[1], 1>>
         /\ \A n \in Seeds : <<n, 1>> \in Work
<1>1. DOMAIN plan = Seeds /\ \A n \in Seeds : plan[n] = 1
  BY DEF PlanOf, Seeds, Is
<1>2. Seeds = 1 .. Len(input.sets) /\ Len(input.sets) \in Nat
  BY InputFacts
<1>3. \A x \in Work : x[1] \in Seeds /\ x = <<x[1], 1>>
  <2> SUFFICES ASSUME NEW x \in Work PROVE x[1] \in Seeds /\ x = <<x[1], 1>>
    OBVIOUS
  <2>1. PICK n \in DOMAIN plan : \E i \in 1 .. plan[n] : x = <<n, i>>
    BY DEF Work, WorkOf
  <2>2. PICK i \in 1 .. plan[n] : x = <<n, i>>
    BY <2>1
  <2>3. n \in Seeds /\ i = 1
    BY <1>1, <2>1, <2>2
  <2> QED
    BY <2>2, <2>3
<1>4. ASSUME NEW n \in Seeds PROVE <<n, 1>> \in Work
  <2>1. n \in DOMAIN plan /\ 1 \in 1 .. plan[n]
    BY <1>1
  <2>2. \A l \in 1 .. n : plan[l] > 0
    BY <1>1, <1>2
  <2>3. \A i \in 1 .. plan[n] : <<n, i>> \in WorkOf(plan)
    BY <2>1, <2>2, WorkItems
  <2> QED
    BY <2>1, <2>3 DEF Work
<1> QED
  BY <1>3, <1>4

LEMMA SearchFacts ==
  ASSUME EvInv, Searches
  PROVE  /\ ~ Is("tseval") /\ ~ Is("mkdse") /\ IInv /\ input \in Inputs
         /\ aggregated \in Seq(Work) /\ resultPool \in Seq(Work) /\ IsInjective(aggregated)
         /\ \A x \in Work : x[1] \in Seeds /\ x = <<x[1], 1>>
         /\ \A n \in Seeds : <<n, 1>> \in Work
         /\ IsFiniteSet(Seeds) /\ Null \notin Work
<1>1. /\ ~ Is("tseval") /\ ~ Is("mkdse")
  BY DEF Searches, SearchPrograms, Is
<1>2. IInv /\ input \in Inputs /\ plan = PlanOf(input)
  BY <1>1 DEF EvInv
<1>3. /\ aggregated \in Seq(Work) /\ resultPool \in Seq(Work) /\ Null \notin Work
      /\ plan \in Seq(Nat)
  BY <1>2, Types DEF IInv
<1>4. IsInjective(aggregated)
  BY <1>2, <1>3, ConcatInjective DEF IInv, Conserved, Results
<1>5. Seeds = 1 .. Len(input.sets) /\ Len(input.sets) \in Nat
  BY <1>2, InputFacts
<1>6. IsFiniteSet(Seeds)
  BY <1>5, FS_Interval
<1>7. /\ \A x \in Work : x[1] \in Seeds /\ x = <<x[1], 1>>
      /\ \A n \in Seeds : <<n, 1>> \in Work
  BY <1>1, <1>2, <1>3, OnePieceEach
<1> QED
  BY <1>1, <1>2, <1>3, <1>4, <1>6, <1>7

LEMMA ProcessSearch ==
  ASSUME EvInv, Searches, SearchInv, processing # Null, processing' = Null,
         UNCHANGED <<aggregated, aggregatorAt>>, NEW record,
         record.seed = processing[1], written' = Append(written, record)
  PROVE  /\ SearchInv'
         /\ record.seed \in Seeds /\ record.seed \notin WrittenSeeds
         /\ WrittenSeeds' = WrittenSeeds \cup {record.seed}
<1>1. /\ aggregated \in Seq(Work) /\ IsInjective(aggregated)
      /\ \A x \in Work : x[1] \in Seeds /\ x = <<x[1], 1>>
  BY SearchFacts
<1>2. PICK len \in Nat : len = Len(written)
  BY LenProperties DEF SearchInv
<1>3. Len(aggregated) = len + 1
  <2>1. Len(aggregated) \in Nat
    BY <1>1, LenProperties
  <2> QED
    BY <1>2, <2>1 DEF SearchInv
<1>4. /\ DOMAIN aggregated = 1 .. len + 1 /\ DOMAIN written = 1 .. len
      /\ processing = aggregated[len + 1]
      /\ \A i \in 1 .. len : written[i].seed = aggregated[i][1]
  BY <1>1, <1>2, <1>3, LenProperties DEF SearchInv
<1>5. PICK S : S = Range(written) \cup {record}
  OBVIOUS
<1>6. written \in Seq(S) /\ record \in S
  <2>1. written \in [1 .. len -> S]
    BY <1>2, <1>4, <1>5, LenProperties DEF SearchInv, Range
  <2> QED
    BY <1>5, <2>1, SeqDef
<1>7. /\ written' \in Seq(S) /\ Len(written') = len + 1 /\ DOMAIN written' = 1 .. len + 1
      /\ \A i \in 1 .. len : written'[i] = written[i]
      /\ written'[len + 1] = record
      /\ Range(written') = Range(written) \cup {record}
  BY <1>2, <1>6, AppendProperties, AppendInjectiveRange, LenProperties
<1>8. \A i \in 1 .. len + 1 : i \in 1 .. len \/ i = len + 1
  OBVIOUS
<1>9. \A i \in DOMAIN written' : written'[i].seed = aggregated[i][1]
  BY <1>4, <1>7, <1>8
<1>10. SearchInv'
  <2>1. Len(written') = Len(aggregated') - 0
    BY <1>3, <1>7
  <2> QED
    BY <1>5, <1>7, <1>9, <2>1 DEF SearchInv
<1>11. \A i \in 1 .. len + 1 : aggregated[i] \in Work
  BY <1>1, <1>3, ElementOfSeq
<1>12. record.seed \notin WrittenSeeds
  <2> SUFFICES ASSUME NEW i \in 1 .. len, written[i].seed = record.seed PROVE FALSE
    BY <1>4 DEF WrittenSeeds
  <2>1. i \in 1 .. len + 1 /\ len + 1 \in 1 .. len + 1
    OBVIOUS
  <2>2. aggregated[i] = aggregated[len + 1]
    BY <1>1, <1>4, <1>11, <2>1
  <2>3. i = len + 1
    BY <1>1, <1>4, <2>1, <2>2 DEF IsInjective
  <2> QED
    BY <2>3
<1>13. WrittenSeeds' = WrittenSeeds \cup {record.seed}
  <2>1. WrittenSeeds' = {written'[i].seed : i \in 1 .. len + 1}
    BY <1>7 DEF WrittenSeeds
  <2>2. WrittenSeeds = {written[i].seed : i \in 1 .. len}
    BY <1>4 DEF WrittenSeeds
  <2>3. \A i \in 1 .. len : i \in 1 .. len + 1
    OBVIOUS
  <2>4. len + 1 \in 1 .. len + 1
    OBVIOUS
  <2> QED
    BY <1>7, <1>8, <2>1, <2>2, <2>3, <2>4
<1>14. record.seed \in Seeds
  BY <1>1, <1>4, <1>11
<1> QED
  BY <1>10, <1>12, <1>13, <1>14

LEMMA TakeSearch ==
  ASSUME EvInv, Searches, SearchInv, TakeResult
  PROVE  SearchInv'
<1>1. /\ processing = Null /\ GetResult /\ written' = written /\ plan' = plan
      /\ processing' = IF aggregated' # aggregated THEN Last(aggregated') ELSE Null
  BY DEF TakeResult, GetResult
<1>2. aggregated \in Seq(Work) /\ resultPool \in Seq(Work) /\ Null \notin Work
  BY SearchFacts
<1>3. CASE resultPool = << >>
  <2>1. aggregated' = aggregated /\ processing' = Null
    BY <1>1, <1>3 DEF GetResult
  <2> QED
    BY <1>1, <2>1 DEF SearchInv
<1>4. CASE resultPool # << >>
  <2>1. PICK h \in Work : h = Head(resultPool)
    BY <1>2, <1>4, HeadTailProperties
  <2>2. aggregated' = Append(aggregated, h) /\ aggregatorAt' = "get"
    BY <1>1, <1>4, <2>1 DEF GetResult
  <2>3. PICK len \in Nat : len = Len(aggregated) /\ DOMAIN aggregated = 1 .. len
    BY <1>2, LenProperties
  <2>4. /\ aggregated' \in Seq(Work) /\ Len(aggregated') = len + 1
        /\ \A i \in 1 .. len : aggregated'[i] = aggregated[i]
        /\ aggregated'[len + 1] = h
    BY <1>2, <2>1, <2>2, <2>3, AppendProperties
  <2>5. DOMAIN aggregated' = 1 .. len + 1
    BY <2>4, LenProperties
  <2>6. aggregated' # aggregated /\ aggregated' # << >>
    BY <2>3, <2>4, EmptySeq
  <2>7. processing' = h /\ h # Null
    BY <1>1, <1>2, <2>1, <2>4, <2>6 DEF Last
  <2>8. Len(written) = len /\ DOMAIN written = 1 .. len
    BY <1>1, <2>3, LenProperties DEF SearchInv
  <2>9. \A i \in DOMAIN written' : written'[i].seed = aggregated'[i][1]
    BY <1>1, <2>4, <2>8 DEF SearchInv
  <2> QED
    BY <1>1, <2>2, <2>4, <2>6, <2>7, <2>8, <2>9 DEF SearchInv
<1> QED
  BY <1>3, <1>4

\* The other threads, and the aggregator while it waits, write nothing.
LEMMA FrameSearch ==
  ASSUME EvInv, [EvaluationNext]_all, Searches, ~ AggregatorThread
  PROVE  /\ UNCHANGED <<input, aggregated, processing, written, tally>>
         /\ aggregatorAt' = "done" => aggregatorAt = "done"
<1>0. ~ Is("tseval") /\ ~ Is("mkdse") /\ input' = input
  BY SearchFacts, InputKept
<1>1. CASE GeneratorThread
  BY <1>0, <1>1 DEF GeneratorThread, RegisterTaskset, GenerationThread, TsevalGeneratorThread,
              ReturnTaskset, Generate, PutWork, FinishGeneration, evalVars
<1>2. CASE \E w \in Workers : WorkerThread(w)
  BY <1>0, <1>2 DEF WorkerThread, GetWork, StartSimulation, FinishSimulation, PutResultOf,
              PutResult, ExecuteTaskSet, NotifyAggregator, evalVars
<1>3. CASE Wakes
  BY <1>3 DEF Wakes, WorkerWakes, AggregatorWakes, evalVars
<1>4. CASE FinishInitialisation
  BY <1>4 DEF FinishInitialisation, vars
<1>5. CASE MainThread
  BY <1>0, <1>5 DEF MainThread, JoinGenerator, FinishWork, JoinAggregator,
              ReturnFromRunMulti, JoinInitialisation, NotifyAggregator, evalVars, vars
<1>6. CASE (Returned /\ initAt = "joined" /\ UNCHANGED evalVars) \/ UNCHANGED all
  BY <1>6 DEF Returned, all, evalVars, vars
<1> QED
  BY <1>0, <1>1, <1>2, <1>3, <1>4, <1>5, <1>6 DEF EvaluationNext

LEMMA SeedsFinite ==
  ASSUME EvInv, Searches, SearchInv
  PROVE  WrittenSeeds \subseteq Seeds /\ IsFiniteSet(WrittenSeeds)
<1>1. /\ aggregated \in Seq(Work) /\ IsFiniteSet(Seeds) /\ \A x \in Work : x[1] \in Seeds
  BY SearchFacts
<1>2. Len(written) \in Nat /\ DOMAIN written = 1 .. Len(written)
  BY LenProperties DEF SearchInv
<1>3. Len(aggregated) \in Nat
  BY <1>1, LenProperties
<1>4. \A i \in 1 .. Len(written) : i \in 1 .. Len(aggregated)
  BY <1>2, <1>3 DEF SearchInv
<1>5. \A i \in DOMAIN written : written[i].seed \in Seeds
  BY <1>1, <1>2, <1>4, ElementOfSeq DEF SearchInv
<1>6. WrittenSeeds \subseteq Seeds
  BY <1>5 DEF WrittenSeeds
<1> QED
  BY <1>1, <1>6, FS_Subset

\* mkeval counts each taskset for each allocator on the side it belongs to.
LEMMA ProcessCounts ==
  ASSUME EvInv, Searches, SearchInv, CountsRight, ProcessEval, input' = input,
         NEW n, n = processing[1], n \notin WrittenSeeds,
         WrittenSeeds' = WrittenSeeds \cup {n}
  PROVE  CountsRight'
<1>1. IsFiniteSet(WrittenSeeds)
  BY SeedsFinite
<1>2. Evals' = Evals /\ \A m, e : MkFail(m, e)' = MkFail(m, e)
  BY DEF Evals, NEvals, MkFail, Passes, theAllocators
<1>3. \A m, e : MkFail(m, e) \in BOOLEAN
  BY DEF MkFail
<1>4. \A e \in Evals : MkEval(n).mkfail[e] = MkFail(n, e)
  BY DEF MkEval
<1>5. /\ tally'.results = CountResults(tally.results, MkEval(n))
      /\ tally'.schedTestPass = tally.schedTestPass + (IF n \in input.sufficient THEN 1 ELSE 0)
      /\ {"results", "schedTestPass"} \subseteq DOMAIN tally'
  BY DEF ProcessEval, CountsRight
<1>6. ASSUME NEW e \in Evals
      PROVE  /\ IsFiniteSet(Failed(e)) /\ IsFiniteSet(Kept(e))
             /\ Failed(e)' = IF MkFail(n, e) THEN Failed(e) \cup {n} ELSE Failed(e)
             /\ Kept(e)' = IF MkFail(n, e) THEN Kept(e) ELSE Kept(e) \cup {n}
             /\ n \notin Failed(e) /\ n \notin Kept(e)
  <2>1. Failed(e) \subseteq WrittenSeeds /\ Kept(e) \subseteq WrittenSeeds
    BY DEF Failed, Kept
  <2>2. IsFiniteSet(Failed(e)) /\ IsFiniteSet(Kept(e))
    BY <1>1, <2>1, FS_Subset
  <2>3. Failed(e)' = {m \in WrittenSeeds \cup {n} : MkFail(m, e)}
    BY <1>2 DEF Failed
  <2>4. Kept(e)' = {m \in WrittenSeeds \cup {n} : ~ MkFail(m, e)}
    BY <1>2 DEF Kept
  <2> QED
    BY <1>3, <2>1, <2>2, <2>3, <2>4 DEF Failed, Kept
<1>7. ASSUME NEW e \in Evals
      PROVE  CountResult(tally.results[e], MkFail(n, e)) =
               [mkfails |-> Cardinality(Failed(e)'), mksuccs |-> Cardinality(Kept(e)')]
  <2>1. tally.results[e] = [mkfails |-> Cardinality(Failed(e)), mksuccs |-> Cardinality(Kept(e))]
    BY DEF CountsRight
  <2>2. CASE MkFail(n, e)
    <3>1. Cardinality(Failed(e)') = Cardinality(Failed(e)) + 1 /\ Kept(e)' = Kept(e)
      BY <1>6, <2>2, FS_AddElement
    <3> QED
      BY <2>1, <2>2, <3>1 DEF CountResult
  <2>3. CASE ~ MkFail(n, e)
    <3>1. Cardinality(Kept(e)') = Cardinality(Kept(e)) + 1 /\ Failed(e)' = Failed(e)
      BY <1>6, <2>3, FS_AddElement
    <3> QED
      BY <2>1, <2>3, <3>1 DEF CountResult
  <2> QED
    BY <2>2, <2>3
<1>8. tally'.results = [e \in Evals |-> [mkfails |-> Cardinality(Failed(e)'),
                                         mksuccs |-> Cardinality(Kept(e)')]]
  <2>1. tally'.results = [e \in Evals |-> CountResult(tally.results[e], MkFail(n, e))]
    BY <1>4, <1>5 DEF CountResults
  <2> QED
    BY <1>7, <2>1
<1>9. tally'.schedTestPass = Cardinality(WrittenSeeds' \cap input.sufficient)
  <2>1. PICK P : P = WrittenSeeds \cap input.sufficient
    OBVIOUS
  <2>2. IsFiniteSet(P) /\ n \notin P /\ tally.schedTestPass = Cardinality(P)
    <3>1. IsFiniteSet(P)
      BY <1>1, <2>1, FS_Subset
    <3> QED
      BY <2>1, <3>1 DEF CountsRight
  <2>3. CASE n \in input.sufficient
    <3>1. WrittenSeeds' \cap input.sufficient = P \cup {n}
      BY <2>1, <2>3
    <3>2. Cardinality(P \cup {n}) = Cardinality(P) + 1
      BY <2>2, FS_AddElement
    <3>3. tally'.schedTestPass = tally.schedTestPass + 1
      BY <1>5, <2>3
    <3> QED
      BY <2>2, <3>1, <3>2, <3>3
  <2>4. CASE n \notin input.sufficient
    <3>1. WrittenSeeds' \cap input.sufficient = P
      BY <2>1, <2>4
    <3>2. PICK c \in Nat : c = Cardinality(P)
      BY <2>2, FS_CardinalityType
    <3>3. tally'.schedTestPass = c
      <4>1. tally'.schedTestPass = c + 0
        BY <1>5, <2>2, <2>4, <3>2
      <4>2. c + 0 = c
        OBVIOUS
      <4> QED
        BY <4>1, <4>2
    <3> QED
      BY <3>1, <3>2, <3>3
  <2> QED
    BY <2>3, <2>4
<1> QED
  BY <1>2, <1>5, <1>8, <1>9 DEF CountsRight

LEMMA NextCounts ==
  ASSUME CountInv, [EvaluationNext]_all
  PROVE  CountInv'
<1>1. EvInv /\ EvInv' /\ input' = input
  BY EvaluationNextInv, InputKept DEF CountInv
<1> SUFFICES ASSUME Searches PROVE SearchInv' /\ (Is("mkeval") => CountsRight')
  BY <1>1 DEF CountInv, Searches, SearchPrograms, Is
<1>2. SearchInv /\ (Is("mkeval") => CountsRight) /\ ~ Is("mkdse")
  BY <1>1, SearchFacts DEF CountInv, Searches
<1>3. \A m, e : MkFail(m, e)' = MkFail(m, e)
  BY <1>1 DEF MkFail, Passes, theAllocators
<1>4. ASSUME WrittenSeeds' = WrittenSeeds, tally' = tally, CountsRight
      PROVE  CountsRight'
  <2>1. \A e : Kept(e)' = Kept(e) /\ Failed(e)' = Failed(e)
    BY <1>3, <1>4 DEF Kept, Failed
  <2> QED
    BY <1>1, <1>4, <2>1 DEF CountsRight, Evals, NEvals
<1>5. CASE TakeResult
  <2>1. UNCHANGED <<written, tally>>
    BY <1>5 DEF TakeResult
  <2> QED
    BY <1>1, <1>2, <1>4, <1>5, <2>1, TakeSearch DEF WrittenSeeds
<1>6. CASE ProcessBreakdowns
  <2>1. /\ ~ Is("mkeval") /\ processing # Null /\ processing' = Null
        /\ UNCHANGED <<aggregated, aggregatorAt>>
    BY <1>6 DEF ProcessBreakdowns, Is, vars
  <2>2. PICK record : /\ record.seed = processing[1]
                      /\ written' = Append(written, record)
    BY <1>6 DEF ProcessBreakdowns
  <2> QED
    BY <1>1, <1>2, <2>1, <2>2, ProcessSearch
<1>7. CASE ProcessEval
  <2>1. /\ processing # Null /\ processing' = Null
        /\ UNCHANGED <<aggregated, aggregatorAt>>
    BY <1>7 DEF ProcessEval, vars
  <2>2. PICK record : /\ record.seed = processing[1]
                      /\ written' = Append(written, record)
    BY <1>7 DEF ProcessEval
  <2>3. /\ SearchInv' /\ record.seed \notin WrittenSeeds
        /\ WrittenSeeds' = WrittenSeeds \cup {record.seed}
    BY <1>1, <1>2, <2>1, <2>2, ProcessSearch
  <2>4. PICK n : n = record.seed
    OBVIOUS
  <2>5. Is("mkeval")
    BY <1>7 DEF ProcessEval
  <2> QED
    BY <1>1, <1>2, <1>7, <2>2, <2>3, <2>4, <2>5, ProcessCounts
<1>8. CASE ~ AggregatorThread
  <2>1. /\ UNCHANGED <<aggregated, processing, written, tally>>
        /\ aggregatorAt' = "done" => aggregatorAt = "done"
    BY <1>1, <1>8, FrameSearch
  <2>2. SearchInv'
    BY <1>2, <2>1 DEF SearchInv
  <2> QED
    BY <1>2, <1>4, <2>1, <2>2 DEF WrittenSeeds
<1> QED
  BY <1>2, <1>5, <1>6, <1>7, <1>8 DEF AggregatorThread, ProcessResult, ProcessSimulation

LEMMA InitCounts ==
  ASSUME EvaluationInit
  PROVE  CountInv
<1>1. /\ aggregated = << >> /\ aggregatorAt = "get" /\ processing = Null /\ written = << >>
  BY DEF EvaluationInit, Init
<1>2. SearchInv
  <2>1. << >> \in Seq(Range(written)) /\ Len(<< >>) = 0 /\ DOMAIN written = {}
    BY <1>1, EmptySeq
  <2> QED
    BY <1>1, <2>1 DEF SearchInv
<1>3. CountsRight
  <2>1. /\ {"results", "schedTestPass"} \subseteq DOMAIN tally
        /\ tally.results = [e \in Evals |-> NoResults] /\ tally.schedTestPass = 0
    BY DEF EvaluationInit
  <2>2. WrittenSeeds = {}
    BY <1>1 DEF WrittenSeeds
  <2>3. /\ \A e : Kept(e) = {} /\ Failed(e) = {}
        /\ Cardinality({}) = 0 /\ WrittenSeeds \cap input.sufficient = {}
    BY <2>2, FS_EmptySet DEF Kept, Failed
  <2> QED
    BY <2>1, <2>3 DEF CountsRight, NoResults
<1> QED
  BY <1>2, <1>3, EvaluationInitInv DEF CountInv

\* When run() returns, mkbdexcsearch and mkeval have written each seed once, and at
\* every time mkeval has counted, for each allocator, the tasksets written that kept
\* their constraints, those that did not, and those that pass the sufficient test.
SeedsWritten ==
  /\ WrittenSeeds \subseteq Seeds
  /\ \A i, j \in DOMAIN written : written[i].seed = written[j].seed => i = j
  /\ mainAt = "returned" => WrittenSeeds = Seeds
  /\ Is("mkeval") =>
       /\ \A e \in Evals :
            /\ tally.results[e].mksuccs = Cardinality({n \in WrittenSeeds : Passes(<<n, 1, e>>)})
            /\ tally.results[e].mkfails = Cardinality({n \in WrittenSeeds : ~ Passes(<<n, 1, e>>)})
       /\ tally.schedTestPass = Cardinality(WrittenSeeds \cap input.sufficient)

LEMMA WrittenInOrder ==
  ASSUME CountInv, Searches
  PROVE  SeedsWritten
<1>1. EvInv /\ SearchInv /\ (Is("mkeval") => CountsRight)
  BY DEF CountInv, Searches
<1>2. /\ IInv /\ aggregated \in Seq(Work) /\ IsInjective(aggregated)
      /\ \A x \in Work : x = <<x[1], 1>>
      /\ \A n \in Seeds : <<n, 1>> \in Work
  BY <1>1, SearchFacts
<1>3. PICK len \in Nat : len = Len(aggregated) /\ DOMAIN aggregated = 1 .. len
  BY <1>2, LenProperties
<1>4. /\ Len(written) \in Nat /\ DOMAIN written = 1 .. Len(written)
      /\ Len(written) = len - (IF processing = Null THEN 0 ELSE 1)
      /\ \A i \in DOMAIN written : written[i].seed = aggregated[i][1]
  BY <1>1, <1>3, LenProperties DEF SearchInv
<1>5. \A i \in DOMAIN written : i \in 1 .. len
  BY <1>3, <1>4
<1>6. \A i \in 1 .. len : aggregated[i] \in Work
  BY <1>2, <1>3, ElementOfSeq
<1>7. ASSUME NEW i \in DOMAIN written, NEW j \in DOMAIN written,
             written[i].seed = written[j].seed
      PROVE  i = j
  <2>1. aggregated[i] = aggregated[j]
    BY <1>2, <1>4, <1>5, <1>6, <1>7
  <2> QED
    BY <1>2, <1>3, <1>5, <2>1 DEF IsInjective
<1>8. ASSUME mainAt = "returned"
      PROVE  Seeds \subseteq WrittenSeeds
  <2>1. aggregatorAt = "done" /\ processing = Null
    BY <1>1, <1>2, <1>8 DEF IInv, Control, SearchInv
  <2>2. Work = Range(aggregated) /\ Len(written) = len
    BY <1>2, <1>4, <2>1, NothingLeft
  <2> SUFFICES ASSUME NEW n \in Seeds PROVE n \in WrittenSeeds
    OBVIOUS
  <2>3. PICK i \in 1 .. len : aggregated[i] = <<n, 1>>
    BY <1>2, <1>3, <2>2 DEF Range
  <2>4. i \in DOMAIN written /\ written[i].seed = n
    BY <1>4, <2>2, <2>3
  <2> QED
    BY <2>4 DEF WrittenSeeds
<1>9. ASSUME Is("mkeval"), NEW e \in Evals
      PROVE  /\ tally.results[e].mksuccs = Cardinality({n \in WrittenSeeds : Passes(<<n, 1, e>>)})
             /\ tally.results[e].mkfails = Cardinality({n \in WrittenSeeds : ~ Passes(<<n, 1, e>>)})
  <2>1. /\ Kept(e) = {n \in WrittenSeeds : Passes(<<n, 1, e>>)}
        /\ Failed(e) = {n \in WrittenSeeds : ~ Passes(<<n, 1, e>>)}
    BY DEF Kept, Failed, MkFail
  <2>2. tally.results[e] = [mkfails |-> Cardinality(Failed(e)), mksuccs |-> Cardinality(Kept(e))]
    BY <1>1, <1>9 DEF CountsRight
  <2> QED
    BY <2>1, <2>2
<1>10. WrittenSeeds \subseteq Seeds
  BY <1>1, SeedsFinite
<1> QED
  BY <1>1, <1>7, <1>8, <1>9, <1>10 DEF SeedsWritten, CountsRight

\* What mkbdexcsearch and mkeval write and count is complete and right.
THEOREM EvaluationSeedsWritten ==
  EvaluationSpec => [](input.program \in SearchPrograms => SeedsWritten)
<1>1. EvaluationInit => CountInv
  BY InitCounts
<1>2. CountInv /\ [EvaluationNext]_all => CountInv'
  BY NextCounts
<1>3. CountInv => (input.program \in SearchPrograms => SeedsWritten)
  BY WrittenInOrder DEF Searches
<1> QED
  BY <1>1, <1>2, <1>3, PTL DEF EvaluationSpec
-----------------------------------------------------------------------------
(* tseval: workers that write their results themselves                      *)

\* tseval has no aggregator.  It is the pool whose aggregator never looks: what a
\* worker writes is the result it would put, and the return of runMulti is the
\* announcement that the work is finished.
LogResults == [i \in DOMAIN written |-> <<written[i].seed, 1>>]

LogPool == INSTANCE MtRunnerProofs WITH
  resultPool   <- LogResults,
  aggregated   <- << >>,
  aggregatorAt <- "get",
  workFinished <- mainAt = "returned",
  mainAt       <- IF mainAt = "returned" THEN "joinAggregator" ELSE mainAt

TsevalInv == LogPool!IInv /\ written \in Seq([seed : Seeds])

\* The invariant of the pools carries over.
LEMMA LogPoolInit ==
  ASSUME LogPool!Init
  PROVE  LogPool!IInv
<1>1. LogPool!IsFiniteSet(Workers)
  BY WorkersAssumption DEF LogPool!IsFiniteSet, IsFiniteSet
<1> QED
  BY <1>1, LogPool!InitInv, WorkersAssumption, PlansAssumption

LEMMA LogPoolNext ==
  ASSUME LogPool!IInv, [LogPool!Next]_(LogPool!vars)
  PROVE  LogPool!IInv'
<1>1. LogPool!IsFiniteSet(Workers)
  BY WorkersAssumption DEF LogPool!IsFiniteSet, IsFiniteSet
<1> QED
  BY <1>1, LogPool!NextInv, WorkersAssumption, PlansAssumption

LEMMA InitTseval ==
  ASSUME EvaluationInit, Is("tseval")
  PROVE  TsevalInv
<1>1. Init /\ written = << >> /\ LogResults = << >>
  BY DEF EvaluationInit, LogResults
<1>2. LogPool!Init
  BY <1>1 DEF Init, LogPool!Init, LogPool!Null, Null
<1> QED
  BY <1>1, <1>2, LogPoolInit DEF TsevalInv

\* What the invariants say of tseval
LEMMA TsevalFacts ==
  ASSUME EvInv, TsevalInv, Is("tseval")
  PROVE  /\ input \in Inputs /\ plan = PlanOf(input) /\ plan \in Seq(Nat)
         /\ \A x \in Work : x[1] \in Seeds /\ x = <<x[1], 1>>
         /\ \A n \in Seeds : <<n, 1>> \in Work
         /\ held \in [Workers -> Work \cup {Null}] /\ workPool \in Seq(Work) /\ batch \in Seq(Work)
         /\ \A w \in Workers : held[w] # Null <=> workerAt[w] = "work"
         /\ \A i \in DOMAIN written : written[i].seed \in Seeds
<1>1. LogPool!Work = Work /\ LogPool!Null = Null
  BY DEF LogPool!Work, LogPool!WorkOf, Work, WorkOf, LogPool!Null, Null
<1>2. LogPool!TypeOK /\ LogPool!Control
  BY DEF TsevalInv, LogPool!IInv
<1>3. plan \in Plans /\ held \in [Workers -> Work \cup {Null}] /\ {batch, workPool} \subseteq Seq(Work)
  BY <1>1, <1>2 DEF LogPool!TypeOK
<1>4. plan \in Seq(Nat)
  BY <1>3, PlansAssumption
<1>5. input \in Inputs /\ plan = PlanOf(input) /\ ~ Is("mkdse")
  BY DEF EvInv, Is
<1>6. \A w \in Workers : held[w] # Null <=> workerAt[w] = "work"
  BY <1>1, <1>2 DEF LogPool!Control
<1>7. /\ \A x \in Work : x[1] \in Seeds /\ x = <<x[1], 1>>
      /\ \A n \in Seeds : <<n, 1>> \in Work
  BY <1>4, <1>5, OnePieceEach
<1>8. ASSUME NEW i \in DOMAIN written PROVE written[i].seed \in Seeds
  <2>1. DOMAIN written = 1 .. Len(written)
    BY LenProperties DEF TsevalInv
  <2>2. written[i] \in [seed : Seeds]
    BY <1>8, <2>1, ElementOfSeq DEF TsevalInv
  <2> QED
    BY <2>2
<1> QED
  BY <1>3, <1>4, <1>5, <1>6, <1>7, <1>8

\* simulatorThread writes what the pool's worker would put.
LEMMA WritesResult ==
  ASSUME EvInv, TsevalInv, NEW w \in Workers, ExecuteTaskSet(w)
  PROVE  LogPool!PutResult(w) /\ written' \in Seq([seed : Seeds])
<1>1. /\ Is("tseval") /\ workerAt[w] = "work"
      /\ written' = Append(written, [seed |-> held[w][1]])
  BY DEF ExecuteTaskSet
<1>2. held[w] \in Work /\ held[w][1] \in Seeds /\ held[w] = <<held[w][1], 1>>
  BY <1>1, TsevalFacts
<1>3. PICK len \in Nat : len = Len(written) /\ DOMAIN written = 1 .. len
  <2>1. written \in Seq([seed : Seeds])
    BY DEF TsevalInv
  <2> QED
    BY <2>1, LenProperties
<1>4. PICK n \in Seeds : n = held[w][1]
  BY <1>2
<1>5. /\ written' \in Seq([seed : Seeds]) /\ DOMAIN written' = 1 .. len + 1
      /\ \A i \in 1 .. len : written'[i] = written[i]
      /\ written'[len + 1] = [seed |-> n]
  <2>1. [seed |-> n] \in [seed : Seeds] /\ written \in Seq([seed : Seeds])
    BY DEF TsevalInv
  <2> QED
    BY <1>1, <1>3, <1>4, <2>1, AppendProperties, LenProperties
<1>6. LogResults' = Append(LogResults, held[w])
  <2>1. LogResults \in Seq(Seeds \X {1}) /\ Len(LogResults) = len
    <3>1. \A i \in 1 .. len : written[i].seed \in Seeds
      BY <1>3, TsevalFacts, <1>1
    <3>2. LogResults \in [1 .. len -> Seeds \X {1}]
      BY <1>3, <3>1 DEF LogResults
    <3>3. LogResults \in Seq(Seeds \X {1}) /\ DOMAIN LogResults = 1 .. len
      BY <3>2, SeqDef
    <3>4. PICK size \in Nat : size = Len(LogResults) /\ 1 .. size = 1 .. len
      BY <3>3, LenProperties
    <3>5. ~ (size < len) /\ ~ (len < size)
      <4>1. size < len => len \in 1 .. len /\ len \notin 1 .. size
        OBVIOUS
      <4>2. len < size => size \in 1 .. size /\ size \notin 1 .. len
        OBVIOUS
      <4> QED
        BY <3>4, <4>1, <4>2
    <3> QED
      BY <3>3, <3>4, <3>5
  <2>2. held[w] = <<n, 1>>
    BY <1>2, <1>4
  <2>3. PICK S : S = Seeds \X {1}
    OBVIOUS
  <2>4. PICK item \in S : item = <<n, 1>>
    BY <2>3
  <2>5. PICK results \in Seq(S) : results = LogResults
    BY <2>1, <2>3
  <2>6. PICK r : r = Append(results, item)
    OBVIOUS
  <2>7. /\ Len(r) = len + 1 /\ r \in Seq(S) /\ r[len + 1] = item
        /\ \A i \in 1 .. len : r[i] = results[i]
    BY <2>1, <2>5, <2>6, AppendProperties
  <2>8. r \in [1 .. len + 1 -> S]
    BY <2>7, LenProperties
  <2>9. LogResults' = [i \in 1 .. len + 1 |-> <<written'[i].seed, 1>>]
    BY <1>5 DEF LogResults
  <2>10. ASSUME NEW i \in 1 .. len + 1 PROVE r[i] = <<written'[i].seed, 1>>
    <3>1. CASE i \in 1 .. len
      BY <1>3, <1>5, <2>5, <2>7, <3>1 DEF LogResults
    <3>2. CASE i = len + 1
      BY <1>5, <2>4, <2>7, <3>2
    <3> QED
      BY <3>1, <3>2
  <2>11. LogResults' = r
    BY <2>8, <2>9, <2>10
  <2> QED
    BY <2>2, <2>4, <2>5, <2>6, <2>11
<1> QED
  BY <1>1, <1>5, <1>6
  DEF ExecuteTaskSet, LogPool!PutResult, LogPool!NotifyAggregator, LogPool!Null, Null,
      generatorVars, LogPool!generatorVars

\* Every other step is that of a thread of the pool too, or leaves the pool alone.
LEMMA NextTseval ==
  ASSUME EvInv, TsevalInv, Is("tseval"), [EvaluationNext]_all
  PROVE  TsevalInv'
<1>0. input' = input
  BY InputKept
<1>1. \/ \E w \in Workers : ExecuteTaskSet(w)
      \/ [LogPool!Next]_(LogPool!vars) /\ written' = written
  <2>1. ASSUME UNCHANGED <<written, mainAt>>
        PROVE  UNCHANGED <<LogResults, mainAt = "returned",
                           IF mainAt = "returned" THEN "joinAggregator" ELSE mainAt>>
    BY <2>1 DEF LogResults
  <2>2. CASE GeneratorThread
    <3>1. Generator /\ UNCHANGED <<written, mainAt>>
      BY <2>2 DEF GeneratorThread, RegisterTaskset, GenerationThread, TsevalGeneratorThread,
                  ReturnTaskset, Generator, Generate, PutWork, FinishGeneration, Is, evalVars
    <3>2. LogPool!Generator
      <4>1. Generate => LogPool!Generate
        BY <2>1, <3>1 DEF Generate, LogPool!Generate, ListOf, LogPool!ListOf
      <4>2. PutWork => LogPool!PutWork
        BY <2>1, <3>1
        DEF PutWork, LogPool!PutWork, NotifyOne, LogPool!NotifyOne, Waiting, LogPool!Waiting
      <4>3. FinishGeneration => LogPool!FinishGeneration
        BY <2>1, <3>1
        DEF FinishGeneration, LogPool!FinishGeneration, NotifyAll, LogPool!NotifyAll, Waiting,
            LogPool!Waiting
      <4> QED
        BY <3>1, <4>1, <4>2, <4>3 DEF Generator, LogPool!Generator
    <3> QED
      BY <3>1, <3>2 DEF LogPool!Next
  <2>3. ASSUME NEW w \in Workers, GetWork(w) /\ UNCHANGED evalVars
        PROVE  LogPool!Next /\ written' = written
    <3>1. UNCHANGED <<written, mainAt>>
      BY <2>3 DEF GetWork, evalVars
    <3>2. LogPool!GetWork(w)
      BY <2>1, <2>3, <3>1
      DEF GetWork, LogPool!GetWork, TakeWork, LogPool!TakeWork, generatorVars,
          LogPool!generatorVars
    <3> QED
      BY <3>1, <3>2 DEF LogPool!Next, LogPool!Worker
  <2>4. CASE Wakes
    <3>1. UNCHANGED <<written, mainAt>>
      BY <2>4 DEF Wakes, WorkerWakes, AggregatorWakes, evalVars
    <3>2. ASSUME NEW w \in Workers, WorkerWakes(w) PROVE LogPool!WorkerWakes(w)
      BY <2>1, <3>1, <3>2
      DEF WorkerWakes, LogPool!WorkerWakes, generatorVars, LogPool!generatorVars
    <3>3. CASE AggregatorWakes
      BY <2>1, <3>1, <3>3
      DEF AggregatorWakes, LogPool!vars, generatorVars, LogPool!generatorVars
    <3> QED
      BY <2>4, <3>1, <3>2, <3>3 DEF Wakes, LogPool!Next
  <2>5. CASE MainThread
    <3>1. CASE JoinGenerator /\ UNCHANGED evalVars
      <4>1. written' = written /\ LogResults' = LogResults
        BY <3>1 DEF evalVars, LogResults
      <4>2. LogPool!JoinGenerator
        BY <3>1, <4>1
        DEF JoinGenerator, LogPool!JoinGenerator, generatorVars, LogPool!generatorVars
      <4> QED
        BY <4>1, <4>2 DEF LogPool!Next, LogPool!Main
    <3>2. CASE ReturnFromRunMulti
      <4>1. written' = written /\ LogResults' = LogResults
        BY <3>2 DEF ReturnFromRunMulti, evalVars, LogResults
      <4>2. LogPool!FinishWork
        BY <3>2, <4>1
        DEF ReturnFromRunMulti, LogPool!FinishWork, LogPool!NotifyAggregator, generatorVars,
            LogPool!generatorVars
      <4> QED
        BY <4>1, <4>2 DEF LogPool!Next, LogPool!Main
    <3>3. CASE JoinInitialisation
      <4>1. UNCHANGED <<vars, written>>
        BY <3>3 DEF JoinInitialisation
      <4> QED
        BY <2>1, <4>1 DEF vars, LogPool!vars, generatorVars, LogPool!generatorVars
    <3> QED
      BY <2>5, <3>1, <3>2, <3>3 DEF MainThread
  <2>6. CASE FinishInitialisation \/ (Returned /\ UNCHANGED evalVars) \/ UNCHANGED all
    <3>1. UNCHANGED <<vars, written>>
      BY <2>6 DEF FinishInitialisation, Returned, all, evalVars
    <3> QED
      BY <2>1, <3>1 DEF vars, LogPool!vars, generatorVars, LogPool!generatorVars
  <2>7. ~ AggregatorThread
    BY DEF AggregatorThread, TakeResult, ProcessResult, ProcessSimulation, ProcessBreakdowns,
           ProcessEval, Is
  <2>8. ASSUME NEW w \in Workers, WorkerThread(w)
        PROVE  ExecuteTaskSet(w) \/ (GetWork(w) /\ UNCHANGED evalVars)
    BY <2>8 DEF WorkerThread, StartSimulation, FinishSimulation, PutResultOf, Is
  <2> QED
    BY <2>2, <2>3, <2>4, <2>5, <2>6, <2>7, <2>8 DEF EvaluationNext
<1>2. Seeds' = Seeds
  BY <1>0 DEF Seeds
<1>3. ASSUME NEW w \in Workers, ExecuteTaskSet(w) PROVE TsevalInv'
  <2>1. [LogPool!Next]_(LogPool!vars) /\ written' \in Seq([seed : Seeds])
    BY <1>3, WritesResult DEF LogPool!Next, LogPool!Worker
  <2> QED
    BY <1>2, <2>1, LogPoolNext DEF TsevalInv
<1>4. CASE [LogPool!Next]_(LogPool!vars) /\ written' = written
  BY <1>2, <1>4, LogPoolNext DEF TsevalInv
<1> QED
  BY <1>1, <1>3, <1>4

\* Each taskset is logged at most once, and when runMulti returns, each has been; no
\* worker sleeps when the generation has ended, nor do all while there is work.
TsevalWritten ==
  /\ WrittenSeeds \subseteq Seeds
  /\ \A i, j \in DOMAIN written : written[i].seed = written[j].seed => i = j
  /\ mainAt = "returned" => WrittenSeeds = Seeds
  /\ workPool # << >> => \E w \in Workers : workerAt[w] \in {"get", "work"}
  /\ generationFinished => Waiting = {}

LEMMA TsevalWrites ==
  ASSUME EvInv, TsevalInv, Is("tseval")
  PROVE  TsevalWritten
<1>1. LogPool!TypeOK /\ LogPool!Control /\ LogPool!NoLostWakeup /\ LogPool!Conserved
  BY DEF TsevalInv, LogPool!IInv
<1>2. PICK len \in Nat : len = Len(written) /\ DOMAIN written = 1 .. len
  BY LenProperties DEF TsevalInv
<1>3. \A i \in 1 .. len : written[i].seed \in Seeds
  BY <1>2, TsevalFacts
<1>4. LogResults \in Seq(Seeds \X {1}) /\ DOMAIN LogResults = 1 .. len
  <2>1. LogResults \in [1 .. len -> Seeds \X {1}]
    BY <1>2, <1>3 DEF LogResults
  <2> QED
    BY <2>1, SeqDef
<1>5. LogPool!Results = LogResults
  <2>1. LogPool!Results = << >> \o LogResults
    BY DEF LogPool!Results
  <2> QED
    BY <1>4, <2>1, ConcatEmptySeq
<1>6. \A i, j \in DOMAIN written : written[i].seed = written[j].seed => i = j
  <2>1. \A i, j \in DOMAIN LogResults : LogResults[i] = LogResults[j] => i = j
    BY <1>1, <1>5 DEF LogPool!Conserved, LogPool!IsInjective
  <2> QED
    BY <1>2, <1>4, <2>1 DEF LogResults
<1>7. WrittenSeeds \subseteq Seeds
  BY <1>2, <1>3 DEF WrittenSeeds
<1>8. ASSUME mainAt = "returned", NEW n \in Seeds PROVE n \in WrittenSeeds
  <2>1. /\ \A w \in Workers : workerAt[w] = "done"
        /\ generatorAt = "done" /\ LogPool!Work \subseteq LogPool!Generated
    BY <1>1, <1>8 DEF LogPool!Control
  <2>2. PICK w \in Workers : TRUE
    BY WorkersAssumption
  <2>3. workPool = << >> /\ batch = << >>
    BY <1>1, <2>1, <2>2 DEF LogPool!Control
  <2>4. LogPool!InHand = {}
    <3>1. \A v \in Workers : held[v] = LogPool!Null
      BY <1>1, <2>1 DEF LogPool!Control
    <3> QED
      BY <3>1 DEF LogPool!InHand
  <2>5. LogPool!Range(LogPool!Queue) = {}
    <3>1. LogPool!Queue = << >>
      BY <2>3 DEF LogPool!Queue
    <3> QED
      BY <3>1 DEF LogPool!Range
  <2>6. LogPool!Work \subseteq LogPool!Range(LogResults)
    BY <1>1, <1>5, <2>1, <2>4, <2>5 DEF LogPool!Conserved, LogPool!Started
  <2>7. <<n, 1>> \in LogPool!Work
    <3>1. LogPool!Work = Work
      BY DEF LogPool!Work, LogPool!WorkOf, Work, WorkOf
    <3> QED
      BY <3>1, TsevalFacts
  <2>8. PICK i \in 1 .. len : LogResults[i] = <<n, 1>>
    BY <1>4, <2>6, <2>7 DEF LogPool!Range
  <2> QED
    BY <1>2, <2>8 DEF LogResults, WrittenSeeds
<1>9. /\ workPool # << >> => \E w \in Workers : workerAt[w] \in {"get", "work"}
      /\ generationFinished => Waiting = {}
  BY <1>1 DEF LogPool!NoLostWakeup, LogPool!Waiting, Waiting
<1> QED
  BY <1>6, <1>7, <1>8, <1>9 DEF TsevalWritten

\* What tseval logs is complete, without an aggregator: run() of MtRunner is replaced by
\* runMulti, but every step is one of the pool whose aggregator never looks.
THEOREM EvaluationTsevalWritten == EvaluationSpec => [](Is("tseval") => TsevalWritten)
<1> DEFINE Inv == EvInv /\ (Is("tseval") => TsevalInv)
<1>1. EvaluationInit => Inv
  BY EvaluationInitInv, InitTseval
<1>2. Inv /\ [EvaluationNext]_all => Inv'
  <2> SUFFICES ASSUME Inv, [EvaluationNext]_all PROVE Inv'
    OBVIOUS
  <2>1. EvInv' /\ (Is("tseval")' => Is("tseval"))
    BY EvaluationNextInv, InputKept DEF Is
  <2> QED
    BY <2>1, NextTseval
<1>3. Inv => (Is("tseval") => TsevalWritten)
  BY TsevalWrites
<1> QED
  BY <1>1, <1>2, <1>3, PTL DEF EvaluationSpec
=============================================================================
