--------------------------- MODULE MtRunnerProofs ---------------------------
(***************************************************************************)
(* Proofs about MtRunner, for every set of workers and every generation    *)
(* function.  Putting work into a pool and aggregating a result only move  *)
(* an item within the two lists below; what is left to follow is how work  *)
(* enters the first, passes through the hands of a worker, and enters the  *)
(* second.  That the runner's promise is kept needs where the threads      *)
(* stand when others have ended; that no result is overtaken too often     *)
(* needs that work leaves the first list in the order of its generation.   *)
(***************************************************************************)
EXTENDS MtRunner, SequenceTheorems, FiniteSetTheorems, TLAPS

\* Work that no worker has taken yet, and the results in the order they were put
Queue == workPool \o batch

Results == aggregated \o resultPool

Started == InHand \cup Range(Results)

\* Where a thread stands tells what the others have done.
Control ==
  /\ generatorAt = "put" <=> batch # << >>
  /\ generatorAt \in {"generate", "put"} =>
       calls <= Len(plan) /\ \A l \in 1 .. calls : plan[l] > 0
  /\ generatorAt \in {"finish", "done"} => Work \subseteq Generated
  /\ generationFinished <=> generatorAt = "done"
  /\ \A w \in Workers : held[w] # Null <=> workerAt[w] = "work"
  /\ \A w \in Workers : workerAt[w] = "done" => generationFinished /\ workPool = << >>
  /\ mainAt # "joinGenerator" => generatorAt = "done"
  /\ workFinished <=> mainAt \in {"joinAggregator", "returned"}
  /\ workFinished => \A w \in Workers : workerAt[w] = "done"
  /\ aggregatorAt = "done" => workFinished /\ resultPool = << >>
  /\ mainAt = "returned" => aggregatorAt = "done"

\* Each generated item is queued, in the hands of one worker, or a result.
Conserved ==
  /\ Generated = Started \cup Range(Queue)
  /\ IsInjective(Queue) /\ IsInjective(Results)
  /\ Range(Queue) \cap Started = {}
  /\ Range(Results) \cap InHand = {}
  /\ \A v, w \in Workers : held[v] = held[w] /\ v # w => held[v] = Null

\* Work is started in the order of its generation.
StartedInOrder ==
  /\ \A x \in Started : \A item \in Work : Older(item, x) => item \in Started
  /\ \A i \in DOMAIN Queue : \A item \in Work :
       Older(item, Queue[i]) => item \in Started \cup {Queue[h] : h \in 1 .. i - 1}

IInv ==
  /\ TypeOK
  /\ Control
  /\ NoLostWakeup
  /\ Conserved
  /\ StartedInOrder
  /\ BoundedOvertaking
-----------------------------------------------------------------------------
(* Sequences as multisets of different items                                *)

\* Injectivity and range of a concatenation come from its parts.
LEMMA ConcatInjective ==
  ASSUME NEW S, NEW s \in Seq(S), NEW t \in Seq(S)
  PROVE  /\ Range(s \o t) = Range(s) \cup Range(t)
         /\ IsInjective(s \o t) <=>
              /\ IsInjective(s) /\ IsInjective(t)
              /\ Range(s) \cap Range(t) = {}
<1> DEFINE r == s \o t
<1>1. /\ r \in Seq(S) /\ Len(r) = Len(s) + Len(t)
      /\ \A i \in 1 .. Len(s) + Len(t) :
           r[i] = IF i <= Len(s) THEN s[i] ELSE t[i - Len(s)]
  BY ConcatProperties
<1>2. /\ Len(s) \in Nat /\ DOMAIN s = 1 .. Len(s)
      /\ Len(t) \in Nat /\ DOMAIN t = 1 .. Len(t)
      /\ DOMAIN r = 1 .. Len(s) + Len(t)
  BY <1>1, LenProperties
<1> HIDE DEF r
<1>3. \A i \in DOMAIN s : i \in DOMAIN r /\ r[i] = s[i]
  BY <1>1, <1>2
<1>4. \A i \in DOMAIN t : Len(s) + i \in DOMAIN r /\ r[Len(s) + i] = t[i]
  BY <1>1, <1>2
<1>5. \A i \in DOMAIN r :
        \/ i \in DOMAIN s
        \/ i - Len(s) \in DOMAIN t /\ Len(s) + (i - Len(s)) = i
  BY <1>2
<1>6. Range(r) = Range(s) \cup Range(t)
  BY <1>3, <1>4, <1>5 DEF Range
<1>7. ASSUME IsInjective(r)
      PROVE  IsInjective(s) /\ IsInjective(t) /\ Range(s) \cap Range(t) = {}
  <2>1. IsInjective(s)
    BY <1>3, <1>7 DEF IsInjective
  <2>2. IsInjective(t)
    BY <1>2, <1>4, <1>7 DEF IsInjective
  <2>3. \A i \in DOMAIN s, h \in DOMAIN t : s[i] # t[h]
    BY <1>2, <1>3, <1>4, <1>7 DEF IsInjective
  <2> QED
    BY <2>1, <2>2, <2>3 DEF Range
<1>8. ASSUME IsInjective(s), IsInjective(t), Range(s) \cap Range(t) = {}
      PROVE  IsInjective(r)
  <2>1. \A i \in DOMAIN s, h \in DOMAIN t : s[i] # t[h]
    BY <1>8 DEF Range
  <2> SUFFICES ASSUME NEW i \in DOMAIN r, NEW h \in DOMAIN r, r[i] = r[h]
               PROVE  i = h
    BY DEF IsInjective
  <2>2. CASE i \in DOMAIN s /\ h \in DOMAIN s
    BY <1>3, <1>8, <2>2 DEF IsInjective
  <2>3. CASE i \notin DOMAIN s /\ h \notin DOMAIN s
    BY <1>2, <1>4, <1>5, <1>8, <2>3 DEF IsInjective
  <2>4. CASE i \in DOMAIN s /\ h \notin DOMAIN s
    BY <1>3, <1>4, <1>5, <2>1, <2>4
  <2>5. CASE i \notin DOMAIN s /\ h \in DOMAIN s
    BY <1>3, <1>4, <1>5, <2>1, <2>5
  <2> QED
    BY <2>2, <2>3, <2>4, <2>5
<1> QED
  BY <1>6, <1>7, <1>8 DEF r

\* A new item at the end
LEMMA AppendInjectiveRange ==
  ASSUME NEW S, NEW s \in Seq(S), NEW e \in S
  PROVE  /\ Append(s, e) \in Seq(S)
         /\ Range(Append(s, e)) = Range(s) \cup {e}
         /\ IsInjective(s) /\ e \notin Range(s) => IsInjective(Append(s, e))
<1> DEFINE r == Append(s, e)
<1>1. /\ r \in Seq(S) /\ Len(r) = Len(s) + 1
      /\ \A i \in 1 .. Len(s) : r[i] = s[i]
      /\ r[Len(s) + 1] = e
  BY AppendProperties
<1> HIDE DEF r
<1>2. Len(s) \in Nat /\ DOMAIN s = 1 .. Len(s) /\ DOMAIN r = 1 .. Len(s) + 1
  BY <1>1, LenProperties
<1>3. DOMAIN r = DOMAIN s \cup {Len(s) + 1} /\ Len(s) + 1 \notin DOMAIN s
  BY <1>2
<1>4. Range(r) = Range(s) \cup {e}
  BY <1>1, <1>2, <1>3 DEF Range
<1>5. ASSUME IsInjective(s), e \notin Range(s) PROVE IsInjective(r)
  BY <1>1, <1>2, <1>3, <1>5 DEF Range, IsInjective
<1> QED
  BY <1>1, <1>4, <1>5 DEF r

\* The first item of a list and the others
LEMMA HeadAndTail ==
  ASSUME NEW S, NEW s \in Seq(S), s # << >>
  PROVE  /\ Head(s) \in S /\ Head(s) = s[1] /\ 1 \in DOMAIN s
         /\ Tail(s) \in Seq(S)
         /\ DOMAIN s = 1 .. Len(s) /\ Len(s) \in Nat \ {0}
         /\ DOMAIN Tail(s) = 1 .. Len(s) - 1
         /\ \A i \in DOMAIN Tail(s) : i + 1 \in DOMAIN s /\ Tail(s)[i] = s[i + 1]
         /\ Range(s) = Range(Tail(s)) \cup {Head(s)}
         /\ IsInjective(s) => IsInjective(Tail(s)) /\ Head(s) \notin Range(Tail(s))
<1> DEFINE r == Tail(s)
<1>1. /\ Head(s) \in S
      /\ r \in Seq(S) /\ Len(r) = Len(s) - 1
      /\ \A i \in 1 .. Len(r) : r[i] = s[i + 1]
  BY HeadTailProperties
<1>2. Len(s) \in Nat \ {0} /\ DOMAIN s = 1 .. Len(s)
  BY EmptySeq, LenProperties
<1>3. Head(s) = s[1]
  OBVIOUS
<1>4. DOMAIN r = 1 .. Len(s) - 1
  BY <1>1, LenProperties
<1> HIDE DEF r
<1>5. \A i \in DOMAIN r : i + 1 \in DOMAIN s /\ r[i] = s[i + 1]
  BY <1>1, <1>2, <1>4
<1>6. \A i \in DOMAIN s : i = 1 \/ (i - 1 \in DOMAIN r /\ (i - 1) + 1 = i)
  BY <1>2, <1>4
<1>7. 1 \in DOMAIN s
  BY <1>2
<1>8. Range(s) = Range(r) \cup {s[1]}
  BY <1>5, <1>6, <1>7 DEF Range
<1>9. ASSUME IsInjective(s) PROVE IsInjective(r) /\ s[1] \notin Range(r)
  BY <1>2, <1>4, <1>5, <1>7, <1>9 DEF Range, IsInjective
<1> QED
  BY <1>1, <1>2, <1>3, <1>4, <1>5, <1>7, <1>8, <1>9 DEF r

\* An item that moves from the front of one list to the end of the list before
LEMMA MoveItem ==
  ASSUME NEW S, NEW s \in Seq(S), NEW t \in Seq(S), t # << >>
  PROVE  /\ Append(s, Head(t)) \in Seq(S) /\ Tail(t) \in Seq(S)
         /\ Append(s, Head(t)) \o Tail(t) = s \o t
<1> DEFINE a == Append(s, Head(t))
           b == Tail(t)
<1>1. /\ Head(t) \in S /\ Head(t) = t[1] /\ b \in Seq(S)
      /\ Len(t) \in Nat \ {0} /\ DOMAIN b = 1 .. Len(t) - 1
      /\ \A i \in DOMAIN b : b[i] = t[i + 1]
  BY HeadAndTail
<1>2. /\ a \in Seq(S) /\ Len(a) = Len(s) + 1
      /\ \A i \in 1 .. Len(s) : a[i] = s[i]
      /\ a[Len(s) + 1] = t[1]
  BY <1>1, AppendProperties
<1> HIDE DEF a, b
<1>3. Len(b) = Len(t) - 1 /\ Len(s) \in Nat
  BY <1>1, LenProperties
<1> DEFINE u == a \o b
           v == s \o t
<1>4. /\ u \in Seq(S) /\ Len(u) = Len(a) + Len(b)
      /\ \A i \in 1 .. Len(a) + Len(b) :
           u[i] = IF i <= Len(a) THEN a[i] ELSE b[i - Len(a)]
  BY <1>1, <1>2, ConcatProperties
<1>5. /\ v \in Seq(S) /\ Len(v) = Len(s) + Len(t)
      /\ \A i \in 1 .. Len(s) + Len(t) :
           v[i] = IF i <= Len(s) THEN s[i] ELSE t[i - Len(s)]
  BY ConcatProperties
<1> HIDE DEF u, v
<1>6. Len(u) = Len(v)
  BY <1>1, <1>2, <1>3, <1>4, <1>5
<1>7. ASSUME NEW i \in 1 .. Len(u) PROVE u[i] = v[i]
  <2>1. /\ i \in 1 .. Len(s) + Len(t)
        /\ u[i] = IF i <= Len(s) + 1 THEN a[i] ELSE b[i - (Len(s) + 1)]
        /\ v[i] = IF i <= Len(s) THEN s[i] ELSE t[i - Len(s)]
    BY <1>1, <1>2, <1>3, <1>4, <1>5
  <2>2. CASE i <= Len(s)
    BY <1>2, <1>3, <2>1, <2>2
  <2>3. CASE i = Len(s) + 1
    BY <1>2, <1>3, <2>1, <2>3
  <2>4. CASE i > Len(s) + 1
    <3>1. /\ i - (Len(s) + 1) \in 1 .. Len(t) - 1
          /\ (i - (Len(s) + 1)) + 1 = i - Len(s)
      BY <1>1, <1>3, <2>1, <2>4
    <3>2. b[i - (Len(s) + 1)] = t[i - Len(s)]
      BY <1>1, <3>1
    <3> QED
      BY <1>3, <2>1, <2>4, <3>2
  <2> QED
    BY <1>3, <2>2, <2>3, <2>4
<1>8. u = v
  BY <1>4, <1>5, <1>6, <1>7, SeqEqual
<1> QED
  BY <1>1, <1>2, <1>8 DEF a, b, u, v

\* Taking the first item of a list takes the first item of its continuation.
LEMMA TailOfConcat ==
  ASSUME NEW S, NEW s \in Seq(S), NEW t \in Seq(S), s # << >>
  PROVE  /\ s \o t \in Seq(S) /\ s \o t # << >>
         /\ Head(s \o t) = Head(s)
         /\ Tail(s) \o t = Tail(s \o t)
<1>1. /\ Head(s) \in S /\ Head(s) = s[1] /\ Tail(s) \in Seq(S)
      /\ Len(s) \in Nat \ {0} /\ DOMAIN Tail(s) = 1 .. Len(s) - 1
      /\ \A i \in DOMAIN Tail(s) : Tail(s)[i] = s[i + 1]
  BY HeadAndTail
<1> DEFINE v == s \o t
           a == Tail(s)
           u == a \o t
           b == Tail(v)
<1>2. /\ v \in Seq(S) /\ Len(v) = Len(s) + Len(t)
      /\ \A i \in 1 .. Len(s) + Len(t) :
           v[i] = IF i <= Len(s) THEN s[i] ELSE t[i - Len(s)]
  BY ConcatProperties
<1>3. Len(t) \in Nat /\ Len(a) = Len(s) - 1
  BY <1>1, LenProperties
<1>4. /\ u \in Seq(S) /\ Len(u) = Len(a) + Len(t)
      /\ \A i \in 1 .. Len(a) + Len(t) :
           u[i] = IF i <= Len(a) THEN a[i] ELSE t[i - Len(a)]
  BY <1>1, ConcatProperties
<1> HIDE DEF a, u, v
<1>5. v # << >>
  BY <1>1, <1>2, <1>3, EmptySeq
<1>6. /\ Head(v) = v[1] /\ b \in Seq(S)
      /\ DOMAIN b = 1 .. Len(v) - 1
      /\ \A i \in DOMAIN b : b[i] = v[i + 1]
  BY <1>2, <1>5, HeadAndTail
<1>7. Len(b) = Len(v) - 1
  <2>1. b \in Seq(S) /\ Len(b) = Len(v) - 1
    BY <1>2, <1>5, HeadTailProperties
  <2> QED
    BY <2>1
<1> HIDE DEF b
<1>8. Head(v) = Head(s)
  BY <1>1, <1>2, <1>3, <1>6
<1>9. ASSUME NEW i \in 1 .. Len(u) PROVE u[i] = b[i]
  <2>1. i \in 1 .. Len(s) + Len(t) - 1
    BY <1>1, <1>3, <1>4
  <2>2. b[i] = v[i + 1]
    <3>1. i \in 1 .. Len(v) - 1
      BY <1>1, <1>2, <1>3, <2>1
    <3> QED
      BY <1>6, <3>1
  <2>3. u[i] = IF i <= Len(s) - 1 THEN a[i] ELSE t[i - (Len(s) - 1)]
    BY <1>1, <1>3, <1>4, <2>1
  <2>4. v[i + 1] = IF i + 1 <= Len(s) THEN s[i + 1] ELSE t[i + 1 - Len(s)]
    BY <1>1, <1>2, <1>3, <2>1
  <2>5. CASE i <= Len(s) - 1
    BY <1>1, <1>3, <2>1, <2>2, <2>3, <2>4, <2>5 DEF a
  <2>6. CASE i > Len(s) - 1
    <3>1. i - (Len(s) - 1) = i + 1 - Len(s)
      BY <1>1, <2>1
    <3> QED
      BY <1>1, <2>1, <2>2, <2>3, <2>4, <2>6, <3>1
  <2> QED
    BY <1>1, <2>1, <2>5, <2>6
<1>10. u = b
  BY <1>1, <1>2, <1>3, <1>4, <1>6, <1>7, <1>9, SeqEqual
<1> QED
  BY <1>2, <1>5, <1>8, <1>10 DEF a, b, u, v

\* A new item at the end of a continuation
LEMMA AppendToConcat ==
  ASSUME NEW S, NEW s \in Seq(S), NEW t \in Seq(S), NEW e \in S
  PROVE  s \o Append(t, e) = Append(s \o t, e)
<1>1. PICK u \in Seq(S) : u = <<e>>
  <2>1. <<e>> \in Seq(S)
    OBVIOUS
  <2> QED
    BY <2>1, Zenon
<1>2. Append(t, e) = t \o u /\ Append(s \o t, e) = (s \o t) \o u
  BY <1>1, ConcatProperties, AppendIsConcat
<1> QED
  BY <1>2, ConcatAssociative
-----------------------------------------------------------------------------
(* Work and its lists                                                       *)

LEMMA WorkItems ==
  ASSUME NEW p \in Seq(Nat)
  PROVE  /\ Null \notin WorkOf(p)
         /\ \A item \in WorkOf(p) :
              \E n \in DOMAIN p : \E i \in 1 .. p[n] :
                /\ n \in Nat \ {0} /\ i \in Nat \ {0}
                /\ \A l \in 1 .. n : p[l] > 0
                /\ item = <<n, i>> /\ item[1] = n /\ item[2] = i
         /\ \A n \in DOMAIN p : \A i \in 1 .. p[n] :
              (\A l \in 1 .. n : p[l] > 0) => <<n, i>> \in WorkOf(p)
<1>1. DOMAIN p = 1 .. Len(p) /\ Len(p) \in Nat /\ \A n \in DOMAIN p : p[n] \in Nat
  BY LenProperties, ElementOfSeq
<1>2. ASSUME NEW item \in WorkOf(p)
      PROVE  \E n \in DOMAIN p : \E i \in 1 .. p[n] :
               /\ n \in Nat \ {0} /\ i \in Nat \ {0}
               /\ \A l \in 1 .. n : p[l] > 0
               /\ item = <<n, i>> /\ item[1] = n /\ item[2] = i
  <2>1. PICK n \in DOMAIN p : (\A l \in 1 .. n : p[l] > 0)
                                /\ item \in {<<n, i>> : i \in 1 .. p[n]}
    BY DEF WorkOf
  <2>2. PICK i \in 1 .. p[n] : item = <<n, i>>
    BY <2>1
  <2>3. n \in Nat \ {0} /\ i \in Nat \ {0}
    BY <1>1
  <2> QED
    BY <2>1, <2>2, <2>3
<1>3. Null \notin WorkOf(p)
  <2> SUFFICES ASSUME Null \in WorkOf(p) PROVE FALSE
    OBVIOUS
  <2>1. PICK n \in DOMAIN p : n \in Nat \ {0} /\ Null[1] = n
    BY <1>2
  <2> QED
    BY <2>1 DEF Null
<1>4. \A n \in DOMAIN p : \A i \in 1 .. p[n] :
        (\A l \in 1 .. n : p[l] > 0) => <<n, i>> \in WorkOf(p)
  BY DEF WorkOf
<1> QED
  BY <1>2, <1>3, <1>4

\* A call returns the items of its list in turn, and an empty list ends the work.
LEMMA ListItems ==
  ASSUME plan \in Seq(Nat), NEW n \in Nat \ {0},
         \A l \in 1 .. n - 1 : l \in DOMAIN plan /\ plan[l] > 0
  PROVE  /\ ListOf(n) \in Seq(Work)
         /\ DOMAIN ListOf(n) \subseteq Nat \ {0}
         /\ \A i \in DOMAIN ListOf(n) : ListOf(n)[i] = <<n, i>>
         /\ Range(ListOf(n)) = {item \in Work : item[1] = n}
         /\ ListOf(n) # << >> => n \in DOMAIN plan /\ \A l \in 1 .. n : plan[l] > 0
         /\ ListOf(n) = << >> => \A item \in Work : item[1] < n
<1>1. DOMAIN plan = 1 .. Len(plan) /\ Len(plan) \in Nat
      /\ \A m \in DOMAIN plan : plan[m] \in Nat
  BY LenProperties, ElementOfSeq
<1>2. \A item \in Work :
        \E m \in DOMAIN plan : \E i \in 1 .. plan[m] :
          /\ m \in Nat \ {0} /\ i \in Nat \ {0}
          /\ \A l \in 1 .. m : plan[l] > 0
          /\ item = <<m, i>> /\ item[1] = m /\ item[2] = i
  BY WorkItems DEF Work
<1>3. CASE n \in DOMAIN plan /\ plan[n] > 0
  <2>1. \A l \in 1 .. n : plan[l] > 0
    BY <1>3
  <2>2. \A i \in 1 .. plan[n] : <<n, i>> \in Work
    BY <1>3, <2>1, WorkItems DEF Work
  <2>3. ListOf(n) = [i \in 1 .. plan[n] |-> <<n, i>>]
    BY <1>3 DEF ListOf
  <2>4. plan[n] \in Nat /\ DOMAIN ListOf(n) = 1 .. plan[n]
    BY <1>1, <1>3, <2>3
  <2>5. ListOf(n) \in Seq(Work)
    <3>1. ListOf(n) \in [1 .. plan[n] -> Work]
      BY <2>2, <2>3
    <3> HIDE DEF ListOf, Work
    <3> QED
      BY <2>4, <3>1, SeqDef
  <2>6. \A i \in DOMAIN ListOf(n) : ListOf(n)[i] = <<n, i>>
    BY <2>3, <2>4
  <2>7. Range(ListOf(n)) \subseteq {item \in Work : item[1] = n}
    <3>1. \A i \in 1 .. plan[n] : <<n, i>> \in {item \in Work : item[1] = n}
      BY <2>2
    <3>2. \A i \in DOMAIN ListOf(n) : ListOf(n)[i] \in {item \in Work : item[1] = n}
      BY <2>4, <2>6, <3>1, Zenon
    <3> QED
      BY <3>2 DEF Range
  <2>8. {item \in Work : item[1] = n} \subseteq Range(ListOf(n))
    <3> SUFFICES ASSUME NEW item \in Work, item[1] = n
                 PROVE  item \in Range(ListOf(n))
      OBVIOUS
    <3>1. PICK i \in 1 .. plan[n] : item = <<n, i>>
      BY <1>2
    <3> QED
      BY <2>4, <2>6, <3>1 DEF Range
  <2>9. ListOf(n) # << >>
    BY <1>3, <2>4, <2>5, EmptySeq, LenProperties
  <2> QED
    BY <1>3, <2>1, <2>4, <2>5, <2>6, <2>7, <2>8, <2>9
<1>4. CASE ~ (n \in DOMAIN plan /\ plan[n] > 0)
  <2>1. ListOf(n) = << >>
    <3>1. CASE n \notin DOMAIN plan
      BY <3>1 DEF ListOf
    <3>2. CASE n \in DOMAIN plan
      <4>1. plan[n] = 0
        BY <1>1, <1>4, <3>2
      <4> QED
        BY <3>2, <4>1 DEF ListOf
    <3> QED
      BY <3>1, <3>2
  <2>2. \A item \in Work : item[1] < n
    <3> SUFFICES ASSUME NEW item \in Work PROVE item[1] < n
      OBVIOUS
    <3>1. PICK m \in DOMAIN plan : /\ m \in Nat \ {0} /\ item[1] = m
                                   /\ \A l \in 1 .. m : plan[l] > 0
      BY <1>2
    <3>2. ~ n <= m
      BY <1>1, <1>4, <3>1
    <3> QED
      BY <3>1, <3>2
  <2>3. {item \in Work : item[1] = n} = {}
    <3> SUFFICES ASSUME NEW item \in Work, item[1] = n PROVE FALSE
      OBVIOUS
    <3> QED
      BY <2>2
  <2>4. ListOf(n) \in Seq(Work) /\ DOMAIN ListOf(n) = {} /\ Range(ListOf(n)) = {}
    BY <2>1, EmptySeq DEF Range
  <2> QED
    BY <2>1, <2>2, <2>3, <2>4
<1> QED
  BY <1>3, <1>4

LEMMA Types ==
  ASSUME TypeOK
  PROVE  /\ plan \in Seq(Nat) /\ calls \in Nat /\ Len(plan) \in Nat
         /\ batch \in Seq(Work) /\ workPool \in Seq(Work)
         /\ resultPool \in Seq(Work) /\ aggregated \in Seq(Work)
         /\ Queue \in Seq(Work) /\ Results \in Seq(Work)
         /\ held \in [Workers -> Work \cup {Null}]
         /\ InHand \subseteq Work /\ Null \notin Work
<1>1. plan \in Seq(Nat)
  BY PlansAssumption DEF TypeOK
<1>2. Len(plan) \in Nat
  BY <1>1, LenProperties
<1>3. calls \in Nat
  BY <1>2 DEF TypeOK
<1>4. /\ batch \in Seq(Work) /\ workPool \in Seq(Work)
      /\ resultPool \in Seq(Work) /\ aggregated \in Seq(Work)
  BY DEF TypeOK
<1>5. Queue \in Seq(Work) /\ Results \in Seq(Work)
  BY <1>4, ConcatProperties DEF Queue, Results
<1>6. held \in [Workers -> Work \cup {Null}] /\ InHand \subseteq Work
  BY DEF TypeOK, InHand
<1>7. Null \notin Work
  BY <1>1, WorkItems DEF Work
<1> QED
  BY <1>1, <1>2, <1>3, <1>4, <1>5, <1>6, <1>7

-----------------------------------------------------------------------------
(* How work flows                                                           *)

Flow == Conserved /\ StartedInOrder /\ BoundedOvertaking

\* Moving an item within one of the two lists changes nothing that Flow looks at.
LEMMA QuietFlow ==
  ASSUME Flow, plan' = plan, calls' = calls, held' = held,
         Queue' = Queue, Results' = Results
  PROVE  Flow'
<1>1. Work' = Work
  BY DEF Work
<1>2. InHand' = InHand /\ Generated' = Generated
  BY <1>1 DEF InHand, Generated
<1>3. Started' = Started
  BY <1>2 DEF Started
<1>4. Conserved'
  BY <1>2, <1>3 DEF Flow, Conserved
<1>5. StartedInOrder'
  BY <1>1, <1>3 DEF Flow, StartedInOrder
<1>6. BoundedOvertaking'
  BY <1>1 DEF Flow, BoundedOvertaking, Results
<1> QED
  BY <1>4, <1>5, <1>6 DEF Flow

\* A new list continues the queue: its items are younger than all there have been.
LEMMA GenerateFlow ==
  ASSUME IInv, Generate
  PROVE  Flow'
<1> DEFINE n == calls + 1
<1>1. /\ plan \in Seq(Nat) /\ calls \in Nat /\ Len(plan) \in Nat
      /\ workPool \in Seq(Work) /\ Queue \in Seq(Work) /\ Results \in Seq(Work)
  BY Types DEF IInv
<1>2. /\ plan' = plan /\ held' = held /\ calls' = n /\ n \in Nat \ {0}
      /\ workPool' = workPool /\ Results' = Results
  BY <1>1 DEF Generate, Results
<1>3. batch' = ListOf(n)
  BY <1>2 DEF Generate, ListOf
<1>4. batch = << >> /\ \A l \in 1 .. n - 1 : l \in DOMAIN plan /\ plan[l] > 0
  <2>1. DOMAIN plan = 1 .. Len(plan)
    BY <1>1, LenProperties
  <2> QED
    BY <1>1, <2>1 DEF Generate, IInv, Control
<1>5. Queue = workPool /\ Queue' = Queue \o ListOf(n)
  BY <1>1, <1>2, <1>3, <1>4, ConcatEmptySeq DEF Queue
<1>6. /\ ListOf(n) \in Seq(Work)
      /\ DOMAIN ListOf(n) \subseteq Nat \ {0}
      /\ \A i \in DOMAIN ListOf(n) : ListOf(n)[i] = <<n, i>>
      /\ Range(ListOf(n)) = {item \in Work : item[1] = n}
  BY <1>1, <1>2, <1>4, ListItems
<1>7. Work' = Work /\ InHand' = InHand /\ Started' = Started
  BY <1>2 DEF Work, InHand, Started
<1>8. /\ Generated = {item \in Work : item[1] <= calls}
      /\ Generated' = {item \in Work : item[1] <= n}
  BY <1>2, <1>7 DEF Generated
<1>9. Generated = Started \cup Range(Queue)
  BY DEF IInv, Conserved
<1>10. \A item \in Work : item[1] \in Nat /\ item[2] \in Nat \ {0}
  BY <1>1, WorkItems DEF Work
<1>11. Generated' = Generated \cup Range(ListOf(n))
  BY <1>1, <1>6, <1>8, <1>10
<1>12. Generated \cap Range(ListOf(n)) = {}
  BY <1>1, <1>6, <1>8, <1>10
<1>13. Conserved'
  <2>1. IsInjective(ListOf(n))
    <3> SUFFICES ASSUME NEW i \in DOMAIN ListOf(n), NEW h \in DOMAIN ListOf(n),
                        ListOf(n)[i] = ListOf(n)[h]
                 PROVE  i = h
      BY DEF IsInjective
    <3>1. <<n, i>> = <<n, h>>
      BY <1>6
    <3> QED
      BY <3>1
  <2>2. /\ Range(Queue') = Range(Queue) \cup Range(ListOf(n))
        /\ IsInjective(Queue')
    BY <1>1, <1>5, <1>6, <1>9, <1>12, <2>1, ConcatInjective DEF IInv, Conserved
  <2>3. Range(Queue') \cap Started = {}
    BY <1>9, <1>12, <2>2 DEF IInv, Conserved
  <2>4. Generated' = Started \cup Range(Queue')
    BY <1>9, <1>11, <2>2
  <2> QED
    BY <1>2, <1>7, <2>2, <2>3, <2>4 DEF IInv, Conserved
<1>14. StartedInOrder'
  <2>1. \A x \in Started' : \A item \in Work' : Older(item, x) => item \in Started'
    BY <1>7 DEF IInv, StartedInOrder
  <2>2. ASSUME NEW i \in DOMAIN Queue', NEW item \in Work, Older(item, Queue'[i])
        PROVE  item \in Started \cup {Queue'[h] : h \in 1 .. i - 1}
    <3>1. /\ Len(Queue) \in Nat /\ DOMAIN Queue = 1 .. Len(Queue)
          /\ Len(ListOf(n)) \in Nat /\ DOMAIN ListOf(n) = 1 .. Len(ListOf(n))
          /\ DOMAIN Queue' = 1 .. Len(Queue) + Len(ListOf(n))
          /\ \A h \in 1 .. Len(Queue) + Len(ListOf(n)) :
               Queue'[h] = IF h <= Len(Queue) THEN Queue[h]
                                              ELSE ListOf(n)[h - Len(Queue)]
      BY <1>1, <1>5, <1>6, ConcatProperties, LenProperties
    <3>2. CASE i <= Len(Queue)
      <4>1. i \in DOMAIN Queue /\ Queue'[i] = Queue[i]
        BY <3>1, <3>2
      <4>2. item \in Started \cup {Queue[h] : h \in 1 .. i - 1}
        BY <2>2, <4>1 DEF IInv, StartedInOrder
      <4>3. \A h \in 1 .. i - 1 : Queue'[h] = Queue[h]
        BY <3>1, <3>2
      <4> QED
        BY <4>2, <4>3
    <3>3. CASE i > Len(Queue)
      <4> DEFINE k == i - Len(Queue)
      <4>1. k \in DOMAIN ListOf(n) /\ k \in Nat \ {0} /\ i = Len(Queue) + k
        BY <3>1, <3>3
      <4>2. Queue'[i] = <<n, k>>
        BY <1>6, <3>1, <3>3, <4>1
      <4> HIDE DEF k
      <4>3. item[1] < n \/ (item[1] = n /\ item[2] < k)
        BY <2>2, <4>2 DEF Older
      <4>4. CASE item[1] < n
        <5>1. item \in Started \cup Range(Queue)
          BY <1>1, <1>8, <1>9, <1>10, <4>4
        <5>2. \A h \in DOMAIN Queue : h \in 1 .. i - 1 /\ Queue'[h] = Queue[h]
          BY <3>1, <3>3
        <5> QED
          BY <5>1, <5>2 DEF Range
      <4>5. CASE item[1] = n /\ item[2] < k
        <5>1. PICK h \in DOMAIN ListOf(n) : item = ListOf(n)[h]
          BY <1>6, <4>5 DEF Range
        <5>2. item = <<n, h>> /\ h < k
          BY <1>6, <4>5, <5>1
        <5>3. Len(Queue) + h \in 1 .. i - 1 /\ Queue'[Len(Queue) + h] = item
          BY <1>6, <3>1, <4>1, <5>1, <5>2
        <5> QED
          BY <5>3
      <4> QED
        BY <4>3, <4>4, <4>5
    <3> QED
      BY <3>1, <3>2, <3>3
  <2> QED
    BY <1>7, <2>1, <2>2 DEF StartedInOrder
<1>15. BoundedOvertaking'
  BY <1>2, <1>7 DEF IInv, BoundedOvertaking, Results
<1> QED
  BY <1>13, <1>14, <1>15 DEF Flow

\* A worker takes the oldest work that is queued.
LEMMA TakeFlow ==
  ASSUME IInv, NEW w \in Workers, GetWork(w), workPool # << >>
  PROVE  Flow'
<1> DEFINE e == Head(Queue)
<1>1. /\ plan \in Seq(Nat) /\ calls \in Nat
      /\ workPool \in Seq(Work) /\ batch \in Seq(Work)
      /\ Queue \in Seq(Work) /\ Results \in Seq(Work)
      /\ held \in [Workers -> Work \cup {Null}] /\ Null \notin Work
  BY Types DEF IInv
<1>2. /\ plan' = plan /\ calls' = calls /\ batch' = batch /\ Results' = Results
      /\ held' = [held EXCEPT ![w] = Head(workPool)] /\ workPool' = Tail(workPool)
  BY DEF GetWork, TakeWork, generatorVars, Results
<1>3. Queue # << >> /\ Head(workPool) = e /\ Queue' = Tail(Queue)
  BY <1>1, <1>2, TailOfConcat DEF Queue
<1>4. /\ e \in Work /\ e = Queue[1] /\ 1 \in DOMAIN Queue
      /\ DOMAIN Queue = 1 .. Len(Queue) /\ Len(Queue) \in Nat \ {0}
      /\ DOMAIN Tail(Queue) = 1 .. Len(Queue) - 1
      /\ \A i \in DOMAIN Tail(Queue) :
           i + 1 \in DOMAIN Queue /\ Tail(Queue)[i] = Queue[i + 1]
      /\ Range(Queue) = Range(Tail(Queue)) \cup {e}
      /\ IsInjective(Tail(Queue)) /\ e \notin Range(Tail(Queue))
  BY <1>1, <1>3, HeadAndTail DEF IInv, Conserved
<1> HIDE DEF e
<1>5. /\ held' \in [Workers -> Work \cup {Null}]
      /\ held[w] = Null /\ held'[w] = e /\ \A v \in Workers \ {w} : held'[v] = held[v]
  BY <1>1, <1>2, <1>3, <1>4 DEF GetWork, IInv, Control
<1>6. InHand' = InHand \cup {e}
  BY <1>1, <1>4, <1>5 DEF InHand
<1>7. Work' = Work /\ Generated' = Generated
  BY <1>2 DEF Work, Generated
<1>8. Started' = Started \cup {e}
  BY <1>2, <1>6 DEF Started
<1>9. e \notin Started
  BY <1>4 DEF IInv, Conserved
<1>10. Conserved'
  <2>1. Generated' = Started' \cup Range(Queue')
    BY <1>3, <1>4, <1>7, <1>8 DEF IInv, Conserved
  <2>2. IsInjective(Queue') /\ IsInjective(Results') /\ Range(Queue') \cap Started' = {}
    BY <1>2, <1>3, <1>4, <1>8 DEF IInv, Conserved
  <2>3. Range(Results') \cap InHand' = {}
    BY <1>2, <1>6, <1>9 DEF IInv, Conserved, Started
  <2>4. \A v \in Workers \ {w} : held'[v] # e
    BY <1>1, <1>4, <1>5, <1>9 DEF Started, InHand
  <2>5. \A v, u \in Workers : held'[v] = held'[u] /\ v # u => held'[v] = Null
    BY <1>5, <2>4 DEF IInv, Conserved
  <2> QED
    BY <2>1, <2>2, <2>3, <2>5 DEF Conserved
<1>11. StartedInOrder'
  <2>1. \A i \in DOMAIN Queue : \A item \in Work :
          Older(item, Queue[i]) => item \in Started \cup {Queue[h] : h \in 1 .. i - 1}
    BY DEF IInv, StartedInOrder
  <2>2. \A item \in Work : Older(item, e) => item \in Started
    <3>1. \A item \in Work :
            Older(item, e) => item \in Started \cup {Queue[h] : h \in 1 .. 1 - 1}
      BY <1>4, <2>1
    <3> QED
      BY <3>1
  <2>3. \A x \in Started' : \A item \in Work' : Older(item, x) => item \in Started'
    BY <1>7, <1>8, <2>2 DEF IInv, StartedInOrder
  <2>4. ASSUME NEW i \in DOMAIN Tail(Queue), NEW item \in Work,
               Older(item, Tail(Queue)[i])
        PROVE  item \in Started \cup {e} \cup {Tail(Queue)[h] : h \in 1 .. i - 1}
    <3>1. i + 1 \in DOMAIN Queue /\ Tail(Queue)[i] = Queue[i + 1]
      BY <1>4
    <3>2. item \in Started \cup {Queue[h] : h \in 1 .. (i + 1) - 1}
      BY <2>1, <2>4, <3>1
    <3>3. SUFFICES ASSUME NEW h \in 1 .. (i + 1) - 1, item = Queue[h]
                   PROVE  item \in {e} \cup {Tail(Queue)[g] : g \in 1 .. i - 1}
      BY <3>2
    <3>4. CASE h = 1
      BY <1>4, <3>3, <3>4
    <3>5. CASE h # 1
      <4>1. h - 1 \in 1 .. i - 1 /\ h - 1 \in DOMAIN Tail(Queue) /\ (h - 1) + 1 = h
        BY <1>4, <3>5
      <4> QED
        BY <1>4, <3>3, <4>1
    <3> QED
      BY <3>4, <3>5
  <2> QED
    BY <1>3, <1>7, <1>8, <2>3, <2>4 DEF StartedInOrder
<1>12. BoundedOvertaking'
  BY <1>2, <1>7 DEF IInv, BoundedOvertaking, Results
<1> QED
  BY <1>10, <1>11, <1>12 DEF Flow

\* What is older than a new result and no result yet is in the hands of others.
LEMMA PutResultFlow ==
  ASSUME IInv, NEW w \in Workers, PutResult(w)
  PROVE  Flow'
<1> DEFINE e == held[w]
<1>1. /\ plan \in Seq(Nat) /\ calls \in Nat
      /\ aggregated \in Seq(Work) /\ resultPool \in Seq(Work)
      /\ Queue \in Seq(Work) /\ Results \in Seq(Work)
      /\ held \in [Workers -> Work \cup {Null}] /\ Null \notin Work
      /\ InHand \subseteq Work
  BY Types DEF IInv
<1>2. /\ plan' = plan /\ calls' = calls /\ Queue' = Queue
      /\ held' = [held EXCEPT ![w] = Null]
      /\ aggregated' = aggregated /\ resultPool' = Append(resultPool, e)
  BY DEF PutResult, generatorVars, Queue
<1>3. e \in Work
  BY <1>1 DEF PutResult, IInv, Control
<1>4. Results' = Append(Results, e)
  BY <1>1, <1>2, <1>3, AppendToConcat DEF Results
<1>5. /\ held'[w] = Null /\ \A v \in Workers \ {w} : held'[v] = held[v]
      /\ \A v \in Workers \ {w} : held[v] # e
  BY <1>1, <1>2, <1>3 DEF IInv, Conserved
<1> HIDE DEF e
<1>6. InHand' = InHand \ {e} /\ e \in InHand
  <2>1. e \in InHand
    BY <1>1, <1>3 DEF InHand, e
  <2>2. InHand' \subseteq InHand \ {e}
    BY <1>5 DEF InHand
  <2>3. ASSUME NEW v \in Workers, held[v] # Null, held[v] # e
        PROVE  held[v] \in InHand'
    <3>1. v # w
      BY <2>3 DEF e
    <3>2. held'[v] = held[v]
      BY <1>5, <3>1
    <3> QED
      BY <2>3, <3>2 DEF InHand
  <2>4. InHand \ {e} \subseteq InHand'
    BY <2>3 DEF InHand
  <2> QED
    BY <2>1, <2>2, <2>4
<1>7. /\ Range(Append(Results, e)) = Range(Results) \cup {e}
      /\ IsInjective(Results) /\ e \notin Range(Results) =>
           IsInjective(Append(Results, e))
  BY <1>1, <1>3, AppendInjectiveRange
<1>8. Work' = Work /\ Generated' = Generated
  BY <1>2 DEF Work, Generated
<1>9. Started' = Started
  BY <1>4, <1>6, <1>7 DEF Started
<1>10. Conserved'
  <2>1. IsInjective(Results')
    BY <1>4, <1>6, <1>7 DEF IInv, Conserved
  <2>2. Range(Results') \cap InHand' = {}
    BY <1>4, <1>6, <1>7 DEF IInv, Conserved
  <2>3. \A v, u \in Workers : held'[v] = held'[u] /\ v # u => held'[v] = Null
    BY <1>5 DEF IInv, Conserved
  <2> QED
    BY <1>2, <1>8, <1>9, <2>1, <2>2, <2>3 DEF IInv, Conserved
<1>11. StartedInOrder'
  BY <1>2, <1>8, <1>9 DEF IInv, StartedInOrder
<1>12. BoundedOvertaking'
  <2>1. /\ Len(Results) \in Nat /\ DOMAIN Results = 1 .. Len(Results)
        /\ DOMAIN Results' = 1 .. Len(Results) + 1
        /\ \A i \in 1 .. Len(Results) : Results'[i] = Results[i]
        /\ Results'[Len(Results) + 1] = e
    <3>1. /\ Results' \in Seq(Work) /\ Len(Results') = Len(Results) + 1
          /\ \A i \in 1 .. Len(Results) : Results'[i] = Results[i]
          /\ Results'[Len(Results) + 1] = e
      BY <1>1, <1>3, <1>4, AppendProperties
    <3> QED
      BY <1>1, <3>1, LenProperties
  <2> SUFFICES ASSUME NEW i \in DOMAIN Results'
               PROVE  Cardinality({item \in Work \ {Results'[h] : h \in 1 .. i - 1} :
                                     Older(item, Results'[i])})
                        < Cardinality(Workers)
    BY <1>8 DEF BoundedOvertaking, Results
  <2>2. CASE i \in DOMAIN Results
    <3>1. /\ Results'[i] = Results[i]
          /\ {Results'[h] : h \in 1 .. i - 1} = {Results[h] : h \in 1 .. i - 1}
      BY <2>1, <2>2
    <3> QED
      BY <2>2, <3>1 DEF IInv, BoundedOvertaking, Results
  <2>3. CASE i = Len(Results) + 1
    <3> DEFINE T == {item \in Work \ {Results'[h] : h \in 1 .. i - 1} :
                       Older(item, Results'[i])}
               others == Workers \ {w}
               f == [v \in others |-> held[v]]
               H == {held[v] : v \in others}
    <3>1. Results'[i] = e /\ {Results'[h] : h \in 1 .. i - 1} = Range(Results)
      BY <2>1, <2>3 DEF Range
    <3>2. ASSUME NEW item \in T PROVE item \in H
      <4>1. item \in Work /\ item \notin Range(Results) /\ Older(item, e)
        BY <3>1
      <4>2. item \in Started
        BY <1>6, <4>1 DEF IInv, StartedInOrder, Started
      <4>3. PICK v \in Workers : item = held[v]
        BY <4>1, <4>2 DEF Started, InHand
      <4>4. item # e
        <5>1. e[1] \in Nat /\ e[2] \in Nat
          BY <1>1, <1>3, WorkItems DEF Work
        <5> QED
          BY <4>1, <5>1 DEF Older
      <4> QED
        BY <4>3, <4>4 DEF e
    <3>3. /\ IsFiniteSet(others) /\ Cardinality(others) = Cardinality(Workers) - 1
          /\ Cardinality(Workers) \in Nat
      BY WorkersAssumption, FS_RemoveElement, FS_CardinalityType
    <3>4. f \in Surjection(others, H)
      BY DEF Surjection
    <3>5. IsFiniteSet(H) /\ Cardinality(H) <= Cardinality(others)
      BY <3>3, <3>4, FS_Surjection
    <3>6. Cardinality(H) \in Nat
      BY <3>5, FS_CardinalityType
    <3>7. T \in SUBSET H
      BY <3>2
    <3>8. IsFiniteSet(T) /\ Cardinality(T) <= Cardinality(H)
      BY <3>5, <3>7, FS_Subset
    <3>9. Cardinality(T) \in Nat
      BY <3>8, FS_CardinalityType
    <3> HIDE DEF T, others, H
    <3>10. Cardinality(T) < Cardinality(Workers)
      BY <3>3, <3>5, <3>6, <3>8, <3>9
    <3> QED
      BY <3>10 DEF T
  <2> QED
    BY <2>1, <2>2, <2>3
<1> QED
  BY <1>10, <1>11, <1>12 DEF Flow

-----------------------------------------------------------------------------
(* Where the threads stand                                                  *)

LEMMA InitInv ==
  ASSUME Init
  PROVE  IInv
<1>1. plan \in Plans /\ plan \in Seq(Nat) /\ Len(plan) \in Nat
  BY PlansAssumption, LenProperties DEF Init
<1>2. Null \notin Work
  BY <1>1, WorkItems DEF Work
<1>3. InHand = {}
  BY DEF Init, InHand
<1>4. Queue = << >> /\ Results = << >> /\ Range(<< >>) = {}
  <2>1. << >> \in Seq(Work)
    BY EmptySeq
  <2> QED
    BY <2>1, ConcatEmptySeq DEF Init, Queue, Results, Range
<1>5. Generated = {}
  <2>1. \A item \in Work : item[1] \in Nat \ {0}
    BY <1>1, WorkItems DEF Work
  <2> QED
    BY <2>1 DEF Init, Generated
<1>6. TypeOK
  <2>1. 0 \in 0 .. Len(plan) + 1 /\ << >> \in Seq(Work)
    BY <1>1, EmptySeq
  <2> QED
    BY <2>1 DEF Init, TypeOK
<1>7. Control
  BY <1>1 DEF Init, Control
<1>8. NoLostWakeup
  BY DEF Init, NoLostWakeup, Waiting
<1>9. Conserved
  BY <1>3, <1>4, <1>5 DEF Init, Conserved, Started, IsInjective
<1>10. StartedInOrder
  BY <1>3, <1>4 DEF StartedInOrder, Started
<1>11. BoundedOvertaking
  BY <1>4 DEF BoundedOvertaking, Results
<1> QED
  BY <1>6, <1>7, <1>8, <1>9, <1>10, <1>11 DEF IInv

LEMMA GenerateInv ==
  ASSUME IInv, Generate
  PROVE  IInv'
<1> DEFINE n == calls + 1
<1>1. /\ plan \in Seq(Nat) /\ calls \in Nat /\ Len(plan) \in Nat
      /\ DOMAIN plan = 1 .. Len(plan)
  BY Types, LenProperties DEF IInv
<1>2. plan' = plan /\ calls' = n /\ Work' = Work /\ n \in Nat \ {0}
  BY <1>1 DEF Generate, Work
<1>3. \A l \in 1 .. n - 1 : l \in DOMAIN plan /\ plan[l] > 0
  BY <1>1 DEF Generate, IInv, Control
<1>4. batch' = ListOf(n)
  BY <1>2 DEF Generate, ListOf
<1>5. /\ batch' \in Seq(Work)
      /\ batch' # << >> => n \in DOMAIN plan /\ \A l \in 1 .. n : plan[l] > 0
      /\ batch' = << >> => \A item \in Work : item[1] < n
  BY <1>1, <1>2, <1>3, <1>4, ListItems
<1>6. TypeOK'
  BY <1>1, <1>2, <1>5 DEF Generate, IInv, TypeOK, Control
<1>7. Control'
  <2>1. \A item \in Work : item[1] \in Nat
    BY <1>1, WorkItems DEF Work
  <2>2. batch' = << >> => Work' \subseteq Generated'
    BY <1>1, <1>2, <1>5, <2>1 DEF Generated
  <2> QED
    BY <1>1, <1>2, <1>5, <2>2 DEF Generate, IInv, Control
<1>8. NoLostWakeup'
  BY DEF Generate, IInv, NoLostWakeup, Waiting
<1> QED
  BY <1>6, <1>7, <1>8, GenerateFlow DEF IInv, Flow

\* What a notification leaves behind
LEMMA NotifyProperties ==
  ASSUME TypeOK
  PROVE  /\ \A to \in NotifyOne :
              /\ to \in [Workers -> {"get", "waiting", "work", "done"}]
              /\ \A w \in Workers : \/ to[w] = workerAt[w]
                                    \/ workerAt[w] = "waiting" /\ to[w] = "get"
              /\ Waiting # {} => \E w \in Workers : to[w] = "get"
         /\ NotifyAll \in [Workers -> {"get", "waiting", "work", "done"}]
         /\ \A w \in Workers :
              NotifyAll[w] = IF workerAt[w] = "waiting" THEN "get" ELSE workerAt[w]
  BY DEF TypeOK, NotifyOne, NotifyAll, Waiting

LEMMA PutWorkInv ==
  ASSUME IInv, PutWork
  PROVE  IInv'
<1>1. /\ plan \in Seq(Nat) /\ calls \in Nat
      /\ batch \in Seq(Work) /\ workPool \in Seq(Work)
  BY Types DEF IInv
<1>2. batch # << >>
  BY DEF PutWork, IInv, Control
<1>3. /\ plan' = plan /\ calls' = calls /\ held' = held
      /\ Work' = Work /\ Generated' = Generated /\ Results' = Results
  BY DEF PutWork, Work, Generated, Results
<1>4. /\ workPool' \in Seq(Work) /\ batch' \in Seq(Work) /\ Queue' = Queue
  BY <1>1, <1>2, MoveItem DEF PutWork, Queue
<1>5. /\ workerAt' \in [Workers -> {"get", "waiting", "work", "done"}]
      /\ \A w \in Workers : \/ workerAt'[w] = workerAt[w]
                            \/ workerAt[w] = "waiting" /\ workerAt'[w] = "get"
      /\ Waiting # {} => \E w \in Workers : workerAt'[w] = "get"
  BY NotifyProperties DEF PutWork, IInv
<1>6. ~ generationFinished /\ ~ generationFinished'
  BY DEF PutWork, IInv, Control
<1>7. TypeOK'
  BY <1>3, <1>4, <1>5 DEF PutWork, IInv, TypeOK
<1>8. Control'
  <2>1. \A w \in Workers : workerAt'[w] = "work" <=> workerAt[w] = "work"
    BY <1>5
  <2>2. \A w \in Workers : workerAt[w] # "done" /\ workerAt'[w] # "done"
    BY <1>5, <1>6 DEF IInv, Control
  <2>3. ~ workFinished /\ ~ workFinished'
    BY <2>2, WorkersAssumption DEF PutWork, IInv, Control
  <2> QED
    BY <1>2, <1>3, <1>6, <2>1, <2>2, <2>3 DEF PutWork, IInv, Control
<1>9. NoLostWakeup'
  <2>1. \E w \in Workers : workerAt'[w] \in {"get", "work"}
    <3>1. CASE Waiting # {}
      BY <1>5, <3>1
    <3>2. CASE Waiting = {}
      <4>1. \A w \in Workers : workerAt[w] \in {"get", "work"}
        BY <1>6, <3>2 DEF IInv, TypeOK, Control, Waiting
      <4> QED
        BY <1>5, <4>1, WorkersAssumption
    <3> QED
      BY <3>1, <3>2
  <2> QED
    BY <1>6, <2>1 DEF PutWork, IInv, NoLostWakeup
<1> QED
  BY <1>3, <1>4, <1>7, <1>8, <1>9, QuietFlow DEF IInv, Flow

LEMMA FinishGenerationInv ==
  ASSUME IInv, FinishGeneration
  PROVE  IInv'
<1>1. /\ plan' = plan /\ calls' = calls /\ held' = held
      /\ Work' = Work /\ Generated' = Generated /\ Results' = Results /\ Queue' = Queue
  BY DEF FinishGeneration, Work, Generated, Results, Queue
<1>2. /\ workerAt' \in [Workers -> {"get", "waiting", "work", "done"}]
      /\ \A w \in Workers :
           workerAt'[w] = IF workerAt[w] = "waiting" THEN "get" ELSE workerAt[w]
  BY NotifyProperties DEF FinishGeneration, IInv
<1>3. TypeOK'
  BY <1>1, <1>2 DEF FinishGeneration, IInv, TypeOK
<1>4. Control'
  BY <1>1, <1>2 DEF FinishGeneration, IInv, Control
<1>5. NoLostWakeup'
  <2>1. Waiting' = {}
    BY <1>2 DEF Waiting
  <2> QED
    BY <1>2, <2>1 DEF FinishGeneration, IInv, NoLostWakeup
<1> QED
  BY <1>1, <1>3, <1>4, <1>5, QuietFlow DEF IInv, Flow

LEMMA GetWorkInv ==
  ASSUME IInv, NEW w \in Workers, GetWork(w)
  PROVE  IInv'
<1>1. /\ plan' = plan /\ calls' = calls /\ Work' = Work /\ Generated' = Generated
      /\ batch' = batch /\ Results' = Results
  BY DEF GetWork, generatorVars, Work, Generated, Results
<1>2. CASE workPool # << >>
  <2>1. /\ workPool \in Seq(Work) /\ held \in [Workers -> Work \cup {Null}]
        /\ Null \notin Work
    BY Types DEF IInv
  <2>2. Head(workPool) \in Work /\ Tail(workPool) \in Seq(Work)
    BY <1>2, <2>1, HeadAndTail
  <2>3. /\ held' = [held EXCEPT ![w] = Head(workPool)] /\ workPool' = Tail(workPool)
        /\ workerAt' = [workerAt EXCEPT ![w] = "work"]
    BY <1>2 DEF GetWork, TakeWork
  <2>4. TypeOK'
    BY <1>1, <2>2, <2>3 DEF GetWork, generatorVars, IInv, TypeOK
  <2>5. Control'
    <3>1. \A v \in Workers : workerAt[v] # "done" /\ workerAt'[v] # "done"
      BY <1>2, <2>3 DEF GetWork, IInv, TypeOK, Control
    <3>2. \A v \in Workers : held'[v] # Null <=> workerAt'[v] = "work"
      BY <2>1, <2>2, <2>3 DEF IInv, TypeOK, Control
    <3> QED
      BY <1>1, <3>1, <3>2, WorkersAssumption DEF GetWork, generatorVars, IInv, Control
  <2>6. NoLostWakeup'
    BY <2>3 DEF GetWork, IInv, TypeOK, NoLostWakeup, Waiting
  <2> QED
    BY <1>2, <2>4, <2>5, <2>6, TakeFlow DEF IInv, Flow
<1>3. CASE workPool = << >>
  <2>1. /\ held' = held /\ workPool' = workPool
        /\ workerAt' = [workerAt EXCEPT ![w] =
                          IF generationFinished THEN "done" ELSE "waiting"]
    BY <1>3 DEF GetWork
  <2>2. TypeOK'
    BY <1>1, <2>1 DEF GetWork, generatorVars, IInv, TypeOK
  <2>3. Control'
    BY <1>1, <1>3, <2>1 DEF GetWork, generatorVars, IInv, TypeOK, Control
  <2>4. NoLostWakeup'
    BY <1>3, <2>1 DEF GetWork, IInv, TypeOK, NoLostWakeup, Waiting
  <2>5. Queue' = Queue
    BY <1>1, <2>1 DEF Queue
  <2> QED
    BY <1>1, <2>1, <2>2, <2>3, <2>4, <2>5, QuietFlow DEF IInv, Flow
<1> QED
  BY <1>2, <1>3

LEMMA PutResultInv ==
  ASSUME IInv, NEW w \in Workers, PutResult(w)
  PROVE  IInv'
<1>1. /\ plan' = plan /\ calls' = calls /\ Work' = Work /\ Generated' = Generated
  BY DEF PutResult, generatorVars, Work, Generated
<1>2. /\ resultPool \in Seq(Work) /\ held \in [Workers -> Work \cup {Null}]
  BY Types DEF IInv
<1>3. held[w] \in Work
  BY <1>2 DEF PutResult, IInv, Control
<1>4. resultPool' \in Seq(Work)
  BY <1>2, <1>3, AppendProperties DEF PutResult
<1>5. workerAt[w] = "work" /\ workerAt' = [workerAt EXCEPT ![w] = "get"]
  BY DEF PutResult
<1>6. aggregatorAt' = (IF aggregatorAt = "waiting" THEN "get" ELSE aggregatorAt)
  BY DEF PutResult, NotifyAggregator
<1>7. TypeOK'
  BY <1>1, <1>4, <1>5, <1>6 DEF PutResult, generatorVars, IInv, TypeOK
<1>8. ~ workFinished
  BY <1>5 DEF IInv, Control
<1>9. Control'
  <2>1. aggregatorAt # "done" /\ aggregatorAt' # "done"
    BY <1>6, <1>8 DEF IInv, Control
  <2>2. \A v \in Workers : held'[v] # Null <=> workerAt'[v] = "work"
    BY <1>2, <1>5 DEF PutResult, IInv, TypeOK, Control
  <2>3. \A v \in Workers : workerAt'[v] = "done" => workerAt[v] = "done"
    BY <1>5 DEF IInv, TypeOK
  <2> QED
    BY <1>1, <1>8, <2>1, <2>2, <2>3 DEF PutResult, generatorVars, IInv, Control
<1>10. NoLostWakeup'
  <2>1. workerAt'[w] = "get" /\ Waiting' = Waiting
    BY <1>5 DEF IInv, TypeOK, Waiting
  <2>2. aggregatorAt' # "waiting"
    BY <1>6
  <2> QED
    BY <2>1, <2>2 DEF PutResult, IInv, NoLostWakeup
<1> QED
  BY <1>7, <1>9, <1>10, PutResultFlow DEF IInv, Flow

LEMMA WorkerWakesInv ==
  ASSUME IInv, NEW w \in Workers, WorkerWakes(w)
  PROVE  IInv'
<1>1. /\ plan' = plan /\ calls' = calls /\ held' = held
      /\ Work' = Work /\ Generated' = Generated /\ Results' = Results /\ Queue' = Queue
  BY DEF WorkerWakes, generatorVars, Work, Generated, Results, Queue
<1>2. TypeOK'
  BY <1>1 DEF WorkerWakes, generatorVars, IInv, TypeOK
<1>3. Control'
  BY <1>1 DEF WorkerWakes, generatorVars, IInv, TypeOK, Control
<1>4. NoLostWakeup'
  BY DEF WorkerWakes, IInv, TypeOK, NoLostWakeup, Waiting
<1> QED
  BY <1>1, <1>2, <1>3, <1>4, QuietFlow DEF IInv, Flow

LEMMA GetResultInv ==
  ASSUME IInv, GetResult
  PROVE  IInv'
<1>1. /\ plan' = plan /\ calls' = calls /\ held' = held
      /\ Work' = Work /\ Generated' = Generated /\ Queue' = Queue
  BY DEF GetResult, generatorVars, Work, Generated, Queue
<1>2. aggregated \in Seq(Work) /\ resultPool \in Seq(Work)
  BY Types DEF IInv
<1>3. /\ Results' = Results
      /\ aggregated' \in Seq(Work) /\ resultPool' \in Seq(Work)
  <2>1. CASE resultPool # << >>
    BY <1>2, <2>1, MoveItem DEF GetResult, Results
  <2>2. CASE resultPool = << >>
    BY <1>2, <2>2 DEF GetResult, Results
  <2> QED
    BY <2>1, <2>2
<1>4. TypeOK'
  BY <1>1, <1>3 DEF GetResult, generatorVars, IInv, TypeOK
<1>5. Control'
  BY <1>1 DEF GetResult, generatorVars, IInv, Control
<1>6. NoLostWakeup'
  BY DEF GetResult, IInv, NoLostWakeup, Waiting
<1> QED
  BY <1>1, <1>3, <1>4, <1>5, <1>6, QuietFlow DEF IInv, Flow

\* The steps that change nothing but where the aggregator and the caller stand
LEMMA OtherInv ==
  ASSUME IInv, AggregatorWakes \/ Main \/ UNCHANGED vars
  PROVE  IInv'
<1> USE DEF generatorVars
<1>1. /\ plan' = plan /\ calls' = calls /\ held' = held
      /\ Work' = Work /\ Generated' = Generated /\ Results' = Results /\ Queue' = Queue
  BY DEF AggregatorWakes, Main, JoinGenerator, FinishWork, JoinAggregator, vars,
         Work, Generated, Results, Queue
<1>2. Flow'
  BY <1>1, QuietFlow DEF IInv, Flow
<1>3. CASE AggregatorWakes
  <2>1. TypeOK' /\ Control'
    BY <1>1, <1>3 DEF AggregatorWakes, IInv, TypeOK, Control
  <2>2. NoLostWakeup'
    BY <1>3 DEF AggregatorWakes, IInv, NoLostWakeup, Waiting
  <2> QED
    BY <1>2, <2>1, <2>2 DEF IInv, Flow
<1>4. CASE JoinGenerator
  <2>1. TypeOK' /\ Control'
    BY <1>1, <1>4 DEF JoinGenerator, IInv, TypeOK, Control
  <2>2. NoLostWakeup'
    BY <1>4 DEF JoinGenerator, IInv, NoLostWakeup, Waiting
  <2> QED
    BY <1>2, <2>1, <2>2 DEF IInv, Flow
<1>5. CASE FinishWork
  <2>1. TypeOK' /\ Control'
    BY <1>1, <1>5 DEF FinishWork, NotifyAggregator, IInv, TypeOK, Control
  <2>2. NoLostWakeup'
    BY <1>5 DEF FinishWork, NotifyAggregator, IInv, NoLostWakeup, Waiting
  <2> QED
    BY <1>2, <2>1, <2>2 DEF IInv, Flow
<1>6. CASE JoinAggregator
  <2>1. TypeOK' /\ Control'
    BY <1>1, <1>6 DEF JoinAggregator, IInv, TypeOK, Control
  <2>2. NoLostWakeup'
    BY <1>6 DEF JoinAggregator, IInv, NoLostWakeup, Waiting
  <2> QED
    BY <1>2, <2>1, <2>2 DEF IInv, Flow
<1>7. CASE UNCHANGED vars
  <2>1. TypeOK' /\ Control'
    BY <1>1, <1>7 DEF vars, IInv, TypeOK, Control
  <2>2. NoLostWakeup'
    BY <1>7 DEF vars, IInv, NoLostWakeup, Waiting
  <2> QED
    BY <1>2, <2>1, <2>2 DEF IInv, Flow
<1> QED
  BY <1>3, <1>4, <1>5, <1>6, <1>7 DEF Main

LEMMA NextInv ==
  ASSUME IInv, [Next]_vars
  PROVE  IInv'
<1>1. CASE Generator
  BY <1>1, GenerateInv, PutWorkInv, FinishGenerationInv DEF Generator
<1>2. CASE \E w \in Workers : Worker(w) \/ WorkerWakes(w)
  BY <1>2, GetWorkInv, PutResultInv, WorkerWakesInv DEF Worker
<1>3. CASE GetResult
  BY <1>3, GetResultInv
<1>4. CASE AggregatorWakes \/ Main \/ Returned \/ UNCHANGED vars
  BY <1>4, OtherInv DEF Returned
<1> QED
  BY <1>1, <1>2, <1>3, <1>4 DEF Next

\* The inductive invariant holds in every state of every run.
THEOREM MtRunnerInv == Spec => []IInv
<1>1. Init => IInv
  BY InitInv
<1>2. IInv /\ [Next]_vars => IInv'
  BY NextInv
<1> QED
  BY <1>1, <1>2, PTL DEF Spec

-----------------------------------------------------------------------------
(* What follows for the pools                                               *)

\* The threads handle nothing but work that the generation function returned,
\* and each stands where its function has a place to stand.
THEOREM MtRunnerTypeOK == Spec => []TypeOK
<1>1. IInv => TypeOK
  BY DEF IInv
<1> QED
  BY <1>1, MtRunnerInv, PTL

LEMMA ConservedInPlaces ==
  ASSUME IInv
  PROVE  WorkConserved
<1> DEFINE lists == <<batch, workPool, resultPool, aggregated>>
<1>1. /\ batch \in Seq(Work) /\ workPool \in Seq(Work)
      /\ resultPool \in Seq(Work) /\ aggregated \in Seq(Work)
  BY Types DEF IInv
<1>2. /\ Range(Queue) = Range(workPool) \cup Range(batch)
      /\ IsInjective(workPool) /\ IsInjective(batch)
      /\ Range(workPool) \cap Range(batch) = {}
  BY <1>1, ConcatInjective DEF IInv, Conserved, Queue
<1>3. /\ Range(Results) = Range(aggregated) \cup Range(resultPool)
      /\ IsInjective(aggregated) /\ IsInjective(resultPool)
      /\ Range(aggregated) \cap Range(resultPool) = {}
  BY <1>1, ConcatInjective DEF IInv, Conserved, Results
<1>4. /\ lists[1] = batch /\ lists[2] = workPool
      /\ lists[3] = resultPool /\ lists[4] = aggregated
  OBVIOUS
<1> HIDE DEF lists
<1>5. \A i \in 1 .. 4 : i = 1 \/ i = 2 \/ i = 3 \/ i = 4
  OBVIOUS
<1>6. /\ 1 \in 1 .. 4 /\ 2 \in 1 .. 4 /\ 3 \in 1 .. 4 /\ 4 \in 1 .. 4
  OBVIOUS
<1>7. UNION {Range(lists[i]) : i \in 1 .. 4} = Range(Queue) \cup Range(Results)
  <2>1. \A x : (\E i \in 1 .. 4 : x \in Range(lists[i])) <=>
                 x \in Range(Queue) \cup Range(Results)
    BY <1>2, <1>3, <1>4, <1>5, <1>6
  <2> QED
    BY <2>1
<1>8. Generated = InHand \cup UNION {Range(lists[i]) : i \in 1 .. 4}
  BY <1>7 DEF IInv, Conserved, Started
<1>9. \A i \in 1 .. 4 : IsInjective(lists[i]) /\ Range(lists[i]) \cap InHand = {}
  BY <1>2, <1>3, <1>4, <1>5 DEF IInv, Conserved, Started
<1>10. /\ Range(workPool) \cap Range(batch) = {}
       /\ Range(resultPool) \cap Range(batch) = {}
       /\ Range(resultPool) \cap Range(workPool) = {}
       /\ Range(aggregated) \cap Range(batch) = {}
       /\ Range(aggregated) \cap Range(workPool) = {}
       /\ Range(aggregated) \cap Range(resultPool) = {}
  BY <1>2, <1>3 DEF IInv, Conserved, Started
<1>11. \A i \in 1 .. 4 : \A h \in 1 .. i - 1 : Range(lists[i]) \cap Range(lists[h]) = {}
  <2> SUFFICES ASSUME NEW i \in 1 .. 4, NEW h \in 1 .. i - 1
               PROVE  Range(lists[i]) \cap Range(lists[h]) = {}
    OBVIOUS
  <2>1. \/ i = 2 /\ h = 1
        \/ i = 3 /\ (h = 1 \/ h = 2)
        \/ i = 4 /\ (h = 1 \/ h = 2 \/ h = 3)
    OBVIOUS
  <2> QED
    BY <1>4, <1>10, <2>1, Zenon
<1> QED
  BY <1>8, <1>9, <1>11 DEF WorkConserved, lists, IInv, Conserved

\* Nothing that was generated is lost between generator, pools, workers and
\* aggregator, and nothing is in two of these places, for any number of workers
\* and any generation function.
THEOREM MtRunnerWorkConserved == Spec => []WorkConserved
<1> QED
  BY ConservedInPlaces, MtRunnerInv, PTL

\* No notification of the two condition variables is lost: while a pool has
\* something to offer or the end is announced, somebody awake will look.
THEOREM MtRunnerNoLostWakeup == Spec => []NoLostWakeup
<1>1. IInv => NoLostWakeup
  BY DEF IInv
<1> QED
  BY <1>1, MtRunnerInv, PTL

\* When a result is put, less older work than there are workers has no result yet.
THEOREM MtRunnerBoundedOvertaking == Spec => []BoundedOvertaking
<1>1. IInv => BoundedOvertaking
  BY DEF IInv
<1> QED
  BY <1>1, MtRunnerInv, PTL

\* A single worker hands its results on in the order of the generation.
ResultsInOrder ==
  \A i, h \in DOMAIN aggregated : i < h => Older(aggregated[i], aggregated[h])

LEMMA NoOvertakingIsOrder ==
  ASSUME IInv, Cardinality(Workers) = 1
  PROVE  ResultsInOrder
<1>1. /\ plan \in Seq(Nat) /\ aggregated \in Seq(Work) /\ resultPool \in Seq(Work)
      /\ Results \in Seq(Work)
  BY Types DEF IInv
<1> SUFFICES ASSUME NEW i \in DOMAIN aggregated, NEW h \in DOMAIN aggregated, i < h
             PROVE  Older(aggregated[i], aggregated[h])
  BY DEF ResultsInOrder
<1>2. /\ i \in DOMAIN Results /\ h \in DOMAIN Results /\ i \in Nat /\ h \in Nat
      /\ Results[i] = aggregated[i] /\ Results[h] = aggregated[h]
      /\ DOMAIN Results = 1 .. Len(Results) /\ Len(Results) \in Nat
  <2>1. /\ Len(Results) = Len(aggregated) + Len(resultPool)
        /\ \A k \in 1 .. Len(aggregated) + Len(resultPool) :
             Results[k] = IF k <= Len(aggregated) THEN aggregated[k]
                                                  ELSE resultPool[k - Len(aggregated)]
    BY <1>1, ConcatProperties DEF Results
  <2>2. /\ DOMAIN aggregated = 1 .. Len(aggregated) /\ Len(aggregated) \in Nat
        /\ Len(resultPool) \in Nat
        /\ DOMAIN Results = 1 .. Len(Results) /\ Len(Results) \in Nat
    BY <1>1, LenProperties
  <2> QED
    BY <2>1, <2>2
<1>3. \A k \in DOMAIN Results : Results[k] \in Work
  BY <1>1, <1>2, ElementOfSeq
<1> DEFINE before == {Results[k] : k \in 1 .. i - 1}
           T == {item \in Work \ before : Older(item, Results[i])}
<1>4. Cardinality(T) < 1
  BY <1>2 DEF IInv, BoundedOvertaking, Results
<1>5. T = {}
  <2>1. T \subseteq InHand \cup Range(Results)
    BY <1>2 DEF IInv, StartedInOrder, Started, Range
  <2>2. IsFiniteSet(Range(Results))
    <3> DEFINE f == [k \in 1 .. Len(Results) |-> Results[k]]
    <3>1. f \in Surjection(1 .. Len(Results), Range(Results))
      BY <1>2 DEF Surjection, Range
    <3>2. IsFiniteSet(1 .. Len(Results))
      <4>1. 1 \in Int /\ Len(Results) \in Int
        BY <1>2
      <4> QED
        BY <4>1, FS_Interval
    <3> QED
      BY <3>1, <3>2, FS_Surjection
  <2>3. IsFiniteSet(InHand)
    <3> DEFINE f == [w \in Workers |-> held[w]]
               H == {held[w] : w \in Workers}
    <3>1. f \in Surjection(Workers, H)
      BY DEF Surjection
    <3>2. IsFiniteSet(H)
      BY <3>1, WorkersAssumption, FS_Surjection
    <3> QED
      BY <3>2, FS_Subset DEF InHand
  <2>4. IsFiniteSet(InHand \cup Range(Results))
    BY <2>2, <2>3, FS_Union
  <2> HIDE DEF T
  <2>5. IsFiniteSet(T)
    BY <2>1, <2>4, FS_Subset
  <2>6. Cardinality(T) \in Nat
    BY <2>5, FS_CardinalityType
  <2>7. Cardinality(T) = 0
    BY <1>4, <2>6
  <2> QED
    BY <2>5, <2>7, FS_EmptySet
<1>6. Results[h] \in Work \ before /\ Results[h] # Results[i]
  <2>1. IsInjective(Results)
    BY DEF IInv, Conserved
  <2>2. \A k \in 1 .. i : k \in DOMAIN Results /\ k # h
    BY <1>2
  <2> QED
    BY <1>2, <1>3, <2>1, <2>2 DEF IsInjective
<1>7. ~ Older(Results[h], Results[i])
  BY <1>5, <1>6
<1> HIDE DEF before, T
<1>8. Older(Results[i], Results[h])
  <2>1. PICK n \in Nat, k \in Nat : Results[i] = <<n, k>>
    BY <1>1, <1>2, <1>3, WorkItems DEF Work
  <2>2. PICK m \in Nat, l \in Nat : Results[h] = <<m, l>>
    BY <1>1, <1>2, <1>3, WorkItems DEF Work
  <2>3. n # m \/ k # l
    BY <1>6, <2>1, <2>2
  <2> QED
    BY <1>7, <2>1, <2>2, <2>3 DEF Older
<1> QED
  BY <1>2, <1>8

\* With one worker, the results reach the aggregation function in the order in
\* which their work was generated: a worker count of one makes a run sequential.
THEOREM MtRunnerOneWorkerInOrder ==
  ASSUME Cardinality(Workers) = 1
  PROVE  Spec => []ResultsInOrder
<1>1. IInv => ResultsInOrder
  BY NoOvertakingIsOrder
<1> QED
  BY <1>1, MtRunnerInv, PTL

-----------------------------------------------------------------------------
(* The promise to the caller of run()                                       *)

\* Once the aggregator has ended there is no work left anywhere else.
LEMMA NothingLeft ==
  ASSUME IInv, aggregatorAt = "done"
  PROVE  Work = Range(aggregated) /\ IsInjective(aggregated)
<1>1. aggregated \in Seq(Work) /\ Queue \in Seq(Work)
  BY Types DEF IInv
<1>2. /\ workFinished /\ resultPool = << >> /\ generatorAt = "done"
      /\ \A w \in Workers : workerAt[w] = "done"
  BY DEF IInv, Control
<1>3. batch = << >> /\ workPool = << >> /\ Work \subseteq Generated
  BY <1>2, WorkersAssumption DEF IInv, Control
<1>4. Queue = << >> /\ Results = aggregated /\ Range(Queue) = {}
  <2>1. << >> \in Seq(Work)
    BY EmptySeq
  <2> QED
    BY <1>1, <1>2, <1>3, <2>1, ConcatEmptySeq DEF Queue, Results, Range
<1>5. InHand = {}
  BY <1>2 DEF IInv, Control, InHand
<1>6. Work = Generated
  BY <1>3 DEF Generated
<1> QED
  BY <1>4, <1>5, <1>6 DEF IInv, Conserved, Started

\* What the caller finds when run() has returned
PromiseKept == mainAt = "returned" => Range(aggregated) = Work /\ IsInjective(aggregated)

\* When run() returns, each piece of work that the generation function returned
\* has had its result aggregated, exactly once.
THEOREM MtRunnerPromiseKept == Spec => []PromiseKept
<1>1. IInv => PromiseKept
  BY NothingLeft DEF PromiseKept, IInv, Control
<1> QED
  BY <1>1, MtRunnerInv, PTL

LEMMA InitPromise == Init => Promise!PromiseInit
BY DEF Init, Promise!PromiseInit, Work

\* The aggregator's step with a result is Aggregate, the last join is Return, and
\* no other step shows.
LEMMA NextPromise == IInv /\ [Next]_vars => [Promise!PromiseNext]_(Promise!promiseVars)
<1> SUFFICES ASSUME IInv, [Next]_vars
             PROVE  Promise!PromiseNext \/ UNCHANGED Promise!promiseVars
  OBVIOUS
<1> USE DEF generatorVars
<1>1. ASSUME UNCHANGED <<plan, aggregated, mainAt>>
      PROVE  UNCHANGED Promise!promiseVars
  BY <1>1 DEF Promise!promiseVars, Work
<1>2. CASE GetResult /\ resultPool # << >>
  <2> DEFINE e == Head(resultPool)
  <2>1. /\ aggregated' = Append(aggregated, e) /\ mainAt' = mainAt /\ Work' = Work
        /\ mainAt # "returned"
    BY <1>2 DEF GetResult, Work, IInv, Control
  <2>2. e \in Work \ Range(aggregated)
    <3>1. aggregated \in Seq(Work) /\ resultPool \in Seq(Work)
      BY Types DEF IInv
    <3>2. e \in Work /\ e \in Range(resultPool)
      BY <1>2, <3>1, HeadAndTail
    <3>3. Range(aggregated) \cap Range(resultPool) = {}
      BY <3>1, ConcatInjective DEF IInv, Conserved, Results
    <3> QED
      BY <3>2, <3>3
  <2> HIDE DEF e
  <2>3. e \in Promise!Due
    BY <2>2 DEF Promise!Due, Promise!Range, Range
  <2>4. Promise!Aggregate(e)
    BY <2>1 DEF Promise!Aggregate
  <2> QED
    BY <2>3, <2>4 DEF Promise!PromiseNext
<1>3. CASE GetResult /\ resultPool = << >>
  BY <1>1, <1>3 DEF GetResult
<1>4. CASE JoinAggregator
  <2>1. /\ aggregated' = aggregated /\ mainAt' = "returned" /\ Work' = Work
        /\ Work = Range(aggregated)
    BY <1>4, NothingLeft DEF JoinAggregator, Work
  <2>2. Promise!Due = {}
    BY <2>1 DEF Promise!Due, Promise!Range, Range
  <2>3. Promise!Return
    BY <2>1, <2>2 DEF Promise!Return
  <2> QED
    BY <2>3 DEF Promise!PromiseNext
<1>5. CASE JoinGenerator
  <2>1. plan' = plan /\ aggregated' = aggregated
        /\ mainAt # "returned" /\ mainAt' # "returned"
    BY <1>5 DEF JoinGenerator
  <2> QED
    BY <2>1 DEF Promise!promiseVars, Work
<1>6. CASE FinishWork
  <2>1. plan' = plan /\ aggregated' = aggregated
        /\ mainAt # "returned" /\ mainAt' # "returned"
    BY <1>6 DEF FinishWork
  <2> QED
    BY <2>1 DEF Promise!promiseVars, Work
<1>7. CASE Generator
  BY <1>1, <1>7 DEF Generator, Generate, PutWork, FinishGeneration
<1>8. CASE \E w \in Workers : Worker(w) \/ WorkerWakes(w)
  BY <1>1, <1>8 DEF Worker, GetWork, PutResult, WorkerWakes
<1>9. CASE AggregatorWakes \/ Returned \/ UNCHANGED vars
  BY <1>1, <1>9 DEF AggregatorWakes, Returned, vars
<1> QED
  BY <1>2, <1>3, <1>4, <1>5, <1>6, <1>7, <1>8, <1>9 DEF Next, Main

\* The three kinds of threads and the two pools together keep what run() promises.
THEOREM MtRunnerImplementsPromise == Spec => ResultsAggregatedOnce
<1> QED
  BY InitPromise, NextPromise, MtRunnerInv, PTL
     DEF Spec, ResultsAggregatedOnce, Promise!PromiseSpec
=============================================================================
