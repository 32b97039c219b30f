-------------------------- MODULE SimulationProofs --------------------------
(***************************************************************************)
(* Proofs about Simulation, for every set of tasksets, every configuration *)
(* and every sequence of calls.  JobsHeld alone is not inductive: initStep *)
(* takes jobs out of the schedule that it finds in the deadline monitor,   *)
(* so the monitor may not name other jobs; that no finished job stays      *)
(* there needs its order (check() looks at the first entry only), and that *)
(* a new job is new needs the numbering of the jobs of a task.             *)
(***************************************************************************)
EXTENDS Simulation, SequenceTheorems, FiniteSetTheorems, TLAPS

-----------------------------------------------------------------------------
(* What the operations of DeadlineMonitor return and preserve, for lists of *)
(* any length.  As long as a list has no entry twice and every entry        *)
(* exists, each operation leaves one such list, in the order of the latest  *)
(* start times.                                                             *)

\* The list is ordered by key.
Sorted(list, key) ==
  \A i, h \in DOMAIN list : i <= h => key[list[i]] <= key[list[h]]

\* InsertAt shifts the entries from the position on by one.
LEMMA InsertAtEntries ==
  ASSUME NEW S, NEW s \in Seq(S), NEW e \in S, NEW p \in 1 .. Len(s) + 1
  PROVE  /\ InsertAt(s, p, e) \in Seq(S)
         /\ Len(InsertAt(s, p, e)) = Len(s) + 1
         /\ \A i \in 1 .. Len(s) + 1 :
              InsertAt(s, p, e)[i] =
                IF i < p THEN s[i] ELSE IF i = p THEN e ELSE s[i - 1]
<1> DEFINE a == SubSeq(s, 1, p - 1)
           b == SubSeq(s, p, Len(s))
<1>1. \A i \in 1 .. Len(s) : s[i] \in S
  BY ElementOfSeq
<1>2. Len(s) \in Nat
  BY LenProperties
<1>3. /\ a \in Seq(S) /\ Len(a) = p - 1
      /\ \A i \in 1 .. p - 1 : a[i] = s[i]
  <2>1. \A i \in 1 .. p - 1 : s[i] \in S
    BY <1>1, <1>2
  <2>2. /\ a \in Seq(S)
        /\ Len(a) = IF 1 <= p - 1 THEN (p - 1) - 1 + 1 ELSE 0
        /\ \A i \in 1 .. (p - 1) - 1 + 1 : a[i] = s[1 + i - 1]
    BY <1>2, <2>1, SubSeqProperties
  <2> HIDE DEF a
  <2> QED
    BY <1>2, <2>2
<1>4. /\ b \in Seq(S) /\ Len(b) = Len(s) - p + 1
      /\ \A i \in 1 .. Len(s) - p + 1 : b[i] = s[p + i - 1]
  <2>1. \A i \in p .. Len(s) : s[i] \in S
    BY <1>1, <1>2
  <2>2. /\ b \in Seq(S)
        /\ Len(b) = IF p <= Len(s) THEN Len(s) - p + 1 ELSE 0
        /\ \A i \in 1 .. Len(s) - p + 1 : b[i] = s[p + i - 1]
    BY <1>2, <2>1, SubSeqProperties
  <2> HIDE DEF b
  <2> QED
    BY <1>2, <2>2
<1>5. PICK u \in Seq(S) : u = <<e>> /\ Len(u) = 1 /\ u[1] = e
  <2>1. <<e>> \in Seq(S) /\ Len(<<e>>) = 1 /\ <<e>>[1] = e
    OBVIOUS
  <2> QED
    BY <2>1, Zenon
<1> DEFINE ae == a \o u
<1>6. /\ ae \in Seq(S) /\ Len(ae) = p
      /\ \A i \in 1 .. p : ae[i] = IF i <= p - 1 THEN a[i] ELSE u[i - (p - 1)]
  <2>1. /\ ae \in Seq(S) /\ Len(ae) = Len(a) + Len(u)
        /\ \A i \in 1 .. Len(a) + Len(u) :
             ae[i] = IF i <= Len(a) THEN a[i] ELSE u[i - Len(a)]
    <3> HIDE DEF a
    <3> QED
      BY <1>3, ConcatProperties
  <2> HIDE DEF a, ae
  <2> QED
    BY <1>2, <1>3, <1>5, <2>1
<1> DEFINE r == ae \o b
<1>7. /\ r \in Seq(S) /\ Len(r) = Len(s) + 1
      /\ \A i \in 1 .. Len(s) + 1 : r[i] = IF i <= p THEN ae[i] ELSE b[i - p]
  <2>1. /\ r \in Seq(S) /\ Len(r) = Len(ae) + Len(b)
        /\ \A i \in 1 .. Len(ae) + Len(b) :
             r[i] = IF i <= Len(ae) THEN ae[i] ELSE b[i - Len(ae)]
    <3> HIDE DEF ae, b
    <3> QED
      BY <1>4, <1>6, ConcatProperties
  <2> HIDE DEF ae, b, r
  <2> QED
    BY <1>2, <1>4, <1>6, <2>1
<1>8. InsertAt(s, p, e) = r
  BY <1>5 DEF InsertAt
<1>9. ASSUME NEW i \in 1 .. Len(s) + 1
      PROVE  r[i] = IF i < p THEN s[i] ELSE IF i = p THEN e ELSE s[i - 1]
  <2> HIDE DEF a, b, ae, r
  <2>1. CASE i < p
    BY <1>2, <1>3, <1>6, <1>7, <2>1
  <2>2. CASE i = p
    BY <1>2, <1>5, <1>6, <1>7, <2>2
  <2>3. CASE i > p
    <3>1. i - p \in 1 .. Len(s) - p + 1 /\ p + (i - p) - 1 = i - 1
      BY <1>2, <2>3
    <3>2. r[i] = b[i - p]
      BY <1>2, <1>7, <2>3
    <3> QED
      BY <1>2, <1>4, <2>3, <3>1, <3>2
  <2> QED
    BY <1>2, <2>1, <2>2, <2>3
<1> HIDE DEF r
<1> QED
  BY <1>7, <1>8, <1>9

\* RemoveAt shifts the entries behind the position by one.
LEMMA RemoveAtEntries ==
  ASSUME NEW S, NEW s \in Seq(S), NEW p \in 1 .. Len(s)
  PROVE  /\ RemoveAt(s, p) \in Seq(S)
         /\ Len(RemoveAt(s, p)) = Len(s) - 1
         /\ \A i \in 1 .. Len(s) - 1 :
              RemoveAt(s, p)[i] = IF i < p THEN s[i] ELSE s[i + 1]
<1> DEFINE a == SubSeq(s, 1, p - 1)
           b == SubSeq(s, p + 1, Len(s))
<1>1. \A i \in 1 .. Len(s) : s[i] \in S
  BY ElementOfSeq
<1>2. Len(s) \in Nat
  BY LenProperties
<1>3. /\ a \in Seq(S) /\ Len(a) = p - 1
      /\ \A i \in 1 .. p - 1 : a[i] = s[i]
  <2>1. \A i \in 1 .. p - 1 : s[i] \in S
    BY <1>1, <1>2
  <2>2. /\ a \in Seq(S)
        /\ Len(a) = IF 1 <= p - 1 THEN (p - 1) - 1 + 1 ELSE 0
        /\ \A i \in 1 .. (p - 1) - 1 + 1 : a[i] = s[1 + i - 1]
    BY <1>2, <2>1, SubSeqProperties
  <2> HIDE DEF a
  <2> QED
    BY <1>2, <2>2
<1>4. /\ b \in Seq(S) /\ Len(b) = Len(s) - p
      /\ \A i \in 1 .. Len(s) - p : b[i] = s[p + i]
  <2>1. \A i \in p + 1 .. Len(s) : s[i] \in S
    BY <1>1, <1>2
  <2>2. /\ b \in Seq(S)
        /\ Len(b) = IF p + 1 <= Len(s) THEN Len(s) - (p + 1) + 1 ELSE 0
        /\ \A i \in 1 .. Len(s) - (p + 1) + 1 : b[i] = s[p + 1 + i - 1]
    BY <1>2, <2>1, SubSeqProperties
  <2> HIDE DEF b
  <2> QED
    BY <1>2, <2>2
<1> DEFINE r == a \o b
<1>5. /\ r \in Seq(S) /\ Len(r) = Len(s) - 1
      /\ \A i \in 1 .. Len(s) - 1 : r[i] = IF i <= p - 1 THEN a[i] ELSE b[i - (p - 1)]
  <2>1. /\ r \in Seq(S) /\ Len(r) = Len(a) + Len(b)
        /\ \A i \in 1 .. Len(a) + Len(b) :
             r[i] = IF i <= Len(a) THEN a[i] ELSE b[i - Len(a)]
    BY <1>3, <1>4, ConcatProperties
  <2> HIDE DEF a, b, r
  <2> QED
    BY <1>2, <1>3, <1>4, <2>1
<1>6. RemoveAt(s, p) = r
  BY DEF RemoveAt
<1>7. ASSUME NEW i \in 1 .. Len(s) - 1
      PROVE  r[i] = IF i < p THEN s[i] ELSE s[i + 1]
  <2> HIDE DEF a, b, r
  <2>1. CASE i < p
    BY <1>2, <1>3, <1>5, <2>1
  <2>2. CASE i >= p
    <3>1. i - (p - 1) \in 1 .. Len(s) - p /\ p + (i - (p - 1)) = i + 1
      BY <1>2, <2>2
    <3>2. r[i] = b[i - (p - 1)]
      BY <1>2, <1>5, <2>2
    <3> QED
      BY <1>2, <1>4, <2>2, <3>1, <3>2
  <2> QED
    BY <1>2, <2>1, <2>2
<1> HIDE DEF r
<1> QED
  BY <1>5, <1>6, <1>7

\* Inserting adds one entry, and a new one keeps the entries distinct.
LEMMA InsertAtRange ==
  ASSUME NEW S, NEW s \in Seq(S), NEW e \in S, NEW p \in 1 .. Len(s) + 1
  PROVE  /\ Range(InsertAt(s, p, e)) = Range(s) \cup {e}
         /\ IsInjective(s) /\ e \notin Range(s) => IsInjective(InsertAt(s, p, e))
<1> DEFINE r == InsertAt(s, p, e)
<1>1. /\ r \in Seq(S) /\ Len(r) = Len(s) + 1
      /\ \A i \in 1 .. Len(s) + 1 :
           r[i] = IF i < p THEN s[i] ELSE IF i = p THEN e ELSE s[i - 1]
  BY InsertAtEntries
<1> HIDE DEF r
<1>2. Len(s) \in Nat /\ DOMAIN s = 1 .. Len(s) /\ DOMAIN r = 1 .. Len(s) + 1
  BY <1>1, LenProperties
<1>3. Range(r) = Range(s) \cup {e}
  <2>1. ASSUME NEW i \in DOMAIN r PROVE r[i] \in Range(s) \cup {e}
    <3>1. r[i] = IF i < p THEN s[i] ELSE IF i = p THEN e ELSE s[i - 1]
      BY <1>1, <1>2
    <3>2. /\ i < p => i \in DOMAIN s
          /\ i > p => i - 1 \in DOMAIN s
          /\ i < p \/ i = p \/ i > p
      BY <1>2
    <3>3. (i < p => r[i] = s[i]) /\ (i = p => r[i] = e) /\ (i > p => r[i] = s[i - 1])
      BY <1>2, <3>1
    <3> QED
      BY <3>2, <3>3 DEF Range
  <2>2. ASSUME NEW i \in DOMAIN s PROVE s[i] \in Range(r)
    <3>1. CASE i < p
      BY <1>1, <1>2, <3>1 DEF Range
    <3>2. CASE i >= p
      <4>1. i + 1 \in DOMAIN r /\ r[i + 1] = s[i]
        BY <1>1, <1>2, <3>2
      <4> QED
        BY <4>1 DEF Range
    <3> QED
      BY <1>2, <3>1, <3>2
  <2>3. p \in DOMAIN r /\ r[p] = e
    BY <1>1, <1>2
  <2> QED
    BY <2>1, <2>2, <2>3 DEF Range
<1>4. ASSUME IsInjective(s), e \notin Range(s) PROVE IsInjective(r)
  <2>1. \A i, h \in DOMAIN s : s[i] = s[h] => i = h
    BY <1>4 DEF IsInjective
  <2>2. \A i \in DOMAIN s : s[i] # e
    BY <1>4 DEF Range
  <2> DEFINE old(x) == IF x < p THEN x ELSE x - 1
  <2>3. \A x \in DOMAIN r : x # p => old(x) \in DOMAIN s /\ r[x] = s[old(x)]
    BY <1>1, <1>2
  <2>4. r[p] = e
    BY <1>1, <1>2
  <2>5. \A x, y \in DOMAIN r : x # p /\ y # p /\ old(x) = old(y) => x = y
    BY <1>2
  <2> HIDE DEF old
  <2> QED
    BY <2>1, <2>2, <2>3, <2>4, <2>5 DEF IsInjective
<1> QED
  BY <1>3, <1>4 DEF r

\* Removing a position takes its entry out and keeps order and distinctness.
LEMMA RemoveAtRange ==
  ASSUME NEW S, NEW s \in Seq(S), NEW p \in 1 .. Len(s), IsInjective(s)
  PROVE  /\ Range(RemoveAt(s, p)) = Range(s) \ {s[p]}
         /\ IsInjective(RemoveAt(s, p))
         /\ \A key : Sorted(s, key) => Sorted(RemoveAt(s, p), key)
<1> DEFINE r == RemoveAt(s, p)
<1>1. /\ r \in Seq(S) /\ Len(r) = Len(s) - 1
      /\ \A i \in 1 .. Len(s) - 1 : r[i] = IF i < p THEN s[i] ELSE s[i + 1]
  BY RemoveAtEntries
<1> HIDE DEF r
<1>2. Len(s) \in Nat /\ DOMAIN s = 1 .. Len(s) /\ DOMAIN r = 1 .. Len(s) - 1
  BY <1>1, LenProperties
<1>3. \A i, h \in DOMAIN s : s[i] = s[h] => i = h
  BY DEF IsInjective
<1>4. Range(r) = Range(s) \ {s[p]}
  <2>1. ASSUME NEW i \in DOMAIN r PROVE r[i] \in Range(s) \ {s[p]}
    <3>1. r[i] = IF i < p THEN s[i] ELSE s[i + 1]
      BY <1>1, <1>2
    <3>2. i \in DOMAIN s /\ i + 1 \in DOMAIN s
      BY <1>2
    <3>3. p \in DOMAIN s
      BY <1>2
    <3>4. CASE i < p
      BY <1>2, <1>3, <3>1, <3>2, <3>3, <3>4 DEF Range
    <3>5. CASE ~ (i < p)
      <4>1. r[i] = s[i + 1] /\ i + 1 # p
        BY <1>2, <3>1, <3>5
      <4> QED
        BY <1>3, <3>2, <3>3, <4>1 DEF Range
    <3> QED
      BY <3>4, <3>5
  <2>2. ASSUME NEW i \in DOMAIN s, i # p PROVE s[i] \in Range(r)
    <3>1. CASE i < p
      BY <1>1, <1>2, <3>1 DEF Range
    <3>2. CASE i > p
      <4>1. i - 1 \in DOMAIN r /\ r[i - 1] = s[i]
        BY <1>1, <1>2, <3>2
      <4> QED
        BY <4>1 DEF Range
    <3> QED
      BY <1>2, <2>2, <3>1, <3>2
  <2> QED
    BY <2>1, <2>2 DEF Range
<1>5. IsInjective(r)
  <2> DEFINE old(x) == IF x < p THEN x ELSE x + 1
  <2>1. \A x \in DOMAIN r : old(x) \in DOMAIN s /\ r[x] = s[old(x)]
    BY <1>1, <1>2
  <2>2. \A x, y \in DOMAIN r : old(x) = old(y) => x = y
    BY <1>2
  <2> HIDE DEF old
  <2> QED
    BY <1>3, <2>1, <2>2 DEF IsInjective
<1>6. ASSUME NEW key, Sorted(s, key) PROVE Sorted(r, key)
  <2>1. \A i, h \in DOMAIN s : i <= h => key[s[i]] <= key[s[h]]
    BY <1>6 DEF Sorted
  <2> SUFFICES ASSUME NEW i \in DOMAIN r, NEW h \in DOMAIN r, i <= h
               PROVE  key[r[i]] <= key[r[h]]
    BY DEF Sorted
  <2> DEFINE old(x) == IF x < p THEN x ELSE x + 1
  <2>2. /\ old(i) \in DOMAIN s /\ old(h) \in DOMAIN s /\ old(i) <= old(h)
        /\ r[i] = s[old(i)] /\ r[h] = s[old(h)]
    BY <1>1, <1>2
  <2> QED
    BY <2>1, <2>2
<1> QED
  BY <1>4, <1>5, <1>6 DEF r

\* Removing the first entry.
LEMMA TailRange ==
  ASSUME NEW S, NEW s \in Seq(S), s # << >>, IsInjective(s)
  PROVE  /\ Tail(s) \in Seq(S)
         /\ Head(s) \in Range(s)
         /\ Range(Tail(s)) = Range(s) \ {Head(s)}
         /\ IsInjective(Tail(s))
         /\ \A key : Sorted(s, key) => Sorted(Tail(s), key)
<1> DEFINE r == Tail(s)
<1>1. /\ r \in Seq(S) /\ Len(r) = Len(s) - 1
      /\ \A i \in 1 .. Len(s) - 1 : r[i] = s[i + 1]
      /\ Head(s) = s[1]
  BY HeadTailProperties
<1> HIDE DEF r
<1>2. /\ Len(s) \in Nat \ {0} /\ DOMAIN s = 1 .. Len(s) /\ DOMAIN r = 1 .. Len(s) - 1
  BY <1>1, LenProperties, EmptySeq
<1>3. \A i, h \in DOMAIN s : s[i] = s[h] => i = h
  BY DEF IsInjective
<1>4. Range(r) = Range(s) \ {s[1]}
  <2>1. ASSUME NEW i \in DOMAIN r PROVE r[i] \in Range(s) \ {s[1]}
    <3>1. r[i] = s[i + 1] /\ i + 1 \in DOMAIN s /\ 1 \in DOMAIN s /\ i + 1 # 1
      BY <1>1, <1>2
    <3> QED
      BY <1>3, <3>1 DEF Range
  <2>2. ASSUME NEW i \in DOMAIN s, i # 1 PROVE s[i] \in Range(r)
    <3>1. i - 1 \in DOMAIN r /\ r[i - 1] = s[i]
      BY <1>1, <1>2, <2>2
    <3> QED
      BY <3>1 DEF Range
  <2> QED
    BY <2>1, <2>2 DEF Range
<1>5. IsInjective(r)
  <2>1. \A x \in DOMAIN r : x + 1 \in DOMAIN s /\ r[x] = s[x + 1]
    BY <1>1, <1>2
  <2>2. \A x, y \in DOMAIN r : x + 1 = y + 1 => x = y
    BY <1>2
  <2> QED
    BY <1>3, <2>1, <2>2 DEF IsInjective
<1>6. ASSUME NEW key, Sorted(s, key) PROVE Sorted(r, key)
  <2>1. \A i, h \in DOMAIN s : i <= h => key[s[i]] <= key[s[h]]
    BY <1>6 DEF Sorted
  <2> SUFFICES ASSUME NEW i \in DOMAIN r, NEW h \in DOMAIN r, i <= h
               PROVE  key[r[i]] <= key[r[h]]
    BY DEF Sorted
  <2>2. /\ i + 1 \in DOMAIN s /\ h + 1 \in DOMAIN s /\ i + 1 <= h + 1
        /\ r[i] = s[i + 1] /\ r[h] = s[h + 1]
    BY <1>1, <1>2
  <2> QED
    BY <2>1, <2>2
<1>7. Head(s) \in Range(s)
  BY <1>1, <1>2 DEF Range
<1> QED
  BY <1>1, <1>4, <1>5, <1>6, <1>7 DEF r

\* removeJob takes the entry out, wherever it is; a job without entry changes nothing.
LEMMA RemoveFirstRange ==
  ASSUME NEW S, NEW s \in Seq(S), NEW e, IsInjective(s)
  PROVE  /\ RemoveFirst(s, e) \in Seq(S)
         /\ Range(RemoveFirst(s, e)) = Range(s) \ {e}
         /\ IsInjective(RemoveFirst(s, e))
         /\ \A key : Sorted(s, key) => Sorted(RemoveFirst(s, e), key)
<1>1. DOMAIN s = 1 .. Len(s) /\ Len(s) \in Nat
  BY LenProperties
<1>2. CASE \A i \in 1 .. Len(s) : s[i] # e
  <2>1. RemoveFirst(s, e) = s
    BY <1>2 DEF RemoveFirst
  <2>2. e \notin Range(s)
    BY <1>1, <1>2 DEF Range
  <2> QED
    BY <2>1, <2>2
<1>3. CASE \E i \in 1 .. Len(s) : s[i] = e
  <2>1. PICK i \in 1 .. Len(s) : s[i] = e
    BY <1>3
  <2>2. {h \in 1 .. Len(s) : s[h] = e} = {i}
    BY <1>1, <2>1 DEF IsInjective
  <2>3. Min({i}) = i
    BY <2>1 DEF Min
  <2>4. SelectInSeq(s, LAMBDA v : v = e) = i
    BY <2>2, <2>3 DEF SelectInSeq
  <2>5. RemoveFirst(s, e) = RemoveAt(s, i)
    BY <1>3, <2>4 DEF RemoveFirst
  <2> QED
    BY <2>1, <2>5, RemoveAtEntries, RemoveAtRange
<1> QED
  BY <1>2, <1>3

\* An entry between smaller and greater ones keeps the order.
LEMMA InsertAtSorted ==
  ASSUME NEW S, NEW s \in Seq(S), NEW e \in S, NEW p \in 1 .. Len(s) + 1,
         NEW key
  PROVE  /\ \A x \in Range(s) \cup {e} : key[x] \in Int
         /\ Sorted(s, key)
         /\ \A i \in 1 .. p - 1 : key[s[i]] <= key[e]
         /\ p <= Len(s) => key[e] <= key[s[p]]
         => Sorted(InsertAt(s, p, e), key)
<1> DEFINE r == InsertAt(s, p, e)
<1>1. /\ r \in Seq(S) /\ Len(r) = Len(s) + 1
      /\ \A i \in 1 .. Len(s) + 1 :
           r[i] = IF i < p THEN s[i] ELSE IF i = p THEN e ELSE s[i - 1]
  BY InsertAtEntries
<1>1b. Range(r) = Range(s) \cup {e}
  BY InsertAtRange
<1> HIDE DEF r
<1> SUFFICES ASSUME \A x \in Range(s) \cup {e} : key[x] \in Int,
                    Sorted(s, key),
                    \A i \in 1 .. p - 1 : key[s[i]] <= key[e],
                    p <= Len(s) => key[e] <= key[s[p]]
             PROVE  Sorted(r, key)
  BY DEF r
<1>2. Len(s) \in Nat /\ DOMAIN s = 1 .. Len(s) /\ DOMAIN r = 1 .. Len(s) + 1
  BY <1>1, LenProperties
<1>3. \A i, h \in DOMAIN s : i <= h => key[s[i]] <= key[s[h]]
  BY DEF Sorted
<1>4. \A i \in DOMAIN s : key[s[i]] \in Int
  BY DEF Range
<1>5. \A i \in DOMAIN s : i >= p => key[e] <= key[s[i]]
  <2> SUFFICES ASSUME NEW i \in DOMAIN s, i >= p PROVE key[e] <= key[s[i]]
    OBVIOUS
  <2>1. p \in DOMAIN s /\ key[e] <= key[s[p]] /\ key[s[p]] <= key[s[i]]
    BY <1>2, <1>3
  <2> QED
    BY <1>4, <2>1
<1>6. key[e] \in Int
  OBVIOUS
<1> SUFFICES ASSUME NEW i \in DOMAIN r, NEW h \in DOMAIN r, i <= h
             PROVE  key[r[i]] <= key[r[h]]
  BY DEF Sorted
<1>7. CASE i = h
  <2>1. key[r[i]] \in Int
    BY <1>1b DEF Range
  <2> QED
    BY <1>7, <2>1
<1>8. CASE h < p
  BY <1>1, <1>2, <1>3, <1>8
<1>9. CASE i < p /\ h = p
  BY <1>1, <1>2, <1>9
<1>10. CASE i < p /\ h > p
  <2>1. /\ i \in DOMAIN s /\ h - 1 \in DOMAIN s /\ i <= h - 1
        /\ r[i] = s[i] /\ r[h] = s[h - 1]
    BY <1>1, <1>2, <1>10
  <2> QED
    BY <1>3, <2>1
<1>11. CASE i = p /\ h > p
  <2>1. h - 1 \in DOMAIN s /\ h - 1 >= p /\ r[i] = e /\ r[h] = s[h - 1]
    BY <1>1, <1>2, <1>11
  <2> QED
    BY <1>5, <2>1
<1>12. CASE i > p /\ h > p
  <2>1. /\ i - 1 \in DOMAIN s /\ h - 1 \in DOMAIN s /\ i - 1 <= h - 1
        /\ r[i] = s[i - 1] /\ r[h] = s[h - 1]
    BY <1>1, <1>2, <1>12
  <2> QED
    BY <1>3, <2>1
<1> QED
  BY <1>2, <1>7, <1>8, <1>9, <1>10, <1>11, <1>12

\* Both job lists: an insertion adds the job once.
LEMMA InsertByKeyRange ==
  ASSUME NEW S, NEW s \in Seq(S), NEW e \in S, NEW key, NEW r \in InsertByKey(s, e, key)
  PROVE  /\ r \in Seq(S)
         /\ r # << >>
         /\ Range(r) = Range(s) \cup {e}
         /\ IsInjective(s) /\ e \notin Range(s) => IsInjective(r)
<1>1. PICK p \in 1 .. Len(s) + 1 : r = InsertAt(s, p, e)
  BY DEF InsertByKey, InsertPositions
<1>2. r \in Seq(S) /\ Len(r) = Len(s) + 1
  BY <1>1, InsertAtEntries
<1>3. r # << >>
  BY <1>2, LenProperties, EmptySeq
<1> QED
  BY <1>1, <1>2, <1>3, InsertAtRange

\* addJob keeps the order.
LEMMA AddJobSorted ==
  ASSUME NEW S, NEW s \in Seq(S), NEW e \in S, NEW key,
         Range(s) \cup {e} \subseteq DOMAIN key,
         \A x \in DOMAIN key : key[x] \in Int,
         Sorted(s, key),
         NEW r \in AddJob(s, e, key)
  PROVE  Sorted(r, key)
<1>1. PICK p \in InsertPositions(s, e, key) : r = InsertAt(s, p, e)
  BY DEF AddJob, InsertByKey
<1>2. DOMAIN s = 1 .. Len(s) /\ Len(s) \in Nat
  BY LenProperties
<1>3. p \in 1 .. Len(s) + 1
  BY <1>1 DEF InsertPositions
<1>4. \A i \in DOMAIN s : s[i] \in DOMAIN key
  BY DEF Range
<1>5. \A i \in 1 .. p - 1 : key[s[i]] <= key[e]
  BY <1>1, <1>2, <1>3, <1>4 DEF InsertPositions
<1>6. p <= Len(s) => key[e] <= key[s[p]]
  BY <1>1, <1>2, <1>3, <1>4 DEF InsertPositions
<1>7. \A x \in Range(s) \cup {e} : key[x] \in Int
  OBVIOUS
<1> QED
  BY <1>1, <1>3, <1>5, <1>6, <1>7, InsertAtSorted

\* jobExecuted leaves a list without the job alone, and otherwise takes the job
\* out and puts it back, no further to the front.
LEMMA JobExecutedMoves ==
  ASSUME NEW S, NEW s \in Seq(S), NEW e \in S, IsInjective(s), NEW key,
         NEW r \in JobExecuted(s, e, key)
  PROVE  \/ e \notin Range(s) /\ r = s
         \/ \E at \in DOMAIN s : \E p \in at .. Len(s) :
              LET rest == RemoveAt(s, at)
              IN  /\ s[at] = e
                  /\ r = InsertAt(rest, p, e)
                  /\ \A i \in at .. p - 1 : rest[i] \in DOMAIN key => key[rest[i]] < key[e]
                  /\ (p <= Len(rest) /\ rest[p] \in DOMAIN key) => key[rest[p]] >= key[e]
<1>1. DOMAIN s = 1 .. Len(s) /\ Len(s) \in Nat
  BY LenProperties
<1>2. CASE \A i \in DOMAIN s : s[i] # e
  <2>1. r = s
    BY <1>2 DEF JobExecuted
  <2>2. e \notin Range(s)
    BY <1>2 DEF Range
  <2> QED
    BY <2>1, <2>2
<1>3. CASE \E i \in DOMAIN s : s[i] = e
  <2> DEFINE First(i) == s[i] = e /\ \A h \in 1 .. i - 1 : s[h] # e
             at == CHOOSE i \in DOMAIN s : First(i)
             rest == RemoveAt(s, at)
             Fits(p) == /\ \A i \in at .. p - 1 : rest[i] \in DOMAIN key => key[rest[i]] < key[e]
                        /\ (p <= Len(rest) /\ rest[p] \in DOMAIN key) => key[rest[p]] >= key[e]
  <2>1. PICK i \in DOMAIN s : s[i] = e
    BY <1>3
  <2>2. First(i)
    BY <1>1, <2>1 DEF IsInjective
  <2>3. at \in DOMAIN s /\ s[at] = e
    BY <2>1, <2>2
  <2>4. r \in { InsertAt(rest, p, e) : p \in {q \in at .. Len(s) : Fits(q)} }
    BY <1>3 DEF JobExecuted
  <2>5. PICK p \in at .. Len(s) : Fits(p) /\ r = InsertAt(rest, p, e)
    BY <2>4
  <2> HIDE DEF at
  <2> QED
    BY <2>3, <2>5
<1> QED
  BY <1>2, <1>3

\* jobExecuted keeps the entries.
LEMMA JobExecutedRange ==
  ASSUME NEW S, NEW s \in Seq(S), NEW e \in S, IsInjective(s), NEW key,
         NEW r \in JobExecuted(s, e, key)
  PROVE  r \in Seq(S) /\ Range(r) = Range(s) /\ IsInjective(r)
<1>1. DOMAIN s = 1 .. Len(s) /\ Len(s) \in Nat
  BY LenProperties
<1>2. CASE r = s
  BY <1>2
<1>3. CASE \E at \in DOMAIN s : \E p \in at .. Len(s) :
             s[at] = e /\ r = InsertAt(RemoveAt(s, at), p, e)
  <2>0. PICK at \in DOMAIN s : \E p \in at .. Len(s) :
          s[at] = e /\ r = InsertAt(RemoveAt(s, at), p, e)
    BY <1>3
  <2>1. PICK p \in at .. Len(s) : s[at] = e /\ r = InsertAt(RemoveAt(s, at), p, e)
    BY <2>0
  <2> DEFINE rest == RemoveAt(s, at)
  <2>2. rest \in Seq(S) /\ Len(rest) = Len(s) - 1
    BY <1>1, RemoveAtEntries
  <2>3. Range(rest) = Range(s) \ {e} /\ IsInjective(rest)
    BY <1>1, <2>1, RemoveAtRange
  <2> HIDE DEF rest
  <2>4. p \in 1 .. Len(rest) + 1
    BY <1>1, <2>2
  <2>5. e \in Range(s)
    BY <2>1 DEF Range
  <2>6. e \notin Range(rest) /\ Range(rest) \cup {e} = Range(s)
    BY <2>3, <2>5
  <2>7. r = InsertAt(rest, p, e)
    BY <2>1 DEF rest
  <2>8. r \in Seq(S)
    BY <2>2, <2>4, <2>7, InsertAtEntries
  <2>9. Range(InsertAt(rest, p, e)) = Range(rest) \cup {e} /\ IsInjective(InsertAt(rest, p, e))
    <3>1. IsInjective(rest) /\ e \notin Range(rest)
      BY <2>3, <2>6
    <3> QED
      BY <2>2, <2>4, <3>1, InsertAtRange
  <2> QED
    BY <2>6, <2>7, <2>8, <2>9
<1> QED
  BY <1>2, <1>3, JobExecutedMoves

\* jobExecuted repairs the order that the growth of the executed job's latest
\* start time has disturbed.
LEMMA JobExecutedSorted ==
  ASSUME NEW S, NEW s \in Seq(S), NEW e \in S, IsInjective(s), NEW old, NEW key,
         Range(s) \cup {e} \subseteq DOMAIN key,
         \A x \in DOMAIN key : key[x] \in Int /\ old[x] \in Int,
         \A x \in DOMAIN key \ {e} : key[x] = old[x],
         old[e] <= key[e],
         Sorted(s, old),
         NEW r \in JobExecuted(s, e, key)
  PROVE  Sorted(r, key)
<1>1. DOMAIN s = 1 .. Len(s) /\ Len(s) \in Nat
  BY LenProperties
<1>2. \A i \in DOMAIN s : s[i] \in DOMAIN key /\ s[i] \in Range(s)
  BY DEF Range
<1>3. CASE e \notin Range(s) /\ r = s
  <2>1. \A i \in DOMAIN s : key[s[i]] = old[s[i]]
    BY <1>2, <1>3
  <2> QED
    BY <1>3, <2>1 DEF Sorted
<1>4. CASE \E at \in DOMAIN s : \E p \in at .. Len(s) :
             LET rest == RemoveAt(s, at)
             IN  /\ s[at] = e
                 /\ r = InsertAt(rest, p, e)
                 /\ \A i \in at .. p - 1 : rest[i] \in DOMAIN key => key[rest[i]] < key[e]
                 /\ (p <= Len(rest) /\ rest[p] \in DOMAIN key) => key[rest[p]] >= key[e]
  <2>0. PICK at \in DOMAIN s : \E p \in at .. Len(s) :
          LET rest == RemoveAt(s, at)
          IN  /\ s[at] = e
              /\ r = InsertAt(rest, p, e)
              /\ \A i \in at .. p - 1 : rest[i] \in DOMAIN key => key[rest[i]] < key[e]
              /\ (p <= Len(rest) /\ rest[p] \in DOMAIN key) => key[rest[p]] >= key[e]
    BY <1>4
  <2> DEFINE rest == RemoveAt(s, at)
  <2>2. PICK p \in at .. Len(s) :
          /\ s[at] = e
          /\ r = InsertAt(rest, p, e)
          /\ \A i \in at .. p - 1 : rest[i] \in DOMAIN key => key[rest[i]] < key[e]
          /\ (p <= Len(rest) /\ rest[p] \in DOMAIN key) => key[rest[p]] >= key[e]
    BY <2>0
  <2>3. /\ rest \in Seq(S) /\ Len(rest) = Len(s) - 1
        /\ \A h \in 1 .. Len(s) - 1 : rest[h] = IF h < at THEN s[h] ELSE s[h + 1]
    BY <1>1, RemoveAtEntries
  <2>4. Range(rest) = Range(s) \ {e} /\ Sorted(rest, old)
    BY <1>1, <2>2, RemoveAtRange
  <2> HIDE DEF rest
  <2>5. DOMAIN rest = 1 .. Len(s) - 1
    BY <2>3, LenProperties
  <2>6. \A h \in DOMAIN rest : rest[h] \in DOMAIN key \ {e} /\ key[rest[h]] = old[rest[h]]
    BY <2>4 DEF Range
  <2>7. Sorted(rest, key)
    BY <2>4, <2>6 DEF Sorted
  <2>8. p \in 1 .. Len(rest) + 1
    BY <1>1, <2>3
  <2>9. ASSUME NEW h \in 1 .. p - 1 PROVE key[rest[h]] <= key[e]
    <3>1. h \in 1 .. Len(s) - 1
      BY <1>1, <2>3, <2>8
    <3>2. h \in DOMAIN rest /\ key[rest[h]] \in Int /\ key[e] \in Int
      BY <2>5, <2>6, <3>1
    <3>3. CASE h < at
      <4>1. rest[h] = s[h] /\ h \in DOMAIN s /\ h <= at
        BY <1>1, <2>3, <2>5, <3>2, <3>3
      <4>2. old[s[h]] <= old[s[at]]
        BY <4>1 DEF Sorted
      <4> QED
        BY <2>2, <2>6, <3>2, <4>1, <4>2
    <3>4. CASE h >= at
      <4>1. h \in at .. p - 1
        BY <1>1, <3>4
      <4>2. key[rest[h]] < key[e]
        BY <2>2, <2>6, <3>2, <4>1
      <4> QED
        BY <3>2, <4>2
    <3> QED
      BY <1>1, <3>2, <3>3, <3>4
  <2>10. p <= Len(rest) => key[e] <= key[rest[p]]
    <3> SUFFICES ASSUME p <= Len(rest) PROVE key[e] <= key[rest[p]]
      OBVIOUS
    <3>1. p \in DOMAIN rest
      BY <2>3, <2>5, <2>8
    <3>2. key[rest[p]] >= key[e]
      BY <2>2, <2>6, <3>1
    <3> QED
      BY <2>6, <3>1, <3>2
  <2>11. \A x \in Range(rest) \cup {e} : key[x] \in Int
    BY <2>4
  <2> QED
    BY <2>2, <2>3, <2>7, <2>8, <2>9, <2>10, <2>11, InsertAtSorted
<1> QED
  BY <1>3, <1>4, JobExecutedMoves
-----------------------------------------------------------------------------
(* The invariant                                                            *)

\* The jobs of a task are numbered by its activations, wherever they are named.
JobsNumbered ==
  \A j \in DOMAIN job \cup Range(dlmon) \cup Range(execMissJobs) :
    j[2] < task[j[1]].activations

\* A job that exists has steps left, and no more than it came with.
StepsLeft == \A j \in DOMAIN job : 1 <= job[j].rem /\ job[j].rem <= job[j].et

\* As scheduleChanged is never reset, dispatch always looks at the schedule.
ScheduleIsSeen == mySchedule # << >> => scheduleChanged

\* From the end of initStep on, the monitor names only jobs whose deadline is ahead.
DeadlinesAhead ==
  config.dlMissCancellations /\ pc \notin {"api", "initStep"} =>
    \A j \in Range(dlmon) : job[j].dl > now

SchedInv ==
  /\ JobsHeld
  /\ JobsNumbered
  /\ StepsLeft
  /\ CurrentJobScheduled
  /\ ScheduleIsSeen
  /\ IsInjective(dlmon)
  /\ MonitorCoversSchedule
  /\ MonitorSorted

IInv == TypeOK /\ SchedInv /\ DeadlinesAhead

-----------------------------------------------------------------------------
(* The monitors of (m,k) constraints                                        *)

LEMMA SuccessesType ==
  ASSUME NEW k \in Nat, NEW vals
  PROVE  Successes(vals, 0 .. k - 1) \in Nat
<1>1. IsFiniteSet(0 .. k - 1)
  BY FS_Interval
<1>2. {i \in 0 .. k - 1 : vals[i] = 1} \subseteq 0 .. k - 1
  OBVIOUS
<1>3. IsFiniteSet({i \in 0 .. k - 1 : vals[i] = 1})
  BY <1>1, <1>2, FS_Subset
<1> QED
  BY <1>3, FS_CardinalityType DEF Successes

LEMMA NewMonitorType ==
  ASSUME NEW k \in Nat, NEW bits \in [0 .. k - 1 -> Bit]
  PROVE  NewMonitor(k, bits) \in Monitors(k)
<1>1. Successes(bits, 0 .. k - 1) \in Int
  BY SuccessesType
<1> QED
  BY <1>1 DEF NewMonitor, Monitors

\* push stays inside the ring.
LEMMA PushType ==
  ASSUME NEW k \in Nat \ {0}, NEW m, NEW val \in Bit, NEW mon \in Monitors(k)
  PROVE  Push(mon, m, k, val) \in Monitors(k)
<1>1. /\ mon.vals \in [0 .. k - 1 -> Bit] /\ mon.pos \in 0 .. k - 1
      /\ mon.sum \in Int /\ mon.recorded \in Nat /\ mon.violations \in Nat
  BY DEF Monitors
<1>2. mon.vals[mon.pos] \in Int
  BY <1>1 DEF Bit
<1>3. [mon.vals EXCEPT ![mon.pos] = val] \in [0 .. k - 1 -> Bit]
  BY <1>1
<1>4. val \in Int
  BY DEF Bit
<1> DEFINE sum      == mon.sum - mon.vals[mon.pos] + val
           recorded == IF mon.recorded < k THEN mon.recorded + 1 ELSE k
           violated == recorded >= k /\ sum < m
           pos      == IF mon.pos + 1 >= k THEN 0 ELSE mon.pos + 1
           failures == mon.violations + (IF violated THEN 1 ELSE 0)
<1>5. sum \in Int /\ recorded \in Nat /\ pos \in Nat /\ pos < k
  BY <1>1, <1>2, <1>4
<1>6. failures \in Nat
  <2> HIDE DEF violated
  <2> QED
    BY <1>1
<1>7. Push(mon, m, k, val) =
        [vals |-> [mon.vals EXCEPT ![mon.pos] = val], pos |-> pos, sum |-> sum,
         recorded |-> recorded, violations |-> failures]
  BY DEF Push
<1> HIDE DEF sum, recorded, violated, pos, failures
<1> QED
  BY <1>3, <1>5, <1>6, <1>7 DEF Monitors
-----------------------------------------------------------------------------
\* The parameters of every task are in their ranges.
LEMMA TaskParameters ==
  ASSUME TypeOK
  PROVE  /\ Tasks = 1 .. Len(taskset) /\ Len(taskset) \in Nat \ {0}
         /\ \A t \in Tasks : taskset[t] \in TaskRecord /\ Len(taskset[t].init) = taskset[t].k
<1>1. taskset \in Seq(TaskRecord) /\ taskset # << >>
  BY TypesAssumption, TasksetsAssumption DEF TypeOK
<1>2. Tasks = 1 .. Len(taskset) /\ Len(taskset) \in Nat \ {0}
  BY <1>1, LenProperties, EmptySeq DEF Tasks
<1>3. \A t \in Tasks : taskset[t] \in TaskRecord
  BY <1>1, <1>2, ElementOfSeq
<1>4. \A t \in Tasks : Len(taskset[t].init) = taskset[t].k
  BY TasksetsAssumption DEF TypeOK, Tasks
<1> QED
  BY <1>2, <1>3, <1>4

\* Whatever the task model, a job gets a priority that can be compared.
LEMMA JobPriorityType ==
  ASSUME TypeOK, NEW t \in Tasks
  PROVE  JobPriority(t) \in Int
<1> DEFINE ts == taskset[t]
           mon == monitor[t]
           L == { i \in 1 .. ts.k :
                    \A h \in 1 .. i : Successes(mon.vals, Newest(mon, ts.k, h)) # ts.m }
<1>1. ts.prio \in Nat /\ ts.k \in Nat /\ MinPriority \in Nat
  BY TaskParameters, TypesAssumption DEF TaskRecord
<1>2. Cardinality(L) \in Nat
  <2>1. IsFiniteSet(1 .. ts.k)
    BY <1>1, FS_Interval
  <2>2. L \subseteq 1 .. ts.k
    OBVIOUS
  <2> QED
    BY <2>1, <2>2, FS_Subset, FS_CardinalityType
<1>3. GetDistance(mon, ts.m, ts.k) = ts.k - (1 + Cardinality(L)) + 1
  BY DEF GetDistance, CalcL
<1> HIDE DEF L, mon
<1>4. GetDistance(mon, ts.m, ts.k) \in Int
  BY <1>1, <1>2, <1>3
<1> QED
  BY <1>1, <1>4 DEF JobPriority, mon

\* A new simulation satisfies the invariant.
LEMMA InitInv == Init => IInv
<1> SUFFICES ASSUME Init PROVE IInv
  OBVIOUS
<1> USE DEF Init, SchedulerInit
<1>1. taskset \in Seq(TaskRecord) /\ taskset # << >>
  BY TypesAssumption, TasksetsAssumption
<1>2. Tasks = 1 .. Len(taskset) /\ Len(taskset) \in Nat \ {0}
  BY <1>1, LenProperties, EmptySeq DEF Tasks
<1>3. \A t \in Tasks : taskset[t] \in TaskRecord /\ Len(taskset[t].init) = taskset[t].k
  BY <1>1, <1>2, ElementOfSeq, TasksetsAssumption DEF Tasks
<1>4. task \in [Tasks -> TaskState]
  BY <1>3 DEF Start, TaskState, TaskRecord
<1>5. ASSUME NEW t \in Tasks PROVE monitor[t] \in Monitors(taskset[t].k)
  <2> DEFINE bits == [i \in 0 .. taskset[t].k - 1 |-> taskset[t].init[i + 1]]
  <2>1. taskset[t].k \in Nat /\ taskset[t].init \in Seq(Bit)
    BY <1>3 DEF TaskRecord
  <2>2. \A i \in 0 .. taskset[t].k - 1 : i + 1 \in 1 .. Len(taskset[t].init)
    BY <1>3, <2>1
  <2>3. bits \in [0 .. taskset[t].k - 1 -> Bit]
    BY <2>1, <2>2, ElementOfSeq
  <2>4. NewMonitor(taskset[t].k, bits) \in Monitors(taskset[t].k)
    BY <2>1, <2>3, NewMonitorType
  <2> QED
    BY <2>4
<1>6. DOMAIN << >> = {} /\ Range(<< >>) = {} /\ IsInjective(<< >>)
  BY DEF Range, IsInjective
<1>7. TypeOK
  <2>1. DOMAIN job \subseteq JobIds /\ job \in [DOMAIN job -> JobRecord]
    BY <1>6
  <2>2. {mySchedule, dlmon, execMissJobs, cancelled} \subseteq Seq(JobIds)
    BY EmptySeq
  <2>3. index \in Tasks
    BY <1>2
  <2>4. DOMAIN monitor = Tasks
    OBVIOUS
  <2>5. config \in Configs /\ taskset \in Tasksets /\ currentJob \in JobIds \cup {NoJob}
    OBVIOUS
  <2>6. /\ pc = "api" /\ mode = "none" /\ lastInit \in Nat \cup {-1}
        /\ {now, end, idleSteps, cancelSteps} \subseteq Nat
    OBVIOUS
  <2>7. {scheduleChanged, rv, ec, finalised, clean} \subseteq BOOLEAN
    BY Zenon
  <2> HIDE DEF Init, SchedulerInit
  <2> QED
    BY <1>4, <1>5, <2>1, <2>2, <2>3, <2>4, <2>5, <2>6, <2>7 DEF TypeOK
<1>8. JobsHeld /\ JobsNumbered /\ StepsLeft /\ CurrentJobScheduled /\ ScheduleIsSeen
  BY <1>6 DEF JobsHeld, JobsNumbered, StepsLeft, CurrentJobScheduled, ScheduleIsSeen
<1>9. MonitorCoversSchedule /\ MonitorSorted /\ IsInjective(dlmon)
  BY <1>6 DEF MonitorCoversSchedule, MonitorSorted
<1> QED
  BY <1>7, <1>8, <1>9 DEF IInv, SchedInv, DeadlinesAhead
-----------------------------------------------------------------------------
(* Steps that leave the jobs and the scheduler alone                        *)

LEMMA QuietInv ==
  ASSUME SchedInv, UNCHANGED <<fixed, job, sched, task, cancelled>>
  PROVE  SchedInv'
<1> USE DEF fixed, sched
<1>1. JobsHeld' /\ JobsNumbered' /\ StepsLeft' /\ CurrentJobScheduled' /\ ScheduleIsSeen'
  BY DEF SchedInv, JobsHeld, JobsNumbered, StepsLeft, CurrentJobScheduled, ScheduleIsSeen
<1>2. MonitorCoversSchedule' /\ MonitorSorted' /\ IsInjective(dlmon)'
  BY DEF SchedInv, MonitorCoversSchedule, MonitorSorted, LatestStart
<1> QED
  BY <1>1, <1>2 DEF SchedInv

\* Types of the variables that such steps do not touch.
LEMMA QuietType ==
  ASSUME TypeOK, UNCHANGED <<fixed, job, sched, tasks, cancelled>>,
         pc' \in {"api", "initStep", "cancelInit", "activate", "schedule",
                  "cancelSchedule", "dispatch"},
         mode' \in {"none", "run", "finalise"},
         now' \in Nat, end' \in Nat, idleSteps' \in Nat, cancelSteps' \in Nat,
         lastInit' \in Nat \cup {-1},
         index' \in Tasks,
         rv' \in BOOLEAN, ec' \in BOOLEAN, finalised' \in BOOLEAN, clean' \in BOOLEAN
  PROVE  TypeOK'
<1>1. {now, end, idleSteps, cancelSteps}' \subseteq Nat
  OBVIOUS
<1>2. {scheduleChanged, rv, ec, finalised, clean}' \subseteq BOOLEAN
  <2>1. scheduleChanged \in BOOLEAN /\ scheduleChanged' = scheduleChanged
    BY DEF TypeOK, sched
  <2> QED
    BY <2>1, Zenon
<1>3. /\ taskset' = taskset /\ config' = config /\ job' = job /\ monitor' = monitor
      /\ task' = task /\ mySchedule' = mySchedule /\ dlmon' = dlmon
      /\ execMissJobs' = execMissJobs /\ cancelled' = cancelled /\ currentJob' = currentJob
  BY DEF fixed, sched, tasks
<1>4. Tasks' = Tasks /\ JobIds' = JobIds
  BY <1>3 DEF Tasks, JobIds
<1> QED
  BY <1>1, <1>2, <1>3, <1>4 DEF TypeOK

LEMMA RunInv ==
  ASSUME IInv, NEW steps \in RunSteps, Run(steps)
  PROVE  IInv'
<1>1. now + steps \in Nat /\ now \in Nat
  BY TypesAssumption DEF IInv, TypeOK
<1>2. TypeOK'
  BY <1>1, QuietType DEF IInv, TypeOK, Run, sched, tasks, results
<1>3. SchedInv'
  BY QuietInv DEF IInv, Run, tasks
<1>4. DeadlinesAhead'
  BY DEF Run, DeadlinesAhead
<1> QED
  BY <1>2, <1>3, <1>4 DEF IInv

LEMMA FinaliseInv ==
  ASSUME IInv, Finalise
  PROVE  IInv'
<1>1. TypeOK'
  BY QuietType DEF IInv, TypeOK, Finalise, FinaliseWith, sched, tasks, results
<1>2. SchedInv'
  BY QuietInv DEF IInv, Finalise, FinaliseWith, tasks
<1>3. DeadlinesAhead'
  BY DEF Finalise, FinaliseWith, DeadlinesAhead
<1> QED
  BY <1>1, <1>2, <1>3 DEF IInv

\* When check() finds nothing, every entry of the monitor can still be in time:
\* the first is the most urgent one.
LEMMA NothingMissed ==
  ASSUME TypeOK, StepsLeft, MonitorSorted, Range(dlmon) \subseteq DOMAIN job,
         ~ MissFound(now), config.dlMissCancellations, NEW j \in Range(dlmon)
  PROVE  job[j].dl > now
<1>1. dlmon \in Seq(JobIds) /\ now \in Nat /\ job \in [DOMAIN job -> JobRecord]
  BY DEF TypeOK
<1>2. \A i \in DOMAIN job : job[i].dl \in Int /\ job[i].rem \in Nat /\ job[i].rem >= 1
  BY <1>1 DEF StepsLeft, JobRecord
<1>3. Range(dlmon) \subseteq DOMAIN job
  OBVIOUS
<1>4. PICK i \in DOMAIN dlmon : dlmon[i] = j
  BY DEF Range
<1>5. DOMAIN dlmon = 1 .. Len(dlmon) /\ 1 \in DOMAIN dlmon /\ 1 <= i /\ dlmon # << >>
  BY <1>1, <1>4, LenProperties, EmptySeq
<1>6. Head(dlmon) = dlmon[1] /\ dlmon[1] \in DOMAIN job /\ j \in DOMAIN job
  BY <1>1, <1>3, <1>5 DEF Range
<1>7. LatestStart(job)[dlmon[1]] <= LatestStart(job)[dlmon[i]]
  BY <1>4, <1>5 DEF MonitorSorted
<1>8. /\ LatestStart(job)[dlmon[1]] = job[dlmon[1]].dl - job[dlmon[1]].rem
      /\ LatestStart(job)[dlmon[i]] = job[j].dl - job[j].rem
  BY <1>4, <1>6 DEF LatestStart
<1>9. ~ (LatestStart(job)[dlmon[1]] < now)
  BY <1>5, <1>6 DEF MissFound, CheckFires
<1> QED
  BY <1>1, <1>2, <1>6, <1>7, <1>8, <1>9

LEMMA InitStepDoneInv ==
  ASSUME IInv, InitStepDone
  PROVE  IInv'
<1>1. TypeOK'
  <2>1. cancelSteps' \in Nat
    BY DEF IInv, TypeOK, InitStepDone, PerformCancellations
  <2> QED
    BY <2>1, QuietType
       DEF IInv, TypeOK, InitStepDone, PerformCancellations, AfterInitStep, results
<1>2. SchedInv'
  BY QuietInv DEF IInv, InitStepDone, PerformCancellations, tasks
<1>3. DeadlinesAhead'
  <2>1. config.dlMissCancellations => Range(dlmon) \subseteq DOMAIN job
    BY DEF IInv, SchedInv, MonitorCoversSchedule, JobsHeld
  <2>2. TypeOK /\ StepsLeft /\ MonitorSorted
    BY DEF IInv, SchedInv
  <2>3. config.dlMissCancellations => \A j \in Range(dlmon) : job[j].dl > now
    BY <2>1, <2>2, NothingMissed DEF InitStepDone
  <2> QED
    BY <2>3 DEF InitStepDone, PerformCancellations, DeadlinesAhead, fixed, sched
<1> QED
  BY <1>1, <1>2, <1>3 DEF IInv

LEMMA CancelDoneInv ==
  ASSUME IInv, CancelDone
  PROVE  IInv'
<1>1. TypeOK'
  <2>1. now' \in Nat
    BY DEF IInv, TypeOK, CancelDone, ExitOnCancel
  <2> QED
    BY <2>1, QuietType
       DEF IInv, TypeOK, CancelDone, ExitOnCancel, AfterInitStep, results
<1>2. SchedInv'
  BY QuietInv DEF IInv, CancelDone, tasks
<1>3. DeadlinesAhead'
  BY DEF IInv, CancelDone, ExitOnCancel, DeadlinesAhead, AfterInitStep, fixed, sched
<1> QED
  BY <1>1, <1>2, <1>3 DEF IInv

LEMMA NotYetActiveInv ==
  ASSUME IInv, NotYetActive
  PROVE  IInv'
<1>1. TypeOK'
  <2>1. index' \in Tasks
    BY TaskParameters DEF IInv, TypeOK, NotYetActive, Advance
  <2> QED
    BY <2>1, QuietType DEF IInv, TypeOK, NotYetActive, Advance, results
<1>2. SchedInv'
  BY QuietInv DEF IInv, NotYetActive, tasks
<1>3. DeadlinesAhead'
  BY DEF IInv, NotYetActive, Advance, DeadlinesAhead, fixed, sched
<1> QED
  BY <1>1, <1>2, <1>3 DEF IInv

LEMMA ScheduleDoneInv ==
  ASSUME IInv, ScheduleDone
  PROVE  IInv'
<1>1. TypeOK'
  <2>1. cancelSteps' \in Nat
    BY DEF IInv, TypeOK, ScheduleDone, PerformCancellations
  <2> QED
    BY <2>1, QuietType DEF IInv, TypeOK, ScheduleDone, PerformCancellations, results
<1>2. SchedInv'
  BY QuietInv DEF IInv, ScheduleDone, PerformCancellations, tasks
<1>3. DeadlinesAhead'
  BY DEF IInv, ScheduleDone, PerformCancellations, DeadlinesAhead, fixed, sched
<1> QED
  BY <1>1, <1>2, <1>3 DEF IInv
-----------------------------------------------------------------------------
(* initStep                                                                 *)

\* Appending a new entry.
LEMMA AppendRange ==
  ASSUME NEW S, NEW s \in Seq(S), NEW e \in S
  PROVE  /\ Append(s, e) \in Seq(S)
         /\ Range(Append(s, e)) = Range(s) \cup {e}
         /\ IsInjective(s) /\ e \notin Range(s) => IsInjective(Append(s, e))
<1> DEFINE r == Append(s, e)
<1>1. /\ r \in Seq(S) /\ Len(r) = Len(s) + 1
      /\ \A i \in 1 .. Len(s) : r[i] = s[i]
      /\ r[Len(s) + 1] = e
  BY AppendProperties
<1> HIDE DEF r
<1>2. Len(s) \in Nat /\ DOMAIN s = 1 .. Len(s) /\ DOMAIN r = 1 .. Len(s) + 1
  BY <1>1, LenProperties
<1>3. DOMAIN r = DOMAIN s \cup {Len(s) + 1} /\ Len(s) + 1 \notin DOMAIN s
  BY <1>2
<1>4. Range(r) = Range(s) \cup {e}
  BY <1>1, <1>2, <1>3 DEF Range
<1>5. ASSUME IsInjective(s), e \notin Range(s) PROVE IsInjective(r)
  BY <1>1, <1>2, <1>3, <1>5 DEF Range, IsInjective
<1> QED
  BY <1>1, <1>4, <1>5 DEF r

\* The job that check() names is scheduled, and not among the cancelled ones.
LEMMA MissedJob ==
  ASSUME IInv, MissFound(now)
  PROVE  /\ dlmon # << >> /\ dlmon \in Seq(JobIds)
         /\ Head(dlmon) \in Range(dlmon)
         /\ Head(dlmon) \in Range(mySchedule)
         /\ Head(dlmon) \in DOMAIN job
         /\ Head(dlmon) \notin Range(cancelled)
         /\ Head(dlmon) \notin Range(execMissJobs)
         /\ Head(dlmon) \in JobIds
         /\ Tail(dlmon) \in Seq(JobIds)
         /\ Range(Tail(dlmon)) = Range(dlmon) \ {Head(dlmon)}
         /\ IsInjective(Tail(dlmon))
         /\ Sorted(Tail(dlmon), LatestStart(job))
<1>1. /\ dlmon # << >> /\ dlmon \in Seq(JobIds) /\ config.dlMissCancellations
      /\ IsInjective(dlmon) /\ DOMAIN job \subseteq JobIds
  BY DEF IInv, TypeOK, SchedInv, MissFound, CheckFires
<1>2. Sorted(dlmon, LatestStart(job))
  BY <1>1 DEF IInv, SchedInv, MonitorSorted, Sorted
<1>3. /\ Head(dlmon) \in Range(dlmon)
      /\ Tail(dlmon) \in Seq(JobIds)
      /\ Range(Tail(dlmon)) = Range(dlmon) \ {Head(dlmon)}
      /\ IsInjective(Tail(dlmon))
      /\ Sorted(Tail(dlmon), LatestStart(job))
  BY <1>1, <1>2, TailRange
<1>4. /\ Range(dlmon) \subseteq Range(mySchedule)
      /\ Range(dlmon) \cap Range(execMissJobs) = {}
  BY <1>1 DEF IInv, SchedInv, MonitorCoversSchedule
<1>5. /\ Range(mySchedule) \subseteq DOMAIN job
      /\ Range(mySchedule) \cap Range(cancelled) = {}
  BY DEF IInv, SchedInv, JobsHeld
<1> QED
  BY <1>1, <1>3, <1>4, <1>5

LEMMA MissKeptInv ==
  ASSUME IInv, MissKept
  PROVE  IInv'
<1> DEFINE h == Head(dlmon)
<1>1. MissFound(now)
  BY DEF MissKept, KeepMissJob
<1>2. /\ execMissJobs' = Append(execMissJobs, h) /\ dlmon' = Tail(dlmon)
      /\ UNCHANGED <<config, taskset, job, task, monitor, mySchedule, currentJob,
                     scheduleChanged, cancelled, pc, now, mode, end, index, rv,
                     ec, finalised, clean, idleSteps, cancelSteps, lastInit>>
      /\ pc = "initStep"
  BY DEF MissKept, KeepMissJob, fixed, tasks, results
<1>3. /\ execMissJobs' \in Seq(JobIds) /\ Range(execMissJobs') = Range(execMissJobs) \cup {h}
  <2>1. execMissJobs \in Seq(JobIds) /\ h \in JobIds
    BY <1>1, MissedJob DEF IInv, TypeOK
  <2> QED
    BY <1>2, <2>1, AppendRange
<1>4. TypeOK'
  <2>1. dlmon' \in Seq(JobIds)
    BY <1>1, <1>2, MissedJob
  <2> QED
    BY <1>2, <1>3, <2>1 DEF IInv, TypeOK, Tasks, JobIds
<1>5. JobsHeld' /\ StepsLeft' /\ CurrentJobScheduled' /\ ScheduleIsSeen'
  BY <1>2 DEF IInv, SchedInv, JobsHeld, StepsLeft, CurrentJobScheduled, ScheduleIsSeen
<1>6. JobsNumbered'
  BY <1>1, <1>2, <1>3, MissedJob DEF IInv, SchedInv, JobsNumbered
<1>7. IsInjective(dlmon)'
  BY <1>1, <1>2, MissedJob
<1>8. MonitorCoversSchedule'
  BY <1>1, <1>2, <1>3, MissedJob DEF IInv, SchedInv, MonitorCoversSchedule
<1>9. MonitorSorted'
  BY <1>1, <1>2, MissedJob DEF MonitorSorted, Sorted, LatestStart
<1> QED
  BY <1>2, <1>4, <1>5, <1>6, <1>7, <1>8, <1>9 DEF IInv, SchedInv, DeadlinesAhead

LEMMA MissDroppedInv ==
  ASSUME IInv, MissDropped
  PROVE  IInv'
<1> DEFINE h == Head(dlmon)
<1>1. MissFound(now)
  BY DEF MissDropped, DropMissJob
<1>2. /\ mySchedule' = RemoveFirst(mySchedule, h) /\ dlmon' = Tail(dlmon)
      /\ cancelled' = Append(cancelled, h)
      /\ currentJob' = IF currentJob = h THEN NoJob ELSE currentJob
      /\ scheduleChanged' = TRUE
      /\ UNCHANGED <<config, taskset, job, task, monitor, execMissJobs, pc, now, mode,
                     end, index, rv, ec, finalised, clean, idleSteps, cancelSteps, lastInit>>
      /\ pc = "initStep"
  BY DEF MissDropped, DropMissJob, InternalRemoveJob, fixed, tasks, results
<1>3. /\ mySchedule' \in Seq(JobIds)
      /\ Range(mySchedule') = Range(mySchedule) \ {h} /\ IsInjective(mySchedule')
  <2>1. mySchedule \in Seq(JobIds) /\ IsInjective(mySchedule)
    BY DEF IInv, TypeOK, SchedInv, JobsHeld
  <2> QED
    BY <1>2, <2>1, RemoveFirstRange
<1>4. /\ cancelled' \in Seq(JobIds)
      /\ Range(cancelled') = Range(cancelled) \cup {h} /\ IsInjective(cancelled')
  <2>1. cancelled \in Seq(JobIds) /\ IsInjective(cancelled)
    BY DEF IInv, TypeOK, SchedInv, JobsHeld
  <2>2. h \in JobIds /\ h \notin Range(cancelled)
    BY <1>1, MissedJob
  <2> QED
    BY <1>2, <2>1, <2>2, AppendRange
<1>5. TypeOK'
  <2>1. dlmon' \in Seq(JobIds)
    BY <1>1, <1>2, MissedJob
  <2>2. currentJob' \in JobIds \cup {NoJob}
    BY <1>2 DEF IInv, TypeOK
  <2>3. execMissJobs' \in Seq(JobIds) /\ JobIds' = JobIds /\ Tasks' = Tasks
    BY <1>2 DEF IInv, TypeOK, JobIds, Tasks
  <2>4. {scheduleChanged, rv, ec, finalised, clean}' \subseteq BOOLEAN
    <3>1. rv' = rv /\ ec' = ec /\ finalised' = finalised /\ clean' = clean /\ scheduleChanged' = TRUE
      BY <1>2
    <3>2. {scheduleChanged, rv, ec, finalised, clean} \subseteq BOOLEAN
      BY DEF IInv, TypeOK
    <3> QED
      BY <3>1, <3>2, Zenon
  <2> QED
    BY <1>2, <1>3, <1>4, <2>1, <2>2, <2>3, <2>4 DEF IInv, TypeOK
<1>6. JobsHeld'
  BY <1>1, <1>2, <1>3, <1>4, MissedJob DEF IInv, SchedInv, JobsHeld
<1>7. JobsNumbered'
  BY <1>1, <1>2, MissedJob DEF IInv, SchedInv, JobsNumbered
<1>8. StepsLeft' /\ ScheduleIsSeen' /\ CurrentJobScheduled'
  BY <1>2, <1>3 DEF IInv, SchedInv, StepsLeft, ScheduleIsSeen, CurrentJobScheduled
<1>9. IsInjective(dlmon)'
  BY <1>1, <1>2, MissedJob
<1>10. MonitorCoversSchedule'
  BY <1>1, <1>2, <1>3, MissedJob DEF IInv, SchedInv, MonitorCoversSchedule
<1>11. MonitorSorted'
  BY <1>1, <1>2, MissedJob DEF MonitorSorted, Sorted, LatestStart
<1> QED
  BY <1>2, <1>5, <1>6, <1>7, <1>8, <1>9, <1>10, <1>11 DEF IInv, SchedInv, DeadlinesAhead
-----------------------------------------------------------------------------
(* performCancellations                                                     *)

\* The job at the head of the cancelled ones is one that exists, and the
\* scheduler does not hold it any more.
LEMMA CancelledJob ==
  ASSUME IInv, cancelled # << >>
  PROVE  /\ cancelled \in Seq(JobIds)
         /\ Head(cancelled) \in DOMAIN job
         /\ Head(cancelled) \in JobIds
         /\ Head(cancelled)[1] \in Tasks
         /\ Head(cancelled) \in Range(cancelled)
         /\ Head(cancelled) \notin Range(mySchedule)
         /\ Tail(cancelled) \in Seq(JobIds)
         /\ Range(Tail(cancelled)) = Range(cancelled) \ {Head(cancelled)}
         /\ IsInjective(Tail(cancelled))
<1>1. cancelled \in Seq(JobIds) /\ IsInjective(cancelled) /\ DOMAIN job \subseteq JobIds
  BY DEF IInv, TypeOK, SchedInv, JobsHeld
<1>2. /\ Head(cancelled) \in Range(cancelled)
      /\ Tail(cancelled) \in Seq(JobIds)
      /\ Range(Tail(cancelled)) = Range(cancelled) \ {Head(cancelled)}
      /\ IsInjective(Tail(cancelled))
  BY <1>1, TailRange
<1>3. Head(cancelled) \in DOMAIN job /\ Head(cancelled) \notin Range(mySchedule)
  BY <1>2 DEF IInv, SchedInv, JobsHeld
<1>4. Head(cancelled)[1] \in Tasks
  BY <1>1, <1>3 DEF JobIds
<1> QED
  BY <1>1, <1>2, <1>3, <1>4

\* The monitor's order is that of the jobs it watches, whatever happens to others.
LEMMA SameOrder ==
  ASSUME MonitorSorted, UNCHANGED <<config, dlmon>>,
         config.dlMissCancellations =>
           /\ Range(dlmon) \subseteq DOMAIN job /\ Range(dlmon) \subseteq DOMAIN job'
           /\ \A j \in Range(dlmon) : job'[j].dl - job'[j].rem = job[j].dl - job[j].rem
  PROVE  MonitorSorted'
<1> SUFFICES ASSUME config.dlMissCancellations PROVE MonitorSorted'
  BY DEF MonitorSorted
<1>1. \A i \in DOMAIN dlmon : dlmon[i] \in Range(dlmon)
  BY DEF Range
<1>2. \A i \in DOMAIN dlmon : LatestStart(job')[dlmon[i]] = LatestStart(job)[dlmon[i]]
  BY <1>1 DEF LatestStart
<1>3. LatestStart(job)' = LatestStart(job')
  BY DEF LatestStart
<1> QED
  BY <1>2, <1>3 DEF MonitorSorted

\* Whatever the scheduler: cancelJob counts the first of the cancelled jobs, tells
\* its task's monitor and deletes it.
LEMMA CancelJobCore ==
  ASSUME TypeOK, JobsNumbered, StepsLeft, CancelJob,
         IsInjective(cancelled), Range(cancelled) \subseteq DOMAIN job
  PROVE  /\ TypeOK' /\ JobsNumbered' /\ StepsLeft'
         /\ UNCHANGED <<config, taskset, mySchedule, dlmon, execMissJobs, currentJob,
                        scheduleChanged, pc, now, idleSteps>>
         /\ Head(cancelled) \in Range(cancelled)
         /\ Range(cancelled)' = Range(cancelled) \ {Head(cancelled)}
         /\ IsInjective(cancelled)'
         /\ DOMAIN job' = DOMAIN job \ {Head(cancelled)}
         /\ \A i \in DOMAIN job' : job'[i] = job[i]
<1> DEFINE j == Head(cancelled)
           t == j[1]
           k == taskset[t].k
           mon == IF k > 0 THEN Push(monitor[t], taskset[t].m, k, 0) ELSE monitor[t]
           counters == CountCancel(task[t], j)
<1>1. /\ cancelled # << >>
      /\ task' = [task EXCEPT ![t] = counters]
      /\ monitor' = [monitor EXCEPT ![t] = mon]
      /\ rv' = CancelResult(j, mon)
      /\ job' = Delete(job, j)
      /\ cancelled' = Tail(cancelled)
      /\ UNCHANGED <<config, taskset, mySchedule, dlmon, execMissJobs, currentJob,
                     scheduleChanged, pc, now, mode, end, index, ec, finalised, clean,
                     idleSteps, cancelSteps, lastInit>>
  <2>1. cancelled # << >> /\ cancelled' = Tail(cancelled)
    BY DEF CancelJob
  <2>2. task' = [task EXCEPT ![t] = counters]
    BY DEF CancelJob
  <2>3. monitor' = [monitor EXCEPT ![t] = mon]
    BY DEF CancelJob
  <2>4. rv' = CancelResult(j, mon) /\ job' = Delete(job, j)
    BY DEF CancelJob
  <2>5. UNCHANGED <<config, taskset, mySchedule, dlmon, execMissJobs, currentJob,
                    scheduleChanged, pc, now, mode, end, index, ec, finalised, clean,
                    idleSteps, cancelSteps, lastInit>>
    BY DEF CancelJob, fixed, sched, results
  <2> HIDE DEF counters, mon
  <2> QED
    BY <2>1, <2>2, <2>3, <2>4, <2>5
<1>2. /\ j \in Range(cancelled) /\ Tail(cancelled) \in Seq(JobIds)
      /\ Range(Tail(cancelled)) = Range(cancelled) \ {j} /\ IsInjective(Tail(cancelled))
      /\ j \in DOMAIN job /\ t \in Tasks /\ job[j] \in JobRecord
  <2>1. cancelled \in Seq(JobIds)
    BY DEF TypeOK
  <2>2. /\ j \in Range(cancelled) /\ Tail(cancelled) \in Seq(JobIds)
        /\ Range(Tail(cancelled)) = Range(cancelled) \ {j} /\ IsInjective(Tail(cancelled))
    BY <1>1, <2>1, TailRange
  <2>3. j \in DOMAIN job /\ job[j] \in JobRecord /\ j \in JobIds
    BY <2>2 DEF TypeOK
  <2> QED
    BY <2>2, <2>3 DEF JobIds
<1>3. counters \in TaskState
  <2>1. task[t] \in TaskState
    BY <1>2 DEF TypeOK
  <2>2. job[j].preemptions \in Nat /\ job[j].et - job[j].rem \in Nat
    BY <1>2 DEF StepsLeft, JobRecord
  <2>3. (IF Started(j) THEN 1 ELSE 0) \in Nat
    OBVIOUS
  <2>4. /\ task[t].cancellations + 1 \in Nat
        /\ task[t].preemptions + job[j].preemptions \in Nat
        /\ task[t].execCancellations + (IF Started(j) THEN 1 ELSE 0) \in Nat
        /\ task[t].performanceLost + (job[j].et - job[j].rem) \in Nat
    BY <2>1, <2>2, <2>3 DEF TaskState
  <2> QED
    BY <2>1, <2>4 DEF TaskState, CountCancel
<1>4. counters.activations = task[t].activations
  <2>1. task[t] \in TaskState
    BY <1>2 DEF TypeOK
  <2> QED
    BY <2>1 DEF TaskState, CountCancel
<1>5. mon \in Monitors(k)
  <2>1. k \in Nat /\ monitor[t] \in Monitors(k)
    BY <1>2, TaskParameters DEF TypeOK, TaskRecord
  <2>2. 0 \in Bit
    BY DEF Bit
  <2> QED
    BY <2>1, <2>2, PushType
<1> HIDE DEF counters, mon
<1>6. DOMAIN job' = DOMAIN job \ {j} /\ \A i \in DOMAIN job' : job'[i] = job[i]
  BY <1>1 DEF Delete
<1>7. job' \in [DOMAIN job' -> JobRecord]
  BY <1>1, <1>6 DEF TypeOK, Delete
<1>8. /\ cancelled' \in Seq(JobIds)
      /\ Range(cancelled)' = Range(cancelled) \ {j} /\ IsInjective(cancelled)'
  BY <1>1, <1>2
<1>9. task' \in [Tasks -> TaskState] /\ \A u \in Tasks : task'[u].activations = task[u].activations
  BY <1>1, <1>2, <1>3, <1>4 DEF TypeOK
<1>10. TypeOK'
  <2>1. DOMAIN monitor' = Tasks /\ \A u \in Tasks : monitor'[u] \in Monitors(taskset[u].k)
    BY <1>1, <1>2, <1>5 DEF TypeOK
  <2>2. {scheduleChanged, rv, ec, finalised, clean}' \subseteq BOOLEAN
    <3>1. rv' \in BOOLEAN
      BY <1>1 DEF CancelResult, TypeOK
    <3>2. {scheduleChanged, ec, finalised, clean} \subseteq BOOLEAN
      BY DEF TypeOK
    <3> QED
      BY <1>1, <3>1, <3>2, Zenon
  <2>3. DOMAIN job' \subseteq JobIds
    BY <1>6 DEF TypeOK
  <2>4. {mySchedule, dlmon, execMissJobs, cancelled}' \subseteq Seq(JobIds)
    BY <1>1, <1>8 DEF TypeOK
  <2>5. Tasks' = Tasks /\ JobIds' = JobIds
    BY <1>1 DEF Tasks, JobIds
  <2> QED
    BY <1>1, <1>7, <1>9, <2>1, <2>2, <2>3, <2>4, <2>5 DEF TypeOK
<1>11. JobsNumbered'
  <2>1. Range(dlmon) \cup Range(execMissJobs) \subseteq JobIds
    BY RangeOfSeq DEF TypeOK
  <2>2. \A i \in DOMAIN job \cup Range(dlmon) \cup Range(execMissJobs) : i[1] \in Tasks
    BY <2>1 DEF TypeOK, JobIds
  <2> QED
    BY <1>1, <1>6, <1>9, <2>2 DEF JobsNumbered
<1>12. StepsLeft'
  BY <1>6 DEF StepsLeft
<1> QED
  BY <1>1, <1>2, <1>6, <1>8, <1>10, <1>11, <1>12

LEMMA CancelJobInv ==
  ASSUME IInv, CancelJob
  PROVE  IInv'
<1> DEFINE j == Head(cancelled)
<1>1. /\ TypeOK' /\ JobsNumbered' /\ StepsLeft'
      /\ UNCHANGED <<config, taskset, mySchedule, dlmon, execMissJobs, currentJob,
                     scheduleChanged, pc, now>>
      /\ Range(cancelled)' = Range(cancelled) \ {j} /\ IsInjective(cancelled)'
      /\ DOMAIN job' = DOMAIN job \ {j} /\ \A i \in DOMAIN job' : job'[i] = job[i]
  BY CancelJobCore DEF IInv, SchedInv, JobsHeld
<1>2. cancelled # << >>
  BY DEF CancelJob
<1>3. JobsHeld'
  BY <1>1, <1>2, CancelledJob DEF IInv, SchedInv, JobsHeld
<1>4. ScheduleIsSeen' /\ CurrentJobScheduled' /\ IsInjective(dlmon)'
  BY <1>1 DEF IInv, SchedInv, ScheduleIsSeen, CurrentJobScheduled
<1>5. MonitorCoversSchedule'
  BY <1>1, <1>2, CancelledJob DEF IInv, SchedInv, MonitorCoversSchedule
<1>6. config.dlMissCancellations => Range(dlmon) \subseteq DOMAIN job'
  BY <1>1, <1>2, CancelledJob DEF IInv, SchedInv, MonitorCoversSchedule, JobsHeld
<1>7. MonitorSorted'
  <2>1. config.dlMissCancellations =>
          /\ Range(dlmon) \subseteq DOMAIN job /\ Range(dlmon) \subseteq DOMAIN job'
          /\ \A i \in Range(dlmon) : job'[i].dl - job'[i].rem = job[i].dl - job[i].rem
    BY <1>1, <1>6
  <2> QED
    BY <1>1, <2>1, SameOrder DEF IInv, SchedInv
<1>8. DeadlinesAhead'
  BY <1>1, <1>6 DEF IInv, DeadlinesAhead
<1> QED
  BY <1>1, <1>3, <1>4, <1>5, <1>7, <1>8 DEF IInv, SchedInv
-----------------------------------------------------------------------------
(* doActivations                                                            *)

\* Whatever the scheduler: spawnJob makes a job under a name that nothing uses.
LEMMA SpawnJobCore ==
  ASSUME TypeOK, JobsNumbered, SpawnJob
  PROVE  /\ pc = "activate" /\ pc' \in {"activate", "schedule"}
         /\ UNCHANGED <<config, taskset, monitor, mode, now, end, cancelled, rv, ec,
                        finalised, clean, idleSteps, cancelSteps, lastInit>>
         /\ index' \in Tasks /\ task' \in [Tasks -> TaskState]
         /\ NewJob(index) \in JobRecord
         /\ 1 <= NewJob(index).rem /\ NewJob(index).rem <= NewJob(index).et
         /\ NewJob(index).dl > now
         /\ NextJobId(index) \in JobIds
         /\ NextJobId(index) \notin DOMAIN job \cup Range(dlmon) \cup Range(execMissJobs)
         /\ \A i \in DOMAIN job \cup Range(dlmon) \cup Range(execMissJobs) \cup {NextJobId(index)} :
              i[2] < task'[i[1]].activations
<1> DEFINE t == taskset[index]
           j == NextJobId(index)
           record == NewJob(index)
<1>1. /\ pc = "activate" /\ pc' \in {"activate", "schedule"}
      /\ UNCHANGED <<config, taskset, monitor, mode, now, end, cancelled, rv, ec,
                     finalised, clean, idleSteps, cancelSteps, lastInit>>
  BY DEF SpawnJob, Advance, fixed, results
<1>2. PICK gap \in t.gaps : task' = [task EXCEPT ![index] = CountActivation(task[index], gap)]
  BY DEF SpawnJob
<1>3. index' \in Tasks
  BY TaskParameters DEF TypeOK, SpawnJob, Advance
<1>4. index \in Tasks /\ t \in TaskRecord /\ task[index] \in TaskState /\ now \in Nat
  BY TaskParameters DEF TypeOK
<1>5. record \in JobRecord /\ 1 <= record.rem /\ record.rem <= record.et /\ record.dl > now
  <2>1. JobPriority(index) \in Int
    BY <1>4, JobPriorityType
  <2> QED
    BY <1>4, <2>1 DEF TaskRecord, JobRecord, NewJob
<1>6. j \in JobIds /\ j[1] = index /\ j[2] = task[index].activations
  BY <1>4 DEF JobIds, TaskState, NextJobId
<1>7. /\ CountActivation(task[index], gap) \in TaskState
      /\ CountActivation(task[index], gap).activations = task[index].activations + 1
  <2>1. gap \in Nat
    BY <1>2, <1>4 DEF TaskRecord
  <2>2. task[index].next + gap \in Int /\ task[index].activations + 1 \in Nat
    BY <1>4, <2>1 DEF TaskState
  <2> QED
    BY <1>4, <2>2 DEF CountActivation, TaskState
<1>8. /\ task' \in [Tasks -> TaskState]
      /\ task'[index].activations = task[index].activations + 1
      /\ \A u \in Tasks \ {index} : task'[u] = task[u]
  BY <1>2, <1>4, <1>7 DEF TypeOK
<1>9. j \notin DOMAIN job /\ j \notin Range(dlmon) /\ j \notin Range(execMissJobs)
  BY <1>4, <1>6 DEF JobsNumbered, TaskState
<1> HIDE DEF t, j, record
<1>10. \A i \in DOMAIN job \cup Range(dlmon) \cup Range(execMissJobs) \cup {j} :
         i[2] < task'[i[1]].activations
  <2>1. Range(dlmon) \cup Range(execMissJobs) \cup DOMAIN job \subseteq JobIds
    BY RangeOfSeq DEF TypeOK
  <2>2. \A i \in DOMAIN job \cup Range(dlmon) \cup Range(execMissJobs) :
          i[1] \in Tasks /\ i[2] \in Nat /\ i[2] < task[i[1]].activations
    BY <2>1 DEF JobsNumbered, JobIds
  <2>3. \A u \in Tasks : task[u].activations \in Nat /\ task'[u].activations >= task[u].activations
    <3>1. \A u \in Tasks : task[u].activations \in Nat
      BY DEF TypeOK, TaskState
    <3> QED
      BY <1>8, <3>1
  <2>4. \A i \in DOMAIN job \cup Range(dlmon) \cup Range(execMissJobs) :
          i[2] < task'[i[1]].activations
    <3>1. \A u \in Tasks : task'[u].activations \in Nat
      BY <1>8 DEF TaskState
    <3> QED
      BY <2>2, <2>3, <3>1
  <2>5. j[2] < task'[j[1]].activations
    BY <1>4, <1>6, <1>8 DEF TaskState
  <2> QED
    BY <2>4, <2>5
<1> QED
  BY <1>1, <1>3, <1>5, <1>6, <1>8, <1>9, <1>10 DEF j, record

\* ... and whatever list the scheduler puts it into, it is a job like the others.
LEMMA EnqueuedJob ==
  ASSUME TypeOK, JobsNumbered, StepsLeft, SpawnJob,
         job' = [i \in DOMAIN job \cup {NextJobId(index)} |->
                   IF i = NextJobId(index) THEN NewJob(index) ELSE job[i]],
         mySchedule' \in Seq(JobIds), dlmon' \in Seq(JobIds), execMissJobs' = execMissJobs,
         currentJob' \in JobIds \cup {NoJob}, scheduleChanged' \in BOOLEAN,
         Range(dlmon)' \subseteq Range(dlmon) \cup {NextJobId(index)}
  PROVE  /\ TypeOK' /\ JobsNumbered' /\ StepsLeft'
         /\ DOMAIN job' = DOMAIN job \cup {NextJobId(index)}
         /\ job'[NextJobId(index)] = NewJob(index)
         /\ \A i \in DOMAIN job : job'[i] = job[i]
<1> DEFINE j == NextJobId(index)
           record == NewJob(index)
<1>1. /\ pc' \in {"activate", "schedule"}
      /\ UNCHANGED <<config, taskset, monitor, mode, now, end, cancelled, rv, ec,
                     finalised, clean, idleSteps, cancelSteps, lastInit>>
      /\ index' \in Tasks /\ task' \in [Tasks -> TaskState]
      /\ record \in JobRecord /\ 1 <= record.rem /\ record.rem <= record.et
      /\ j \in JobIds /\ j \notin DOMAIN job
      /\ \A i \in DOMAIN job \cup Range(dlmon) \cup Range(execMissJobs) \cup {j} :
           i[2] < task'[i[1]].activations
  BY SpawnJobCore
<1> HIDE DEF j, record
<1>2. job' = [i \in DOMAIN job \cup {j} |-> IF i = j THEN record ELSE job[i]]
  BY DEF j, record
<1>3. /\ DOMAIN job' = DOMAIN job \cup {j}
      /\ job'[j] = record
      /\ \A i \in DOMAIN job : job'[i] = job[i]
  BY <1>1, <1>2
<1>4. job' \in [DOMAIN job' -> JobRecord] /\ DOMAIN job' \subseteq JobIds
  BY <1>1, <1>2, <1>3 DEF TypeOK
<1>5. TypeOK'
  <2>1. {mySchedule, dlmon, execMissJobs, cancelled}' \subseteq Seq(JobIds)
    BY <1>1 DEF TypeOK
  <2>2. {scheduleChanged, rv, ec, finalised, clean}' \subseteq BOOLEAN
    <3>1. {rv, ec, finalised, clean} \subseteq BOOLEAN
      BY DEF TypeOK
    <3> QED
      BY <1>1, <3>1, Zenon
  <2>3. Tasks' = Tasks /\ JobIds' = JobIds
    BY <1>1 DEF Tasks, JobIds
  <2> QED
    BY <1>1, <1>4, <2>1, <2>2, <2>3 DEF TypeOK
<1>6. JobsNumbered'
  <2>1. Range(dlmon)' \subseteq Range(dlmon) \cup {j}
    BY DEF j
  <2> QED
    BY <1>1, <1>3, <2>1 DEF JobsNumbered
<1>7. StepsLeft'
  BY <1>1, <1>3 DEF StepsLeft
<1> QED
  BY <1>3, <1>5, <1>6, <1>7 DEF j, record

\* Such a job gets its place in the monitor, which takes the others as they were.
LEMMA WatchedJob ==
  ASSUME TypeOK, MonitorSorted, NEW j \in JobIds,
         config.dlMissCancellations => Range(dlmon) \subseteq DOMAIN job,
         config' = config, job' \in [DOMAIN job' -> JobRecord],
         DOMAIN job' = DOMAIN job \cup {j}, \A i \in DOMAIN job : job'[i] = job[i],
         dlmon' \in AddJob(dlmon, j, LatestStart(job'))
  PROVE  MonitorSorted'
<1> SUFFICES ASSUME config.dlMissCancellations PROVE MonitorSorted'
  BY DEF MonitorSorted
<1> DEFINE old == LatestStart(job)
           L == LatestStart(job')
<1>1. Range(dlmon) \subseteq DOMAIN job
  OBVIOUS
<1>2. DOMAIN L = DOMAIN job \cup {j} /\ \A x \in DOMAIN L : L[x] \in Int
  BY DEF LatestStart, JobRecord
<1>3. \A x \in DOMAIN job : L[x] = old[x]
  BY DEF LatestStart
<1>4. Sorted(dlmon, old)
  BY DEF MonitorSorted, Sorted
<1> HIDE DEF old, L
<1>5. Sorted(dlmon, L)
  BY <1>1, <1>3, <1>4 DEF Sorted, Range
<1>6. dlmon \in Seq(JobIds) /\ Range(dlmon) \cup {j} \subseteq DOMAIN L
  BY <1>1, <1>2 DEF TypeOK
<1>7. dlmon' \in AddJob(dlmon, j, L)
  BY DEF L
<1>8. Sorted(dlmon', L)
  BY <1>2, <1>5, <1>6, <1>7, AddJobSorted
<1>9. LatestStart(job)' = L
  BY DEF L, LatestStart
<1> QED
  BY <1>8, <1>9 DEF MonitorSorted, Sorted

\* Each list gets the new job once.
LEMMA ActivateInv ==
  ASSUME IInv, Activate
  PROVE  IInv'
<1> DEFINE j == NextJobId(index)
           record == NewJob(index)
           jobs == [i \in DOMAIN job \cup {j} |-> IF i = j THEN record ELSE job[i]]
<1>0. SpawnJob /\ TypeOK /\ JobsNumbered /\ StepsLeft
  BY DEF Activate, IInv, SchedInv
<1>1. /\ job' = jobs
      /\ mySchedule' \in InsertByKey(mySchedule, j, Key(jobs))
      /\ dlmon' \in AddJob(dlmon, j, LatestStart(jobs))
      /\ scheduleChanged' = TRUE
      /\ execMissJobs' = execMissJobs /\ currentJob' = currentJob
  BY DEF Activate, EnqueueJob
<1>2. /\ pc = "activate" /\ config' = config /\ now' = now /\ cancelled' = cancelled
      /\ j \in JobIds /\ j \notin DOMAIN job /\ j \notin Range(dlmon)
      /\ j \notin Range(execMissJobs) /\ record.dl > now
  BY <1>0, SpawnJobCore
<1> HIDE DEF j, record, jobs
<1>3. /\ mySchedule' \in Seq(JobIds) /\ mySchedule' # << >>
      /\ Range(mySchedule') = Range(mySchedule) \cup {j} /\ IsInjective(mySchedule')
  <2>1. mySchedule \in Seq(JobIds) /\ IsInjective(mySchedule) /\ j \notin Range(mySchedule)
    BY <1>2 DEF IInv, TypeOK, SchedInv, JobsHeld
  <2> QED
    BY <1>1, <1>2, <2>1, InsertByKeyRange
<1>4. /\ dlmon' \in Seq(JobIds)
      /\ Range(dlmon)' = Range(dlmon) \cup {j} /\ IsInjective(dlmon')
  <2>1. dlmon \in Seq(JobIds) /\ IsInjective(dlmon)
    BY DEF IInv, TypeOK, SchedInv
  <2> QED
    BY <1>1, <1>2, <2>1, InsertByKeyRange DEF AddJob
<1>5. /\ TypeOK' /\ JobsNumbered' /\ StepsLeft'
      /\ DOMAIN job' = DOMAIN job \cup {j}
      /\ job'[j] = record
      /\ \A i \in DOMAIN job : job'[i] = job[i]
  <2>1. currentJob' \in JobIds \cup {NoJob} /\ scheduleChanged' \in BOOLEAN
    BY <1>1 DEF IInv, TypeOK
  <2> QED
    BY <1>0, <1>1, <1>3, <1>4, <2>1, EnqueuedJob DEF j, record, jobs
<1>6. JobsHeld'
  BY <1>2, <1>3, <1>5 DEF IInv, SchedInv, JobsHeld
<1>7. CurrentJobScheduled' /\ ScheduleIsSeen'
  BY <1>1, <1>3 DEF IInv, SchedInv, CurrentJobScheduled, ScheduleIsSeen
<1>8. MonitorCoversSchedule'
  BY <1>1, <1>2, <1>3, <1>4, <1>5 DEF IInv, SchedInv, MonitorCoversSchedule
<1>9. config.dlMissCancellations => Range(dlmon) \subseteq DOMAIN job
  BY DEF IInv, SchedInv, MonitorCoversSchedule, JobsHeld
<1>10. MonitorSorted'
  <2>1. job' \in [DOMAIN job' -> JobRecord]
    BY <1>5 DEF TypeOK
  <2>2. TypeOK /\ MonitorSorted
    BY DEF IInv, SchedInv
  <2> QED
    BY <1>1, <1>2, <1>5, <1>9, <2>1, <2>2, WatchedJob
<1>11. DeadlinesAhead'
  <2> SUFFICES ASSUME config.dlMissCancellations, NEW i \in Range(dlmon)' PROVE job'[i].dl > now
    BY <1>2 DEF DeadlinesAhead
  <2>1. CASE i = j
    BY <1>2, <1>5, <2>1
  <2>2. CASE i \in Range(dlmon)
    BY <1>2, <1>5, <1>9, <2>2 DEF IInv, DeadlinesAhead
  <2> QED
    BY <1>4, <2>1, <2>2
<1> QED
  BY <1>4, <1>5, <1>6, <1>7, <1>8, <1>10, <1>11 DEF IInv, SchedInv
-----------------------------------------------------------------------------
(* doExecutions                                                             *)

\* dispatch executes the first job of the schedule.
LEMMA NextJobIsFirst ==
  ASSUME IInv, NextJob # NoJob
  PROVE  /\ mySchedule # << >> /\ mySchedule \in Seq(JobIds) /\ IsInjective(mySchedule)
         /\ NextJob = Head(mySchedule)
         /\ NextJob \in Range(mySchedule)
         /\ NextJob \in DOMAIN job
         /\ NextJob \in JobIds
         /\ NextJob[1] \in Tasks
         /\ NextJob \notin Range(cancelled)
<1>1. /\ mySchedule \in Seq(JobIds) /\ IsInjective(mySchedule)
      /\ DOMAIN job = Range(mySchedule) \cup Range(cancelled)
      /\ Range(mySchedule) \cap Range(cancelled) = {}
      /\ DOMAIN job \subseteq JobIds
  BY DEF IInv, TypeOK, SchedInv, JobsHeld
<1>2. ~ (currentJob = NoJob \/ scheduleChanged) => FALSE
  <2> SUFFICES ASSUME currentJob # NoJob, ~ scheduleChanged PROVE FALSE
    OBVIOUS
  <2>1. currentJob \in Range(mySchedule)
    BY DEF IInv, SchedInv, CurrentJobScheduled
  <2>2. mySchedule # << >>
    BY <2>1 DEF Range
  <2> QED
    BY <2>2 DEF IInv, SchedInv, ScheduleIsSeen
<1>3. mySchedule # << >> /\ NextJob = Head(mySchedule)
  BY <1>2 DEF NextJob
<1>4. Head(mySchedule) \in Range(mySchedule)
  BY <1>1, <1>3, TailRange
<1> QED
  BY <1>1, <1>3, <1>4 DEF JobIds

\* What the end of a step does to the other variables.
LEMMA StepEndType ==
  ASSUME TypeOK, \E pending \in BOOLEAN : StepEndWith(pending)
  PROVE  /\ UNCHANGED <<config, taskset, cancelled>>
         /\ Tasks' = Tasks /\ JobIds' = JobIds
         /\ pc' \in {"api", "initStep"}
         /\ mode' \in {"none", "run", "finalise"}
         /\ {now, end, cancelSteps}' \subseteq Nat
         /\ lastInit' \in Nat \cup {-1}
         /\ index' \in Tasks
         /\ {rv, ec, finalised, clean}' \subseteq BOOLEAN
<1>1. /\ UNCHANGED <<config, taskset, cancelled, mode, end, index, rv, cancelSteps>>
      /\ now' = now + 1
      /\ \/ /\ pc' = "initStep" /\ lastInit' = now'
            /\ ec' = ec /\ finalised' = finalised /\ clean' = clean
         \/ /\ pc' = "api" /\ ec' = FALSE
            /\ finalised' = (mode = "finalise")
            /\ clean' = clean /\ lastInit' = lastInit
  BY DEF StepEndWith, fixed, results
<1>2. ec' \in BOOLEAN /\ finalised' \in BOOLEAN /\ clean' \in BOOLEAN /\ rv' \in BOOLEAN
  <2>1. ec \in BOOLEAN /\ finalised \in BOOLEAN /\ clean \in BOOLEAN /\ rv \in BOOLEAN
    BY DEF TypeOK
  <2> QED
    BY <1>1, <2>1, Zenon
<1>3. {rv, ec, finalised, clean}' \subseteq BOOLEAN
  BY <1>2, Zenon
<1>4. Tasks' = Tasks /\ JobIds' = JobIds
  BY <1>1 DEF Tasks, JobIds
<1>5. now \in Nat /\ end \in Nat /\ cancelSteps \in Nat /\ lastInit \in Nat \cup {-1}
  BY DEF TypeOK
<1>6. {now, end, cancelSteps}' \subseteq Nat /\ lastInit' \in Nat \cup {-1}
  BY <1>1, <1>5
<1>7. mode' \in {"none", "run", "finalise"} /\ index' \in Tasks
  BY <1>1 DEF TypeOK
<1> QED
  BY <1>1, <1>3, <1>4, <1>6, <1>7

LEMMA StepEndIsOne == StepEnd => \E pending \in BOOLEAN : StepEndWith(pending)
  BY DEF StepEnd, HasPendingJobs

LEMMA IdleInv ==
  ASSUME IInv, Idle
  PROVE  IInv'
<1>1. /\ currentJob' = NoJob /\ idleSteps' = idleSteps + 1
      /\ UNCHANGED <<job, mySchedule, dlmon, execMissJobs, scheduleChanged, task, monitor>>
      /\ StepEnd
  BY DEF Idle, IdleStep, DispatchIdle, tasks
<1>2. /\ UNCHANGED <<config, taskset, cancelled>>
      /\ Tasks' = Tasks /\ JobIds' = JobIds
      /\ pc' \in {"api", "initStep"}
      /\ mode' \in {"none", "run", "finalise"}
      /\ {now, end, cancelSteps}' \subseteq Nat
      /\ lastInit' \in Nat \cup {-1}
      /\ index' \in Tasks
      /\ {rv, ec, finalised, clean}' \subseteq BOOLEAN
  BY <1>1, StepEndIsOne, StepEndType DEF IInv
<1>3. TypeOK'
  <2>1. {scheduleChanged, rv, ec, finalised, clean}' \subseteq BOOLEAN
    <3>1. scheduleChanged' \in BOOLEAN
      BY <1>1 DEF IInv, TypeOK
    <3> QED
      BY <1>2, <3>1, Zenon
  <2> QED
    BY <1>1, <1>2, <2>1 DEF IInv, TypeOK
<1>4. SchedInv'
  <2>1. JobsHeld' /\ JobsNumbered' /\ StepsLeft' /\ CurrentJobScheduled' /\ ScheduleIsSeen'
    BY <1>1, <1>2 DEF IInv, SchedInv, JobsHeld, JobsNumbered, StepsLeft,
                      CurrentJobScheduled, ScheduleIsSeen
  <2>2. MonitorCoversSchedule' /\ MonitorSorted' /\ IsInjective(dlmon)'
    BY <1>1, <1>2 DEF IInv, SchedInv, MonitorCoversSchedule, MonitorSorted, LatestStart
  <2> QED
    BY <2>1, <2>2 DEF SchedInv
<1> QED
  BY <1>2, <1>3, <1>4 DEF IInv, DeadlinesAhead

\* One step of execution takes one step off the job and touches no deadline.
LEMMA AfterStepJobs ==
  ASSUME TypeOK, StepsLeft, NEW next \in DOMAIN job
  PROVE  /\ DOMAIN AfterStep(next) = DOMAIN job
         /\ \A i \in DOMAIN job :
              /\ AfterStep(next)[i].dl = job[i].dl
              /\ AfterStep(next)[i].et = job[i].et
              /\ AfterStep(next)[i].rem = IF i = next THEN job[i].rem - 1 ELSE job[i].rem
              /\ AfterStep(next)[i] \in JobRecord
<1> SUFFICES ASSUME NEW i \in DOMAIN job
             PROVE  /\ AfterStep(next)[i].dl = job[i].dl
                    /\ AfterStep(next)[i].et = job[i].et
                    /\ AfterStep(next)[i].rem = IF i = next THEN job[i].rem - 1 ELSE job[i].rem
                    /\ AfterStep(next)[i] \in JobRecord
  BY DEF AfterStep
<1>1. job[i] \in JobRecord /\ job[i].rem \in Nat /\ job[i].rem >= 1 /\ job[i].preemptions \in Nat
  BY DEF TypeOK, StepsLeft, JobRecord
<1>2. CASE i = next
  <2>1. AfterStep(next)[i] = [job[i] EXCEPT !.rem = job[i].rem - 1]
    BY <1>2 DEF AfterStep
  <2>2. job[i].rem - 1 \in Nat
    BY <1>1
  <2> QED
    BY <1>1, <1>2, <2>1, <2>2 DEF JobRecord
<1>3. CASE i # next /\ i = currentJob
  <2>1. AfterStep(next)[i] = [job[i] EXCEPT !.preemptions = job[i].preemptions + 1]
    BY <1>3 DEF AfterStep
  <2>2. job[i].preemptions + 1 \in Nat
    BY <1>1
  <2> QED
    BY <1>1, <1>3, <2>1, <2>2 DEF JobRecord
<1>4. CASE i # next /\ i # currentJob
  <2>1. AfterStep(next)[i] = job[i]
    BY <1>4 DEF AfterStep
  <2> QED
    BY <1>1, <1>4, <2>1
<1> QED
  BY <1>2, <1>3, <1>4

\* Whatever the scheduler: a job that is not finished is still there, with a step less.
LEMMA ExecutedJob ==
  ASSUME TypeOK, JobsNumbered, StepsLeft, NEW j \in DOMAIN job,
         job[j].rem > 1, job' = AfterStep(j),
         \E pending \in BOOLEAN : StepEndWith(pending),
         UNCHANGED <<mySchedule, execMissJobs, task, monitor, idleSteps>>,
         dlmon' \in Seq(JobIds), Range(dlmon)' \subseteq Range(dlmon),
         currentJob' \in JobIds \cup {NoJob}, scheduleChanged' \in BOOLEAN
  PROVE  /\ TypeOK' /\ JobsNumbered' /\ StepsLeft'
         /\ UNCHANGED <<config, cancelled>> /\ pc' \in {"api", "initStep"}
         /\ DOMAIN job' = DOMAIN job
<1>1. /\ UNCHANGED <<config, taskset, cancelled>>
      /\ Tasks' = Tasks /\ JobIds' = JobIds
      /\ pc' \in {"api", "initStep"}
      /\ mode' \in {"none", "run", "finalise"}
      /\ {now, end, cancelSteps}' \subseteq Nat
      /\ lastInit' \in Nat \cup {-1}
      /\ index' \in Tasks
      /\ {rv, ec, finalised, clean}' \subseteq BOOLEAN
  BY StepEndType
<1>2. /\ DOMAIN job' = DOMAIN job
      /\ \A i \in DOMAIN job :
           /\ job'[i].dl = job[i].dl
           /\ job'[i].et = job[i].et
           /\ job'[i].rem = IF i = j THEN job[i].rem - 1 ELSE job[i].rem
           /\ job'[i] \in JobRecord
  BY AfterStepJobs
<1>3. TypeOK'
  <2>1. {scheduleChanged, rv, ec, finalised, clean}' \subseteq BOOLEAN
    BY <1>1, Zenon
  <2>2. {mySchedule, dlmon, execMissJobs, cancelled}' \subseteq Seq(JobIds)
    BY <1>1 DEF TypeOK
  <2>3. DOMAIN job' \subseteq JobIds /\ job' \in [DOMAIN job' -> JobRecord]
    <3>1. job' = [i \in DOMAIN job' |-> job'[i]]
      BY DEF AfterStep
    <3> QED
      BY <1>2, <3>1 DEF TypeOK
  <2> QED
    BY <1>1, <2>1, <2>2, <2>3 DEF TypeOK
<1>4. JobsNumbered'
  BY <1>2 DEF JobsNumbered
<1>5. StepsLeft'
  <2> SUFFICES ASSUME NEW i \in DOMAIN job PROVE 1 <= job'[i].rem /\ job'[i].rem <= job'[i].et
    BY <1>2 DEF StepsLeft
  <2>1. job[i].rem \in Nat /\ job[i].et \in Nat /\ 1 <= job[i].rem /\ job[i].rem <= job[i].et
    BY DEF TypeOK, StepsLeft, JobRecord
  <2> QED
    BY <1>2, <2>1
<1> QED
  BY <1>1, <1>2, <1>3, <1>4, <1>5

\* jobExecuted keeps the monitor's order.
LEMMA ReorderedMonitor ==
  ASSUME TypeOK, StepsLeft, MonitorSorted, NEW j \in DOMAIN job, IsInjective(dlmon),
         config.dlMissCancellations => Range(dlmon) \subseteq DOMAIN job,
         config' = config, job' = AfterStep(j),
         dlmon' \in JobExecuted(dlmon, j, LatestStart(job'))
  PROVE  MonitorSorted'
<1> SUFFICES ASSUME config.dlMissCancellations PROVE MonitorSorted'
  BY DEF MonitorSorted
<1> DEFINE old == LatestStart(job)
           L == LatestStart(job')
<1>1. /\ DOMAIN job' = DOMAIN job
      /\ \A i \in DOMAIN job :
           /\ job'[i].dl = job[i].dl
           /\ job'[i].rem = IF i = j THEN job[i].rem - 1 ELSE job[i].rem
           /\ job'[i] \in JobRecord
  BY AfterStepJobs
<1>2. \A i \in DOMAIN job : job[i].dl \in Int /\ job[i].rem \in Nat /\ job'[i].rem \in Nat
  BY <1>1 DEF TypeOK, JobRecord
<1>3. DOMAIN L = DOMAIN job /\ \A i \in DOMAIN job : L[i] = job'[i].dl - job'[i].rem
  BY <1>1 DEF LatestStart
<1>4. \A i \in DOMAIN job : old[i] = job[i].dl - job[i].rem
  BY DEF LatestStart
<1>5. Sorted(dlmon, old)
  BY DEF MonitorSorted, Sorted
<1> HIDE DEF old, L
<1>6. \A i \in DOMAIN L : L[i] \in Int /\ old[i] \in Int
  BY <1>1, <1>2, <1>3, <1>4
<1>7. \A i \in DOMAIN L \ {j} : L[i] = old[i]
  BY <1>1, <1>3, <1>4
<1>8. old[j] <= L[j]
  BY <1>1, <1>2, <1>3, <1>4
<1>9. dlmon' \in JobExecuted(dlmon, j, L)
  BY DEF L
<1>10. Range(dlmon) \cup {j} \subseteq DOMAIN L /\ dlmon \in Seq(JobIds) /\ j \in JobIds
  BY <1>3 DEF TypeOK
<1>11. Sorted(dlmon', L)
  BY <1>5, <1>6, <1>7, <1>8, <1>9, <1>10, JobExecutedSorted
<1>12. LatestStart(job)' = L
  BY DEF L, LatestStart
<1> QED
  BY <1>11, <1>12 DEF MonitorSorted, Sorted

LEMMA ExecuteInv ==
  ASSUME IInv, Execute
  PROVE  IInv'
<1>1. PICK j : j = NextJob
  OBVIOUS
<1>2. /\ j # NoJob /\ job[j].rem > 1
      /\ job' = AfterStep(j)
      /\ dlmon' \in JobExecuted(dlmon, j, LatestStart(job'))
      /\ currentJob' = j
      /\ UNCHANGED <<mySchedule, execMissJobs, scheduleChanged, task, monitor, idleSteps>>
      /\ \E pending \in BOOLEAN : StepEndWith(pending)
  BY <1>1, StepEndIsOne DEF Execute, ExecuteStep, DispatchStep, tasks
<1>3. /\ j \in Range(mySchedule) /\ j \in DOMAIN job /\ j \in JobIds
      /\ dlmon \in Seq(JobIds) /\ IsInjective(dlmon)
      /\ TypeOK /\ JobsNumbered /\ StepsLeft /\ MonitorSorted
  BY <1>1, <1>2, NextJobIsFirst DEF IInv, TypeOK, SchedInv
<1>4. dlmon' \in Seq(JobIds) /\ Range(dlmon)' = Range(dlmon) /\ IsInjective(dlmon')
  BY <1>2, <1>3, JobExecutedRange
<1>5. /\ TypeOK' /\ JobsNumbered' /\ StepsLeft' /\ UNCHANGED <<config, cancelled>>
      /\ pc' \in {"api", "initStep"} /\ DOMAIN job' = DOMAIN job
  <2>1. currentJob' \in JobIds \cup {NoJob} /\ scheduleChanged' \in BOOLEAN
    BY <1>2, <1>3 DEF TypeOK
  <2> QED
    BY <1>2, <1>3, <1>4, <2>1, ExecutedJob
<1>6. JobsHeld' /\ CurrentJobScheduled' /\ ScheduleIsSeen'
  BY <1>2, <1>3, <1>5 DEF IInv, SchedInv, JobsHeld, CurrentJobScheduled, ScheduleIsSeen
<1>7. MonitorCoversSchedule'
  BY <1>2, <1>4, <1>5 DEF IInv, SchedInv, MonitorCoversSchedule
<1>8. MonitorSorted'
  <2>1. config.dlMissCancellations => Range(dlmon) \subseteq DOMAIN job
    BY DEF IInv, SchedInv, MonitorCoversSchedule, JobsHeld
  <2> QED
    BY <1>2, <1>3, <1>5, <2>1, ReorderedMonitor
<1> QED
  BY <1>4, <1>5, <1>6, <1>7, <1>8 DEF IInv, SchedInv, DeadlinesAhead

\* Whatever the scheduler: completeJob counts a finished job, tells its task's
\* monitor and deletes it.
LEMMA CompletedJob ==
  ASSUME TypeOK, JobsNumbered, StepsLeft, NEW j \in DOMAIN job, CompleteJob(j),
         \E pending \in BOOLEAN : StepEndWith(pending),
         mySchedule' \in Seq(JobIds), dlmon' \in Seq(JobIds),
         UNCHANGED <<execMissJobs, idleSteps>>,
         Range(dlmon)' \subseteq Range(dlmon),
         currentJob' \in JobIds \cup {NoJob}, scheduleChanged' \in BOOLEAN
  PROVE  /\ TypeOK' /\ JobsNumbered' /\ StepsLeft'
         /\ UNCHANGED <<config, cancelled>> /\ pc' \in {"api", "initStep"}
         /\ DOMAIN job' = DOMAIN job \ {j}
         /\ \A i \in DOMAIN job' : job'[i].dl = job[i].dl /\ job'[i].rem = job[i].rem
<1> DEFINE t == j[1]
           k == taskset[t].k
           mon == IF k > 0 THEN Push(monitor[t], taskset[t].m, k, 1) ELSE monitor[t]
<1>1. /\ task' = [task EXCEPT ![t] = CountCompletion(task[t], j)]
      /\ monitor' = [monitor EXCEPT ![t] = mon]
      /\ job' = Delete(AfterStep(j), j)
  BY DEF CompleteJob
<1>2. /\ UNCHANGED <<config, taskset, cancelled>>
      /\ Tasks' = Tasks /\ JobIds' = JobIds
      /\ pc' \in {"api", "initStep"}
      /\ mode' \in {"none", "run", "finalise"}
      /\ {now, end, cancelSteps}' \subseteq Nat
      /\ lastInit' \in Nat \cup {-1}
      /\ index' \in Tasks
      /\ {rv, ec, finalised, clean}' \subseteq BOOLEAN
  BY StepEndType
<1>3. j \in JobIds /\ t \in Tasks /\ now \in Nat
  BY DEF TypeOK, JobIds
<1>4. mon \in Monitors(k)
  <2>1. k \in Nat /\ monitor[t] \in Monitors(k)
    BY <1>3, TaskParameters DEF TypeOK, TaskRecord
  <2>2. 1 \in Bit
    BY DEF Bit
  <2> QED
    BY <2>1, <2>2, PushType
<1> HIDE DEF mon
<1>5. /\ CountCompletion(task[t], j) \in TaskState
      /\ CountCompletion(task[t], j).activations = task[t].activations
  <2> DEFINE late == IF job[j].dl < now THEN 1 ELSE 0
             useful == IF now <= job[j].dl THEN 1 ELSE 0
  <2>1. late \in Nat /\ useful \in Nat /\ 1 \in Nat
    OBVIOUS
  <2>2. CountCompletion(task[t], j) =
          [task[t] EXCEPT !.completions = task[t].completions + 1,
                          !.misses = task[t].misses + late,
                          !.preemptions = task[t].preemptions + job[j].preemptions,
                          !.useful = task[t].useful + useful]
    BY DEF CountCompletion
  <2>3. task[t] \in TaskState /\ job[j].preemptions \in Nat
    BY <1>3 DEF TypeOK, JobRecord
  <2> HIDE DEF late, useful
  <2>4. /\ task[t].completions + 1 \in Nat
        /\ task[t].misses + late \in Nat
        /\ task[t].preemptions + job[j].preemptions \in Nat
        /\ task[t].useful + useful \in Nat
    <3>1. /\ task[t].completions \in Nat /\ task[t].misses \in Nat
          /\ task[t].preemptions \in Nat /\ task[t].useful \in Nat
      BY <2>3 DEF TaskState
    <3>2. \A a, b \in Nat : a + b \in Nat
      OBVIOUS
    <3> QED
      BY <2>1, <2>3, <3>1, <3>2, Zenon
  <2> QED
    BY <2>2, <2>3, <2>4 DEF TaskState
<1>6. task' \in [Tasks -> TaskState] /\ \A u \in Tasks : task'[u].activations = task[u].activations
  BY <1>1, <1>3, <1>5 DEF TypeOK
<1>7. /\ DOMAIN job' = DOMAIN job \ {j}
      /\ \A i \in DOMAIN job' :
           /\ job'[i].dl = job[i].dl
           /\ job'[i].et = job[i].et
           /\ job'[i].rem = job[i].rem
           /\ job'[i] \in JobRecord
  BY <1>1, AfterStepJobs DEF Delete
<1>8. TypeOK'
  <2>1. {scheduleChanged, rv, ec, finalised, clean}' \subseteq BOOLEAN
    BY <1>2, Zenon
  <2>2. {mySchedule, dlmon, execMissJobs, cancelled}' \subseteq Seq(JobIds)
    BY <1>2 DEF TypeOK
  <2>3. DOMAIN job' \subseteq JobIds /\ job' \in [DOMAIN job' -> JobRecord]
    <3>1. job' = [i \in DOMAIN job' |-> job'[i]]
      BY <1>1 DEF Delete
    <3> QED
      BY <1>7, <3>1 DEF TypeOK
  <2>4. DOMAIN monitor' = Tasks /\ \A u \in Tasks : monitor'[u] \in Monitors(taskset[u].k)
    BY <1>1, <1>3, <1>4 DEF TypeOK
  <2> QED
    BY <1>2, <1>6, <2>1, <2>2, <2>3, <2>4 DEF TypeOK
<1>9. JobsNumbered'
  <2>1. Range(dlmon) \cup Range(execMissJobs) \cup DOMAIN job \subseteq JobIds
    BY RangeOfSeq DEF TypeOK
  <2>2. \A i \in DOMAIN job \cup Range(dlmon) \cup Range(execMissJobs) : i[1] \in Tasks
    BY <2>1 DEF JobIds
  <2> QED
    BY <1>6, <1>7, <2>2 DEF JobsNumbered
<1>10. StepsLeft'
  BY <1>7 DEF StepsLeft
<1> QED
  BY <1>2, <1>7, <1>8, <1>9, <1>10

\* A finished job leaves the monitor as well: had its deadline passed, initStep
\* would have taken it out before.
LEMMA FinishedJob ==
  ASSUME TypeOK, DeadlinesAhead, pc = "dispatch", NEW j \in DOMAIN job, IsInjective(dlmon),
         dlmon' = MonitorAfterFinish(j, now)
  PROVE  /\ dlmon' \in Seq(JobIds) /\ IsInjective(dlmon') /\ Range(dlmon)' \subseteq Range(dlmon)
         /\ config.dlMissCancellations => Range(dlmon)' = Range(dlmon) \ {j}
         /\ \A key : Sorted(dlmon, key) => Sorted(dlmon', key)
<1>1. dlmon \in Seq(JobIds) /\ job[j].dl \in Int /\ now \in Nat
  BY DEF TypeOK, JobRecord
<1>2. CASE job[j].dl <= now
  <2>1. dlmon' = dlmon
    BY <1>2 DEF MonitorAfterFinish
  <2>2. config.dlMissCancellations => j \notin Range(dlmon)
    BY <1>1, <1>2 DEF DeadlinesAhead
  <2> QED
    BY <1>1, <2>1, <2>2
<1>3. CASE ~ (job[j].dl <= now)
  <2>1. dlmon' = RemoveFirst(dlmon, j)
    BY <1>3 DEF MonitorAfterFinish, RemoveJob
  <2> QED
    BY <1>1, <2>1, RemoveFirstRange
<1> QED
  BY <1>2, <1>3

\* The monitor stays sorted when it loses entries, as jobs do.
LEMMA ThinnedMonitor ==
  ASSUME MonitorSorted, config' = config,
         \A key : Sorted(dlmon, key) => Sorted(dlmon', key),
         config.dlMissCancellations =>
           Range(dlmon)' \subseteq DOMAIN job' /\ DOMAIN job' \subseteq DOMAIN job,
         \A i \in DOMAIN job' : job'[i].dl = job[i].dl /\ job'[i].rem = job[i].rem
  PROVE  MonitorSorted'
<1> SUFFICES ASSUME config.dlMissCancellations PROVE MonitorSorted'
  BY DEF MonitorSorted
<1> DEFINE old == LatestStart(job)
           L == LatestStart(job')
<1>1. Sorted(dlmon', old)
  BY DEF MonitorSorted, Sorted
<1>2. \A i \in DOMAIN job' : L[i] = old[i]
  BY DEF LatestStart
<1>3. LatestStart(job)' = L
  BY DEF LatestStart
<1> HIDE DEF old, L
<1>4. \A i \in DOMAIN dlmon' : L[dlmon'[i]] = old[dlmon'[i]]
  BY <1>2 DEF Range
<1> QED
  BY <1>1, <1>3, <1>4 DEF MonitorSorted, Sorted

LEMMA CompleteInv ==
  ASSUME IInv, Complete
  PROVE  IInv'
<1>1. PICK j : j = NextJob
  OBVIOUS
<1>2. /\ pc = "dispatch" /\ j # NoJob
      /\ mySchedule' = Tail(mySchedule)
      /\ dlmon' = MonitorAfterFinish(j, now)
      /\ currentJob' = NoJob
      /\ UNCHANGED <<execMissJobs, scheduleChanged, idleSteps>>
      /\ CompleteJob(j)
      /\ \E pending \in BOOLEAN : StepEndWith(pending)
  BY <1>1, StepEndIsOne DEF Complete, CompleteStep, DispatchFinish
<1>3. /\ j \in Range(mySchedule) /\ j \in DOMAIN job /\ j \in JobIds
      /\ j = Head(mySchedule) /\ mySchedule # << >> /\ mySchedule \in Seq(JobIds)
      /\ IsInjective(mySchedule) /\ j \notin Range(cancelled)
  BY <1>1, <1>2, NextJobIsFirst
<1>4. TypeOK /\ JobsNumbered /\ StepsLeft /\ MonitorSorted /\ DeadlinesAhead /\ IsInjective(dlmon)
  BY DEF IInv, SchedInv
<1>5. /\ mySchedule' \in Seq(JobIds)
      /\ Range(mySchedule') = Range(mySchedule) \ {j} /\ IsInjective(mySchedule')
  BY <1>2, <1>3, TailRange
<1>6. /\ dlmon' \in Seq(JobIds) /\ IsInjective(dlmon') /\ Range(dlmon)' \subseteq Range(dlmon)
      /\ config.dlMissCancellations => Range(dlmon)' = Range(dlmon) \ {j}
      /\ \A key : Sorted(dlmon, key) => Sorted(dlmon', key)
  BY <1>2, <1>3, <1>4, FinishedJob
<1>7. /\ TypeOK' /\ JobsNumbered' /\ StepsLeft'
      /\ UNCHANGED <<config, cancelled>> /\ pc' \in {"api", "initStep"}
      /\ DOMAIN job' = DOMAIN job \ {j}
      /\ \A i \in DOMAIN job' : job'[i].dl = job[i].dl /\ job'[i].rem = job[i].rem
  <2>1. currentJob' \in JobIds \cup {NoJob} /\ scheduleChanged' \in BOOLEAN
    BY <1>2, <1>4 DEF TypeOK
  <2>2. UNCHANGED <<execMissJobs, idleSteps>>
    BY <1>2
  <2> QED
    BY <1>2, <1>3, <1>4, <1>5, <1>6, <2>1, <2>2, CompletedJob
<1>8. JobsHeld'
  BY <1>3, <1>5, <1>7 DEF IInv, SchedInv, JobsHeld
<1>9. CurrentJobScheduled' /\ ScheduleIsSeen'
  <2>1. mySchedule # << >> => scheduleChanged
    BY DEF IInv, SchedInv, ScheduleIsSeen
  <2> QED
    BY <1>2, <1>3, <2>1 DEF CurrentJobScheduled, ScheduleIsSeen
<1>10. MonitorCoversSchedule'
  BY <1>2, <1>3, <1>5, <1>6, <1>7 DEF IInv, SchedInv, MonitorCoversSchedule
<1>11. MonitorSorted'
  <2>1. config.dlMissCancellations =>
          Range(dlmon)' \subseteq DOMAIN job' /\ DOMAIN job' \subseteq DOMAIN job
    BY <1>6, <1>7 DEF IInv, SchedInv, MonitorCoversSchedule, JobsHeld
  <2> QED
    BY <1>4, <1>6, <1>7, <2>1, ThinnedMonitor
<1> QED
  BY <1>6, <1>7, <1>8, <1>9, <1>10, <1>11 DEF IInv, SchedInv, DeadlinesAhead
-----------------------------------------------------------------------------
(* The invariant and what follows from it                                   *)

LEMMA NextInv == IInv /\ [Next]_vars => IInv'
<1> SUFFICES ASSUME IInv, [Next]_vars PROVE IInv'
  OBVIOUS
<1>1. CASE UNCHANGED vars
  <2>1. TypeOK'
    BY <1>1, QuietType DEF IInv, TypeOK, vars, tasks, results
  <2>2. SchedInv'
    BY <1>1, QuietInv DEF IInv, vars, tasks
  <2>3. DeadlinesAhead'
    BY <1>1 DEF IInv, DeadlinesAhead, vars, fixed, sched
  <2> QED
    BY <2>1, <2>2, <2>3 DEF IInv
<1>2. CASE Call
  BY <1>2, RunInv, FinaliseInv DEF Call
<1>3. CASE Step
  BY <1>3, MissKeptInv, MissDroppedInv, InitStepDoneInv, CancelJobInv, CancelDoneInv,
     ActivateInv, NotYetActiveInv, ScheduleDoneInv, IdleInv, ExecuteInv, CompleteInv
  DEF Step
<1>4. CASE Finished
  BY <1>1, <1>4 DEF Finished
<1> QED
  BY <1>1, <1>2, <1>3, <1>4 DEF Next

\* The invariant holds in every state, for any tasksets, configurations and calls.
THEOREM SimulationInv == Spec => []IInv
<1> QED
  BY InitInv, NextInv, PTL DEF Spec

\* Every variable keeps the type of its C++ declaration; in particular no count
\* of remaining steps wraps below zero.
THEOREM SimulationTypeOK == Spec => []TypeOK
<1>1. IInv => TypeOK
  BY DEF IInv
<1> QED
  BY SimulationInv, <1>1, PTL

\* A job is held by the scheduler or is among the cancelled ones, and only there
\* and only once: it is deleted once, and none leaks.
THEOREM SimulationJobsHeld == Spec => []JobsHeld
<1>1. IInv => JobsHeld
  BY DEF IInv, SchedInv
<1> QED
  BY SimulationInv, <1>1, PTL

\* dispatch never preempts a job that is gone.
THEOREM SimulationCurrentJobScheduled == Spec => []CurrentJobScheduled
<1>1. IInv => CurrentJobScheduled
  BY DEF IInv, SchedInv
<1> QED
  BY SimulationInv, <1>1, PTL

\* While deadline misses are cancelled, the deadline monitor watches exactly the
\* scheduled jobs that are not known to be late.
THEOREM SimulationMonitorCovers == Spec => []MonitorCoversSchedule
<1>1. IInv => MonitorCoversSchedule
  BY DEF IInv, SchedInv
<1> QED
  BY SimulationInv, <1>1, PTL

\* ... in the order of their latest start times, whatever is executed.
THEOREM SimulationMonitorSorted == Spec => []MonitorSorted
<1>1. IInv => MonitorSorted
  BY DEF IInv, SchedInv
<1> QED
  BY SimulationInv, <1>1, PTL
-----------------------------------------------------------------------------
(* Simulation implements JobLife                                            *)

LEMMA InitLife == Init => Life!LifeInit
<1> SUFFICES ASSUME Init PROVE Life!LifeInit
  OBVIOUS
<1>1. taskset \in Tasksets /\ task = [t \in Tasks |-> Start(taskset[t], 0)] /\ job = << >>
  BY DEF Init, SchedulerInit
<1>2. DOMAIN job = {}
  BY <1>1
<1>3. Tasks = 1 .. Len(taskset)
  BY <1>1, TypesAssumption, LenProperties DEF Tasks
<1>4. \A t \in Tasks : /\ task[t].activations = 0
                       /\ task[t].completions + task[t].cancellations = 0
  BY <1>1 DEF Start
<1>5. /\ [t \in Tasks |-> task[t].activations] = [t \in 1 .. Len(taskset) |-> 0]
      /\ [t \in Tasks |-> task[t].completions + task[t].cancellations]
           = [t \in 1 .. Len(taskset) |-> 0]
  BY <1>3, <1>4
<1> QED
  BY <1>1, <1>2, <1>5 DEF Life!LifeInit

LEMMA SpawnLife ==
  ASSUME TypeOK, SpawnJob, DOMAIN job' = DOMAIN job \cup {NextJobId(index)}
  PROVE  \E t \in Tasks : Life!Enqueue(t)
<1>1. PICK t \in Tasks : t = index
  BY DEF TypeOK
<1> DEFINE j == <<t, task[t].activations>>
<1>2. DOMAIN job' = DOMAIN job \cup {j} /\ taskset' = taskset
  BY <1>1 DEF SpawnJob, NextJobId, fixed
<1>3. PICK gap \in taskset[t].gaps : task' = [task EXCEPT ![t] = CountActivation(task[t], gap)]
  BY <1>1 DEF SpawnJob
<1>4. task \in [Tasks -> TaskState] /\ Tasks' = Tasks
  BY <1>2 DEF TypeOK, Tasks
<1>5. /\ task'[t].activations = task[t].activations + 1
      /\ task'[t].completions = task[t].completions
      /\ task'[t].cancellations = task[t].cancellations
      /\ \A u \in Tasks \ {t} : task'[u] = task[u]
  BY <1>3, <1>4 DEF CountActivation, TaskState
<1>6. Life!Enqueue(t)
  BY <1>2, <1>4, <1>5 DEF Life!Enqueue
<1> QED
  BY <1>6

\* Handing job j back, in terms of the counters of its task.
LEMMA ReturnLife ==
  ASSUME NEW j, j[1] \in Tasks, Tasks' = Tasks,
         task \in [Tasks -> TaskState],
         DOMAIN job' = DOMAIN job \ {j},
         \A u \in Tasks :
           /\ task'[u].activations = task[u].activations
           /\ task'[u].completions + task'[u].cancellations
                = task[u].completions + task[u].cancellations + (IF u = j[1] THEN 1 ELSE 0)
  PROVE  Life!Return(j)
<1> DEFINE sum == [t \in Tasks |-> task[t].completions + task[t].cancellations]
<1>1. sum' = [sum EXCEPT ![j[1]] = sum[j[1]] + 1]
  <2>1. \A u \in Tasks : task[u].completions + task[u].cancellations \in Int
    BY DEF TaskState
  <2>2. sum' = [t \in Tasks |-> task'[t].completions + task'[t].cancellations]
    OBVIOUS
  <2> QED
    BY <2>1, <2>2
<1>2. [t \in Tasks |-> task[t].activations]' = [t \in Tasks |-> task[t].activations]
  OBVIOUS
<1> QED
  BY <1>1, <1>2 DEF Life!Return

LEMMA CancelJobLife ==
  ASSUME TypeOK, CancelJob, Head(cancelled) \in DOMAIN job
  PROVE  \E j \in DOMAIN job : Life!Return(j)
<1>1. PICK j \in DOMAIN job : j = Head(cancelled)
  OBVIOUS
<1> DEFINE t == j[1]
<1>2. /\ job' = Delete(job, j) /\ taskset' = taskset /\ cancelled # << >>
      /\ task' = [task EXCEPT ![t] = CountCancel(task[t], j)]
  BY <1>1 DEF CancelJob, fixed
<1>3. t \in Tasks /\ task \in [Tasks -> TaskState]
  BY <1>1, <1>2 DEF TypeOK, JobIds
<1>4. DOMAIN job' = DOMAIN job \ {j} /\ Tasks' = Tasks
  BY <1>2 DEF Delete, Tasks
<1>5. /\ task'[t].activations = task[t].activations
      /\ task'[t].completions = task[t].completions
      /\ task'[t].cancellations = task[t].cancellations + 1
      /\ \A u \in Tasks \ {t} : task'[u] = task[u]
  BY <1>2, <1>3 DEF CountCancel, TaskState
<1>6. \A u \in Tasks : task[u].completions \in Nat /\ task[u].cancellations \in Nat
  BY <1>3 DEF TaskState
<1>7. \A u \in Tasks :
        /\ task'[u].activations = task[u].activations
        /\ task'[u].completions + task'[u].cancellations
             = task[u].completions + task[u].cancellations + (IF u = t THEN 1 ELSE 0)
  BY <1>5, <1>6
<1> QED
  BY <1>3, <1>4, <1>7, ReturnLife

LEMMA CompleteJobLife ==
  ASSUME TypeOK, NEW j \in DOMAIN job, CompleteJob(j), UNCHANGED taskset
  PROVE  Life!Return(j)
<1> DEFINE t == j[1]
<1>1. /\ job' = Delete(AfterStep(j), j) /\ taskset' = taskset
      /\ task' = [task EXCEPT ![t] = CountCompletion(task[t], j)]
  BY DEF CompleteJob
<1>2. t \in Tasks /\ task \in [Tasks -> TaskState]
  BY DEF TypeOK, JobIds
<1>3. DOMAIN job' = DOMAIN job \ {j} /\ Tasks' = Tasks
  BY <1>1 DEF Delete, AfterStep, Tasks
<1>4. /\ task'[t].activations = task[t].activations
      /\ task'[t].completions = task[t].completions + 1
      /\ task'[t].cancellations = task[t].cancellations
      /\ \A u \in Tasks \ {t} : task'[u] = task[u]
  BY <1>1, <1>2 DEF CountCompletion, TaskState
<1>5. \A u \in Tasks : task[u].completions \in Nat /\ task[u].cancellations \in Nat
  BY <1>2 DEF TaskState
<1>6. \A u \in Tasks :
        /\ task'[u].activations = task[u].activations
        /\ task'[u].completions + task'[u].cancellations
             = task[u].completions + task[u].cancellations + (IF u = t THEN 1 ELSE 0)
  BY <1>4, <1>5
<1> QED
  BY <1>2, <1>3, <1>6, ReturnLife

\* Every step activates a job, hands one back, or does neither.
LEMMA NextLife == IInv /\ [Next]_vars => [Life!LifeNext]_(Life!lifeVars)
<1> SUFFICES ASSUME IInv, [Next]_vars PROVE Life!LifeNext \/ UNCHANGED Life!lifeVars
  OBVIOUS
<1>1. ASSUME UNCHANGED <<taskset, task>>, DOMAIN job' = DOMAIN job
      PROVE  UNCHANGED Life!lifeVars
  BY <1>1 DEF Life!lifeVars, Tasks
<1>2. CASE Activate
  <2>1. TypeOK /\ SpawnJob /\ DOMAIN job' = DOMAIN job \cup {NextJobId(index)}
    BY <1>2 DEF IInv, Activate, EnqueueJob
  <2> QED
    BY <2>1, SpawnLife DEF Life!LifeNext
<1>3. CASE CancelJob
  <2>1. TypeOK /\ Head(cancelled) \in DOMAIN job
    BY <1>3, CancelledJob DEF IInv, CancelJob
  <2> QED
    BY <1>3, <2>1, CancelJobLife DEF Life!LifeNext
<1>4. CASE Complete
  <2>1. NextJob # NoJob /\ CompleteJob(NextJob) /\ UNCHANGED taskset
    BY <1>4 DEF Complete, CompleteStep, DispatchFinish, StepEnd, StepEndWith, fixed
  <2>2. PICK j \in DOMAIN job : j = NextJob
    BY <2>1, NextJobIsFirst
  <2> QED
    BY <2>1, <2>2, CompleteJobLife DEF IInv, Life!LifeNext
<1>5. CASE Execute
  BY <1>1, <1>5 DEF Execute, ExecuteStep, DispatchStep, AfterStep, StepEnd, StepEndWith, fixed, tasks
<1>6. CASE Idle
  BY <1>1, <1>6 DEF Idle, IdleStep, DispatchIdle, StepEnd, StepEndWith, fixed, tasks
<1>7. CASE MissKept \/ MissDropped
  BY <1>1, <1>7 DEF MissKept, MissDropped, fixed, tasks
<1>8. CASE InitStepDone \/ CancelDone \/ NotYetActive \/ ScheduleDone
  BY <1>1, <1>8
     DEF InitStepDone, CancelDone, NotYetActive, ScheduleDone, PerformCancellations,
         fixed, tasks
<1>9. CASE Call \/ Finished \/ UNCHANGED vars
  BY <1>1, <1>9 DEF Call, Run, Finalise, FinaliseWith, Finished, vars, fixed, tasks
<1> QED
  BY <1>2, <1>3, <1>4, <1>5, <1>6, <1>7, <1>8, <1>9 DEF Next, Step

\* The simulation keeps scheduler.h's promise: every enqueued job comes back by
\* completeJob or by cancelJob, and no job comes back twice.
THEOREM SimulationImplementsJobLife == Spec => EveryJobReturnedOnce
<1> QED
  BY InitLife, NextLife, SimulationInv, PTL DEF Spec, EveryJobReturnedOnce, Life!LifeSpec
=============================================================================
