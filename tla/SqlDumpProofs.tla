---------------------------- MODULE SqlDumpProofs ----------------------------
(***************************************************************************)
(* Proofs about SqlDump: every turn of the scanner keeps it where the tool *)
(* that printed the dump has put something, with just what stands before   *)
(* that place, for any dump of either tool, any table and any limit.       *)
(***************************************************************************)
EXTENDS SqlDump, FiniteSetTheorems, WellFoundedInduction, TLAPS

-----------------------------------------------------------------------------
(* Identifiers. *)

LEMMA SubSeqIs ==
  ASSUME NEW S, NEW s \in Seq(S), NEW m \in 1..(Len(s) + 1), NEW n \in 0..Len(s)
  PROVE  /\ SubSeq(s, m, n) \in Seq(S)
         /\ Len(SubSeq(s, m, n)) = IF m <= n THEN n - m + 1 ELSE 0
         /\ \A k \in 1..(n - m + 1) : SubSeq(s, m, n)[k] = s[m + k - 1]
OBVIOUS

LEMMA SameSeq ==
  ASSUME NEW S, NEW s \in Seq(S), NEW t \in Seq(S), Len(s) = Len(t),
         \A k \in 1..Len(s) : s[k] = t[k]
  PROVE  s = t
OBVIOUS

LEMMA NonEmptySeq ==
  ASSUME NEW S, NEW s \in Seq(S), s # <<>>
  PROVE  Len(s) \in Nat /\ Len(s) > 0 /\ DOMAIN s = 1..Len(s) /\ s = [k \in 1..Len(s) |-> s[k]]
OBVIOUS

LEMMA MaxIs ==
  ASSUME NEW S \in SUBSET Nat, NEW m \in S, \A n \in S : n <= m
  PROVE  Max(S) = m
<1>1. \A x \in S : (\A y \in S : x >= y) <=> x = m
  <2> SUFFICES ASSUME NEW x \in S PROVE (\A y \in S : x >= y) <=> x = m
    OBVIOUS
  <2>1. x \in Nat /\ m \in Nat /\ \A y \in S : y \in Nat
    OBVIOUS
  <2> QED
    BY <2>1
<1> QED
  BY <1>1 DEF Max

\* Some numbers up to n have a greatest one.
LEMMA MaxOf ==
  ASSUME NEW n \in Nat, NEW S \in SUBSET (1..n), S # {}
  PROVE  Max(S) \in S
<1> DEFINE R == OpToRel(<, Nat)
           T == {k \in Nat : n - k \in S}
<1>1. IsWellFoundedOn(R, Nat)
  BY NatLessThanWellFounded
<1>2. \A x, y \in Nat : <<x, y>> \in R <=> x < y
  BY DEF OpToRel
<1>3. T \subseteq Nat /\ T # {}
  <2>1. PICK s \in S : TRUE
    OBVIOUS
  <2>2. s \in Nat /\ n - s \in Nat /\ n - (n - s) = s
    OBVIOUS
  <2> QED
    BY <2>1, <2>2
<1> HIDE DEF R
<1>4. PICK k \in T : \A y \in T : ~ (<<y, k>> \in R)
  BY <1>1, <1>3, WFMin
<1>5. \A s \in S : s \in Nat /\ s <= n - k
  <2> TAKE s \in S
  <2>1. s \in Nat /\ n - s \in Nat /\ n - (n - s) = s
    OBVIOUS
  <2>2. n - s \in T
    BY <2>1
  <2>3. ~ (n - s < k)
    BY <1>2, <1>4, <2>1, <2>2
  <2> QED
    BY <2>1, <2>3, <1>4
<1>6. n - k \in S /\ S \in SUBSET Nat
  BY <1>4
<1> HIDE DEF T
<1> QED
  BY <1>5, <1>6, MaxIs

LEMMA MinIs ==
  ASSUME NEW S \in SUBSET Nat, NEW m \in S, \A n \in S : m <= n
  PROVE  Min(S) = m
<1>1. \A x \in S : (\A y \in S : x <= y) <=> x = m
  <2> SUFFICES ASSUME NEW x \in S PROVE (\A y \in S : x <= y) <=> x = m
    OBVIOUS
  <2>1. x \in Nat /\ m \in Nat /\ \A y \in S : y \in Nat
    OBVIOUS
  <2> QED
    BY <2>1
<1> QED
  BY <1>1 DEF Min

\* Trimming takes away what is blank at either end.
LEMMA TrimmedIs ==
  ASSUME NEW S, NEW s \in Seq(S), NEW i \in 1..Len(s), NEW j \in i..Len(s),
         s[i] \notin Blank, s[j] \notin Blank,
         \A k \in 1..Len(s) : k < i \/ k > j => s[k] \in Blank
  PROVE  Trimmed(s) = SubSeq(s, i, j)
<1> DEFINE kept == {k \in DOMAIN s : s[k] \notin Blank}
<1>1. kept \in SUBSET Nat /\ i \in kept /\ j \in kept /\ \A k \in kept : i <= k /\ k <= j
  OBVIOUS
<1>2. Min(kept) = i /\ Max(kept) = j
  BY <1>1, MinIs, MaxIs
<1> QED
  BY <1>1, <1>2 DEF Trimmed

\* unquoteIdent reads an identifier that is written the way tools write them.
LEMMA UnquotedIs ==
  ASSUME NEW S, NEW raw \in Seq(S), NEW name, Written(raw, name)
  PROVE  unquoteIdent(raw) = name /\ name # <<>>
<1> DEFINE L == Len(raw)
<1>0. L \in Nat /\ DOMAIN raw = 1..L
  OBVIOUS
<1> HIDE DEF L
<1>1. PICK i \in 1..L, j \in 1..L, quoted \in {0, 1} :
        /\ i <= j /\ j + quoted = L /\ name = SubSeq(raw, i, j)
        /\ \A k \in i..j : raw[k] \notin Blank \cup {".", "tick", "\"", "'", "[", "]"}
        /\ quoted = 1 => i > 1 /\ <<raw[i - 1], raw[j + 1]>> \in Quotes
        /\ \E p \in 0..(i - quoted - 1) :
             /\ p > 0 => raw[p] = "."
             /\ \A k \in (p + 1)..(i - quoted - 1) : raw[k] \in Blank
  BY <1>0 DEF Written, L
<1>2. PICK p \in 0..(i - quoted - 1) :
        /\ p > 0 => raw[p] = "."
        /\ \A k \in (p + 1)..(i - quoted - 1) : raw[k] \in Blank
  BY <1>1
<1> DEFINE a == i - quoted
           first == SubSeq(raw, p + 1, L)
           ident == SubSeq(first, a - p, L - p)
           dots == {k \in DOMAIN raw : raw[k] = "."}
<1>a. i <= j /\ j + quoted = L /\ (quoted = 1 => i > 1)
  BY <1>1
<1>3. /\ L \in Nat /\ i \in 1..L /\ j \in i..L /\ a \in 1..L /\ p \in 0..(a - 1) /\ DOMAIN raw = 1..L
      /\ a <= i /\ (quoted = 0 => a = i /\ j = L) /\ (quoted = 1 => a + 1 = i /\ j + 1 = L)
  BY <1>0, <1>a
<1>b. /\ \A k \in i..j : raw[k] \notin Blank \cup {".", "tick", "\"", "'", "[", "]"}
      /\ quoted = 1 => <<raw[a], raw[L]>> \in Quotes
  <2>1. quoted = 1 => i - 1 = a /\ j + 1 = L
    BY <1>3
  <2> QED
    BY <1>1, <2>1
<1> HIDE DEF a
<1>4. quoted = 1 => /\ raw[a] \in {"tick", "\"", "'", "["} /\ raw[L] \in {"tick", "\"", "'", "]"}
                    /\ <<raw[a], raw[L]>> \in Quotes
  BY <1>b DEF Quotes
<1>5. /\ raw[a] \notin Blank \cup {"."} /\ raw[L] \notin Blank \cup {"."}
      /\ \A k \in (p + 1)..L : raw[k] # "." /\ (k < a => raw[k] \in Blank)
  <2>1. raw[a] \notin Blank \cup {"."} /\ raw[L] \notin Blank \cup {"."}
    <3>1. CASE quoted = 0
      <4>1. a = i /\ j = L /\ i \in i..j /\ j \in i..j
        BY <1>3, <3>1
      <4>2. raw[i] \notin Blank \cup {"."} /\ raw[j] \notin Blank \cup {"."}
        BY <1>b, <4>1
      <4> QED
        BY <4>1, <4>2
    <3>2. CASE quoted = 1
      BY <1>4, <3>2 DEF Blank
    <3> QED
      BY <3>1, <3>2
  <2>2. ASSUME NEW k \in (p + 1)..L
        PROVE  raw[k] # "." /\ (k < a => raw[k] \in Blank)
    <3>1. k < a \/ k = a \/ k = L \/ k \in i..j
      BY <1>3
    <3>2. k < a => raw[k] \in Blank
      BY <1>2, <1>3
    <3> QED
      BY <1>3, <1>b, <2>1, <3>1, <3>2 DEF Blank
  <2> QED
    BY <2>1, <2>2
<1>6. Max(dots \cup {0}) = p
  <2>1. dots \cup {0} \in SUBSET Nat /\ p \in dots \cup {0}
    BY <1>2, <1>3
  <2>2. \A k \in dots \cup {0} : k <= p
    BY <1>3, <1>5
  <2> QED
    BY <2>1, <2>2, MaxIs
<1>7. /\ first \in Seq(S) /\ Len(first) = L - p
      /\ \A k \in 1..(L - p) : first[k] = raw[p + k]
  BY <1>3, SubSeqIs
<1> HIDE DEF first
<1>8. Trimmed(first) = ident
  <2>1. /\ a - p \in 1..Len(first) /\ L - p \in (a - p)..Len(first)
        /\ first[a - p] = raw[a] /\ first[L - p] = raw[L]
    BY <1>3, <1>7
  <2>2. \A k \in 1..Len(first) : k < a - p \/ k > L - p => first[k] \in Blank
    BY <1>3, <1>5, <1>7
  <2> QED
    BY <1>5, <1>7, <2>1, <2>2, TrimmedIs
<1>9. /\ ident \in Seq(S) /\ Len(ident) = L - a + 1
      /\ \A k \in 1..(L - a + 1) : ident[k] = raw[a + k - 1]
  <2>1. a - p \in 1..(Len(first) + 1) /\ L - p \in 0..Len(first) /\ a - p <= L - p
    BY <1>3, <1>7
  <2>2. /\ ident \in Seq(S) /\ Len(ident) = (L - p) - (a - p) + 1
        /\ \A k \in 1..((L - p) - (a - p) + 1) : ident[k] = first[(a - p) + k - 1]
    BY <1>7, <2>1, SubSeqIs
  <2>3. \A k \in 1..(L - a + 1) : (a - p) + k - 1 \in 1..(L - p) /\ p + ((a - p) + k - 1) = a + k - 1
    BY <1>3
  <2> QED
    BY <1>3, <1>7, <2>2, <2>3
<1>10. /\ name \in Seq(S) /\ Len(name) = j - i + 1
       /\ \A k \in 1..(j - i + 1) : name[k] = raw[i + k - 1]
  <2>1. i \in 1..(Len(raw) + 1) /\ j \in 0..Len(raw) /\ i <= j
    BY <1>3
  <2> QED
    BY <1>1, <2>1, SubSeqIs
<1>11. name # <<>>
  BY <1>3, <1>10
<1>12. unquoteIdent(raw) = IF Len(ident) > 1 /\ <<ident[1], ident[Len(ident)]>> \in Quotes
                           THEN SubSeq(ident, 2, Len(ident) - 1) ELSE ident
  BY <1>6, <1>8 DEF unquoteIdent, first, L
<1> HIDE DEF ident
<1>13. CASE quoted = 1
  <2>1. ident[1] = raw[a] /\ ident[Len(ident)] = raw[L] /\ Len(ident) > 1
    BY <1>3, <1>9, <1>13
  <2>2. unquoteIdent(raw) = SubSeq(ident, 2, Len(ident) - 1)
    BY <1>4, <1>12, <1>13, <2>1
  <2>3. 2 \in 1..(Len(ident) + 1) /\ Len(ident) - 1 \in 0..Len(ident)
    BY <1>3, <1>9, <2>1
  <2> DEFINE inner == SubSeq(ident, 2, Len(ident) - 1)
  <2>4. /\ inner \in Seq(S) /\ Len(inner) = Len(name)
        /\ \A k \in 1..(Len(ident) - 2) : inner[k] = ident[2 + k - 1]
    BY <1>3, <1>9, <1>10, <1>13, <2>3, SubSeqIs
  <2>5. \A k \in 1..Len(inner) : inner[k] = name[k]
    <3> SUFFICES ASSUME NEW k \in 1..Len(inner) PROVE inner[k] = name[k]
      OBVIOUS
    <3>1. /\ k \in 1..(j - i + 1) /\ k \in 1..(Len(ident) - 2) /\ 2 + k - 1 \in 1..(L - a + 1)
          /\ a + (2 + k - 1) - 1 = i + k - 1
      BY <1>3, <1>9, <1>10, <1>13, <2>4
    <3> QED
      BY <1>9, <1>10, <2>4, <3>1
  <2> HIDE DEF inner
  <2>6. inner = name
    BY <1>10, <2>4, <2>5, SameSeq
  <2> QED
    BY <1>11, <2>2, <2>6 DEF inner
<1>14. CASE quoted = 0
  <2>1. ident[1] = raw[i]
    BY <1>3, <1>9, <1>14
  <2>2. <<ident[1], ident[Len(ident)]>> \notin Quotes
    <3>1. i \in i..j
      BY <1>3
    <3>2. raw[i] \notin {"tick", "\"", "'", "["}
      BY <1>b, <3>1
    <3> QED
      BY <2>1, <3>2 DEF Quotes
  <2>3. Len(ident) = Len(name) /\ \A k \in 1..Len(ident) : ident[k] = name[k]
    BY <1>3, <1>9, <1>10, <1>14
  <2>4. ident = name
    BY <1>9, <1>10, <2>3, SameSeq
  <2> QED
    BY <1>11, <1>12, <2>2, <2>4
<1> QED
  BY <1>13, <1>14

LEMMA IntervalSize ==
  ASSUME NEW n \in Nat
  PROVE  IsFiniteSet(1..n) /\ Cardinality(1..n) = n
<1>1. 1 \in Int /\ n \in Int /\ (1 > n => n = 0)
  OBVIOUS
<1> QED
  BY <1>1, FS_Interval

\* What INSERT_PREFIX and the two functions make of a head.
LEMMA HeadsRead ==
  ASSUME NEW h \in Heads
  PROVE  /\ TableOf[h] = NameOf[TableText[h]] /\ TableOf[h] # NoTable
         /\ ColumnsOf[h] = [k \in DOMAIN ColumnsText[h] |-> NameOf[ColumnsText[h][k]]]
         /\ ColumnsOf[h] = <<>> <=> ColumnsText[h] = <<>>
<1> DEFINE texts == ColumnsText[h]
           N == Len(texts)
<1>1. TableText[h] \in DOMAIN NameOf /\ texts \in Seq(DOMAIN NameOf)
  BY SqlDumpAssumption
<1>2. \A raw \in DOMAIN NameOf : unquoteIdent(raw) = NameOf[raw] /\ NameOf[raw] # <<>>
  BY SqlDumpAssumption, UnquotedIs
<1>3. TableOf[h] = NameOf[TableText[h]] /\ TableOf[h] # NoTable
  BY <1>1, <1>2 DEF TableOf, NoTable
<1>4. N \in Nat /\ DOMAIN texts = 1..N /\ \A k \in 1..N : texts[k] \in DOMAIN NameOf
  BY <1>1
<1> HIDE DEF N
<1> DEFINE kept == {k \in DOMAIN texts : unquoteIdent(texts[k]) # <<>>}
           Nth(n) == CHOOSE k \in kept : Cardinality({m \in kept : m <= k}) = n
<1>5. kept = 1..N
  BY <1>2, <1>4
<1>6. \A k \in kept : Cardinality({m \in kept : m <= k}) = k
  <2> SUFFICES ASSUME NEW k \in 1..N PROVE Cardinality({m \in kept : m <= k}) = k
    BY <1>5
  <2>1. {m \in kept : m <= k} = 1..k
    BY <1>4, <1>5
  <2>2. k \in Nat
    BY <1>4
  <2>3. Cardinality(1..k) = k
    BY <2>2, IntervalSize
  <2> QED
    BY <2>1, <2>3
<1>7. \A n \in 1..N : Nth(n) = n
  <2> HIDE DEF kept
  <2> SUFFICES ASSUME NEW n \in 1..N PROVE Nth(n) = n
    OBVIOUS
  <2> QED
    BY <1>5, <1>6
<1>8. Cardinality(kept) = N
  BY <1>4, <1>5, IntervalSize
<1>9. splitColumns(texts) = [n \in 1..Cardinality(kept) |-> unquoteIdent(texts[Nth(n)])]
  BY DEF splitColumns
<1> HIDE DEF kept, Nth
<1>10. splitColumns(texts) = [k \in DOMAIN texts |-> NameOf[texts[k]]]
  BY <1>2, <1>4, <1>7, <1>8, <1>9
<1>11. ColumnsOf[h] = [k \in DOMAIN texts |-> NameOf[texts[k]]]
  BY <1>10 DEF ColumnsOf
<1>12. ColumnsOf[h] = <<>> <=> texts = <<>>
  <2>1. texts = <<>> <=> N = 0
    BY <1>1, <1>4 DEF N
  <2>2. ColumnsOf[h] = [k \in 1..N |-> NameOf[texts[k]]]
    BY <1>4, <1>11
  <2>3. ColumnsOf[h] = <<>> <=> N = 0
    BY <1>4, <2>2
  <2> QED
    BY <2>1, <2>3
<1> QED
  BY <1>3, <1>11, <1>12

-----------------------------------------------------------------------------
(* Lists of numbers. *)

\* What lists a set has its size.
LEMMA ListsCount ==
  ASSUME NEW list \in Seq(Nat), NEW S, Lists(list, S)
  PROVE  IsFiniteSet(S) /\ Cardinality(S) = Len(list)
<1>1. Len(list) \in Nat /\ DOMAIN list = 1..Len(list) /\ list = [i \in 1..Len(list) |-> list[i]]
  OBVIOUS
<1>2. IsFiniteSet(1..Len(list)) /\ Cardinality(1..Len(list)) = Len(list)
  <2>1. 1 \in Int /\ Len(list) \in Int /\ (1 > Len(list) => Len(list) = 0)
    BY <1>1
  <2> QED
    BY <2>1, FS_Interval
<1>3. \A i, k \in 1..Len(list) : i # k => list[i] # list[k]
  <2> SUFFICES ASSUME NEW i \in 1..Len(list), NEW k \in 1..Len(list), i # k
               PROVE  list[i] # list[k]
    OBVIOUS
  <2>1. i < k \/ k < i
    BY <1>1
  <2>2. list[i] \in Nat /\ list[k] \in Nat
    BY <1>1
  <2> QED
    BY <1>1, <2>1, <2>2 DEF Lists
<1>4. list \in Bijection(1..Len(list), S)
  <2>1. \A x \in S : \E i \in 1..Len(list) : list[i] = x
    BY <1>1 DEF Lists
  <2>2. list \in [1..Len(list) -> S]
    BY <1>1 DEF Lists
  <2> QED
    BY <1>3, <2>1, <2>2 DEF Bijection, Injection, Surjection, IsInjective
<1> QED
  BY <1>2, <1>4, FS_Bijection DEF ExistsBijection

LEMMA ListsAppend ==
  ASSUME NEW list \in Seq(Nat), NEW S, Lists(list, S), NEW n \in Nat, \A x \in S : x < n
  PROVE  Lists(Append(list, n), S \cup {n}) /\ Append(list, n) \in Seq(Nat)
<1> DEFINE t == Append(list, n)
<1>1. /\ t \in Seq(Nat) /\ DOMAIN list = 1..Len(list) /\ DOMAIN t = 1..(Len(list) + 1)
      /\ Len(list) \in Nat /\ t[Len(list) + 1] = n
      /\ \A i \in DOMAIN list : t[i] = list[i] /\ i < Len(list) + 1
      /\ \A i \in DOMAIN t : i \in DOMAIN list \/ i = Len(list) + 1
  OBVIOUS
<1>2. \A i \in DOMAIN list : list[i] \in S /\ list[i] < n
  BY DEF Lists
<1> HIDE DEF t
<1>3. {t[i] : i \in DOMAIN t} = S \cup {n}
  <2>1. \A x \in S : \E i \in DOMAIN t : t[i] = x
    BY <1>1 DEF Lists
  <2>2. \E i \in DOMAIN t : t[i] = n
    BY <1>1
  <2>3. \A i \in DOMAIN t : t[i] \in S \cup {n}
    BY <1>1, <1>2
  <2> QED
    BY <2>1, <2>2, <2>3
<1>4. ASSUME NEW i \in DOMAIN t, NEW k \in DOMAIN t, i < k
      PROVE  t[i] < t[k]
  <2>1. CASE k \in DOMAIN list
    <3>1. i \in DOMAIN list
      BY <1>1, <1>4, <2>1
    <3> QED
      BY <1>1, <1>4, <2>1, <3>1 DEF Lists
  <2>2. CASE k = Len(list) + 1
    BY <1>1, <1>2, <1>4, <2>2
  <2> QED
    BY <1>1, <2>1, <2>2
<1> QED
  BY <1>1, <1>3, <1>4 DEF Lists, t

-----------------------------------------------------------------------------
(* The scanner's searches. *)

LEMMA FirstInIs ==
  ASSUME Len(sql) \in Nat, NEW S, NEW i \in Nat, NEW k \in i..(Len(sql) + 1),
         Token(k) \in S \cup {End}, \A j \in i..(k - 1) : Token(j) \notin S \cup {End}
  PROVE  FirstIn(i, S) = k
<1> DEFINE Found(n) == Token(n) \in S \cup {End} /\ \A j \in i..(n - 1) : Token(j) \notin S \cup {End}
<1>1. FirstIn(i, S) = CHOOSE n \in i..(Len(sql) + 2) : Found(n)
  BY DEF FirstIn
<1>2. k \in i..(Len(sql) + 2) /\ Found(k)
  OBVIOUS
<1>3. ASSUME NEW n \in i..(Len(sql) + 2), Found(n)
      PROVE  n = k
  <2>1. ~(n < k)
    <3>1. n < k => n \in i..(k - 1)
      OBVIOUS
    <3> QED
      BY <1>2, <1>3, <3>1
  <2>2. ~(k < n)
    <3>1. k < n => k \in i..(n - 1)
      OBVIOUS
    <3> QED
      BY <1>2, <1>3, <3>1
  <2> QED
    BY <2>1, <2>2
<1> HIDE DEF Found
<1> QED
  BY <1>1, <1>2, <1>3

LEMMA Within == \A i, n \in Nat : \A k \in 1..n : i <= k => k \in i..(n + 1)
OBVIOUS

LEMMA Here == \A i, n \in Nat : i \in 1..n => i \in i..(n + 1) /\ i..(i - 1) = {}
OBVIOUS

LEMMA FirstNotInIs ==
  ASSUME Len(sql) \in Nat, NEW S, NEW i \in Nat, NEW k \in i..(Len(sql) + 1),
         Token(k) \notin S, \A j \in i..(k - 1) : Token(j) \in S
  PROVE  FirstNotIn(i, S) = k
<1> DEFINE Found(n) == Token(n) \notin S /\ \A j \in i..(n - 1) : Token(j) \in S
<1>1. FirstNotIn(i, S) = CHOOSE n \in i..(Len(sql) + 2) : Found(n)
  BY DEF FirstNotIn
<1>2. k \in i..(Len(sql) + 2) /\ Found(k)
  OBVIOUS
<1>3. ASSUME NEW n \in i..(Len(sql) + 2), Found(n)
      PROVE  n = k
  <2>1. ~(n < k)
    <3>1. n < k => n \in i..(k - 1)
      OBVIOUS
    <3> QED
      BY <1>2, <1>3, <3>1
  <2>2. ~(k < n)
    <3>1. k < n => k \in i..(n - 1)
      OBVIOUS
    <3> QED
      BY <1>2, <1>3, <3>1
  <2> QED
    BY <2>1, <2>2
<1> HIDE DEF Found
<1> QED
  BY <1>1, <1>2, <1>3

-----------------------------------------------------------------------------
(* Where a scan of a dump may be. *)

\* Of the first m tuples, those that are for a table and list their columns.
Listed(d, target, m) ==
    {j \in 1..m : Table(d.tuples[j]) = target /\ ColumnsText[d.tuples[j].head] # <<>>}
RowsFrom(d, places) == [k \in DOMAIN places |-> Named(d.tuples[places[k]])]
Holds(d, rows, S) == \E places \in Seq(Nat) : Lists(places, S) /\ rows = RowsFrom(d, places)

\* The names are those of the first m tuples' tables, each of them once.
Names(d, names, m) ==
    /\ names \in Seq(Range(names))
    /\ {names[k] : k \in DOMAIN names} = {Table(d.tuples[j]) : j \in 1..m}
    /\ \A k, l \in DOMAIN names : names[k] = names[l] => k = l

\* The scan has read t tuples and the heads of the statements of m.
Progress(s, d, t, m) ==
    /\ DOMAIN s = DOMAIN FreshScan(NoTable) /\ s.verdict = "none" /\ s.i \in Nat
    /\ t \in 0..Len(d.tuples) /\ m \in {t, t + 1} /\ m <= Len(d.tuples)
    /\ Names(d, s.names, m)
    /\ s.had \in BOOLEAN /\ (s.had <=> Listed(d, s.target, m) # {})
    /\ Holds(d, s.rows, Listed(d, s.target, t))

\* It looks for the next statement; is between two tuples, or in front of the
\* first one or of the semicolon; or has v values of a tuple, and c characters of
\* a string.
AtExec(s, d, t, m) ==
    /\ s.mode = "exec" /\ s.out = <<>> /\ m = t
    /\ s.i = Behind(d, t) /\ (t < Len(d.tuples) => d.tuples[t + 1].first)

AtTuples(s, d, t, m) ==
    /\ s.mode = "tuples" /\ s.out = <<>>
    /\ \/ m = t /\ t > 0 /\ s.i = Closing(d.tuples[t]) + 1 /\ s.head = d.tuples[t].head
       \/ /\ m = t + 1 /\ d.tuples[m].first /\ s.head = d.tuples[m].head
          /\ s.i <= d.tuples[m].from /\ Only(d, Blank, s.i, d.tuples[m].from)

InTuple(s, d, t, m, v) ==
    /\ m = t + 1 /\ s.head = d.tuples[m].head
    /\ v \in 0..Len(d.tuples[m].values)
    /\ s.values = [k \in 1..v |-> d.tuples[m].values[k].is]

AtTuple(s, d, t, m, v) ==
    /\ s.mode = "tuple" /\ s.out = <<>> /\ InTuple(s, d, t, m, v)
    /\ v < Len(d.tuples[m].values) /\ s.i <= d.tuples[m].values[v + 1].from
    /\ Only(d, Blank, s.i, d.tuples[m].values[v + 1].from)

AtString(s, d, t, m, v, c) ==
    /\ s.mode = "string" /\ InTuple(s, d, t, m, v) /\ v < Len(d.tuples[m].values)
    /\ LET w == d.tuples[m].values[v + 1] IN
       /\ w.is.quoted /\ c \in 0..Len(w.is.text) /\ s.i = w.at[c + 1]
       /\ s.out = [k \in 1..c |-> w.is.text[k]]

AtDelimiter(s, d, t, m, v) ==
    /\ s.mode = "delimiter" /\ s.out = <<>> /\ InTuple(s, d, t, m, v)
    /\ v > 0 /\ s.i = d.tuples[m].values[v].to

Reached(s, d) ==
    \E t, m \in Nat :
      /\ Progress(s, d, t, m)
      /\ \/ AtExec(s, d, t, m) \/ AtTuples(s, d, t, m)
         \/ \E v \in Nat : AtTuple(s, d, t, m, v) \/ AtDelimiter(s, d, t, m, v)
         \/ \E v, c \in Nat : AtString(s, d, t, m, v, c)

\* What the scan comes to is right of the dump.
Concluded(s, d, sqlTable, limit) ==
    /\ s.mode = "done"
    /\ s.verdict = "rows" => Holds(d, s.rows, TuplesOf(d, Wanted(d, sqlTable)))
    /\ s.verdict = "exceeded" => limit < Cardinality(TuplesOf(d, Wanted(d, sqlTable)))
    /\ s.verdict = "refused" =>
         \/ IF sqlTable = NoTable THEN Cardinality(TablesOf(d)) # 1 ELSE NameOf[sqlTable] \notin TablesOf(d)
         \/ \E n \in TuplesOf(d, Wanted(d, sqlTable)) : ColumnsText[d.tuples[n].head] = <<>>

\* The second scan is for the wanted table.
Aimed(s, d, sqlTable) == s.target # NoTable => s.target = Wanted(d, sqlTable) /\ s.target \in TablesOf(d)

ScanRight(s, d, sqlTable, limit) ==
    /\ Aimed(s, d, sqlTable)
    /\ Reached(s, d) \/ Concluded(s, d, sqlTable, limit)

-----------------------------------------------------------------------------
(* What the layout says of the text. *)

LEMMA TextFacts ==
  ASSUME NEW d, Printed(d), sql = d.text
  PROVE  /\ Len(sql) \in Nat /\ DOMAIN sql = 1..Len(sql)
         /\ Len(d.tuples) \in Nat /\ DOMAIN d.tuples = 1..Len(d.tuples)
         /\ \A n \in 1..Len(d.tuples) :
              /\ d.tuples[n].head \in Heads /\ TupleStands(d, d.tuples[n])
              /\ Table(d.tuples[n]) # NoTable
              /\ Table(d.tuples[n]) = TableOf[d.tuples[n].head]
              /\ Columns(d.tuples[n]) = ColumnsOf[d.tuples[n].head]
<1>1. /\ Len(sql) \in Nat /\ DOMAIN sql = 1..Len(sql)
      /\ Len(d.tuples) \in Nat /\ DOMAIN d.tuples = 1..Len(d.tuples)
  BY DEF Printed
<1>2. \A n \in 1..Len(d.tuples) : d.tuples[n].head \in Heads /\ TupleStands(d, d.tuples[n])
  BY <1>1 DEF Printed
<1> QED
  BY <1>1, <1>2, HeadsRead DEF Table, Columns

LEMMA TokenStands ==
  ASSUME NEW d, sql = d.text, NEW i \in Nat, NEW c, Stands(d, i, <<c>>)
  PROVE  Token(i) = c /\ i \in DOMAIN sql
<1>1. 1 \in DOMAIN <<c>> /\ <<c>>[1] = c /\ i + 1 - 1 = i
  OBVIOUS
<1> QED
  BY <1>1 DEF Stands, Token

LEMMA TokensOnly ==
  ASSUME NEW d, sql = d.text, NEW S, NEW i, NEW j, Only(d, S, i, j)
  PROVE  \A k \in i..(j - 1) : Token(k) \in S
BY DEF Only, Token

LEMMA TokensWithout ==
  ASSUME NEW d, sql = d.text, NEW S, NEW i, NEW j, Without(d, S, i, j)
  PROVE  \A k \in i..(j - 1) : Token(k) \notin S
BY DEF Without, Token

LEMMA ClosingStands ==
  ASSUME NEW d, Printed(d), sql = d.text, NEW n \in 1..Len(d.tuples)
  PROVE  /\ Closing(d.tuples[n]) \in Nat /\ Closing(d.tuples[n]) \in DOMAIN sql
         /\ Token(Closing(d.tuples[n])) = ")"
<1> DEFINE vs == d.tuples[n].values
<1>1. TupleStands(d, d.tuples[n])
  BY TextFacts
<1>a. vs \in Seq(Range(vs)) /\ vs # <<>>
  BY <1>1 DEF TupleStands
<1>b. Len(vs) # 0 /\ Len(vs) \in Nat /\ DOMAIN vs = 1..Len(vs)
  BY <1>a
<1>2. Len(vs) \in 1..Len(vs) /\ DOMAIN vs = 1..Len(vs)
  BY <1>b
<1>3. vs[Len(vs)].to \in Nat
  BY <1>1, <1>2 DEF TupleStands, ValueStands
<1>4. Stands(d, Closing(d.tuples[n]), <<")">>)
  BY <1>1 DEF TupleStands
<1> QED
  BY <1>3, <1>4, TokenStands DEF Closing

LEMMA TupleFacts ==
  ASSUME NEW d, Printed(d), sql = d.text, NEW m \in 1..Len(d.tuples)
  PROVE  LET t == d.tuples[m] vs == t.values IN
         /\ t.from \in Nat /\ Token(t.from) = "(" /\ t.from \in DOMAIN sql
         /\ Len(vs) \in Nat /\ Len(vs) > 0 /\ DOMAIN vs = 1..Len(vs)
         /\ ColumnsText[t.head] # <<>> => Len(vs) = Len(ColumnsText[t.head])
         /\ t.from + 1 <= vs[1].from /\ Only(d, Blank, t.from + 1, vs[1].from)
         /\ \A k \in 1..Len(vs) :
              /\ ValueStands(d, vs[k]) /\ vs[k].from \in Nat /\ vs[k].to \in Nat
              /\ vs[k].to \in DOMAIN sql
              /\ Token(vs[k].to) = IF k = Len(vs) THEN ")" ELSE "comma"
              /\ k < Len(vs) => vs[k].to + 1 <= vs[k + 1].from /\ Only(d, Blank, vs[k].to + 1, vs[k + 1].from)
<1> DEFINE t == d.tuples[m]
           vs == t.values
<1>1. TupleStands(d, t)
  BY TextFacts
<1>2. vs \in Seq(Range(vs)) /\ vs # <<>>
  BY <1>1 DEF TupleStands
<1>3. Len(vs) \in Nat /\ Len(vs) > 0 /\ DOMAIN vs = 1..Len(vs)
  BY <1>2
<1>4. t.from \in Nat /\ Token(t.from) = "(" /\ t.from \in DOMAIN sql
  BY <1>1, TokenStands DEF TupleStands
<1>5. /\ ColumnsText[t.head] # <<>> => Len(vs) = Len(ColumnsText[t.head])
      /\ vs[1].from > t.from /\ Only(d, Blank, t.from + 1, vs[1].from)
  BY <1>1 DEF TupleStands
<1>6. \A k \in 1..Len(vs) : ValueStands(d, vs[k]) /\ vs[k].from \in Nat /\ vs[k].to \in Nat
  BY <1>1, <1>3 DEF TupleStands, ValueStands
<1>c. TupleStands(d, t) /\ Closing(t) = vs[Len(vs)].to
      /\ Closing(t) \in DOMAIN sql /\ Token(Closing(t)) = ")"
  BY <1>1, ClosingStands DEF Closing
<1>d. \A k \in 1..(Len(vs) - 1) :
        /\ Stands(d, vs[k].to, <<"comma">>)
        /\ vs[k + 1].from > vs[k].to /\ Only(d, Blank, vs[k].to + 1, vs[k + 1].from)
  BY <1>1 DEF TupleStands
<1> HIDE DEF t, vs
<1>7. ASSUME NEW k \in 1..Len(vs)
      PROVE  /\ vs[k].to \in DOMAIN sql
             /\ Token(vs[k].to) = IF k = Len(vs) THEN ")" ELSE "comma"
             /\ k < Len(vs) => vs[k].to + 1 <= vs[k + 1].from /\ Only(d, Blank, vs[k].to + 1, vs[k + 1].from)
  <2>1. CASE k = Len(vs)
    BY <1>3, <1>c, <2>1
  <2>2. CASE k # Len(vs)
    <3> DEFINE N == Len(vs)
    <3>1. k \in 1..(N - 1) /\ k + 1 \in 1..N /\ k < N
      <4>1. N \in Nat /\ k \in 1..N /\ k # N
        BY <1>3, <2>2
      <4> HIDE DEF N
      <4> QED
        BY <4>1
    <3>2. /\ Stands(d, vs[k].to, <<"comma">>)
          /\ vs[k + 1].from > vs[k].to /\ Only(d, Blank, vs[k].to + 1, vs[k + 1].from)
      BY <1>d, <3>1
    <3>3. vs[k].to \in Nat /\ vs[k + 1].from \in Nat
      BY <1>6, <3>1
    <3>4. Token(vs[k].to) = "comma" /\ vs[k].to \in DOMAIN sql
      BY <3>2, <3>3, TokenStands
    <3>5. vs[k].to + 1 <= vs[k + 1].from
      <4>1. \A a, b \in Nat : b > a => a + 1 <= b
        OBVIOUS
      <4> QED
        BY <3>2, <3>3, <4>1
    <3> QED
      BY <2>2, <3>2, <3>4, <3>5
  <2> QED
    BY <2>1, <2>2
<1>8. vs[1].from \in Nat /\ t.from + 1 <= vs[1].from
  BY <1>3, <1>4, <1>5, <1>6
<1> QED
  BY <1>3, <1>4, <1>5, <1>6, <1>7, <1>8 DEF t, vs

\* What a scan keeps when it goes elsewhere.
Fields == {"mode", "i", "names", "target", "head", "had", "values", "out", "rows", "verdict"}

LEMMA FreshFields == \A target : LET s == FreshScan(target) IN
    /\ DOMAIN s = Fields /\ s.mode = "exec" /\ s.i = 1 /\ s.names = <<>> /\ s.target = target
    /\ s.had = FALSE /\ s.out = <<>> /\ s.rows = <<>> /\ s.verdict = "none"
BY DEF FreshScan, Fields

LEMMA GotoFields ==
  ASSUME DOMAIN scan = Fields, NEW m, NEW i
  PROVE  LET s == Goto(m, i) IN
         /\ DOMAIN s = Fields /\ s.mode = m /\ s.i = i
         /\ \A f \in Fields \ {"mode", "i"} : s[f] = scan[f]
         /\ s.names = scan.names /\ s.target = scan.target /\ s.head = scan.head /\ s.had = scan.had
         /\ s.values = scan.values /\ s.out = scan.out /\ s.rows = scan.rows /\ s.verdict = scan.verdict
BY DEF Goto, Fields

LEMMA ProgressFields ==
  ASSUME NEW d, NEW s, NEW t, NEW m, Progress(s, d, t, m)
  PROVE  /\ DOMAIN s = Fields /\ s.verdict = "none" /\ s.i \in Nat
         /\ Names(d, s.names, m) /\ Holds(d, s.rows, Listed(d, s.target, t))
BY FreshFields DEF Progress

LEMMA ProgressFacts ==
  ASSUME NEW d, Printed(d), NEW s, NEW t, NEW m, Progress(s, d, t, m)
  PROVE  /\ Len(d.tuples) \in Nat /\ DOMAIN d.tuples = 1..Len(d.tuples)
         /\ t \in 0..Len(d.tuples) /\ m \in {t, t + 1} /\ m <= Len(d.tuples)
         /\ m = t + 1 => m \in 1..Len(d.tuples)
<1>1. Len(d.tuples) \in Nat /\ DOMAIN d.tuples = 1..Len(d.tuples)
  BY DEF Printed
<1>2. t \in 0..Len(d.tuples) /\ m \in {t, t + 1} /\ m <= Len(d.tuples)
  BY DEF Progress
<1>3. m = t + 1 => m \in 1..Len(d.tuples)
  BY <1>1, <1>2
<1> QED
  BY <1>1, <1>2, <1>3

LEMMA ProgressHad ==
  ASSUME NEW d, NEW s, NEW t, NEW m, Progress(s, d, t, m)
  PROVE  s.had \in BOOLEAN /\ (s.had <=> Listed(d, s.target, m) # {})
BY DEF Progress

\* Progress does not depend on where in a tuple the scan is.
SameProgress(r, s) ==
    /\ DOMAIN s = Fields /\ s.i \in Nat
    /\ s.names = r.names /\ s.target = r.target /\ s.had = r.had /\ s.rows = r.rows
    /\ s.verdict = r.verdict

LEMMA ProgressKept ==
  ASSUME NEW d, NEW r, NEW s, NEW t, NEW m, Progress(r, d, t, m), SameProgress(r, s)
  PROVE  Progress(s, d, t, m)
BY FreshFields DEF Progress, SameProgress

-----------------------------------------------------------------------------
(* Strings. *)

\* Whatever a character of a string is, what the tool made of it is read as it.
LEMMA CharacterRead ==
  ASSUME NEW d, Printed(d), sql = d.text, NEW w, StringStands(d, w), w.is.text \in Seq(Range(w.is.text)),
         NEW c \in 1..Len(w.is.text), ReadString, scan.mode = "string", scan.i = w.at[c]
  PROVE  /\ scan' = [scan EXCEPT !.out = Append(@, w.is.text[c]), !.i = @ + (w.at[c + 1] - w.at[c])]
         /\ w.at[c] \in Nat /\ w.at[c + 1] \in Nat
<1> DEFINE x == w.is.text[c]
           e == Escaped(d.tool, x)
           i == w.at[c]
<1>1. /\ w.at \in Seq(Nat) /\ Len(w.at) = Len(w.is.text) + 1
      /\ Stands(d, i, e) /\ x # End /\ w.at[c + 1] = i + Len(e)
      /\ x = "\\" => d.tool = "mysqldump"
  BY DEF StringStands
<1> HIDE DEF e, x, i
<1>2. i \in Nat /\ w.at[c + 1] \in Nat
  <2>1. c \in 1..Len(w.at) /\ c + 1 \in 1..Len(w.at)
    <3>1. Len(w.at) = Len(w.is.text) + 1
      BY <1>1
    <3>2. Len(w.is.text) \in Nat
      BY ONLY w.is.text \in Seq(Range(w.is.text))
    <3> QED
      BY ONLY <3>1, <3>2, c \in 1..Len(w.is.text)
  <2>2. w.at \in Seq(Nat)
    BY <1>1
  <2> QED
    BY ONLY <2>1, <2>2 DEF i
<1>3. w.at[c + 1] - w.at[c] = Len(e) /\ Len(e) \in {1, 2}
  <2>1. Len(e) \in {1, 2}
    BY DEF e, Escaped
  <2>2. w.at[c + 1] = w.at[c] + Len(e) /\ w.at[c] \in Nat
    BY <1>1, <1>2 DEF i
  <2> QED
    BY ONLY <2>1, <2>2
<1>4. /\ Token(i) = e[1]
      /\ Len(e) = 2 => Token(i + 1) = e[2]
  <2>1. 1 \in DOMAIN e /\ (Len(e) = 2 => 2 \in DOMAIN e)
    BY DEF e, Escaped
  <2>2. i + 1 - 1 = i /\ i + 2 - 1 = i + 1
    BY <1>2
  <2> QED
    BY <1>1, <2>1, <2>2 DEF Stands, Token
<1> DEFINE Adds(y, n) == [scan EXCEPT !.out = Append(@, y), !.i = @ + n]
<1>5. scan.i = i
  BY DEF i
<1>6. scan' = CASE Token(i) = End -> Refused
                [] Token(i) = "\\" /\ Token(i + 1) = End -> Goto("string", i + 2)
                [] Token(i) = "\\" /\ Token(i + 1) # End -> Adds(Unescaped(Token(i + 1)), 2)
                [] Token(i) = "'" /\ Token(i + 1) = "'" -> Adds("'", 2)
                [] Token(i) = "'" /\ Token(i + 1) # "'" -> Taking(Text(scan.out), i + 1)
                [] OTHER -> Adds(Token(i), 1)
  BY <1>5 DEF ReadString
<1> HIDE DEF Adds
<1>7. scan' = Adds(x, Len(e))
  <2>1. CASE x = "'" /\ d.tool = "mysqldump"
    <3>1. Len(e) = 2 /\ e[1] = "\\" /\ e[2] = "'"
      BY <2>1 DEF e, Escaped
    <3>2. Token(i) = "\\" /\ Token(i + 1) = "'"
      BY <1>4, <3>1
    <3> QED
      BY <1>6, <2>1, <3>1, <3>2 DEF End, Unescaped
  <2>2. CASE x = "'" /\ d.tool # "mysqldump"
    <3>1. Len(e) = 2 /\ e[1] = "'" /\ e[2] = "'"
      BY <2>2 DEF e, Escaped
    <3>2. Token(i) = "'" /\ Token(i + 1) = "'"
      BY <1>4, <3>1
    <3> QED
      BY <1>6, <2>2, <3>1, <3>2 DEF End
  <2>3. CASE x = "\\"
    <3>1. Len(e) = 2 /\ e[1] = "\\" /\ e[2] = "\\"
      BY <1>1, <2>3 DEF e, Escaped
    <3>2. Token(i) = "\\" /\ Token(i + 1) = "\\"
      BY <1>4, <3>1
    <3> QED
      BY <1>6, <2>3, <3>1, <3>2 DEF End, Unescaped
  <2>4. CASE x = "newline" /\ d.tool = "mysqldump"
    <3>1. Len(e) = 2 /\ e[1] = "\\" /\ e[2] = "n"
      BY <2>4 DEF e, Escaped
    <3>2. Token(i) = "\\" /\ Token(i + 1) = "n"
      BY <1>4, <3>1
    <3> QED
      BY <1>6, <2>4, <3>1, <3>2 DEF End, Unescaped
  <2>5. CASE x \notin {"'", "\\"} /\ ~(x = "newline" /\ d.tool = "mysqldump")
    <3>1. Len(e) = 1 /\ e[1] = x
      BY <2>5 DEF e, Escaped
    <3>2. Token(i) = x
      BY <1>4, <3>1
    <3> QED
      BY <1>1, <1>6, <2>5, <3>1, <3>2
  <2> QED
    BY <2>1, <2>2, <2>3, <2>4, <2>5
<1> QED
  BY <1>2, <1>3, <1>7 DEF x, i, Adds

\* A value is taken, and the delimiter behind it is next.
LEMMA ValueTaken ==
  ASSUME NEW d, NEW t \in Nat, NEW m \in Nat, NEW v \in Nat, Progress(scan, d, t, m), m = t + 1,
         InTuple(scan, d, t, m, v), Len(d.tuples[m].values) \in Nat, v < Len(d.tuples[m].values),
         d.tuples[m].values[v + 1].to \in Nat,
         scan' = [Goto("delimiter", d.tuples[m].values[v + 1].to) EXCEPT
                    !.values = Append(@, d.tuples[m].values[v + 1].is), !.out = <<>>]
  PROVE  Reached(scan', d) /\ scan'.target = scan.target
<1> DEFINE vs == d.tuples[m].values
           next == vs[v + 1].to
           g == Goto("delimiter", next)
<1>1. DOMAIN scan = Fields
  BY ONLY Progress(scan, d, t, m), ProgressFields
<1>2. /\ DOMAIN g = Fields /\ g.mode = "delimiter" /\ g.i = next
      /\ g.names = scan.names /\ g.target = scan.target /\ g.head = scan.head /\ g.had = scan.had
      /\ g.values = scan.values /\ g.out = scan.out /\ g.rows = scan.rows /\ g.verdict = scan.verdict
  <2> HIDE DEF next
  <2> QED
    BY <1>1, GotoFields
<1>3. scan' = [g EXCEPT !.values = Append(@, vs[v + 1].is), !.out = <<>>]
  OBVIOUS
<1>4. next \in Nat /\ v + 1 \in Nat /\ Len(vs) \in Nat /\ v < Len(vs)
  OBVIOUS
<1>5. scan.values = [k \in 1..v |-> vs[k].is] /\ scan.head = d.tuples[m].head
  BY DEF InTuple
<1> HIDE DEF g, vs, next
<1>6. /\ DOMAIN scan' = Fields /\ scan'.mode = "delimiter" /\ scan'.i = next
      /\ scan'.values = Append(scan.values, vs[v + 1].is) /\ scan'.out = <<>>
      /\ scan'.names = scan.names /\ scan'.target = scan.target /\ scan'.head = scan.head
      /\ scan'.had = scan.had /\ scan'.rows = scan.rows /\ scan'.verdict = scan.verdict
  BY <1>2, <1>3, ZenonT(30) DEF Fields
<1>7. scan'.values = [k \in 1..(v + 1) |-> vs[k].is]
  <2> DEFINE S == {vs[k].is : k \in 1..(v + 1)}
             f == [k \in 1..v |-> vs[k].is]
  <2>1. f \in Seq(S) /\ Len(f) = v
    <3>1. \A k \in 1..v : vs[k].is \in S
      OBVIOUS
    <3> HIDE DEF S
    <3> QED
      BY <3>1
  <2>2. \A k \in 1..v : f[k] = vs[k].is
    OBVIOUS
  <2> HIDE DEF f, S
  <2>3. Append(f, vs[v + 1].is) = [k \in 1..(v + 1) |-> vs[k].is]
    BY <2>1, <2>2
  <2> QED
    BY <1>5, <1>6, <2>3 DEF f
<1>8. Progress(scan', d, t, m)
  <2>1. SameProgress(scan, scan')
    BY <1>4, <1>6 DEF SameProgress
  <2> QED
    BY <2>1, ProgressKept
<1>9. AtDelimiter(scan', d, t, m, v + 1)
  <2>1. v + 1 \in 0..Len(vs) /\ v + 1 > 0
    BY <1>4
  <2> QED
    BY <1>5, <1>6, <1>7, <2>1 DEF AtDelimiter, InTuple, vs, next
<1> QED
  BY <1>4, <1>6, <1>8, <1>9 DEF Reached

LEMMA StringStep ==
  ASSUME NEW d, Printed(d), sql = d.text, NEW t \in Nat, NEW m \in Nat, NEW v \in Nat, NEW c \in Nat,
         Progress(scan, d, t, m), AtString(scan, d, t, m, v, c), ReadString
  PROVE  Reached(scan', d) /\ scan'.target = scan.target
<1> DEFINE vs == d.tuples[m].values
           w == vs[v + 1]
           x == w.is.text
<1>1. /\ scan.mode = "string" /\ m = t + 1 /\ scan.head = d.tuples[m].head
      /\ v \in 0..Len(vs) /\ v < Len(vs) /\ scan.values = [k \in 1..v |-> vs[k].is]
      /\ w.is.quoted /\ c \in 0..Len(x) /\ scan.i = w.at[c + 1]
      /\ scan.out = [k \in 1..c |-> x[k]]
  BY DEF AtString, InTuple
<1>2. DOMAIN scan = Fields /\ scan.i \in Nat /\ m \in 1..Len(d.tuples)
  BY ONLY <1>1, Printed(d), Progress(scan, d, t, m), ProgressFields, ProgressFacts
<1>3. /\ Len(vs) \in Nat /\ v + 1 \in 1..Len(vs) /\ ValueStands(d, w) /\ w.to \in Nat
      /\ Token(w.to) \in {"comma", ")"}
  <2>1. Len(vs) \in Nat
    BY <1>2, TupleFacts
  <2>2. v + 1 \in 1..Len(vs)
    <3>1. v < Len(vs)
      BY <1>1
    <3> HIDE DEF vs
    <3> QED
      BY ONLY v \in Nat, <2>1, <3>1
  <2>3. ValueStands(d, w) /\ w.to \in Nat /\ Token(w.to) \in {"comma", ")"}
    BY ONLY Printed(d), sql = d.text, <1>2, <2>2, TupleFacts, ZenonT(30)
  <2> QED
    BY ONLY <2>1, <2>2, <2>3
<1> HIDE DEF vs, x
<1>4. w.is \in [quoted : BOOLEAN, text : Seq(Range(x))] /\ StringStands(d, w)
  BY <1>1, <1>3 DEF ValueStands, x
<1>5. x \in Seq(Range(x)) /\ Len(x) \in Nat
  BY <1>4 DEF x
<1>6. CASE c < Len(x)
  <2>1. c + 1 \in 1..Len(x)
    BY <1>1, <1>5, <1>6
  <2>2. /\ scan' = [scan EXCEPT !.out = Append(@, x[c + 1]), !.i = @ + (w.at[c + 2] - w.at[c + 1])]
        /\ w.at[c + 1] \in Nat /\ w.at[c + 2] \in Nat
    <3>1. c + 1 + 1 = c + 2
      OBVIOUS
    <3> HIDE DEF w
    <3>2. x = w.is.text
      BY DEF x, w
    <3>3. /\ StringStands(d, w) /\ w.is.text \in Seq(Range(w.is.text)) /\ c + 1 \in 1..Len(w.is.text)
          /\ scan.mode = "string" /\ scan.i = w.at[c + 1]
      BY <1>1, <1>4, <1>5, <2>1, <3>2 DEF w
    <3>4. /\ scan' = [scan EXCEPT !.out = Append(@, w.is.text[c + 1]),
                                  !.i = @ + (w.at[c + 1 + 1] - w.at[c + 1])]
          /\ w.at[c + 1] \in Nat /\ w.at[c + 1 + 1] \in Nat
      BY <3>3, CharacterRead
    <3> QED
      BY <3>1, <3>2, <3>4 DEF w
  <2>3. /\ DOMAIN scan' = Fields /\ scan'.mode = "string"
        /\ scan'.i = scan.i + (w.at[c + 2] - w.at[c + 1]) /\ scan'.out = Append(scan.out, x[c + 1])
        /\ scan'.names = scan.names /\ scan'.target = scan.target /\ scan'.head = scan.head
        /\ scan'.had = scan.had /\ scan'.values = scan.values /\ scan'.rows = scan.rows
        /\ scan'.verdict = scan.verdict
    BY <1>1, <1>2, <2>2 DEF Fields
  <2>4. scan'.i = w.at[c + 2]
    BY <1>1, <2>2, <2>3
  <2>5. scan'.out = [k \in 1..(c + 1) |-> x[k]]
    <3>1. \A k \in 1..c : x[k] \in Range(x)
      BY <1>1, <1>5 DEF Range
    <3>2. Append([k \in 1..c |-> x[k]], x[c + 1]) = [k \in 1..(c + 1) |-> x[k]]
      BY <1>1, <3>1
    <3> QED
      BY <1>1, <2>3, <3>2
  <2>6. Progress(scan', d, t, m)
    BY <2>2, <2>3, <2>4, ProgressKept DEF SameProgress
  <2>7. AtString(scan', d, t, m, v, c + 1)
    <3>1. c + 1 \in 0..Len(x) /\ c + 1 + 1 = c + 2
      BY <2>1
    <3> QED
      BY <1>1, <2>3, <2>4, <2>5, <3>1 DEF AtString, InTuple, vs, x
  <2> QED
    BY <2>3, <2>6, <2>7 DEF Reached
<1>7. CASE c = Len(x)
  <2>1. Stands(d, w.at[c + 1], <<"'">>) /\ w.to = w.at[c + 1] + 1
    BY <1>4, <1>7 DEF StringStands, x
  <2>2. Token(scan.i) = "'" /\ Token(scan.i + 1) # "'" /\ scan.i + 1 = w.to
    <3>1. Token(scan.i) = "'"
      BY <1>1, <1>2, <2>1, TokenStands
    <3> QED
      BY <1>1, <1>3, <2>1, <3>1
  <2>3. scan' = Taking(Text(scan.out), scan.i + 1)
    BY <2>2 DEF ReadString, End
  <2>4. Text(scan.out) = w.is
    <3>1. [k \in 1..c |-> x[k]] = x
      BY <1>5, <1>7
    <3> QED
      BY <1>1, <1>4, <3>1 DEF Text, x
  <2>5. scan' = [Goto("delimiter", w.to) EXCEPT !.values = Append(@, w.is), !.out = <<>>]
    BY <2>2, <2>3, <2>4 DEF Taking
  <2>6. InTuple(scan, d, t, m, v)
    BY DEF AtString
  <2> QED
    BY <1>1, <1>2, <1>3, <2>5, <2>6, ValueTaken DEF vs
<1> QED
  BY <1>1, <1>5, <1>6, <1>7

-----------------------------------------------------------------------------
(* Tuples. *)

\* A bare value is read up to its delimiter.
LEMMA BareRead ==
  ASSUME NEW d, Printed(d), sql = d.text, NEW w, BareStands(d, w), w.is.text \in Seq(Range(w.is.text)),
         w.from \in Nat, w.from > 0, w.to \in Nat, w.to \in 1..Len(sql), Token(w.to) \in {"comma", ")"}
  PROVE  /\ Token(w.from) \notin Blank \cup {"comma", ")", "'", End} /\ w.from \in DOMAIN sql
         /\ FirstIn(w.from, {"comma", ")"}) = w.to
         /\ Trimmed(SubSeq(sql, w.from, w.to - 1)) = w.is.text
<1> DEFINE x == w.is.text
           a == w.from
           b == w.to
           n == Len(x)
<1>1. /\ x # <<>> /\ Stands(d, a, x) /\ b = a + n
      /\ \A c \in DOMAIN x : x[c] \notin Blank \cup {"comma", ")", "'", End}
  BY DEF BareStands
<1>2. x \in Seq(Range(x)) /\ a \in Nat /\ a > 0 /\ b \in Nat /\ b \in 1..Len(sql) /\ Token(b) \in {"comma", ")"}
  OBVIOUS
<1> HIDE DEF x
<1>3. DOMAIN x = 1..n /\ n \in Nat /\ n > 0 /\ x = [k \in 1..n |-> x[k]]
  BY <1>1, <1>2, NonEmptySeq
<1> HIDE DEF n, a, b
<1> DEFINE N == Len(sql)
<1>4. N \in Nat /\ DOMAIN sql = 1..N /\ sql \in Seq(Range(sql))
  BY TextFacts DEF Printed
<1> HIDE DEF N
<1>5. /\ a \in Nat /\ a > 0 /\ n \in Nat /\ n > 0 /\ b = a + n /\ b \in 1..N
  BY <1>1, <1>2, <1>3 DEF N
<1>6. \A c \in 1..n : a + c - 1 \in DOMAIN sql /\ sql[a + c - 1] = x[c]
  BY <1>1, <1>3 DEF Stands
<1>7. \A k \in a..(b - 1) : k \in DOMAIN sql /\ k - a + 1 \in 1..n /\ Token(k) = x[k - a + 1]
  <2> SUFFICES ASSUME NEW k \in a..(b - 1)
               PROVE  k \in DOMAIN sql /\ k - a + 1 \in 1..n /\ Token(k) = x[k - a + 1]
    OBVIOUS
  <2>1. k - a + 1 \in 1..n /\ a + (k - a + 1) - 1 = k
    BY <1>5
  <2>2. k \in DOMAIN sql /\ sql[k] = x[k - a + 1]
    BY <1>6, <2>1
  <2> QED
    BY <2>1, <2>2 DEF Token
<1>8. /\ Token(a) \notin Blank \cup {"comma", ")", "'", End} /\ a \in DOMAIN sql
  <2>1. a \in a..(b - 1) /\ a - a + 1 \in 1..n
    BY <1>5
  <2> QED
    BY <1>1, <1>3, <1>7, <2>1
<1>9. FirstIn(a, {"comma", ")"}) = b
  <2>1. \A k \in a..(b - 1) : Token(k) \notin {"comma", ")"} \cup {End}
    BY <1>1, <1>3, <1>7
  <2>2. b \in a..(N + 1) /\ a \in Nat
    BY <1>4, <1>5
  <2>3. Token(b) \in {"comma", ")"} \cup {End} /\ Len(sql) \in Nat /\ b \in a..(Len(sql) + 1)
    BY <1>2, <1>4, <2>2 DEF N
  <2> QED
    BY <2>1, <2>2, <2>3, FirstInIs
<1>10. SubSeq(sql, a, b - 1) = x
  <2> DEFINE u == SubSeq(sql, a, b - 1)
  <2>1. a \in 1..(N + 1) /\ b - 1 \in 0..N /\ a <= b - 1 /\ (b - 1) - a + 1 = n
    BY <1>4, <1>5
  <2>2. a \in 1..(Len(sql) + 1) /\ b - 1 \in 0..Len(sql)
    BY <2>1 DEF N
  <2>3. /\ u \in Seq(Range(sql)) /\ Len(u) = (b - 1) - a + 1
        /\ \A k \in 1..((b - 1) - a + 1) : u[k] = sql[a + k - 1]
    BY <1>4, <2>1, <2>2, SubSeqIs
  <2>4. /\ u \in Seq(Range(sql)) /\ Len(u) = n
        /\ \A k \in 1..n : u[k] = sql[a + k - 1]
    BY <2>1, <2>3
  <2> HIDE DEF u
  <2>5. u = [k \in 1..n |-> u[k]]
    BY <2>4
  <2>6. \A k \in 1..n : u[k] = x[k]
    BY <1>6, <2>4
  <2>7. u = x
    BY <1>3, <2>5, <2>6
  <2> QED
    BY <2>7 DEF u
<1>11. Trimmed(x) = x
  <2>1. 1 \in 1..n /\ n \in 1..n /\ x[1] \notin Blank /\ x[n] \notin Blank
    BY <1>1, <1>3
  <2>2. \A k \in 1..n : k < 1 \/ k > n => x[k] \in Blank
    BY <1>3
  <2>3. Trimmed(x) = SubSeq(x, 1, Len(x))
    BY <1>2, <2>1, <2>2, TrimmedIs DEF n
  <2>4. SubSeq(x, 1, Len(x)) = x
    <3>1. /\ SubSeq(x, 1, Len(x)) \in Seq(Range(x)) /\ Len(SubSeq(x, 1, Len(x))) = n
          /\ \A k \in 1..n : SubSeq(x, 1, Len(x))[k] = x[k]
      BY <1>2, <1>3 DEF n
    <3> QED
      BY <1>2, <3>1, SameSeq DEF n
  <2> QED
    BY <2>3, <2>4
<1> QED
  BY <1>8, <1>9, <1>10, <1>11 DEF a, b, x

LEMMA ValueStep ==
  ASSUME NEW d, Printed(d), sql = d.text, NEW t \in Nat, NEW m \in Nat, NEW v \in Nat, NEW limit,
         Progress(scan, d, t, m), AtTuple(scan, d, t, m, v), NextValue(limit)
  PROVE  Reached(scan', d) /\ scan'.target = scan.target
<1> DEFINE vs == d.tuples[m].values
           w == vs[v + 1]
<1>1. /\ scan.mode = "tuple" /\ scan.out = <<>> /\ m = t + 1 /\ v < Len(vs) /\ v \in 0..Len(vs)
      /\ scan.i <= w.from /\ Only(d, Blank, scan.i, w.from) /\ InTuple(scan, d, t, m, v)
  BY DEF AtTuple, InTuple
<1>2. DOMAIN scan = Fields /\ scan.i \in Nat /\ m \in 1..Len(d.tuples)
  BY ONLY <1>1, Printed(d), Progress(scan, d, t, m), ProgressFields, ProgressFacts
<1>3. /\ Len(vs) \in Nat /\ v + 1 \in 1..Len(vs) /\ ValueStands(d, w)
      /\ w.to \in Nat /\ w.to \in DOMAIN sql /\ Token(w.to) \in {"comma", ")"}
  <2>1. Len(vs) \in Nat
    BY <1>2, TupleFacts
  <2>2. v + 1 \in 1..Len(vs)
    BY <1>1, <2>1
  <2> QED
    BY <1>2, <2>1, <2>2, TupleFacts
<1> HIDE DEF vs, w
<1>4. w.from \in Nat \ {0} /\ w.is \in [quoted : BOOLEAN, text : Seq(Range(w.is.text))]
      /\ IF w.is.quoted THEN StringStands(d, w) ELSE BareStands(d, w)
  BY <1>3 DEF ValueStands
<1>5. Len(sql) \in Nat /\ DOMAIN sql = 1..Len(sql)
  BY TextFacts
<1>6. \A k \in scan.i..(w.from - 1) : Token(k) \in Blank
  BY <1>1, TokensOnly
<1>7. CASE w.is.quoted
  <2>1. /\ StringStands(d, w) /\ Stands(d, w.from, <<"'">>) /\ w.at[1] = w.from + 1
        /\ Len(w.is.text) \in Nat
    BY <1>4, <1>7 DEF StringStands
  <2>2. Token(w.from) = "'" /\ w.from \in DOMAIN sql
    BY <1>4, <2>1, TokenStands
  <2>3. FirstNotIn(scan.i, Blank) = w.from
    <3>1. w.from \in scan.i..(Len(sql) + 1) /\ Token(w.from) \notin Blank
      BY <1>1, <1>2, <1>5, <2>2, Within DEF Blank
    <3> QED
      BY <1>2, <1>5, <1>6, <3>1, FirstNotInIs
  <2>4. scan' = Goto("string", w.from + 1)
    BY <2>2, <2>3 DEF NextValue, End
  <2>5. /\ DOMAIN scan' = Fields /\ scan'.mode = "string" /\ scan'.i = w.from + 1
        /\ scan'.names = scan.names /\ scan'.target = scan.target /\ scan'.head = scan.head
        /\ scan'.had = scan.had /\ scan'.values = scan.values /\ scan'.out = scan.out
        /\ scan'.rows = scan.rows /\ scan'.verdict = scan.verdict
    BY <1>2, <2>4, GotoFields
  <2>6. Progress(scan', d, t, m)
    <3>1. SameProgress(scan, scan')
      BY <1>4, <2>5 DEF SameProgress
    <3> QED
      BY <3>1, ProgressKept
  <2>7. AtString(scan', d, t, m, v, 0)
    <3>1. 0 \in 0..Len(w.is.text) /\ scan'.out = [k \in 1..0 |-> w.is.text[k]]
      BY <1>1, <2>1, <2>5
    <3>2. scan'.i = w.at[0 + 1]
      BY <2>1, <2>5
    <3> QED
      BY <1>1, <1>7, <2>5, <3>1, <3>2 DEF AtString, InTuple, w, vs
  <2> QED
    BY <2>5, <2>6, <2>7 DEF Reached
<1>8. CASE ~w.is.quoted
  <2>1. BareStands(d, w) /\ w.is.text \in Seq(Range(w.is.text))
    BY <1>4, <1>8
  <2>2. /\ Token(w.from) \notin Blank \cup {"comma", ")", "'", End} /\ w.from \in DOMAIN sql
        /\ FirstIn(w.from, {"comma", ")"}) = w.to
        /\ Trimmed(SubSeq(sql, w.from, w.to - 1)) = w.is.text
    <3>1. w.from \in Nat /\ w.from > 0 /\ w.to \in 1..Len(sql)
      BY <1>3, <1>4, <1>5
    <3> QED
      BY <1>3, <2>1, <3>1, BareRead
  <2>3. FirstNotIn(scan.i, Blank) = w.from
    <3>1. w.from \in scan.i..(Len(sql) + 1)
      BY <1>1, <1>2, <1>5, <2>2, Within
    <3> QED
      BY <1>2, <1>5, <1>6, <2>2, <3>1, FirstNotInIs
  <2>4. scan' = Taking(Bare(Trimmed(SubSeq(sql, w.from, w.to - 1))), w.to)
    BY <2>2, <2>3 DEF NextValue
  <2>5. Bare(w.is.text) = w.is
    BY <1>4, <1>8 DEF Bare
  <2>6. scan' = [Goto("delimiter", w.to) EXCEPT !.values = Append(@, w.is), !.out = <<>>]
    BY <2>2, <2>4, <2>5 DEF Taking
  <2> QED
    BY <1>1, <1>2, <1>3, <2>6, ValueTaken DEF vs, w
<1> QED
  BY <1>7, <1>8

\* The row made of a tuple's values is the one it is.
LEMMA RowMade ==
  ASSUME NEW d, Printed(d), sql = d.text, NEW m \in 1..Len(d.tuples), NEW values,
         Len(values) = Len(d.tuples[m].values),
         \A k \in 1..Len(values) : values[k] = d.tuples[m].values[k].is,
         ColumnsText[d.tuples[m].head] # <<>>
  PROVE  RowOf(ColumnsOf[d.tuples[m].head], values) = Named(d.tuples[m])
<1> DEFINE t == d.tuples[m]
           vs == t.values
           columns == ColumnsOf[t.head]
           texts == ColumnsText[t.head]
           N == Len(vs)
<1>1. N \in Nat /\ N = Len(texts)
  BY TupleFacts
<1>2. t.head \in Heads /\ Columns(t) = columns
  BY TextFacts
<1>3. columns = [k \in DOMAIN texts |-> NameOf[texts[k]]]
  BY <1>2, HeadsRead
<1>4. texts \in Seq(DOMAIN NameOf)
  BY <1>2, SqlDumpAssumption
<1>5. DOMAIN columns = 1..N
  BY <1>1, <1>3, <1>4
<1>7. Len(values) = N /\ \A k \in 1..N : values[k] = vs[k].is
  OBVIOUS
<1> HIDE DEF N
<1> DEFINE At(c) == LastOf(columns, c)
<1> HIDE DEF columns
<1>8. \A c \in {columns[k] : k \in DOMAIN columns} : At(c) \in 1..N
  <2> SUFFICES ASSUME NEW j \in DOMAIN columns PROVE At(columns[j]) \in 1..N
    OBVIOUS
  <2> DEFINE S == {k \in DOMAIN columns : columns[k] = columns[j]}
  <2>1. S \in SUBSET (1..N) /\ S # {} /\ N \in Nat
    BY <1>1, <1>5 DEF N
  <2>2. Max(S) \in S
    BY <2>1, MaxOf
  <2> QED
    BY <2>1, <2>2 DEF LastOf
<1> HIDE DEF t, vs, At
<1>9. \A c \in {columns[k] : k \in DOMAIN columns} :
        (IF At(c) <= Len(values) THEN values[At(c)] ELSE Null) = vs[At(c)].is
  <2>1. \A n \in 1..N : n <= Len(values) /\ values[n] = vs[n].is
    <3>1. \A n \in 1..N : n <= N
      BY <1>1
    <3>2. Len(values) = N /\ \A n \in 1..N : values[n] = vs[n].is
      BY <1>7 DEF vs, t
    <3> QED
      BY <3>1, <3>2
  <2>2. ASSUME NEW c \in {columns[k] : k \in DOMAIN columns}
        PROVE  (IF At(c) <= Len(values) THEN values[At(c)] ELSE Null) = vs[At(c)].is
    <3> DEFINE n == At(c)
    <3>1. n \in 1..N
      BY <1>8
    <3> HIDE DEF n
    <3>2. (IF n <= Len(values) THEN values[n] ELSE Null) = vs[n].is
      BY <2>1, <3>1
    <3> QED
      BY <3>2 DEF n
  <2> QED
    BY <2>2
<1>10. [c \in {columns[k] : k \in DOMAIN columns} |->
          IF At(c) <= Len(values) THEN values[At(c)] ELSE Null]
         = [c \in {columns[k] : k \in DOMAIN columns} |-> vs[At(c)].is]
  BY <1>9
<1>11. Named(t) = [c \in {columns[k] : k \in DOMAIN columns} |-> vs[At(c)].is]
  BY <1>2 DEF Named, At, vs
<1> QED
  BY <1>10, <1>11 DEF RowOf, t, columns, At

-----------------------------------------------------------------------------
(* Rows. *)

\* What one more tuple adds to those listed.
Extends(d, target, t, n) ==
    /\ \A j \in Listed(d, target, t) : j \in Nat /\ j < n
    /\ Table(d.tuples[n]) = target /\ ColumnsText[d.tuples[n].head] # <<>> =>
         Listed(d, target, n) = Listed(d, target, t) \cup {n}
    /\ ~(Table(d.tuples[n]) = target /\ ColumnsText[d.tuples[n].head] # <<>>) =>
         Listed(d, target, n) = Listed(d, target, t)

LEMMA NextListed ==
  ASSUME NEW d, NEW target, NEW t \in Nat, NEW n, n = t + 1
  PROVE  Extends(d, target, t, n)
<1>1. 1..(t + 1) = (1..t) \cup {t + 1} /\ \A j \in 1..t : j \in Nat /\ j < t + 1
  OBVIOUS
<1> QED
  BY <1>1 DEF Listed, Extends

\* Either all tuples of a table list their columns, or none does.
LEMMA ListedWhole ==
  ASSUME NEW d, Printed(d), sql = d.text, NEW target, NEW m \in 0..Len(d.tuples),
         Listed(d, target, m) # {}
  PROVE  /\ \A n \in 1..Len(d.tuples) : Table(d.tuples[n]) = target => ColumnsText[d.tuples[n].head] # <<>>
         /\ Listed(d, target, Len(d.tuples)) = TuplesOf(d, target)
<1>1. DOMAIN d.tuples = 1..Len(d.tuples) /\ Len(d.tuples) \in Nat
  BY TextFacts
<1>2. PICK j \in 1..Len(d.tuples) : Table(d.tuples[j]) = target /\ ColumnsText[d.tuples[j].head] # <<>>
  <2>1. \A j \in 1..m : j \in 1..Len(d.tuples)
    BY <1>1
  <2> QED
    BY <2>1 DEF Listed
<1>3. \A k, n \in 1..Len(d.tuples) :
        Table(d.tuples[k]) = Table(d.tuples[n]) =>
          (ColumnsText[d.tuples[k].head] = <<>> <=> ColumnsText[d.tuples[n].head] = <<>>)
  BY <1>1 DEF Printed
<1>4. \A n \in 1..Len(d.tuples) : Table(d.tuples[n]) = target => ColumnsText[d.tuples[n].head] # <<>>
  BY <1>2, <1>3
<1> QED
  BY <1>1, <1>4 DEF Listed, TuplesOf

LEMMA RowsCounted ==
  ASSUME NEW d, NEW rows, NEW S, Holds(d, rows, S)
  PROVE  Len(rows) \in Nat /\ IsFiniteSet(S) /\ Cardinality(S) = Len(rows)
<1>1. PICK places \in Seq(Nat) : Lists(places, S) /\ rows = RowsFrom(d, places)
  BY DEF Holds
<1> DEFINE L == Len(places)
           R == {Named(d.tuples[places[k]]) : k \in 1..L}
<1>2. L \in Nat /\ DOMAIN places = 1..L
  OBVIOUS
<1> HIDE DEF L
<1>3. \A k \in 1..L : Named(d.tuples[places[k]]) \in R
  OBVIOUS
<1> HIDE DEF R
<1>4. Len(rows) = L
  BY <1>1, <1>2, <1>3 DEF RowsFrom
<1> QED
  BY <1>1, <1>2, <1>4, ListsCount DEF L

LEMMA RowAppended ==
  ASSUME NEW d, NEW rows, NEW S, Holds(d, rows, S), NEW n \in Nat, \A x \in S : x < n
  PROVE  Holds(d, Append(rows, Named(d.tuples[n])), S \cup {n})
<1>1. PICK places \in Seq(Nat) : Lists(places, S) /\ rows = RowsFrom(d, places)
  BY DEF Holds
<1> DEFINE more == Append(places, n)
           L == Len(places)
<1>2. Lists(more, S \cup {n}) /\ more \in Seq(Nat)
  BY <1>1, ListsAppend
<1>3. /\ L \in Nat /\ DOMAIN places = 1..L /\ DOMAIN more = 1..(L + 1) /\ Len(more) = L + 1
      /\ more[L + 1] = n /\ \A k \in 1..L : more[k] = places[k]
  OBVIOUS
<1> HIDE DEF more, L
<1>4. /\ rows = [k \in 1..L |-> Named(d.tuples[places[k]])]
      /\ RowsFrom(d, more) = [k \in 1..(L + 1) |-> Named(d.tuples[more[k]])]
  BY <1>1, <1>3 DEF RowsFrom
<1> DEFINE R == {Named(d.tuples[places[k]]) : k \in 1..L} \cup {Named(d.tuples[n])}
<1>5. rows \in Seq(R) /\ Len(rows) = L /\ \A k \in 1..L : rows[k] = Named(d.tuples[places[k]])
  <2>1. \A k \in 1..L : Named(d.tuples[places[k]]) \in R
    OBVIOUS
  <2> HIDE DEF R
  <2> QED
    BY <1>3, <1>4, <2>1
<1>6. Append(rows, Named(d.tuples[n])) = RowsFrom(d, more)
  <2> DEFINE x == Named(d.tuples[n])
             a == Append(rows, x)
  <2>1. x \in R
    OBVIOUS
  <2> HIDE DEF x, R
  <2>2. /\ a = [k \in 1..(L + 1) |-> a[k]] /\ a[L + 1] = x
        /\ \A k \in 1..L : a[k] = rows[k]
    <3>1. rows \in Seq(R) /\ x \in R /\ Len(rows) = L /\ L \in Nat
      BY <1>3, <1>5, <2>1
    <3>2. /\ a \in Seq(R) /\ Len(a) = L + 1 /\ a[L + 1] = x
          /\ \A k \in 1..L : a[k] = rows[k]
      BY <3>1
    <3> HIDE DEF a
    <3> QED
      BY <3>2
  <2> HIDE DEF a
  <2>3. \A k \in 1..(L + 1) : k \in 1..L \/ k = L + 1
    BY <1>3
  <2>4. \A k \in 1..(L + 1) : a[k] = Named(d.tuples[more[k]])
    BY <1>3, <1>5, <2>2, <2>3 DEF x
  <2>5. a = [k \in 1..(L + 1) |-> Named(d.tuples[more[k]])]
    BY <2>2, <2>4
  <2> QED
    BY <1>4, <2>5 DEF a, x
<1>7. Holds(d, Append(rows, Named(d.tuples[n])), S \cup {n})
  BY <1>2, <1>6 DEF Holds
<1> QED
  BY <1>7

\* A closed tuple is a row, or one too many, or passed over.
LEMMA TupleClosed ==
  ASSUME NEW d, Printed(d), sql = d.text, NEW t \in Nat, NEW m \in Nat, NEW sqlTable, NEW limit \in Nat,
         Progress(scan, d, t, m), InTuple(scan, d, t, m, Len(d.tuples[m].values)), scan.out = <<>>,
         Aimed(scan, d, sqlTable), scan' = CloseTuple(Closing(d.tuples[m]) + 1, limit)
  PROVE  /\ Reached(scan', d) \/ Concluded(scan', d, sqlTable, limit)
         /\ scan'.target = scan.target
<1> DEFINE i == Closing(d.tuples[m]) + 1
           target == scan.target
           tuple == d.tuples[m]
<1>1. m = t + 1 /\ scan.head = tuple.head /\ scan.values = [k \in 1..Len(tuple.values) |-> tuple.values[k].is]
  BY DEF InTuple
<1>2. /\ DOMAIN scan = Fields /\ scan.verdict = "none" /\ m \in 1..Len(d.tuples) /\ Len(d.tuples) \in Nat
      /\ Names(d, scan.names, m) /\ scan.had \in BOOLEAN /\ (scan.had <=> Listed(d, target, m) # {})
      /\ Holds(d, scan.rows, Listed(d, target, t))
  <2>1. m \in 1..Len(d.tuples) /\ Len(d.tuples) \in Nat
    BY ONLY <1>1, Printed(d), Progress(scan, d, t, m), ProgressFacts
  <2>2. /\ DOMAIN scan = Fields /\ scan.verdict = "none" /\ Names(d, scan.names, m)
        /\ Holds(d, scan.rows, Listed(d, target, t))
    BY ONLY Progress(scan, d, t, m), ProgressFields
  <2>3. scan.had \in BOOLEAN /\ (scan.had <=> Listed(d, target, m) # {})
    BY ONLY Progress(scan, d, t, m), ProgressHad
  <2> QED
    BY ONLY <2>1, <2>2, <2>3
<1>3. tuple.head \in Heads /\ Table(tuple) = TableOf[tuple.head] /\ Table(tuple) # NoTable
  BY <1>2, TextFacts
<1>4. i \in Nat
  BY <1>2, ClosingStands
<1> DEFINE in == Table(tuple) = target /\ ColumnsText[tuple.head] # <<>>
<1>5. /\ \A j \in Listed(d, target, t) : j \in Nat /\ j < m
      /\ in => Listed(d, target, m) = Listed(d, target, t) \cup {m}
      /\ ~in => Listed(d, target, m) = Listed(d, target, t)
  <2>1. m = t + 1
    BY <1>1
  <2>2. Extends(d, target, t, m)
    BY ONLY t \in Nat, <2>1, NextListed
  <2> QED
    BY ONLY <2>2 DEF Extends
<1> DEFINE g == Goto("tuples", i)
<1>6. /\ DOMAIN g = Fields /\ g.mode = "tuples" /\ g.i = i
      /\ g.names = scan.names /\ g.target = scan.target /\ g.head = scan.head /\ g.had = scan.had
      /\ g.values = scan.values /\ g.out = scan.out /\ g.rows = scan.rows /\ g.verdict = scan.verdict
  <2> HIDE DEF i
  <2> QED
    BY <1>2, GotoFields
<1>7. ASSUME scan'.i = i, DOMAIN scan' = Fields, scan'.mode = "tuples", scan'.names = scan.names,
             scan'.target = target, scan'.head = scan.head, scan'.had = scan.had, scan'.out = <<>>,
             scan'.verdict = "none", Holds(d, scan'.rows, Listed(d, target, m))
      PROVE  Reached(scan', d)
  <2>1. m \in 0..Len(d.tuples) /\ m > 0 /\ m <= Len(d.tuples)
    BY <1>2
  <2>2. Progress(scan', d, m, m)
    BY <1>2, <1>4, <1>7, <2>1, FreshFields DEF Progress
  <2>3. AtTuples(scan', d, m, m)
    BY <1>1, <1>7, <2>1 DEF AtTuples
  <2> QED
    BY <2>2, <2>3 DEF Reached
<1>8. CASE TableOf[scan.head] # scan.target \/ ~scan.had
  <2>1. scan' = g
    BY <1>8 DEF CloseTuple
  <2>2. ~in
    <3>1. CASE TableOf[scan.head] # scan.target
      BY <1>1, <1>3, <3>1
    <3>2. CASE ~scan.had
      BY <1>2, <1>5, <3>2
    <3> QED
      BY <1>8, <3>1, <3>2
  <2>3. Holds(d, scan'.rows, Listed(d, target, m))
    BY <1>2, <1>5, <1>6, <2>1, <2>2
  <2> QED
    BY <1>2, <1>6, <1>7, <2>1, <2>3
<1>9. CASE ~(TableOf[scan.head] # scan.target \/ ~scan.had)
  <2>1. Table(tuple) = target /\ target # NoTable /\ Listed(d, target, m) # {}
    BY <1>1, <1>2, <1>3, <1>9
  <2>2. m \in 0..Len(d.tuples)
    BY <1>2
  <2>3. ColumnsText[tuple.head] # <<>>
    BY <1>2, <2>1, <2>2, ListedWhole
  <2>4. Listed(d, target, m) = Listed(d, target, t) \cup {m}
    BY <1>5, <2>1, <2>3
  <2>5. /\ Holds(d, Append(scan.rows, Named(tuple)), Listed(d, target, m))
        /\ Len(scan.rows) \in Nat /\ IsFiniteSet(Listed(d, target, m))
        /\ Cardinality(Listed(d, target, m)) = Len(scan.rows) + 1
    <3> DEFINE S == Listed(d, target, t)
               rows == scan.rows
    <3>1. Holds(d, rows, S) /\ \A x \in S : x < m
      BY <1>2, <1>5
    <3> HIDE DEF S, rows
    <3>2. Holds(d, Append(rows, Named(d.tuples[m])), S \cup {m})
      BY <3>1, RowAppended
    <3>3. Len(rows) \in Nat /\ IsFiniteSet(S \cup {m})
      <4>1. Len(rows) \in Nat /\ IsFiniteSet(S)
        BY <3>1, RowsCounted
      <4> QED
        BY <4>1, FS_AddElement
    <3>4. Cardinality(S \cup {m}) = Len(rows) + 1
      <4>1. IsFiniteSet(S) /\ Cardinality(S) = Len(rows)
        BY <3>1, RowsCounted
      <4>2. m \notin S
        BY <3>1
      <4> QED
        BY <4>1, <4>2, FS_AddElement
    <3> QED
      BY <2>4, <3>2, <3>3, <3>4 DEF S, rows
  <2>6. CASE Len(scan.rows) >= limit
    <3>1. scan' = [scan EXCEPT !.mode = "done", !.rows = <<>>, !.verdict = "exceeded"]
      BY <1>9, <2>6 DEF CloseTuple
    <3>2. scan'.mode = "done" /\ scan'.verdict = "exceeded" /\ scan'.target = scan.target
      BY <1>2, <3>1 DEF Fields
    <3>3. target = Wanted(d, sqlTable)
      BY <2>1 DEF Aimed
    <3>4. IsFiniteSet(TuplesOf(d, target))
      <4>1. TuplesOf(d, target) \subseteq 1..Len(d.tuples)
        BY TextFacts DEF TuplesOf
      <4> QED
        BY <1>2, <4>1, IntervalSize, FS_Subset
    <3>5. Listed(d, target, m) \subseteq TuplesOf(d, target)
      <4>1. \A j \in 1..m : j \in DOMAIN d.tuples
        BY <1>2, TextFacts
      <4> QED
        BY <4>1 DEF Listed, TuplesOf
    <3>6. Cardinality(Listed(d, target, m)) <= Cardinality(TuplesOf(d, target))
      BY <3>4, <3>5, FS_Subset
    <3>7. limit < Cardinality(TuplesOf(d, target))
      <4>1. Cardinality(TuplesOf(d, target)) \in Nat
        BY <3>4, FS_CardinalityType
      <4>2. \A a, b, c, e \in Nat : a >= b /\ c = a + 1 /\ c <= e => b < e
        OBVIOUS
      <4>3. Len(scan.rows) + 1 \in Nat
        BY <2>5
      <4> QED
        BY <2>5, <2>6, <3>6, <4>1, <4>2, <4>3
    <3> QED
      BY <3>2, <3>3, <3>7 DEF Concluded
  <2>7. CASE ~(Len(scan.rows) >= limit)
    <3> DEFINE row == RowOf(ColumnsOf[tuple.head], scan.values)
    <3> DEFINE vs == tuple.values
    <3>a. Len(vs) \in Nat
      BY <1>2, TupleFacts
    <3>b. scan.values = [k \in 1..Len(vs) |-> vs[k].is]
      BY <1>1
    <3> DEFINE S == {vs[k].is : k \in 1..Len(vs)}
    <3>c. \A k \in 1..Len(vs) : vs[k].is \in S
      OBVIOUS
    <3> HIDE DEF S, vs
    <3>d. Len(scan.values) = Len(vs) /\ \A k \in 1..Len(vs) : scan.values[k] = vs[k].is
      BY <3>a, <3>b, <3>c
    <3>e. /\ Len(scan.values) = Len(d.tuples[m].values) /\ ColumnsText[d.tuples[m].head] # <<>>
          /\ \A k \in 1..Len(scan.values) : scan.values[k] = d.tuples[m].values[k].is
      BY <2>3, <3>d DEF vs
    <3>1. row = Named(tuple)
      BY <1>2, <3>e, RowMade
    <3>2. scan' = [g EXCEPT !.rows = Append(@, row)]
      BY <1>1, <1>9, <2>7 DEF CloseTuple
    <3> HIDE DEF row, g
    <3>3. /\ DOMAIN scan' = Fields /\ scan'.mode = "tuples" /\ scan'.i = i
          /\ scan'.names = scan.names /\ scan'.target = scan.target /\ scan'.head = scan.head
          /\ scan'.had = scan.had /\ scan'.out = scan.out /\ scan'.verdict = scan.verdict
          /\ scan'.rows = Append(scan.rows, Named(tuple))
      BY <1>6, <3>1, <3>2 DEF Fields
    <3> QED
      BY <1>2, <1>7, <2>5, <3>3
  <2> QED
    BY <2>6, <2>7
<1> QED
  BY <1>8, <1>9

LEMMA DelimiterStep ==
  ASSUME NEW d, Printed(d), sql = d.text, NEW t \in Nat, NEW m \in Nat, NEW v \in Nat,
         NEW sqlTable, NEW limit \in Nat,
         Progress(scan, d, t, m), AtDelimiter(scan, d, t, m, v), Aimed(scan, d, sqlTable), Delimiter(limit)
  PROVE  /\ Reached(scan', d) \/ Concluded(scan', d, sqlTable, limit)
         /\ scan'.target = scan.target
<1> DEFINE vs == d.tuples[m].values
           i == scan.i
           N == Len(vs)
<1>1. /\ scan.mode = "delimiter" /\ scan.out = <<>> /\ m = t + 1 /\ scan.head = d.tuples[m].head
      /\ v \in 0..N /\ v > 0 /\ scan.values = [k \in 1..v |-> vs[k].is] /\ i = vs[v].to
      /\ InTuple(scan, d, t, m, v)
  BY DEF AtDelimiter, InTuple
<1>2. DOMAIN scan = Fields /\ m \in 1..Len(d.tuples)
  BY ONLY <1>1, Printed(d), Progress(scan, d, t, m), ProgressFields, ProgressFacts
<1>3. /\ N \in Nat
      /\ \A k \in 1..N :
           /\ vs[k].from \in Nat /\ vs[k].to \in Nat /\ vs[k].to \in DOMAIN sql
           /\ Token(vs[k].to) = IF k = N THEN ")" ELSE "comma"
           /\ k < N => vs[k].to + 1 <= vs[k + 1].from /\ Only(d, Blank, vs[k].to + 1, vs[k + 1].from)
  BY <1>2, TupleFacts
<1>4. v \in 1..N /\ Closing(d.tuples[m]) = vs[N].to
  <2>1. v \in 0..N /\ v > 0 /\ N \in Nat
    BY <1>1, <1>3
  <2>2. Closing(d.tuples[m]) = vs[N].to
    BY DEF Closing
  <2> HIDE DEF N
  <2>3. v \in 1..N
    BY ONLY <2>1
  <2> QED
    BY ONLY <2>2, <2>3
<1> HIDE DEF N, vs, i
<1>5. /\ i \in Nat /\ i \in DOMAIN sql /\ Token(i) = IF v = N THEN ")" ELSE "comma"
      /\ v < N => i + 1 <= vs[v + 1].from /\ Only(d, Blank, i + 1, vs[v + 1].from)
  BY <1>1, <1>3, <1>4
<1>6. FirstNotIn(i, Blank) = i
  <2>1. Token(i) \notin Blank
    BY <1>5 DEF Blank
  <2>2. i \in i..(Len(sql) + 1) /\ (\A j \in i..(i - 1) : Token(j) \in Blank) /\ Len(sql) \in Nat
    BY <1>5, TextFacts
  <2> QED
    BY <1>5, <2>1, <2>2, FirstNotInIs
<1>7. scan' = CASE Token(i) = "comma" -> Goto("tuple", i + 1)
                [] Token(i) = ")" -> CloseTuple(i + 1, limit)
                [] OTHER -> Refused
  BY <1>6 DEF Delimiter, i
<1>8. CASE v = N
  <2>1. scan' = CloseTuple(Closing(d.tuples[m]) + 1, limit)
    BY <1>1, <1>4, <1>5, <1>7, <1>8
  <2>2. InTuple(scan, d, t, m, Len(d.tuples[m].values))
    BY <1>1, <1>8 DEF N, vs
  <2> QED
    BY <1>1, <2>1, <2>2, TupleClosed
<1>9. CASE v # N
  <2>1. scan' = Goto("tuple", i + 1)
    BY <1>5, <1>7, <1>9
  <2>2. /\ DOMAIN scan' = Fields /\ scan'.mode = "tuple" /\ scan'.i = i + 1
        /\ scan'.names = scan.names /\ scan'.target = scan.target /\ scan'.head = scan.head
        /\ scan'.had = scan.had /\ scan'.values = scan.values /\ scan'.out = scan.out
        /\ scan'.rows = scan.rows /\ scan'.verdict = scan.verdict
    BY <1>2, <2>1, GotoFields
  <2>3. v < N
    BY <1>3, <1>4, <1>9
  <2>4. Progress(scan', d, t, m)
    <3>1. SameProgress(scan, scan')
      BY <1>5, <2>2 DEF SameProgress
    <3> QED
      BY <3>1, ProgressKept
  <2>5. AtTuple(scan', d, t, m, v)
    BY <1>1, <1>5, <2>2, <2>3 DEF AtTuple, InTuple, N, vs
  <2> QED
    BY <2>2, <2>4, <2>5 DEF Reached
<1> QED
  BY <1>8, <1>9

\* A tuple opens.
LEMMA TupleOpened ==
  ASSUME NEW d, Printed(d), sql = d.text, NEW t \in Nat, NEW m \in Nat, m = t + 1, NEW i,
         Progress(scan, d, t, m), scan.out = <<>>, scan.head = d.tuples[m].head, i = d.tuples[m].from + 1,
         scan' = [Goto("tuple", i) EXCEPT !.values = <<>>]
  PROVE  Reached(scan', d) /\ scan'.target = scan.target
<1> DEFINE vs == d.tuples[m].values
           g == Goto("tuple", i)
<1>1. DOMAIN scan = Fields /\ m \in 1..Len(d.tuples)
  BY ProgressFields, ProgressFacts, TextFacts
<1>2. /\ Len(vs) \in Nat /\ Len(vs) > 0 /\ i \in Nat
      /\ i <= vs[1].from /\ Only(d, Blank, i, vs[1].from)
  BY <1>1, TupleFacts
<1>3. /\ DOMAIN g = Fields /\ g.mode = "tuple" /\ g.i = i
      /\ g.names = scan.names /\ g.target = scan.target /\ g.head = scan.head /\ g.had = scan.had
      /\ g.values = scan.values /\ g.out = scan.out /\ g.rows = scan.rows /\ g.verdict = scan.verdict
  BY <1>1, GotoFields
<1> HIDE DEF g
<1>4. /\ DOMAIN scan' = Fields /\ scan'.mode = "tuple" /\ scan'.i = i /\ scan'.values = <<>>
      /\ scan'.names = scan.names /\ scan'.target = scan.target /\ scan'.head = scan.head
      /\ scan'.had = scan.had /\ scan'.out = scan.out /\ scan'.rows = scan.rows
      /\ scan'.verdict = scan.verdict
  BY <1>3 DEF Fields, g
<1>5. Progress(scan', d, t, m)
  <2>1. SameProgress(scan, scan')
    BY <1>2, <1>4 DEF SameProgress
  <2> QED
    BY <2>1, ProgressKept
<1>6. AtTuple(scan', d, t, m, 0)
  <2>1. 0 \in 0..Len(vs) /\ 0 + 1 = 1 /\ 0 < Len(vs) /\ scan'.values = [k \in 1..0 |-> vs[k].is]
    BY <1>2, <1>4
  <2>2. InTuple(scan', d, t, m, 0)
    BY <1>4, <2>1 DEF InTuple
  <2> QED
    BY <1>2, <1>4, <2>1, <2>2 DEF AtTuple
<1> QED
  BY <1>4, <1>5, <1>6 DEF Reached

\* The next tuple of a statement is one of the same table.
LEMMA SameStatement ==
  ASSUME NEW d, Printed(d), sql = d.text, NEW t \in Nat, t > 0, t < Len(d.tuples),
         d.tuples[t + 1].head = d.tuples[t].head, Progress(scan, d, t, t)
  PROVE  Progress(scan, d, t, t + 1)
<1> DEFINE target == scan.target
<1>1. /\ t + 1 \in 1..Len(d.tuples) /\ t \in 1..Len(d.tuples) /\ t \in 1..t
      /\ \A j \in 1..(t + 1) : j \in 1..t \/ j = t + 1
      /\ \A j \in 1..t : j \in 1..(t + 1)
  BY TextFacts
<1>2. Table(d.tuples[t + 1]) = Table(d.tuples[t])
  BY <1>1, TextFacts
<1>3. {Table(d.tuples[j]) : j \in 1..(t + 1)} = {Table(d.tuples[j]) : j \in 1..t}
  BY <1>1, <1>2
<1>4. Names(d, scan.names, t + 1)
  BY <1>3 DEF Progress, Names
<1>5. Listed(d, target, t + 1) # {} <=> Listed(d, target, t) # {}
  BY <1>1, <1>2 DEF Listed
<1> QED
  BY <1>1, <1>4, <1>5 DEF Progress

LEMMA TuplesStep ==
  ASSUME NEW d, Printed(d), sql = d.text, NEW t \in Nat, NEW m \in Nat,
         Progress(scan, d, t, m), AtTuples(scan, d, t, m), NextTuple
  PROVE  Reached(scan', d) /\ scan'.target = scan.target
<1> DEFINE i == scan.i
           S == Blank \cup {"comma"}
           k == FirstNotIn(i, S)
           L == Len(d.tuples)
<1>1. /\ DOMAIN scan = Fields /\ i \in Nat /\ t \in 0..L /\ m \in {t, t + 1} /\ m <= L
      /\ L \in Nat /\ Len(sql) \in Nat /\ DOMAIN sql = 1..Len(sql) /\ DOMAIN d.tuples = 1..L
  BY ProgressFields, ProgressFacts, TextFacts
<1>2. scan.out = <<>>
  BY DEF AtTuples
<1>3. scan' = CASE Token(k) = ";" -> Goto("exec", k + 1)
                [] Token(k) = "(" -> [Goto("tuple", k + 1) EXCEPT !.values = <<>>]
                [] OTHER -> Goto("exec", k)
  BY DEF NextTuple
<1> HIDE DEF L, i, k
<1>4. ASSUME NEW n \in 1..L, NEW from \in Nat, from = d.tuples[n].from, i <= from, Only(d, S, i, from)
      PROVE  k = from /\ Token(k) = "("
  <2>1. Token(from) = "(" /\ from \in DOMAIN sql
    BY <1>4, TupleFacts DEF L
  <2>2. Token(from) \notin S /\ \A j \in i..(from - 1) : Token(j) \in S
    BY <1>4, <2>1, TokensOnly DEF Blank
  <2>3. from \in i..(Len(sql) + 1)
    BY <1>1, <1>4, <2>1, Within
  <2> QED
    BY <1>1, <2>1, <2>2, <2>3, FirstNotInIs DEF k
<1>5. \A n \in 1..L : d.tuples[n].from \in Nat
  BY TupleFacts DEF L
<1>6. CASE m = t + 1 /\ d.tuples[m].first /\ scan.head = d.tuples[m].head
           /\ i <= d.tuples[m].from /\ Only(d, Blank, i, d.tuples[m].from)
  <2>1. m \in 1..L
    BY <1>1, <1>6
  <2>2. Only(d, S, i, d.tuples[m].from)
    BY <1>6 DEF Only
  <2>3. k = d.tuples[m].from /\ Token(k) = "("
    BY <1>4, <1>5, <1>6, <2>1, <2>2
  <2>4. scan' = [Goto("tuple", d.tuples[m].from + 1) EXCEPT !.values = <<>>]
    BY <1>3, <2>3
  <2> QED
    BY <1>2, <1>6, <2>4, TupleOpened
<1>7. CASE m = t /\ t > 0 /\ i = Closing(d.tuples[t]) + 1 /\ scan.head = d.tuples[t].head
  <2>0. t \in 1..L /\ Closing(d.tuples[t]) \in Nat
    <3>1. t \in 1..L
      BY <1>1, <1>7
    <3> QED
      BY <3>1, ClosingStands DEF L
  <2>1. CASE t = L \/ d.tuples[t + 1].first
    <3>1. Stands(d, i, <<";">>)
      BY <1>1, <1>7, <2>0, <2>1 DEF Printed, StatementCloses, L
    <3>2. Token(i) = ";" /\ i \in DOMAIN sql
      BY <1>1, <3>1, TokenStands
    <3>3. k = i
      <4>1. Token(i) \notin S
        BY <3>2 DEF Blank
      <4>2. i \in i..(Len(sql) + 1) /\ i..(i - 1) = {}
        BY <1>1, <3>2, Here
      <4> QED
        BY <1>1, <4>1, <4>2, FirstNotInIs DEF k
    <3>4. scan' = Goto("exec", i + 1)
      BY <1>3, <3>2, <3>3
    <3>5. /\ DOMAIN scan' = Fields /\ scan'.mode = "exec" /\ scan'.i = i + 1
          /\ scan'.names = scan.names /\ scan'.target = scan.target
          /\ scan'.had = scan.had /\ scan'.out = scan.out
          /\ scan'.rows = scan.rows /\ scan'.verdict = scan.verdict
      BY <1>1, <3>4, GotoFields
    <3>6. Progress(scan', d, t, m)
      <4>1. SameProgress(scan, scan')
        BY <1>1, <3>5 DEF SameProgress
      <4> QED
        BY <4>1, ProgressKept
    <3>7. AtExec(scan', d, t, m)
      <4>1. i + 1 = Behind(d, t)
        BY <1>7, <2>0 DEF Behind
      <4>2. t < L => d.tuples[t + 1].first
        BY <1>1, <2>1
      <4> QED
        BY <1>2, <1>7, <3>5, <4>1, <4>2 DEF AtExec, L
    <3> QED
      BY <3>5, <3>6, <3>7 DEF Reached
  <2>2. CASE ~(t = L \/ d.tuples[t + 1].first)
    <3> DEFINE n == t + 1
    <3>1. t < L /\ n \in 1..L /\ n - 1 = t
      BY <1>1, <2>2
    <3> HIDE DEF n
    <3>2. StatementGoesOn(d, n)
      BY <1>1, <2>2, <3>1 DEF Printed, n
    <3>3. /\ d.tuples[n].head = d.tuples[t].head /\ d.tuples[n].from > Closing(d.tuples[t])
          /\ Only(d, S, i, d.tuples[n].from)
      BY <1>7, <3>1, <3>2 DEF StatementGoesOn
    <3>4. i <= d.tuples[n].from
      <4>1. \A a, b \in Nat : b > a => a + 1 <= b
        OBVIOUS
      <4> QED
        BY <1>5, <1>7, <2>0, <3>1, <3>3, <4>1
    <3>5. k = d.tuples[n].from /\ Token(k) = "("
      BY <1>4, <1>5, <3>1, <3>3, <3>4
    <3>6. scan' = [Goto("tuple", d.tuples[n].from + 1) EXCEPT !.values = <<>>]
      BY <1>3, <3>5
    <3>7. Progress(scan, d, t, n)
      BY <1>7, <3>1, <3>3, SameStatement DEF n, L
    <3> QED
      BY <1>1, <1>2, <1>7, <3>1, <3>3, <3>6, <3>7, TupleOpened DEF n
  <2> QED
    BY <2>1, <2>2
<1> QED
  BY <1>6, <1>7 DEF AtTuples, i

\* The head of a statement is noted before its first tuple is read.
LEMMA HeadNoted ==
  ASSUME NEW d, Printed(d), sql = d.text, NEW t \in Nat, t < Len(d.tuples), Progress(scan, d, t, t),
         NEW r, DOMAIN r = Fields, r.i \in Nat, r.verdict = scan.verdict, r.target = scan.target,
         r.rows = scan.rows,
         r.names = IF Contains(scan.names, Table(d.tuples[t + 1])) THEN scan.names
                   ELSE Append(scan.names, Table(d.tuples[t + 1])),
         r.had = IF Table(d.tuples[t + 1]) = scan.target THEN ColumnsText[d.tuples[t + 1].head] # <<>>
                 ELSE scan.had
  PROVE  Progress(r, d, t, t + 1)
<1> DEFINE n == t + 1
           target == scan.target
           names == scan.names
           table == Table(d.tuples[n])
           L == Len(d.tuples)
<1>1. /\ n \in 1..L /\ n \in 0..L /\ n <= L /\ t \in 0..L /\ L \in Nat
      /\ \A j \in 1..n : j \in 1..t \/ j = n
      /\ \A j \in 1..t : j \in 1..n
  BY TextFacts
<1>2. /\ names \in Seq(Range(names)) /\ Names(d, names, t)
      /\ {names[k] : k \in DOMAIN names} = {Table(d.tuples[j]) : j \in 1..t}
      /\ \A k, l \in DOMAIN names : names[k] = names[l] => k = l
  BY DEF Progress, Names
<1>3. DOMAIN names = 1..Len(names) /\ Len(names) \in Nat
  BY <1>2
<1>4. /\ r.names = IF Contains(names, table) THEN names ELSE Append(names, table)
      /\ r.had = IF table = target THEN ColumnsText[d.tuples[n].head] # <<>> ELSE scan.had
  OBVIOUS
<1>5. {Table(d.tuples[j]) : j \in 1..n} = {Table(d.tuples[j]) : j \in 1..t} \cup {table}
  BY <1>1
<1> HIDE DEF n, table, L, names
<1>6. Names(d, r.names, n)
  <2>1. CASE Contains(names, table)
    <3>1. \E k \in DOMAIN names : names[k] = table
      BY <1>3, <2>1 DEF Contains
    <3>2. table \in {Table(d.tuples[j]) : j \in 1..t}
      BY <1>2, <3>1
    <3> DEFINE A == {Table(d.tuples[j]) : j \in 1..n}
               B == {Table(d.tuples[j]) : j \in 1..t}
    <3>3. A = B
      <4>1. A = B \cup {table} /\ table \in B
        BY <1>5, <3>2
      <4> HIDE DEF A, B
      <4> QED
        BY ONLY <4>1
    <3>4. /\ names \in Seq(Range(names)) /\ {names[k] : k \in DOMAIN names} = A
          /\ \A k, l \in DOMAIN names : names[k] = names[l] => k = l
      BY <1>2, <3>3
    <3>5. Names(d, names, n)
      BY ONLY <3>4 DEF Names
    <3>6. r.names = names
      BY <1>4, <2>1
    <3> QED
      BY ONLY <3>5, <3>6
  <2>2. CASE ~Contains(names, table)
    <3> DEFINE more == Append(names, table)
               N == Len(names)
    <3>1. \A k \in 1..N : names[k] # table
      BY <2>2 DEF Contains
    <3>2. /\ more \in Seq(Range(names) \cup {table}) /\ DOMAIN more = 1..(N + 1)
          /\ more[N + 1] = table /\ \A k \in 1..N : more[k] = names[k]
      BY <1>2, <1>3
    <3>3. N \in Nat /\ DOMAIN names = 1..N
      BY <1>3
    <3> HIDE DEF more, N
    <3>4. (\A k \in 1..(N + 1) : k \in 1..N \/ k = N + 1) /\ N + 1 \in 1..(N + 1)
          /\ \A k \in 1..N : k \in 1..(N + 1)
      BY <3>3
    <3>5. {more[k] : k \in DOMAIN more} = {names[k] : k \in DOMAIN names} \cup {table}
      BY <3>2, <3>3, <3>4
    <3>6. \A k, l \in DOMAIN more : more[k] = more[l] => k = l
      BY <1>2, <3>1, <3>2, <3>3, <3>4
    <3>7. more \in Seq(Range(more))
      <4>1. DOMAIN more = 1..(N + 1) /\ N + 1 \in Nat /\ more = [k \in 1..(N + 1) |-> more[k]]
        BY <3>2, <3>3
      <4>2. \A k \in 1..(N + 1) : more[k] \in Range(more)
        BY <3>2 DEF Range
      <4> QED
        BY <4>1, <4>2
    <3>8. r.names = more
      BY <1>4, <2>2 DEF more
    <3>9. {more[k] : k \in DOMAIN more} = {Table(d.tuples[j]) : j \in 1..n}
      BY <1>2, <1>5, <3>5
    <3>10. Names(d, more, n)
      BY <3>6, <3>7, <3>9 DEF Names
    <3> QED
      BY <3>8, <3>10
  <2> QED
    BY <2>1, <2>2
<1> DEFINE in == table = target /\ ColumnsText[d.tuples[n].head] # <<>>
<1>7. /\ in => Listed(d, target, n) = Listed(d, target, t) \cup {n}
      /\ ~in => Listed(d, target, n) = Listed(d, target, t)
  <2>1. n = t + 1
    BY DEF n
  <2>2. Extends(d, target, t, n)
    BY ONLY t \in Nat, <2>1, NextListed
  <2> QED
    BY ONLY <2>2 DEF Extends, table
<1>8. r.had \in BOOLEAN /\ (r.had <=> Listed(d, target, n) # {})
  <2>1. scan.had \in BOOLEAN /\ (scan.had <=> Listed(d, target, t) # {})
    BY DEF Progress
  <2>2. CASE in
    BY <1>4, <1>7, <2>2
  <2>3. CASE table # target
    BY <1>4, <1>7, <2>1, <2>3
  <2>4. CASE table = target /\ ~in
    <3>1. Listed(d, target, t) = {}
      BY <1>1, <2>4, ListedWhole DEF L, table
    <3> QED
      BY <1>4, <1>7, <2>4, <3>1
  <2> QED
    BY <2>2, <2>3, <2>4
<1>9. Progress(r, d, t, n)
  <2>1. n \in {t, t + 1} /\ DOMAIN r = DOMAIN FreshScan(NoTable)
    BY FreshFields DEF n
  <2>2. r.verdict = "none" /\ Holds(d, r.rows, Listed(d, r.target, t))
    BY DEF Progress
  <2> QED
    BY <1>1, <1>6, <1>8, <2>1, <2>2 DEF Progress, L
<1> QED
  BY <1>9 DEF n

\* A scan starts right.
LEMMA FreshReached ==
  ASSUME NEW d, Printed(d), NEW target
  PROVE  Reached(FreshScan(target), d)
<1> DEFINE s == FreshScan(target)
<1>1. /\ DOMAIN s = Fields /\ s.mode = "exec" /\ s.i = 1 /\ s.names = <<>> /\ s.target = target
      /\ s.had = FALSE /\ s.out = <<>> /\ s.rows = <<>> /\ s.verdict = "none"
  BY FreshFields
<1> HIDE DEF s
<1>2. Len(d.tuples) \in Nat /\ DOMAIN d.tuples = 1..Len(d.tuples) /\ DOMAIN s = DOMAIN FreshScan(NoTable)
  BY <1>1, FreshFields DEF Printed
<1>3. Names(d, s.names, 0)
  <2>1. DOMAIN <<>> = {} /\ 1..0 = {} /\ <<>> \in Seq(Range(<<>>))
    OBVIOUS
  <2> QED
    BY <1>1, <2>1 DEF Names
<1>4. Listed(d, target, 0) = {}
  BY DEF Listed
<1>5. Holds(d, s.rows, {})
  <2> DEFINE places == <<>>
  <2>1. places \in Seq(Nat) /\ DOMAIN places = {}
    OBVIOUS
  <2>2. Lists(places, {})
    BY <2>1 DEF Lists
  <2>3. RowsFrom(d, places) = <<>>
    BY <2>1 DEF RowsFrom
  <2> QED
    BY <1>1, <2>1, <2>2, <2>3 DEF Holds
<1>6. Progress(s, d, 0, 0)
  <2>1. 0 \in 0..Len(d.tuples) /\ 0 \in {0, 0 + 1} /\ 0 <= Len(d.tuples)
    BY <1>2
  <2>2. s.had \in BOOLEAN /\ (s.had <=> Listed(d, s.target, 0) # {})
    BY <1>1, <1>4
  <2>3. Holds(d, s.rows, Listed(d, s.target, 0))
    BY <1>1, <1>4, <1>5
  <2> QED
    BY <1>1, <1>2, <1>3, <2>1, <2>2, <2>3 DEF Progress
<1>7. 0 < Len(d.tuples) => d.tuples[1].first
  <2> SUFFICES ASSUME 0 < Len(d.tuples) PROVE d.tuples[1].first
    OBVIOUS
  <2>1. 1 \in DOMAIN d.tuples
    BY <1>2
  <2>2. IF d.tuples[1].first THEN StatementOpens(d, 1) ELSE StatementGoesOn(d, 1)
    BY <2>1 DEF Printed
  <2>3. ~StatementGoesOn(d, 1)
    BY DEF StatementGoesOn
  <2> QED
    BY <2>2, <2>3
<1>8. AtExec(s, d, 0, 0)
  BY <1>1, <1>7 DEF AtExec, Behind
<1> QED
  BY <1>6, <1>8 DEF Reached, s

\* A statement is found.
LEMMA StatementFound ==
  ASSUME NEW d, Printed(d), sql = d.text, NEW t \in Nat, t < Len(d.tuples), NEW sqlTable,
         Progress(scan, d, t, t), AtExec(scan, d, t, t), NextInsert(sqlTable)
  PROVE  Reached(scan', d) /\ scan'.target = scan.target
<1> DEFINE n == t + 1
           i == scan.i
           from == d.tuples[n].from
           head == d.tuples[n].head
           L == Len(d.tuples)
<1>1. /\ DOMAIN scan = Fields /\ i \in Nat /\ scan.out = <<>> /\ i = Behind(d, t) /\ scan.mode = "exec"
      /\ n \in 1..L /\ n - 1 = t /\ DOMAIN d.tuples = 1..L
      /\ Len(sql) \in Nat /\ DOMAIN sql = 1..Len(sql)
  BY ProgressFields, ProgressFacts, TextFacts DEF AtExec
<1>2. d.tuples[n].first
  BY DEF AtExec
<1>3. StatementOpens(d, n)
  BY <1>1, <1>2 DEF Printed
<1>4. head \in Heads /\ Table(d.tuples[n]) = TableOf[head] /\ from \in Nat
      /\ (ColumnsOf[head] # <<>> <=> ColumnsText[head] # <<>>)
  BY <1>1, TextFacts, TupleFacts, HeadsRead
<1> HIDE DEF n, i, L, from, head
<1>5. PICK h \in DOMAIN d.text :
        /\ i <= h /\ h < from /\ Without(d, Heads \cup {End}, i, h)
        /\ d.text[h] = head /\ Only(d, Blank, h + 1, from)
  BY <1>1, <1>3 DEF StatementOpens, from, head
<1>6. h \in Nat /\ Token(h) = head /\ sql[h] = head /\ head # End
  <2>1. h \in 1..Len(sql) /\ h \in DOMAIN sql /\ sql[h] = head
    BY <1>1, <1>5
  <2>2. h \in Nat
    BY <1>1, <2>1
  <2>3. End \notin Heads
    BY SqlDumpAssumption
  <2> QED
    BY <1>4, <2>1, <2>2, <2>3 DEF Token
<1>7. FirstIn(i, Heads) = h
  <2>1. \A j \in i..(h - 1) : Token(j) \notin Heads \cup {End}
    BY <1>5, TokensWithout
  <2>2. h \in i..(Len(sql) + 1)
    BY <1>1, <1>5, Within
  <2> QED
    BY <1>1, <1>4, <1>6, <2>1, <2>2, FirstInIs
<1> DEFINE table == TableOf[head]
           g == Goto("tuples", h + 1)
<1>8. scan' = [g EXCEPT !.head = head,
                        !.names = IF Contains(@, table) THEN @ ELSE Append(@, table),
                        !.had = IF table = scan.target THEN ColumnsOf[head] # <<>> ELSE @]
  BY <1>6, <1>7 DEF NextInsert, i
<1>9. /\ DOMAIN g = Fields /\ g.mode = "tuples" /\ g.i = h + 1
      /\ g.names = scan.names /\ g.target = scan.target /\ g.head = scan.head /\ g.had = scan.had
      /\ g.values = scan.values /\ g.out = scan.out /\ g.rows = scan.rows /\ g.verdict = scan.verdict
  BY <1>1, GotoFields
<1> HIDE DEF g, table
<1>10. /\ DOMAIN scan' = Fields /\ scan'.mode = "tuples" /\ scan'.i = h + 1 /\ scan'.out = scan.out
       /\ scan'.head = head /\ scan'.target = scan.target /\ scan'.rows = scan.rows
       /\ scan'.verdict = scan.verdict
       /\ scan'.names = IF Contains(scan.names, table) THEN scan.names ELSE Append(scan.names, table)
       /\ scan'.had = IF table = scan.target THEN ColumnsOf[head] # <<>> ELSE scan.had
  BY <1>8, <1>9 DEF Fields
<1>11. Progress(scan', d, t, n)
  <2>1. scan'.i \in Nat
    BY <1>6, <1>10
  <2>2. /\ scan'.names = IF Contains(scan.names, Table(d.tuples[t + 1])) THEN scan.names
                         ELSE Append(scan.names, Table(d.tuples[t + 1]))
        /\ scan'.had = IF Table(d.tuples[t + 1]) = scan.target
                       THEN ColumnsText[d.tuples[t + 1].head] # <<>> ELSE scan.had
    BY <1>4, <1>10 DEF n, head, table
  <2> QED
    BY <1>10, <2>1, <2>2, HeadNoted DEF n
<1>12. AtTuples(scan', d, t, n)
  <2>1. n = t + 1 /\ h + 1 <= from
    <3>1. \A a, b \in Nat : a < b => a + 1 <= b
      OBVIOUS
    <3> QED
      BY <1>4, <1>5, <1>6, <3>1 DEF n
  <2> QED
    BY <1>1, <1>2, <1>5, <1>10, <2>1 DEF AtTuples, head, from
<1> QED
  <2>1. n \in Nat
    BY DEF n
  <2> QED
    BY <1>10, <1>11, <1>12, <2>1 DEF Reached

\* The text is at its end.
LEMMA EndFound ==
  ASSUME NEW d, Printed(d), sql = d.text, NEW t, t = Len(d.tuples), NEW sqlTable,
         Progress(scan, d, t, t), AtExec(scan, d, t, t), NextInsert(sqlTable)
  PROVE  EndOfScan(sqlTable)
<1> DEFINE i == scan.i
           k == Len(sql) + 1
<1>1. /\ i \in Nat /\ i = Behind(d, t) /\ scan.mode = "exec" /\ t \in Nat
      /\ Len(sql) \in Nat /\ DOMAIN sql = 1..Len(sql) /\ DOMAIN d.tuples = 1..t
  BY ProgressFields, ProgressFacts, TextFacts DEF AtExec
<1>2. Token(k) = End
  BY <1>1 DEF Token
<1>3. \A j \in i..(k - 1) : Token(j) \notin Heads \cup {End}
  <2>1. Without(d, Heads \cup {End}, i, k)
    BY <1>1 DEF Printed
  <2> HIDE DEF i, k
  <2> QED
    BY <2>1, TokensWithout
<1>4. i <= k
  <2>1. CASE t = 0
    BY <1>1, <2>1 DEF Behind
  <2>2. CASE t # 0
    <3> DEFINE c == Closing(d.tuples[t])
    <3>1. t \in 1..t
      BY <1>1, <2>2
    <3>2. c \in Nat
      BY <3>1, ClosingStands
    <3>3. Stands(d, c + 1, <<";">>)
      BY <1>1, <3>1 DEF Printed, StatementCloses
    <3> HIDE DEF c
    <3>4. c + 1 \in DOMAIN sql
      <4>1. c + 1 \in Nat
        BY <3>2
      <4> QED
        BY <3>3, <4>1, TokenStands
    <3>5. i = c + 2
      BY <1>1, <2>2 DEF Behind, c
    <3> HIDE DEF i
    <3> QED
      BY <1>1, <3>2, <3>4, <3>5
  <2> QED
    BY <2>1, <2>2
<1>5. FirstIn(i, Heads) = k
  <2>1. k \in i..(Len(sql) + 1)
    BY <1>1, <1>4
  <2> HIDE DEF i, k
  <2> QED
    BY <1>1, <1>2, <1>3, <2>1, FirstInIs
<1> HIDE DEF k
<1> QED
  BY <1>2, <1>5 DEF NextInsert

\* The names are as many as the dump has tables.
LEMMA NamesCount ==
  ASSUME NEW d, Printed(d), sql = d.text, NEW names, Names(d, names, Len(d.tuples))
  PROVE  /\ Len(names) \in Nat /\ DOMAIN names = 1..Len(names)
         /\ {names[k] : k \in 1..Len(names)} = TablesOf(d)
         /\ Cardinality(TablesOf(d)) = Len(names) /\ NoTable \notin TablesOf(d)
<1> DEFINE N == Len(names)
<1>1. names \in Seq(Range(names)) /\ DOMAIN d.tuples = 1..Len(d.tuples)
  BY TextFacts DEF Names
<1>2. N \in Nat /\ DOMAIN names = 1..N /\ names = [k \in 1..N |-> names[k]]
  BY <1>1
<1> HIDE DEF N
<1>3. {names[k] : k \in 1..N} = TablesOf(d)
  BY <1>1, <1>2 DEF Names, TablesOf
<1>4. \A k, l \in 1..N : names[k] = names[l] => k = l
  BY <1>2 DEF Names
<1>5. names \in Bijection(1..N, TablesOf(d))
  <2>1. names \in [1..N -> TablesOf(d)] /\ \A x \in TablesOf(d) : \E k \in 1..N : names[k] = x
    BY <1>2, <1>3
  <2> QED
    BY <1>4, <2>1 DEF Bijection, Injection, Surjection, IsInjective
<1>6. IsFiniteSet(1..N) /\ Cardinality(1..N) = N
  BY <1>2, IntervalSize
<1>7. Cardinality(TablesOf(d)) = N
  BY <1>5, <1>6, FS_Bijection DEF ExistsBijection
<1>8. NoTable \notin TablesOf(d)
  BY <1>1, TextFacts DEF TablesOf
<1> QED
  BY <1>2, <1>3, <1>7, <1>8 DEF N

\* At the end of the first scan the table is chosen, or the dump refused; at the
\* end of the second one all its rows are there.
LEMMA ScanEnded ==
  ASSUME NEW d, Printed(d), sql = d.text, NEW t, t = Len(d.tuples),
         NEW sqlTable \in {NoTable} \cup DOMAIN NameOf, NEW limit,
         Progress(scan, d, t, t), Aimed(scan, d, sqlTable), EndOfScan(sqlTable)
  PROVE  ScanRight(scan', d, sqlTable, limit)
<1> DEFINE target == scan.target
           names == scan.names
           chosen == ChosenTable(sqlTable)
           N == Len(names)
<1>1. /\ DOMAIN scan = Fields /\ t \in 0..t /\ t \in Nat /\ Names(d, names, t)
      /\ scan.had \in BOOLEAN /\ (scan.had <=> Listed(d, target, t) # {})
      /\ Holds(d, scan.rows, Listed(d, target, t))
  <2>1. t \in 0..t /\ t \in Nat
    BY ONLY Printed(d), t = Len(d.tuples), Progress(scan, d, t, t), ProgressFacts
  <2>2. DOMAIN scan = Fields /\ Names(d, names, t) /\ Holds(d, scan.rows, Listed(d, target, t))
    BY ONLY Progress(scan, d, t, t), ProgressFields
  <2>3. scan.had \in BOOLEAN /\ (scan.had <=> Listed(d, target, t) # {})
    BY ONLY Progress(scan, d, t, t), ProgressHad
  <2> QED
    BY ONLY <2>1, <2>2, <2>3
<1>2. /\ N \in Nat /\ DOMAIN names = 1..N /\ {names[k] : k \in 1..N} = TablesOf(d)
      /\ Cardinality(TablesOf(d)) = N /\ NoTable \notin TablesOf(d)
  BY <1>1, NamesCount
<1>3. chosen = IF sqlTable # NoTable THEN NameOf[sqlTable] ELSE IF N = 1 THEN names[1] ELSE NoTable
  <2>1. sqlTable # NoTable => unquoteIdent(sqlTable) = NameOf[sqlTable]
    BY SqlDumpAssumption, UnquotedIs
  <2> QED
    BY <2>1 DEF ChosenTable
<1> HIDE DEF chosen, N, names
<1>4. Contains(names, chosen) <=> chosen \in TablesOf(d)
  BY <1>2 DEF Contains, N
<1>5. scan' = IF target = NoTable
              THEN IF ~Contains(names, chosen) THEN Refused ELSE FreshScan(chosen)
              ELSE IF scan.had THEN [scan EXCEPT !.mode = "done", !.verdict = "rows"] ELSE Refused
  BY DEF EndOfScan, chosen, names
<1>6. Refused.mode = "done" /\ Refused.verdict = "refused" /\ Refused.target = target
  BY <1>1 DEF Refused, Fields
<1>7. CASE target = NoTable /\ ~Contains(names, chosen)
  <2>1. scan' = Refused
    BY <1>5, <1>7
  <2>2. IF sqlTable = NoTable THEN Cardinality(TablesOf(d)) # 1 ELSE NameOf[sqlTable] \notin TablesOf(d)
    <3>1. CASE sqlTable # NoTable
      BY <1>3, <1>4, <1>7, <3>1
    <3>2. CASE sqlTable = NoTable
      <4>1. N = 1 => names[1] \in TablesOf(d)
        BY <1>2
      <4> QED
        BY <1>2, <1>3, <1>4, <1>7, <3>2, <4>1
    <3> QED
      BY <3>1, <3>2
  <2>3. Concluded(scan', d, sqlTable, limit)
    BY <1>6, <2>1, <2>2 DEF Concluded
  <2>4. Aimed(scan', d, sqlTable)
    BY <1>6, <1>7, <2>1 DEF Aimed
  <2> QED
    BY <2>3, <2>4 DEF ScanRight
<1>8. CASE target = NoTable /\ Contains(names, chosen)
  <2>1. scan' = FreshScan(chosen)
    BY <1>5, <1>8
  <2>2. chosen \in TablesOf(d)
    BY <1>4, <1>8
  <2>3. chosen = Wanted(d, sqlTable)
    <3>1. CASE sqlTable # NoTable
      BY <1>3, <3>1 DEF Wanted
    <3>2. CASE sqlTable = NoTable
      <4>1. N = 1 /\ chosen = names[1]
        BY <1>2, <1>3, <2>2, <3>2
      <4>2. TablesOf(d) = {names[1]}
        BY <1>2, <4>1
      <4> QED
        BY <3>2, <4>1, <4>2 DEF Wanted
    <3> QED
      BY <3>1, <3>2
  <2>4. Aimed(scan', d, sqlTable)
    BY <2>1, <2>2, <2>3, FreshFields DEF Aimed
  <2>5. Reached(scan', d)
    BY <2>1, FreshReached
  <2> QED
    BY <2>4, <2>5 DEF ScanRight
<1>9. CASE target # NoTable
  <2>1. target = Wanted(d, sqlTable) /\ target \in TablesOf(d)
    BY <1>9 DEF Aimed
  <2>2. CASE scan.had
    <3>1. scan' = [scan EXCEPT !.mode = "done", !.verdict = "rows"]
      BY <1>5, <1>9, <2>2
    <3>2. /\ scan'.mode = "done" /\ scan'.verdict = "rows" /\ scan'.target = target
          /\ scan'.rows = scan.rows
      BY <1>1, <3>1 DEF Fields
    <3>3. Listed(d, target, t) = TuplesOf(d, target)
      BY <1>1, <2>2, ListedWhole
    <3>4. Concluded(scan', d, sqlTable, limit)
      BY <1>1, <2>1, <3>2, <3>3 DEF Concluded
    <3>5. Aimed(scan', d, sqlTable)
      BY <2>1, <3>2 DEF Aimed
    <3> QED
      BY <3>4, <3>5 DEF ScanRight
  <2>3. CASE ~scan.had
    <3>1. scan' = Refused
      BY <1>5, <1>9, <2>3
    <3>2. PICK n \in DOMAIN d.tuples : Table(d.tuples[n]) = target
      BY <2>1 DEF TablesOf
    <3>3. n \in 1..t
      BY <3>2, TextFacts
    <3>4. ColumnsText[d.tuples[n].head] = <<>>
      BY <1>1, <2>3, <3>2, <3>3 DEF Listed
    <3>5. \E j \in TuplesOf(d, Wanted(d, sqlTable)) : ColumnsText[d.tuples[j].head] = <<>>
      BY <2>1, <3>2, <3>4 DEF TuplesOf
    <3>6. Concluded(scan', d, sqlTable, limit)
      BY <1>6, <3>1, <3>5 DEF Concluded
    <3>7. Aimed(scan', d, sqlTable)
      BY <1>6, <2>1, <3>1 DEF Aimed
    <3> QED
      BY <3>6, <3>7 DEF ScanRight
  <2> QED
    BY <2>2, <2>3
<1> QED
  BY <1>7, <1>8, <1>9

-----------------------------------------------------------------------------
(* The scan is right of its dump at every step. *)

\* A scan starts at a place it may be at.
LEMMA ScanStartsRight ==
  ASSUME NEW d, Printed(d), NEW sqlTable, NEW limit
  PROVE  ScanRight(FreshScan(NoTable), d, sqlTable, limit)
BY FreshReached, FreshFields DEF ScanRight, Aimed

\* Every turn of its loops takes it to another one, or to a verdict that is right.
THEOREM ScanStepRight ==
  ASSUME NEW d, Printed(d), sql = d.text, NEW sqlTable \in {NoTable} \cup DOMAIN NameOf,
         NEW limit \in Nat, ScanRight(scan, d, sqlTable, limit), ScanStep(sqlTable, limit)
  PROVE  ScanRight(scan', d, sqlTable, limit)
<1>1. Reached(scan, d) /\ Aimed(scan, d, sqlTable)
  <2>1. scan.mode # "done"
    BY DEF ScanStep, NextInsert, NextTuple, NextValue, Delimiter, ReadString
  <2> QED
    BY <2>1 DEF ScanRight, Concluded
<1>2. PICK t \in Nat, m \in Nat :
        /\ Progress(scan, d, t, m)
        /\ \/ AtExec(scan, d, t, m) \/ AtTuples(scan, d, t, m)
           \/ \E v \in Nat : AtTuple(scan, d, t, m, v) \/ AtDelimiter(scan, d, t, m, v)
           \/ \E v, c \in Nat : AtString(scan, d, t, m, v, c)
  BY <1>1 DEF Reached
<1>3. ASSUME Reached(scan', d) \/ Concluded(scan', d, sqlTable, limit), scan'.target = scan.target
      PROVE  ScanRight(scan', d, sqlTable, limit)
  BY <1>1, <1>3 DEF ScanRight, Aimed
<1>4. CASE AtExec(scan, d, t, m)
  <2>1. NextInsert(sqlTable)
    BY <1>4 DEF AtExec, ScanStep, NextTuple, NextValue, Delimiter, ReadString
  <2>2. m = t /\ t \in 0..Len(d.tuples) /\ Len(d.tuples) \in Nat
    BY <1>2, <1>4, TextFacts DEF AtExec, Progress
  <2>3. CASE t < Len(d.tuples)
    BY <1>2, <1>3, <1>4, <2>1, <2>2, <2>3, StatementFound
  <2>4. CASE t = Len(d.tuples)
    <3>1. EndOfScan(sqlTable)
      BY <1>2, <1>4, <2>1, <2>2, <2>4, EndFound
    <3> QED
      BY <1>1, <1>2, <2>2, <2>4, <3>1, ScanEnded
  <2> QED
    BY <2>2, <2>3, <2>4
<1>5. CASE AtTuples(scan, d, t, m)
  <2>1. NextTuple
    BY <1>5 DEF AtTuples, ScanStep, NextInsert, NextValue, Delimiter, ReadString
  <2> QED
    BY <1>2, <1>3, <1>5, <2>1, TuplesStep
<1>6. ASSUME NEW v \in Nat, AtTuple(scan, d, t, m, v)
      PROVE  ScanRight(scan', d, sqlTable, limit)
  <2>1. NextValue(limit)
    BY <1>6 DEF AtTuple, ScanStep, NextInsert, NextTuple, Delimiter, ReadString
  <2> QED
    BY <1>2, <1>3, <1>6, <2>1, ValueStep
<1>7. ASSUME NEW v \in Nat, AtDelimiter(scan, d, t, m, v)
      PROVE  ScanRight(scan', d, sqlTable, limit)
  <2>1. Delimiter(limit)
    BY <1>7 DEF AtDelimiter, ScanStep, NextInsert, NextTuple, NextValue, ReadString
  <2> QED
    BY <1>1, <1>2, <1>3, <1>7, <2>1, DelimiterStep
<1>8. ASSUME NEW v \in Nat, NEW c \in Nat, AtString(scan, d, t, m, v, c)
      PROVE  ScanRight(scan', d, sqlTable, limit)
  <2>1. ReadString
    BY <1>8 DEF AtString, ScanStep, NextInsert, NextTuple, NextValue, Delimiter
  <2> QED
    BY <1>2, <1>3, <1>8, <2>1, StringStep
<1> QED
  BY <1>2, <1>4, <1>5, <1>6, <1>7, <1>8

=============================================================================
