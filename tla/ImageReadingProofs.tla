------------------------- MODULE ImageReadingProofs -------------------------
(***************************************************************************)
(* Theorems about ImageReading, for any images whose numbers are of their     *)
(* types.                                                                    *)
(*                                                                         *)
(* A clustered reader cuts every read at the end of its cluster, and what a    *)
(* cluster is read from (zeros, a place in the file, words in memory) depends   *)
(* on the number of the cluster only: its Source, one lemma for each format.    *)
(* So a read gives, word by word, what reads of one word give, of a file that   *)
(* itself gives what it likes.  Slices, ewf and dmg cut elsewhere and have       *)
(* lemmas of their own.  ReadingInv carries this over a whole reading.          *)
(***************************************************************************)
EXTENDS ImageReading, FiniteSetTheorems, TLAPS

-----------------------------------------------------------------------------
(* Numbers *)

LEMMA MinOfTwo ==
    ASSUME NEW a \in Nat, NEW b \in Nat
    PROVE  /\ Min({a, b}) \in Nat /\ Min({a, b}) <= a /\ Min({a, b}) <= b
           /\ Min({a, b}) = a \/ Min({a, b}) = b
<1> DEFINE m == IF a <= b THEN a ELSE b
<1>1. m \in {a, b} /\ m <= a /\ m <= b OBVIOUS
<1>2. \E x \in {a, b} : \A y \in {a, b} : x <= y BY <1>1
<1> QED BY <1>2 DEF Min

LEMMA MinOfThree ==
    ASSUME NEW a \in Nat, NEW b \in Nat, NEW c \in Nat
    PROVE  /\ Min({a, b, c}) \in Nat
           /\ Min({a, b, c}) <= a /\ Min({a, b, c}) <= b /\ Min({a, b, c}) <= c
           /\ Min({a, b, c}) = a \/ Min({a, b, c}) = b \/ Min({a, b, c}) = c
<1> DEFINE m == IF a <= b THEN (IF a <= c THEN a ELSE c) ELSE (IF b <= c THEN b ELSE c)
<1>1. m \in {a, b, c} /\ m <= a /\ m <= b /\ m <= c OBVIOUS
<1>2. \E x \in {a, b, c} : \A y \in {a, b, c} : x <= y BY <1>1
<1> QED BY <1>2 DEF Min

LEMMA Division ==
    ASSUME NEW a \in Nat, NEW u \in Nat \ {0}
    PROVE  a \div u \in Nat /\ a % u \in 0..(u - 1) /\ a = u * (a \div u) + (a % u)
OBVIOUS

(* Places in the same cluster. *)
LEMMA SameCluster ==
    ASSUME NEW a \in Nat, NEW u \in Nat \ {0}, NEW j \in Nat, (a % u) + j < u
    PROVE  (a + j) \div u = a \div u /\ (a + j) % u = (a % u) + j
OBVIOUS

(* A table of clusters of clusters. *)
LEMMA DivisionTwice ==
    ASSUME NEW a \in Nat, NEW u \in Nat \ {0}, NEW p \in Nat \ {0}
    PROVE  u * p \in Nat \ {0} /\ a \div (u * p) = (a \div u) \div p
<1> DEFINE q == a \div u
           r == a % u
           t == q \div p
           v == q % p
<1>1. q \in Nat /\ r \in 0..(u - 1) /\ a = u * q + r BY Division
<1>2. t \in Nat /\ v \in 0..(p - 1) /\ q = p * t + v BY <1>1, Division
<1>3. u * p \in Nat \ {0} OBVIOUS
<1> DEFINE w == u * v + r
<1> HIDE DEF q, r, t, v
<1>4. a = u * (p * t + v) + r BY <1>1, <1>2
<1>5. u * (p * t + v) = (u * p) * t + u * v BY <1>2
<1>6. a = (u * p) * t + w BY <1>1, <1>2, <1>4, <1>5
<1>7. w \in 0..(u * p - 1)
  <2>1. u * v <= u * (p - 1) BY <1>2
  <2>2. u * (p - 1) = u * p - u OBVIOUS
  <2>3. u * v \in Nat BY <1>2
  <2> QED BY <2>1, <2>2, <2>3, <1>1, <1>3
<1> DEFINE y == u * p
<1> HIDE DEF w, y
<1>8. y \in Nat \ {0} /\ a = y * t + w /\ w \in 0..(y - 1) BY <1>3, <1>6, <1>7 DEF y
<1>9. a \div y = t BY <1>2, <1>8
<1> QED BY <1>3, <1>9 DEF y, t, q
-----------------------------------------------------------------------------
(* Sequences of words *)

LEMMA SeqIsSeq ==
    ASSUME NEW S, NEW s \in Seq(S), \A i \in 1..Len(s) : s[i].kind # "failure"
    PROVE  WordSeq(s)
<1>1. DOMAIN s = 1..Len(s) /\ Len(s) \in Nat OBVIOUS
<1>2. \A i \in 1..Len(s) : s[i] \in ToSet(s) BY <1>1 DEF ToSet
<1>3. s \in [1..Len(s) -> ToSet(s)] BY <1>1, <1>2
<1> QED BY <1>1, <1>3 DEF WordSeq

LEMMA NothingRead == WordSeq(<<>>) /\ Len(<<>>) = 0 /\ 1..0 = {}
<1>1. <<>> \in Seq({}) /\ Len(<<>>) = 0 /\ 1..0 = {} OBVIOUS
<1>2. WordSeq(<<>>) BY <1>1, SeqIsSeq
<1> QED BY <1>1, <1>2

LEMMA ConcatIsSeq ==
    ASSUME NEW s, NEW t, WordSeq(s), WordSeq(t)
    PROVE  /\ WordSeq(s \o t) /\ Len(s \o t) = Len(s) + Len(t)
           /\ Len(s) \in Nat /\ Len(t) \in Nat
           /\ \A i \in 1..Len(s) : (s \o t)[i] = s[i]
           /\ \A i \in 1..Len(t) : (s \o t)[Len(s) + i] = t[i]
<1> DEFINE S == ToSet(s) \cup ToSet(t)
<1>1. s \in Seq(S) /\ t \in Seq(S)
  <2>1. s \in Seq(ToSet(s)) /\ t \in Seq(ToSet(t)) BY DEF WordSeq
  <2>2. s \in [1..Len(s) -> S] /\ t \in [1..Len(t) -> S] /\ Len(s) \in Nat /\ Len(t) \in Nat BY <2>1
  <2> QED BY <2>2
<1> HIDE DEF S
<1>2. s \o t \in Seq(S) BY <1>1
<1>3. WordSeq(s \o t)
  <2>1. \A i \in 1..Len(s) : (s \o t)[i] = s[i] /\ s[i].kind # "failure" BY <1>1 DEF WordSeq
  <2>2. \A i \in 1..Len(t) : (s \o t)[Len(s) + i] = t[i] /\ t[i].kind # "failure" BY <1>1 DEF WordSeq
  <2>3. Len(s \o t) = Len(s) + Len(t) /\ Len(s) \in Nat /\ Len(t) \in Nat BY <1>1
  <2>4. ASSUME NEW i \in 1..Len(s \o t) PROVE (s \o t)[i].kind # "failure"
    <3>1. CASE i <= Len(s) BY <2>1, <2>3, <3>1
    <3>2. CASE ~(i <= Len(s))
      <4> DEFINE j == i - Len(s)
      <4>1. j \in 1..Len(t) /\ Len(s) + j = i BY <2>3, <3>2
      <4> HIDE DEF j
      <4> QED BY <2>2, <4>1
    <3> QED BY <3>1, <3>2
  <2> QED BY <1>2, <2>4, SeqIsSeq
<1>4. /\ Len(s \o t) = Len(s) + Len(t) /\ Len(s) \in Nat /\ Len(t) \in Nat
      /\ \A i \in 1..Len(s) : (s \o t)[i] = s[i]
      /\ \A i \in 1..Len(t) : (s \o t)[Len(s) + i] = t[i]
  BY <1>1
<1> QED BY <1>3, <1>4

(* p is the n elements of s after the first m. *)
Part(p, s, m, n) == WordSeq(p) /\ Len(p) = n /\ \A i \in 1..n : p[i] = s[m + i]

LEMMA PartIsSeq ==
    ASSUME NEW s, WordSeq(s), NEW m \in Nat, NEW n \in Nat, m + n <= Len(s)
    PROVE  Part(SubSeq(s, m + 1, m + n), s, m, n)
<1>1. s \in Seq(ToSet(s)) /\ Len(s) \in Nat BY DEF WordSeq
<1>2. SubSeq(s, m + 1, m + n) \in Seq(ToSet(s)) BY <1>1
<1>3. Len(SubSeq(s, m + 1, m + n)) = n BY <1>1
<1>4. \A i \in 1..n : SubSeq(s, m + 1, m + n)[i] = s[m + i] BY <1>1
<1>5. \A i \in 1..n : s[m + i].kind # "failure"
  <2>1. \A i \in 1..n : m + i \in DOMAIN s BY <1>1
  <2> QED BY <2>1 DEF WordSeq
<1>6. WordSeq(SubSeq(s, m + 1, m + n))
  <2> DEFINE p == SubSeq(s, m + 1, m + n)
  <2>1. \A i \in 1..Len(p) : p[i].kind # "failure" BY <1>3, <1>4, <1>5
  <2> HIDE DEF p
  <2>2. p \in Seq(ToSet(s)) BY <1>2 DEF p
  <2>3. WordSeq(p) BY <2>1, <2>2, SeqIsSeq
  <2> QED BY <2>3 DEF p
<1> QED BY <1>3, <1>4, <1>6 DEF Part

LEMMA OneIsSeq ==
    ASSUME NEW s, WordSeq(s), Len(s) = 1
    PROVE  s = <<s[1]>>
BY DEF WordSeq
-----------------------------------------------------------------------------
(* A file, in one piece or in several. *)
(* s is of at most n words. *)
Piece(s, n) == WordSeq(s) /\ Len(s) \in 0..n

(* s is what ReadFrom gives. *)
WordsOf(file, a, k, s) ==
    /\ WordSeq(s) /\ Len(s) \in 0..k /\ Len(file.words) \in Nat
    /\ a < Len(file.words) => a + Len(s) <= Len(file.words) /\ (k # 0 => Len(s) # 0)
    /\ ~(a < Len(file.words)) => Len(s) = 0
    /\ \A i \in 1..Len(s) : s[i] = file.words[a + i]

LEMMA WordsRead ==
    ASSUME NEW file, FileType(file), NEW a \in Nat, NEW k \in Nat
    PROVE  WordsOf(file, a, k, ReadFrom(file, a, k))
<1> DEFINE end == Len(file.words)
           left == file.step - (a % file.step)
           m == IF a >= end THEN 0 ELSE Min({k, end - a, left})
<1>1. WordSeq(file.words) /\ end \in Nat BY DEF FileType, TableType, WordSeq
<1>2. left \in Nat \ {0}
  <2>1. file.step \in Nat \ {0} BY DEF FileType
  <2> DEFINE u == file.step
  <2> HIDE DEF u
  <2>2. u \in Nat \ {0} /\ a % u \in 0..(u - 1) BY <2>1, Division DEF u
  <2>3. u - (a % u) \in Nat \ {0} BY <2>2
  <2> QED BY <2>3 DEF u
<1>3. ReadFrom(file, a, k) = SubSeq(file.words, a + 1, a + m) BY DEF ReadFrom
<1> HIDE DEF left, end
<1>4. CASE ~(a < end)
  <2>1. m = 0 BY <1>1, <1>4
  <2>2. ReadFrom(file, a, k) = <<>> BY <1>3, <2>1
  <2>4. WordSeq(<<>>) BY NothingRead
  <2>5. Len(<<>>) = 0 /\ 1..0 = {} OBVIOUS
  <2> HIDE DEF m
  <2> QED BY <1>1, <1>4, <2>2, <2>4, <2>5 DEF end, WordsOf
<1>5. CASE a < end
  <2>1. end - a \in Nat \ {0} BY <1>1, <1>5
  <2> DEFINE x == Min({k, end - a, left})
  <2>2. x \in Nat /\ x <= k /\ x <= end - a /\ (x = k \/ x = end - a \/ x = left)
    BY <1>2, <2>1, MinOfThree
  <2>3. m = x BY <1>1, <1>5
  <2> HIDE DEF m, x
  <2>4. m \in 0..k /\ a + m <= end /\ (k # 0 => m # 0) BY <1>1, <1>2, <2>1, <2>2, <2>3
  <2> DEFINE w == file.words
  <2>5. WordSeq(w) /\ m \in Nat /\ a + m <= Len(w) BY <1>1, <2>4 DEF end
  <2> HIDE DEF w
  <2>6. Part(SubSeq(w, a + 1, a + m), w, a, m) BY <2>5, PartIsSeq
  <2> QED BY <1>1, <1>3, <1>5, <2>4, <2>6 DEF end, w, Part, WordsOf
<1> QED BY <1>4, <1>5 DEF end

(* It is also what reads of one word give. *)
FilePiece(file, at, n, s) ==
    /\ Piece(s, n)
    /\ \A j \in 1..Len(s) :
          /\ ReadFrom(file, at + (j - 1), 1) = <<s[j]>>
          /\ at + j \in DOMAIN file.words /\ s[j] = file.words[at + j]
    /\ n # 0 /\ s = <<>> => ReadFrom(file, at, 1) = <<>>

LEMMA PieceOfFile ==
    ASSUME NEW file, FileType(file), NEW at \in Nat, NEW n \in Nat
    PROVE  FilePiece(file, at, n, ReadFrom(file, at, n))
<1> DEFINE s == ReadFrom(file, at, n)
           end == Len(file.words)
<1>1. /\ WordSeq(s) /\ Len(s) \in 0..n /\ end \in Nat
      /\ at < end => at + Len(s) <= end /\ (n # 0 => Len(s) # 0)
      /\ ~(at < end) => Len(s) = 0
      /\ \A i \in 1..Len(s) : s[i] = file.words[at + i]
  <2>1. WordsOf(file, at, n, s) BY WordsRead
  <2> HIDE DEF s
  <2> QED BY <2>1 DEF WordsOf
<1> HIDE DEF s
<1>2. ASSUME NEW j \in 1..Len(s)
      PROVE  /\ ReadFrom(file, at + (j - 1), 1) = <<s[j]>>
             /\ at + j \in DOMAIN file.words /\ s[j] = file.words[at + j]
  <2> DEFINE b == at + (j - 1)
             o == ReadFrom(file, b, 1)
  <2>1. b \in Nat /\ b + 1 = at + j /\ b < end /\ at + j \in 1..end BY <1>1
  <2> HIDE DEF b
  <2>2. WordSeq(o) /\ Len(o) \in 0..1 /\ Len(o) # 0 /\ \A i \in 1..Len(o) : o[i] = file.words[b + i]
    <3>1. WordsOf(file, b, 1, o) BY <2>1, WordsRead
    <3> HIDE DEF o
    <3> QED BY <2>1, <3>1 DEF WordsOf
  <2>3. Len(o) = 1 /\ o[1] = file.words[at + j]
    <3>1. Len(o) = 1 BY <2>2
    <3>2. 1 \in 1..Len(o) BY <3>1
    <3> HIDE DEF o
    <3> QED BY <3>1, <3>2, <2>1, <2>2
  <2>4. o = <<o[1]>> BY <2>2, <2>3, OneIsSeq
  <2>5. DOMAIN file.words = 1..end BY DEF FileType, TableType, WordSeq
  <2> QED BY <1>1, <2>1, <2>3, <2>4, <2>5 DEF b
<1>3. ASSUME n # 0, s = <<>> PROVE ReadFrom(file, at, 1) = <<>>
  <2>1. ~(at < end) BY <1>1, <1>3
  <2> DEFINE o == ReadFrom(file, at, 1)
  <2>2. WordSeq(o) /\ Len(o) = 0
    <3>1. WordsOf(file, at, 1, o) BY WordsRead
    <3> HIDE DEF o
    <3> QED BY <2>1, <3>1 DEF WordsOf
  <2> HIDE DEF o
  <2>3. o = <<>> BY <2>2 DEF WordSeq
  <2> QED BY <2>3 DEF o
<1>4. Piece(s, n) BY <1>1 DEF Piece
<1>5. FilePiece(file, at, n, s) BY <1>2, <1>3, <1>4 DEF FilePiece
<1> QED BY <1>5 DEF s

(* A file in one piece ends a read only where the file ends. *)
LEMMA SmallRemainder ==
    ASSUME NEW u \in Nat \ {0}, NEW a \in Nat, a < u
    PROVE  a % u = a
BY SMT

LEMMA ShortAtTheEnd ==
    ASSUME NEW file, FileType(file), Len(file.words) < file.step,
           NEW a \in Nat, NEW k \in Nat \ {0}, Len(ReadFrom(file, a, k)) # k
    PROVE  ReadFrom(file, a + (k - 1), 1) = <<>>
<1> DEFINE end == Len(file.words)
           b == a + (k - 1)
           o == ReadFrom(file, b, 1)
<1>1. WordSeq(file.words) /\ end \in Nat /\ file.step \in Nat \ {0} /\ end < file.step
  BY DEF FileType, TableType, WordSeq
<1>2. end <= b
  <2> SUFFICES ASSUME a < end PROVE end <= b BY <1>1
  <2> DEFINE x == end - a
             y == file.step - (a % file.step)
             m == Min({k, x, y})
  <2>1. x \in Nat \ {0} /\ y \in Nat \ {0} /\ x < y
    <3>1. a < file.step BY <1>1
    <3>2. a % file.step = a BY <1>1, <3>1, SmallRemainder
    <3> QED BY <1>1, <3>1, <3>2, SMTT(30)
  <2>2. ReadFrom(file, a, k) = SubSeq(file.words, a + 1, a + m)
    <3>1. ~(a >= end) BY <1>1
    <3>2. ReadFrom(file, a, k) =
             SubSeq(file.words, a + 1, a + (IF a >= end THEN 0 ELSE m))
      BY DEF ReadFrom
    <3> HIDE DEF m, end
    <3> QED BY <3>1, <3>2
  <2> HIDE DEF x, y
  <2>3. m \in Nat /\ m <= k /\ m <= x /\ (m = k \/ m = x \/ m = y) /\ m <= y BY <2>1, MinOfThree
  <2> DEFINE w == file.words
  <2>4. WordSeq(w) /\ a + m <= Len(w) BY <1>1, <2>1, <2>3 DEF x
  <2> HIDE DEF m, w
  <2>5. Part(SubSeq(w, a + 1, a + m), w, a, m) BY <2>3, <2>4, PartIsSeq
  <2>6. m # k BY <2>2, <2>5 DEF Part, w
  <2>7. m = x /\ x < k BY <2>1, <2>3, <2>6
  <2> QED BY <1>1, <2>7 DEF x
<1> HIDE DEF b
<1>3. b \in Nat BY DEF b
<1>4. WordsOf(file, b, 1, o) BY <1>3, WordsRead
<1> HIDE DEF o
<1>5. WordSeq(o) /\ Len(o) = 0 BY <1>1, <1>2, <1>3, <1>4 DEF WordsOf
<1>6. o = <<>> BY <1>5 DEF WordSeq
<1> QED BY <1>6 DEF o, b
-----------------------------------------------------------------------------
(* Clusters *)
(* Of k words from an offset on, all lie in its cluster. *)
InCluster(r, at, n, k) ==
    /\ k \in 1..n /\ at + k <= r.size
    /\ Within(r, at) \in Nat /\ Within(r, at) + k <= r.unit
    /\ \A j \in 1..k :
          /\ at + (j - 1) \in Nat /\ at + (j - 1) < r.size
          /\ Clip(r, at + (j - 1), 1) = 1
          /\ (at + (j - 1)) \div r.unit = at \div r.unit
          /\ Within(r, at + (j - 1)) = Within(r, at) + (j - 1)

LEMMA ClipType ==
    ASSUME NEW r, ClusterType(r), NEW at \in Nat, at < r.size, NEW n \in Nat \ {0}
    PROVE  /\ Clip(r, at, n) \in 1..n /\ at + Clip(r, at, n) <= r.size
           /\ Within(r, at) \in Nat /\ Within(r, at) + Clip(r, at, n) <= r.unit
<1> DEFINE u == r.unit
           w == Within(r, at)
           left == r.size - at
           k == Min({n, u - w, left})
<1>1. u \in Nat \ {0} /\ r.size \in Nat BY DEF ClusterType
<1>2. w \in 0..(u - 1)
  <2> HIDE DEF u
  <2>1. at % u \in 0..(u - 1) BY <1>1, Division
  <2> QED BY <2>1 DEF Within, u
<1>3. left \in Nat \ {0} BY <1>1
<1> HIDE DEF u, w
<1>4. u - w \in Nat \ {0} BY <1>1, <1>2
<1>5. k \in Nat /\ k <= n /\ k <= u - w /\ k <= left /\ (k = n \/ k = u - w \/ k = left)
  BY <1>3, <1>4, MinOfThree
<1>6. Clip(r, at, n) = k BY DEF Clip, u, w
<1> HIDE DEF k
<1>7. k \in 1..n /\ at + k <= r.size /\ w \in Nat /\ w + k <= u BY <1>1, <1>2, <1>3, <1>4, <1>5
<1> QED BY <1>6, <1>7 DEF u, w

LEMMA ClipInCluster ==
    ASSUME NEW r, ClusterType(r), NEW at \in Nat, at < r.size, NEW n \in Nat \ {0}
    PROVE  InCluster(r, at, n, Clip(r, at, n))
<1> DEFINE k == Clip(r, at, n)
           w == Within(r, at)
           u == r.unit
<1>1. k \in 1..n /\ at + k <= r.size /\ w \in Nat /\ w + k <= u BY ClipType
<1>2. u \in Nat \ {0} /\ r.size \in Nat BY DEF ClusterType
<1>3. w = at % u BY DEF Within
<1> HIDE DEF k, w, u
<1>4. ASSUME NEW j \in 1..k
      PROVE  /\ at + (j - 1) \in Nat /\ at + (j - 1) < r.size
             /\ Clip(r, at + (j - 1), 1) = 1
             /\ (at + (j - 1)) \div u = at \div u
             /\ Within(r, at + (j - 1)) = w + (j - 1)
  <2> DEFINE i == j - 1
             b == at + i
  <2>1. i \in Nat /\ i < k BY <1>1
  <2> HIDE DEF i
  <2>2. w + i < u BY <1>1, <1>2, <2>1
  <2>3. (at + i) \div u = at \div u /\ (at + i) % u = w + i BY <1>2, <1>3, <2>1, <2>2, SameCluster
  <2>4. b \in Nat /\ b < r.size BY <1>1, <1>2, <2>1
  <2>5. Within(r, b) = w + i BY <2>3 DEF Within, u
  <2> HIDE DEF b
  <2>6. Clip(r, b, 1) = 1
    <3>1. Clip(r, b, 1) \in 1..1 BY <2>4, ClipType
    <3> QED BY <3>1
  <2> QED BY <2>3, <2>4, <2>5, <2>6 DEF b, i
<1> QED BY <1>1, <1>4 DEF InCluster, k, w, u
-----------------------------------------------------------------------------
(* What a cluster is read from: nothing, zeros, a place in the file, or memory. *)
Source(kind, place, cluster) == [kind |-> kind, place |-> place, cluster |-> cluster]
Unreadable == Source("failure", 0, <<>>)
Empty == Source("nothing", 0, <<>>)
Hole == Source("zeros", 0, <<>>)
InFile(place) == Source("file", place, <<>>)
InMemory(cluster) == Source("memory", 0, cluster)

Fetch(file, x, w, k) ==
    IF x.kind = "failure" THEN Failure
    ELSE IF x.kind = "nothing" THEN <<>>
    ELSE IF x.kind = "zeros" THEN Zeros(k)
    ELSE IF x.kind = "file" THEN ReadFrom(file, x.place + w, k)
    ELSE Cut(x.cluster, w, k)

SourceType(r, x) ==
    /\ x.kind \in {"failure", "nothing", "zeros", "file", "memory"}
    /\ x.kind = "file" => x.place \in Nat
    /\ x.kind = "memory" => x.cluster = Failure \/ (WordSeq(x.cluster) /\ Len(x.cluster) = r.unit)

(* s, read of n words, is what reads of one word give, one after the other. *)
Wordwise(file, r, at, n, s) ==
    s = Failure \/
        /\ Piece(s, n) /\ at + Len(s) <= Size(r)
        /\ \A j \in 1..Len(s) : ReadAt(file, r, at + (j - 1), 1) = <<s[j]>>

(* Where it fails or ends, so does a read of one word. *)
Firm(file, r, at, s) == s \in {Failure, <<>>} => ReadAt(file, r, at, 1) = s

(* Where a read of a file in one piece fails, so does one of a single word. *)
FailsAtAWord(file, r, s) ==
    s = Failure /\ Len(file.words) < file.step
        => \E a \in Nat : a < Size(r) /\ ReadAt(file, r, a, 1) = Failure

LEMMA NoFailure == ASSUME NEW s, WordSeq(s) PROVE s # Failure
<1>1. Len(Failure) = 1 /\ DOMAIN Failure = {1} /\ Failure[1].kind = "failure" BY DEF Failure, Word
<1> QED BY <1>1 DEF WordSeq

LEMMA FirmFails ==
    ASSUME NEW file, NEW r, NEW at \in Nat, at < Size(r), NEW s, Firm(file, r, at, s)
    PROVE  FailsAtAWord(file, r, s)
BY DEF Firm, FailsAtAWord

(* All words of a cluster are read from one source. *)
FromSource(file, r, at, x) ==
    \A a \in Nat, m \in Nat \ {0} :
        a < r.size /\ a \div r.unit = at \div r.unit
            => ReadAt(file, r, a, m) = Fetch(file, x, Within(r, a), Clip(r, a, m))

LEMMA ZerosPiece ==
    ASSUME NEW k \in Nat
    PROVE  /\ WordSeq(Zeros(k)) /\ Len(Zeros(k)) = k
           /\ \A j \in 1..k : Zeros(1) = <<Zeros(k)[j]>>
<1>1. Zeros(k) \in Seq({Zero}) /\ Len(Zeros(k)) = k /\ \A j \in 1..k : Zeros(k)[j] = Zero BY DEF Zeros
<1>2. Zeros(1) = <<Zero>> BY DEF Zeros
<1>3. WordSeq(Zeros(k))
  <2>1. Zero.kind # "failure" BY DEF Zero, Word
  <2> QED BY <1>1, <2>1, SeqIsSeq
<1> QED BY <1>1, <1>2, <1>3

LEMMA CutPiece ==
    ASSUME NEW c, c # Failure, WordSeq(c), NEW w \in Nat, NEW k \in Nat, w + k <= Len(c)
    PROVE  /\ WordSeq(Cut(c, w, k)) /\ Len(Cut(c, w, k)) = k
           /\ \A j \in 1..k : Cut(c, w + (j - 1), 1) = <<Cut(c, w, k)[j]>>
<1> DEFINE s == Cut(c, w, k)
<1>1. \A a \in Nat, m \in Nat : Cut(c, a, m) = SubSeq(c, a + 1, a + m) BY DEF Cut
<1>2. Part(s, c, w, k) BY <1>1, PartIsSeq
<1> HIDE DEF s
<1>3. ASSUME NEW j \in 1..k PROVE Cut(c, w + (j - 1), 1) = <<s[j]>>
  <2> DEFINE b == w + (j - 1)
             o == Cut(c, b, 1)
  <2>1. b \in Nat /\ b + 1 = w + j /\ b + 1 <= Len(c)
    <3>1. Len(c) \in Nat BY DEF WordSeq
    <3> QED BY <3>1
  <2> HIDE DEF b
  <2>2. Part(o, c, b, 1) BY <1>1, <2>1, PartIsSeq
  <2> HIDE DEF o
  <2>3. WordSeq(o) /\ Len(o) = 1 /\ o[1] = c[w + j] BY <2>1, <2>2 DEF Part
  <2>4. o = <<o[1]>> BY <2>3, OneIsSeq
  <2>5. s[j] = c[w + j] BY <1>2 DEF Part
  <2> QED BY <2>3, <2>4, <2>5 DEF o, b
<1> QED BY <1>2, <1>3 DEF Part, s

(* However a cluster is read, it is read word by word. *)
LEMMA ClusterIsWordwise ==
    ASSUME NEW file, FileType(file), NEW r, ClusterType(r), Size(r) = r.size,
           NEW at \in Nat, at < r.size, NEW n \in Nat \ {0},
           NEW x, SourceType(r, x), FromSource(file, r, at, x)
    PROVE  /\ Wordwise(file, r, at, n, ReadAt(file, r, at, n))
           /\ Firm(file, r, at, ReadAt(file, r, at, n))
<1> DEFINE k == Clip(r, at, n)
           w == Within(r, at)
           s == ReadAt(file, r, at, n)
           o == ReadAt(file, r, at, 1)
<1>1. InCluster(r, at, n, k) BY ClipInCluster
<1>2. s = Fetch(file, x, w, k) BY DEF FromSource
<1>3. k \in 1..n /\ at + k <= r.size /\ w \in Nat /\ w + k <= r.unit BY <1>1 DEF InCluster
<1>4. ASSUME NEW j \in 1..k
      PROVE  ReadAt(file, r, at + (j - 1), 1) = Fetch(file, x, w + (j - 1), 1)
  BY <1>1 DEF InCluster, FromSource
<1>5. o = Fetch(file, x, w, 1)
  <2>1. 1 \in 1..k /\ at + (1 - 1) = at /\ w + (1 - 1) = w BY <1>3
  <2> HIDE DEF w, k
  <2>2. ReadAt(file, r, at + (1 - 1), 1) = Fetch(file, x, w + (1 - 1), 1) BY <1>4, <2>1
  <2> QED BY <2>1, <2>2
<1> HIDE DEF k, w, s, o
<1>6. ASSUME WordSeq(s), Len(s) \in 0..k,
             \A j \in 1..Len(s) : Fetch(file, x, w + (j - 1), 1) = <<s[j]>>
      PROVE  Wordwise(file, r, at, n, s)
  <2>1. Len(s) \in 0..n /\ at + Len(s) <= r.size
    <3>1. r.size \in Nat BY DEF ClusterType
    <3> QED BY <3>1, <1>3, <1>6
  <2>2. \A j \in 1..Len(s) : j \in 1..k BY <1>3, <1>6
  <2>3. \A j \in 1..Len(s) : ReadAt(file, r, at + (j - 1), 1) = <<s[j]>> BY <1>4, <1>6, <2>2
  <2> QED BY <1>6, <2>1, <2>3 DEF Wordwise, Piece
<1>7. CASE x.kind = "failure"
  <2>1. s = Failure /\ o = Failure BY <1>2, <1>5, <1>7 DEF Fetch
  <2> QED BY <2>1 DEF Wordwise, Firm, s, o
<1>8. CASE x.kind = "nothing"
  <2>1. s = <<>> /\ o = <<>> BY <1>2, <1>5, <1>8 DEF Fetch
  <2>2. <<>> \in Seq({}) /\ Len(<<>>) = 0 /\ 1..0 = {} OBVIOUS
  <2>3. WordSeq(<<>>) BY <2>2, SeqIsSeq
  <2>4. Wordwise(file, r, at, n, s) BY <1>3, <1>6, <2>1, <2>2, <2>3
  <2> QED BY <2>1, <2>4 DEF Firm, s, o
<1>9. CASE x.kind = "zeros"
  <2>1. s = Zeros(k) /\ \A j \in 1..k : Fetch(file, x, w + (j - 1), 1) = Zeros(1)
    BY <1>2, <1>9 DEF Fetch
  <2>2. WordSeq(s) /\ Len(s) = k /\ \A j \in 1..k : Zeros(1) = <<s[j]>>
    BY <1>3, <2>1, ZerosPiece
  <2>3. Wordwise(file, r, at, n, s) BY <1>3, <1>6, <2>1, <2>2
  <2>4. s # <<>> BY <1>3, <2>2
  <2>5. s = Failure => o = s
    <3>1. 1 \in 1..k BY <1>3
    <3>2. o = Zeros(1) BY <1>5, <1>9 DEF Fetch
    <3>3. s = Failure => Len(s) = 1 /\ s = <<s[1]>> BY DEF Failure
    <3> QED BY <2>2, <3>1, <3>2, <3>3
  <2> QED BY <2>3, <2>4, <2>5 DEF Firm, s, o
<1>10. CASE x.kind = "file"
  <2> DEFINE p == x.place + w
  <2>1. p \in Nat BY <1>3, <1>10 DEF SourceType
  <2>2. s = ReadFrom(file, p, k) /\ o = ReadFrom(file, p, 1) BY <1>2, <1>5, <1>10 DEF Fetch
  <2>3. \A j \in 1..k : Fetch(file, x, w + (j - 1), 1) = ReadFrom(file, p + (j - 1), 1)
    <3> SUFFICES ASSUME NEW j \in 1..k
                 PROVE  Fetch(file, x, w + (j - 1), 1) = ReadFrom(file, p + (j - 1), 1)
      OBVIOUS
    <3>1. x.place + (w + (j - 1)) = p + (j - 1) BY <1>3, <1>10 DEF SourceType
    <3>2. Fetch(file, x, w + (j - 1), 1) = ReadFrom(file, x.place + (w + (j - 1)), 1)
      BY <1>10 DEF Fetch
    <3> HIDE DEF p
    <3> QED BY <3>1, <3>2
  <2> HIDE DEF p
  <2>4. FilePiece(file, p, k, s) BY <1>3, <2>1, <2>2, PieceOfFile
  <2>5. WordSeq(s) /\ Len(s) \in 0..k BY <2>4 DEF FilePiece, Piece
  <2>6. \A j \in 1..Len(s) : j \in 1..k BY <1>3, <2>5
  <2>7. \A j \in 1..Len(s) : Fetch(file, x, w + (j - 1), 1) = <<s[j]>>
    BY <2>3, <2>4, <2>6 DEF FilePiece
  <2>8. Wordwise(file, r, at, n, s) BY <1>6, <2>5, <2>7
  <2>9. s = <<>> => o = s BY <1>3, <2>2, <2>4 DEF FilePiece
  <2>10. s = Failure => o = s
    <3>1. s = Failure => Len(s) = 1 /\ s = <<s[1]>> BY DEF Failure
    <3>2. 1 \in 1..1 /\ p + (1 - 1) = p BY <2>1
    <3>3. s = Failure => ReadFrom(file, p + (1 - 1), 1) = <<s[1]>> BY <3>1, <3>2, <2>4 DEF FilePiece
    <3> QED BY <2>2, <3>1, <3>2, <3>3
  <2> QED BY <2>8, <2>9, <2>10 DEF Firm, s, o
<1>11. CASE x.kind = "memory"
  <2> DEFINE c == x.cluster
  <2>1. s = Cut(c, w, k) /\ o = Cut(c, w, 1)
        /\ \A j \in 1..k : Fetch(file, x, w + (j - 1), 1) = Cut(c, w + (j - 1), 1)
    BY <1>2, <1>5, <1>11 DEF Fetch
  <2>2. c = Failure \/ (WordSeq(c) /\ Len(c) = r.unit) BY <1>11 DEF SourceType
  <2> HIDE DEF c
  <2>3. CASE c = Failure
    <3>1. s = Failure /\ o = Failure BY <2>1, <2>3 DEF Cut
    <3> QED BY <3>1 DEF Wordwise, Firm, s, o
  <2>4. CASE c # Failure
    <3>1. w + k <= Len(c) BY <1>3, <2>2, <2>4
    <3>2. WordSeq(s) /\ Len(s) = k /\ \A j \in 1..k : Cut(c, w + (j - 1), 1) = <<s[j]>>
      BY <1>3, <2>1, <2>2, <2>4, <3>1, CutPiece
    <3>3. Wordwise(file, r, at, n, s) BY <1>3, <1>6, <2>1, <3>2
    <3>4. s # <<>> BY <1>3, <3>2
    <3>5. s = Failure => o = s
      <4>1. s = Failure => s = <<s[1]>> BY DEF Failure
      <4>2. 1 \in 1..k /\ w + (1 - 1) = w BY <1>3
      <4>3. Cut(c, w + (1 - 1), 1) = <<s[1]>> BY <3>2, <4>2
      <4> QED BY <2>1, <4>1, <4>2, <4>3
    <3> QED BY <3>3, <3>4, <3>5 DEF Firm, s, o
  <2> QED BY <2>3, <2>4
<1> QED BY <1>7, <1>8, <1>9, <1>10, <1>11 DEF SourceType, s
-----------------------------------------------------------------------------
(* Tables *)
(* The entry of a cluster, by its number. *)
FirstEntry(r, q) == IF q >= Len(r.table) THEN Zero ELSE r.table[q + 1]
SecondEntry(file, r, q, scale) ==
    LET first == q \div r.per IN
    IF first >= Len(r.table) \/ r.table[first + 1].at = 0 THEN <<Zero>>
    ELSE ReadWhole(file, r.table[first + 1].at * scale + (q % r.per), 1)

LEMMA EntryType ==
    ASSUME NEW t, TableType(t), NEW i \in Nat, i < Len(t)
    PROVE  t[i + 1].at \in Nat
<1>1. DOMAIN t = 1..Len(t) /\ Len(t) \in Nat BY DEF TableType, WordSeq
<1> QED BY <1>1 DEF TableType

LEMMA FirstLevelByCluster ==
    ASSUME NEW r, ClusterType(r), TableType(r.table), NEW a \in Nat
    PROVE  /\ FirstLevel(r, a) = FirstEntry(r, a \div r.unit)
           /\ FirstEntry(r, a \div r.unit).at \in Nat
<1> DEFINE q == a \div r.unit
<1>1. q \in Nat BY Division DEF ClusterType
<1>2. FirstLevel(r, a) = FirstEntry(r, q) BY DEF FirstLevel, FirstEntry
<1> HIDE DEF q
<1>3. CASE q >= Len(r.table) BY <1>2, <1>3 DEF FirstEntry, Zero, Word, q
<1>4. CASE ~(q >= Len(r.table))
  <2>1. Len(r.table) \in Nat BY DEF TableType, WordSeq
  <2>2. r.table[q + 1].at \in Nat BY <1>1, <1>4, <2>1, EntryType
  <2> QED BY <1>2, <1>4, <2>2 DEF FirstEntry, q
<1> QED BY <1>3, <1>4

LEMMA WordRead ==
    ASSUME NEW file, FileType(file), NEW a \in Nat
    PROVE  ReadWhole(file, a, 1) = Failure \/ ReadWhole(file, a, 1)[1].at \in Nat
<1> DEFINE s == ReadFrom(file, a, 1)
<1>1. FilePiece(file, a, 1, s) BY PieceOfFile
<1>2. ReadWhole(file, a, 1) = IF Len(s) = 1 THEN s ELSE Failure BY DEF ReadWhole
<1> HIDE DEF s
<1>3. CASE Len(s) = 1
  <2>1. 1 \in 1..Len(s) BY <1>3
  <2>2. a + 1 \in DOMAIN file.words /\ s[1] = file.words[a + 1] BY <1>1, <2>1 DEF FilePiece
  <2>3. s[1].at \in Nat BY <2>2 DEF FileType, TableType
  <2> QED BY <1>2, <1>3, <2>3
<1> QED BY <1>2, <1>3

LEMMA SecondLevelByCluster ==
    ASSUME NEW file, FileType(file), NEW r, ClusterType(r), r.per \in Nat \ {0},
           TableType(r.table), NEW scale \in Nat, NEW a \in Nat
    PROVE  /\ SecondLevel(file, r, a, scale) = SecondEntry(file, r, a \div r.unit, scale)
           /\ \/ SecondEntry(file, r, a \div r.unit, scale) = Failure
              \/ SecondEntry(file, r, a \div r.unit, scale)[1].at \in Nat
<1> DEFINE q == a \div r.unit
           first == q \div r.per
           second == q % r.per
           t == r.table
<1>1. r.unit \in Nat \ {0} BY DEF ClusterType
<1>2. q \in Nat BY <1>1, Division
<1>3. a \div (r.unit * r.per) = first BY <1>1, DivisionTwice
<1>4. SecondLevel(file, r, a, scale) = SecondEntry(file, r, q, scale)
  BY <1>3 DEF SecondLevel, SecondEntry
<1>5. first \in Nat /\ second \in Nat
  <2> HIDE DEF q
  <2>1. q \div r.per \in Nat /\ q % r.per \in 0..(r.per - 1) BY <1>2, Division
  <2> QED BY <2>1
<1> DEFINE b == t[first + 1].at
<1>6. SecondEntry(file, r, q, scale) =
         IF first >= Len(t) \/ b = 0 THEN <<Zero>> ELSE ReadWhole(file, b * scale + second, 1)
  BY DEF SecondEntry
<1> HIDE DEF first, second, q, b
<1>7. CASE first >= Len(t) \/ b = 0 BY <1>4, <1>6, <1>7 DEF Zero, Word, q
<1>8. CASE ~(first >= Len(t)) /\ b # 0
  <2>1. Len(t) \in Nat BY DEF TableType, WordSeq
  <2>2. b \in Nat BY <1>5, <1>8, <2>1, EntryType DEF b
  <2>3. b * scale + second \in Nat BY <1>5, <2>2
  <2> DEFINE c == b * scale + second
  <2> HIDE DEF c
  <2>4. ReadWhole(file, c, 1) = Failure \/ ReadWhole(file, c, 1)[1].at \in Nat BY <2>3, WordRead DEF c
  <2> QED BY <1>4, <1>6, <1>8, <2>4 DEF c, q
<1> QED BY <1>7, <1>8

LEMMA SecondLevelSame ==
    ASSUME NEW file, FileType(file), NEW r, ClusterType(r), r.per \in Nat \ {0},
           TableType(r.table), NEW scale \in Nat
    PROVE  \A a \in Nat : SecondLevel(file, r, a, scale) = SecondEntry(file, r, a \div r.unit, scale)
<1> SUFFICES ASSUME NEW a \in Nat
             PROVE  SecondLevel(file, r, a, scale) = SecondEntry(file, r, a \div r.unit, scale)
  OBVIOUS
<1> QED BY SecondLevelByCluster

LEMMA UnpackType ==
    ASSUME NEW stream, NEW unit \in Nat
    PROVE  \/ Unpack(stream, unit) = Failure
           \/ WordSeq(Unpack(stream, unit)) /\ Len(Unpack(stream, unit)) = unit
<1> DEFINE s == [i \in 1..unit |-> Data(stream[1].at + i - 1)]
<1>1. Unpack(stream, unit) \in {s, Failure} BY DEF Unpack
<1>2. s \in Seq({s[i] : i \in 1..unit}) /\ Len(s) = unit OBVIOUS
<1>3. \A i \in 1..unit : s[i].kind # "failure" BY DEF Data, Word
<1> HIDE DEF s
<1>4. WordSeq(s) BY <1>2, <1>3, SeqIsSeq
<1> QED BY <1>1, <1>2, <1>4 DEF s
-----------------------------------------------------------------------------
(* For each format the source of a cluster, which only depends on its number. *)
HasSource(file, r, at) == \E x : SourceType(r, x) /\ FromSource(file, r, at, x)

TwoLevels(r) == ClusterType(r) /\ r.per \in Nat \ {0} /\ TableType(r.table)
OneLevel(r) == ClusterType(r) /\ TableType(r.table)

LEMMA ScaledType ==
    ASSUME NEW a \in Nat, NEW u \in Nat \ {0}
    PROVE  (a \div u) * u \in Nat
<1>1. a \div u \in Nat BY Division
<1> QED BY <1>1

LEMMA GrainType ==
    ASSUME NEW file, NEW r, r.unit \in Nat, NEW at
    PROVE  \/ CompressedGrain(file, r, at) = Failure
           \/ /\ WordSeq(CompressedGrain(file, r, at))
              /\ Len(CompressedGrain(file, r, at)) = r.unit
<1> DEFINE s == [i \in 1..r.unit |-> Garbled]
           d == CompressedGrain(file, r, at)
           u == Unpack(ReadFrom(file, at + 1, PackedWords), r.unit)
<1>1. d \in {Failure, s, u} BY DEF CompressedGrain
<1>2. s \in Seq({s[i] : i \in 1..r.unit}) /\ Len(s) = r.unit OBVIOUS
<1>3. \A i \in 1..r.unit : s[i].kind # "failure" BY DEF Garbled, Word
<1> HIDE DEF s
<1>4. WordSeq(s) BY <1>2, <1>3, SeqIsSeq
<1>5. u = Failure \/ (WordSeq(u) /\ Len(u) = r.unit) BY UnpackType
<1> QED BY <1>1, <1>2, <1>4, <1>5

LEMMA QcowSource ==
    ASSUME NEW file, FileType(file), NEW r, TwoLevels(r), r.format = "qcow",
           NEW at \in Nat
    PROVE  HasSource(file, r, at)
<1> DEFINE e == SecondEntry(file, r, at \div r.unit, 1)
           x == IF e = Failure THEN Unreadable
                ELSE IF e[1].at = 0 THEN Hole
                ELSE IF e[1].flag = "packed"
                THEN InMemory(Unpack(ReadFrom(file, e[1].at, PackedWords), r.unit))
                ELSE InFile(e[1].at)
<1>1. ClusterType(r) /\ r.per \in Nat \ {0} /\ TableType(r.table) /\ r.unit \in Nat
  BY DEF TwoLevels, ClusterType
<1>2. \A a \in Nat : SecondLevel(file, r, a, 1) = SecondEntry(file, r, a \div r.unit, 1)
  BY <1>1, SecondLevelSame
<1>3. e = Failure \/ e[1].at \in Nat BY <1>1, SecondLevelByCluster
<1> HIDE DEF e
<1>4. SourceType(r, x)
  BY <1>1, <1>3, UnpackType DEF SourceType, Unreadable, Hole, Empty, InMemory, InFile, Source
<1>5. ASSUME NEW a \in Nat, NEW m \in Nat \ {0}, a < r.size, a \div r.unit = at \div r.unit
      PROVE  ReadAt(file, r, a, m) = Fetch(file, x, Within(r, a), Clip(r, a, m))
  <2>1. ReadAt(file, r, a, m) = QcowRead(file, r, a, m)
    <3>1. Size(r) = r.size BY DEF Size
    <3>2. ~(a >= Size(r)) BY <1>1, <1>5, <3>1 DEF ClusterType
    <3> QED BY <3>2 DEF ReadAt
  <2>2. SecondLevel(file, r, a, 1) = e BY <1>2, <1>5 DEF e
  <2> QED BY <2>1, <2>2 DEF QcowRead, Fetch, Unreadable, Hole, Empty, InMemory, InFile, Source
<1> QED BY <1>4, <1>5 DEF HasSource, FromSource

LEMMA Qcow2Source ==
    ASSUME NEW file, FileType(file), NEW r, TwoLevels(r), r.format = "qcow2",
           NEW at \in Nat
    PROVE  HasSource(file, r, at)
<1> DEFINE e == SecondEntry(file, r, at \div r.unit, 1)
           x == IF e = Failure THEN Unreadable
                ELSE IF e[1].at % Sector = 1 \/ e[1].at < Sector THEN Hole
                ELSE IF e[1].flag = "packed"
                THEN InMemory(Unpack(ReadFrom(file, e[1].at, PackedWords), r.unit))
                ELSE InFile((e[1].at \div Sector) * Sector)
<1>1. ClusterType(r) /\ r.per \in Nat \ {0} /\ TableType(r.table) /\ r.unit \in Nat
  BY DEF TwoLevels, ClusterType
<1>2. \A a \in Nat : SecondLevel(file, r, a, 1) = SecondEntry(file, r, a \div r.unit, 1)
  BY <1>1, SecondLevelSame
<1>3. e = Failure \/ e[1].at \in Nat BY <1>1, SecondLevelByCluster
<1> HIDE DEF e
<1>4. SourceType(r, x)
  BY <1>1, <1>3, UnpackType, ReaderAssumption, ScaledType DEF SourceType, Unreadable, Hole, Empty, InMemory, InFile, Source
<1>5. ASSUME NEW a \in Nat, NEW m \in Nat \ {0}, a < r.size, a \div r.unit = at \div r.unit
      PROVE  ReadAt(file, r, a, m) = Fetch(file, x, Within(r, a), Clip(r, a, m))
  <2>1. ReadAt(file, r, a, m) = Qcow2Read(file, r, a, m)
    <3>1. Size(r) = r.size BY DEF Size
    <3>2. ~(a >= Size(r)) BY <1>1, <1>5, <3>1 DEF ClusterType
    <3> QED BY <3>2 DEF ReadAt
  <2>2. SecondLevel(file, r, a, 1) = e BY <1>2, <1>5 DEF e
  <2> QED BY <2>1, <2>2 DEF Qcow2Read, Fetch, Unreadable, Hole, Empty, InMemory, InFile, Source
<1> QED BY <1>4, <1>5 DEF HasSource, FromSource

LEMMA QedSource ==
    ASSUME NEW file, FileType(file), NEW r, TwoLevels(r), r.format = "qed",
           NEW at \in Nat
    PROVE  HasSource(file, r, at)
<1> DEFINE e == SecondEntry(file, r, at \div r.unit, 1)
           x == IF e = Failure THEN Unreadable
                ELSE IF e[1].at <= 1 THEN Hole ELSE InFile(e[1].at)
<1>1. ClusterType(r) /\ r.per \in Nat \ {0} /\ TableType(r.table) /\ r.unit \in Nat
  BY DEF TwoLevels, ClusterType
<1>2. \A a \in Nat : SecondLevel(file, r, a, 1) = SecondEntry(file, r, a \div r.unit, 1)
  BY <1>1, SecondLevelSame
<1>3. e = Failure \/ e[1].at \in Nat BY <1>1, SecondLevelByCluster
<1> HIDE DEF e
<1>4. SourceType(r, x)
  BY <1>1, <1>3, UnpackType DEF SourceType, Unreadable, Hole, Empty, InMemory, InFile, Source
<1>5. ASSUME NEW a \in Nat, NEW m \in Nat \ {0}, a < r.size, a \div r.unit = at \div r.unit
      PROVE  ReadAt(file, r, a, m) = Fetch(file, x, Within(r, a), Clip(r, a, m))
  <2>1. ReadAt(file, r, a, m) = QedRead(file, r, a, m)
    <3>1. Size(r) = r.size BY DEF Size
    <3>2. ~(a >= Size(r)) BY <1>1, <1>5, <3>1 DEF ClusterType
    <3> QED BY <3>2 DEF ReadAt
  <2>2. SecondLevel(file, r, a, 1) = e BY <1>2, <1>5 DEF e
  <2> QED BY <2>1, <2>2 DEF QedRead, Fetch, Unreadable, Hole, Empty, InMemory, InFile, Source
<1> QED BY <1>4, <1>5 DEF HasSource, FromSource

LEMMA Vmdk4Source ==
    ASSUME NEW file, FileType(file), NEW r, TwoLevels(r), r.format = "vmdk4",
           NEW at \in Nat
    PROVE  HasSource(file, r, at)
<1> DEFINE e == SecondEntry(file, r, at \div r.unit, Sector)
           x == IF e = Failure THEN Unreadable
                ELSE IF e[1].at = 0 \/ (r.zeroed /\ e[1].at = 1) THEN Hole
                ELSE InFile(e[1].at * Sector)
<1>1. ClusterType(r) /\ r.per \in Nat \ {0} /\ TableType(r.table) /\ r.unit \in Nat
  BY DEF TwoLevels, ClusterType
<1>2. \A a \in Nat : SecondLevel(file, r, a, Sector) = SecondEntry(file, r, a \div r.unit, Sector)
  BY <1>1, ReaderAssumption, SecondLevelSame
<1>3. e = Failure \/ e[1].at \in Nat BY <1>1, ReaderAssumption, SecondLevelByCluster
<1> HIDE DEF e
<1>4. SourceType(r, x)
  BY <1>1, <1>3, UnpackType, ReaderAssumption DEF SourceType, Unreadable, Hole, Empty, InMemory, InFile, Source
<1>5. ASSUME NEW a \in Nat, NEW m \in Nat \ {0}, a < r.size, a \div r.unit = at \div r.unit
      PROVE  ReadAt(file, r, a, m) = Fetch(file, x, Within(r, a), Clip(r, a, m))
  <2>1. ReadAt(file, r, a, m) = Vmdk4Read(file, r, a, m)
    <3>1. Size(r) = r.size BY DEF Size
    <3>2. ~(a >= Size(r)) BY <1>1, <1>5, <3>1 DEF ClusterType
    <3> QED BY <3>2 DEF ReadAt
  <2>2. SecondLevel(file, r, a, Sector) = e BY <1>2, <1>5 DEF e
  <2> QED BY <2>1, <2>2 DEF Vmdk4Read, Fetch, Unreadable, Hole, Empty, InMemory, InFile, Source
<1> QED BY <1>4, <1>5 DEF HasSource, FromSource

LEMMA Vmdk4CompressedSource ==
    ASSUME NEW file, FileType(file), NEW r, TwoLevels(r), r.format = "vmdk4-compressed",
           NEW at \in Nat
    PROVE  HasSource(file, r, at)
<1> DEFINE e == SecondEntry(file, r, at \div r.unit, Sector)
           x == IF e = Failure THEN Unreadable
                ELSE IF e[1].at = 0 THEN Hole
                ELSE InMemory(CompressedGrain(file, r, e[1].at * Sector))
<1>1. ClusterType(r) /\ r.per \in Nat \ {0} /\ TableType(r.table) /\ r.unit \in Nat
  BY DEF TwoLevels, ClusterType
<1>2. \A a \in Nat : SecondLevel(file, r, a, Sector) = SecondEntry(file, r, a \div r.unit, Sector)
  BY <1>1, ReaderAssumption, SecondLevelSame
<1>3. e = Failure \/ e[1].at \in Nat BY <1>1, ReaderAssumption, SecondLevelByCluster
<1> HIDE DEF e
<1>4. SourceType(r, x)
  BY <1>1, <1>3, UnpackType, GrainType DEF SourceType, Unreadable, Hole, Empty, InMemory, InFile, Source
<1>5. ASSUME NEW a \in Nat, NEW m \in Nat \ {0}, a < r.size, a \div r.unit = at \div r.unit
      PROVE  ReadAt(file, r, a, m) = Fetch(file, x, Within(r, a), Clip(r, a, m))
  <2>1. ReadAt(file, r, a, m) = Vmdk4CompressedRead(file, r, a, m)
    <3>1. Size(r) = r.size BY DEF Size
    <3>2. ~(a >= Size(r)) BY <1>1, <1>5, <3>1 DEF ClusterType
    <3> QED BY <3>2 DEF ReadAt
  <2>2. SecondLevel(file, r, a, Sector) = e BY <1>2, <1>5 DEF e
  <2> QED BY <2>1, <2>2 DEF Vmdk4CompressedRead, Fetch, Unreadable, Hole, Empty, InMemory, InFile, Source
<1> QED BY <1>4, <1>5 DEF HasSource, FromSource

LEMMA SeSparseSource ==
    ASSUME NEW file, FileType(file), NEW r, TwoLevels(r), r.format = "sesparse",
           NEW at \in Nat
    PROVE  HasSource(file, r, at)
<1> DEFINE first == (at \div r.unit) \div r.per
           e == SecondEntry(file, r, at \div r.unit, 1)
           x == IF \/ first < Len(r.table) /\ r.table[first + 1].flag \notin {"0", "3"}
                   \/ e # Failure /\ e[1].flag # "3"
                THEN Hole
                ELSE IF e = Failure THEN Unreadable ELSE InFile(e[1].at)
<1>1. ClusterType(r) /\ r.per \in Nat \ {0} /\ TableType(r.table) /\ r.unit \in Nat
  BY DEF TwoLevels, ClusterType
<1>2. \A a \in Nat : SecondLevel(file, r, a, 1) = SecondEntry(file, r, a \div r.unit, 1)
  BY <1>1, SecondLevelSame
<1>3. e = Failure \/ e[1].at \in Nat BY <1>1, SecondLevelByCluster
<1> HIDE DEF e
<1>4. SourceType(r, x)
  BY <1>1, <1>3, UnpackType DEF SourceType, Unreadable, Hole, Empty, InMemory, InFile, Source, Zero, Word
<1>5. ASSUME NEW a \in Nat, NEW m \in Nat \ {0}, a < r.size, a \div r.unit = at \div r.unit
      PROVE  ReadAt(file, r, a, m) = Fetch(file, x, Within(r, a), Clip(r, a, m))
  <2>1. ReadAt(file, r, a, m) = SeSparseRead(file, r, a, m)
    <3>1. Size(r) = r.size BY DEF Size
    <3>2. ~(a >= Size(r)) BY <1>1, <1>5, <3>1 DEF ClusterType
    <3> QED BY <3>2 DEF ReadAt
  <2>2. SecondLevel(file, r, a, 1) = e BY <1>2, <1>5 DEF e
  <2>3. a \div (r.unit * r.per) = first
    <3>1. a \div (r.unit * r.per) = (a \div r.unit) \div r.per BY <1>1, DivisionTwice DEF ClusterType
    <3> QED BY <1>5, <3>1
  <2>4. <<Zero>> # Failure /\ <<Zero>>[1].flag # "3"
    <3>1. Zero.kind # "failure" /\ Zero.flag # "3" BY DEF Zero, Word
    <3>2. Failure[1].kind = "failure" BY DEF Failure, Word
    <3> QED BY <3>1, <3>2
  <2> DEFINE beyond == first < Len(r.table) /\ r.table[first + 1].flag \notin {"0", "3"}
             d == IF beyond THEN <<Zero>> ELSE e
             k == Clip(r, a, m)
             w == Within(r, a)
  <2>5. SeSparseRead(file, r, a, m) =
           IF d = Failure THEN Failure
           ELSE IF d[1].flag # "3" THEN Zeros(k) ELSE ReadFrom(file, d[1].at + w, k)
    BY <2>2, <2>3 DEF SeSparseRead
  <2> HIDE DEF first
  <2>6. CASE beyond
    <3>1. d = <<Zero>> /\ x = Hole BY <2>6
    <3>2. SeSparseRead(file, r, a, m) = Zeros(k) BY <2>4, <2>5, <3>1
    <3> QED BY <2>1, <3>1, <3>2 DEF Fetch, Hole, Source
  <2>7. CASE ~beyond
    <3>1. d = e BY <2>7
    <3> QED BY <2>1, <2>5, <2>7, <3>1 DEF Fetch, Unreadable, Hole, InFile, Source
  <2> QED BY <2>6, <2>7
<1> QED BY <1>4, <1>5 DEF HasSource, FromSource

LEMMA Vmdk3Source ==
    ASSUME NEW file, FileType(file), NEW r, OneLevel(r), r.format = "vmdk3",
           NEW at \in Nat
    PROVE  HasSource(file, r, at)
<1> DEFINE e == FirstEntry(r, at \div r.unit)
           x == IF e.at = 0 THEN Hole ELSE InFile(e.at * Sector)
<1>1. ClusterType(r) /\ TableType(r.table) /\ r.unit \in Nat BY DEF OneLevel, ClusterType
<1>2. \A a \in Nat : FirstLevel(r, a) = FirstEntry(r, a \div r.unit)
  BY <1>1, FirstLevelByCluster
<1>3. e.at \in Nat BY <1>1, FirstLevelByCluster
<1> HIDE DEF e
<1>4. SourceType(r, x)
  BY <1>1, <1>3, ReaderAssumption DEF SourceType, Unreadable, Hole, Empty, InMemory, InFile, Source
<1>5. ASSUME NEW a \in Nat, NEW m \in Nat \ {0}, a < r.size, a \div r.unit = at \div r.unit
      PROVE  ReadAt(file, r, a, m) = Fetch(file, x, Within(r, a), Clip(r, a, m))
  <2>1. ReadAt(file, r, a, m) = Vmdk3Read(file, r, a, m)
    <3>1. Size(r) = r.size BY DEF Size
    <3>2. ~(a >= Size(r)) BY <1>1, <1>5, <3>1 DEF ClusterType
    <3> QED BY <3>2 DEF ReadAt
  <2>2. FirstLevel(r, a) = e BY <1>2, <1>5 DEF e
  <2> QED BY <1>5, <2>1, <2>2 DEF Vmdk3Read, Fetch, Unreadable, Hole, Empty, InMemory, InFile, Source
<1> QED BY <1>4, <1>5 DEF HasSource, FromSource

LEMMA VdiSource ==
    ASSUME NEW file, FileType(file), NEW r, OneLevel(r), r.format = "vdi",
           r.base \in Nat, NEW at \in Nat
    PROVE  HasSource(file, r, at)
<1> DEFINE e == FirstEntry(r, at \div r.unit)
           x == IF e = Zero \/ e.flag \in {"unallocated", "discarded"} THEN Hole
                ELSE InFile(r.base + e.at * r.unit)
<1>1. ClusterType(r) /\ TableType(r.table) /\ r.unit \in Nat BY DEF OneLevel, ClusterType
<1>2. \A a \in Nat : FirstLevel(r, a) = FirstEntry(r, a \div r.unit)
  BY <1>1, FirstLevelByCluster
<1>3. e.at \in Nat BY <1>1, FirstLevelByCluster
<1> HIDE DEF e
<1>4. SourceType(r, x)
  BY <1>1, <1>3 DEF SourceType, Unreadable, Hole, Empty, InMemory, InFile, Source
<1>5. ASSUME NEW a \in Nat, NEW m \in Nat \ {0}, a < r.size, a \div r.unit = at \div r.unit
      PROVE  ReadAt(file, r, a, m) = Fetch(file, x, Within(r, a), Clip(r, a, m))
  <2>1. ReadAt(file, r, a, m) = VdiRead(file, r, a, m)
    <3>1. Size(r) = r.size BY DEF Size
    <3>2. ~(a >= Size(r)) BY <1>1, <1>5, <3>1 DEF ClusterType
    <3> QED BY <3>2 DEF ReadAt
  <2>2. FirstLevel(r, a) = e BY <1>2, <1>5 DEF e
  <2> QED BY <1>5, <2>1, <2>2 DEF VdiRead, Fetch, Unreadable, Hole, Empty, InMemory, InFile, Source
<1> QED BY <1>4, <1>5 DEF HasSource, FromSource

LEMMA ParallelsSource ==
    ASSUME NEW file, FileType(file), NEW r, OneLevel(r), r.format = "parallels",
           NEW at \in Nat
    PROVE  HasSource(file, r, at)
<1> DEFINE e == FirstEntry(r, at \div r.unit)
           x == IF at \div r.unit >= Len(r.table) THEN Empty
                ELSE IF e.at = 0 THEN Hole
                ELSE InFile(e.at * (IF r.extended THEN r.unit ELSE Sector))
<1>1. ClusterType(r) /\ TableType(r.table) /\ r.unit \in Nat BY DEF OneLevel, ClusterType
<1>2. \A a \in Nat : FirstLevel(r, a) = FirstEntry(r, a \div r.unit)
  BY <1>1, FirstLevelByCluster
<1>3. e.at \in Nat BY <1>1, FirstLevelByCluster
<1> HIDE DEF e
<1>4. SourceType(r, x)
  BY <1>1, <1>3, ReaderAssumption DEF SourceType, Unreadable, Hole, Empty, InMemory, InFile, Source
<1>5. ASSUME NEW a \in Nat, NEW m \in Nat \ {0}, a < r.size, a \div r.unit = at \div r.unit
      PROVE  ReadAt(file, r, a, m) = Fetch(file, x, Within(r, a), Clip(r, a, m))
  <2>1. ReadAt(file, r, a, m) = ParallelsRead(file, r, a, m)
    <3>1. Size(r) = r.size BY DEF Size
    <3>2. ~(a >= Size(r)) BY <1>1, <1>5, <3>1 DEF ClusterType
    <3> QED BY <3>2 DEF ReadAt
  <2>2. FirstLevel(r, a) = e BY <1>2, <1>5 DEF e
  <2> QED BY <1>5, <2>1, <2>2 DEF ParallelsRead, Fetch, Unreadable, Hole, Empty, InMemory, InFile, Source
<1> QED BY <1>4, <1>5 DEF HasSource, FromSource

LEMMA BochsSource ==
    ASSUME NEW file, FileType(file), NEW r, OneLevel(r), r.format = "bochs",
           r.base \in Nat, r.bitmap \in Nat, NEW at \in Nat
    PROVE  HasSource(file, r, at)
<1> DEFINE e == FirstEntry(r, at \div r.unit)
           x == IF e = Zero \/ e.flag = "unallocated" THEN Hole
                ELSE InFile(r.base + e.at * (r.bitmap + r.unit) + r.bitmap)
<1>1. ClusterType(r) /\ TableType(r.table) /\ r.unit \in Nat BY DEF OneLevel, ClusterType
<1>2. \A a \in Nat : FirstLevel(r, a) = FirstEntry(r, a \div r.unit)
  BY <1>1, FirstLevelByCluster
<1>3. e.at \in Nat BY <1>1, FirstLevelByCluster
<1> HIDE DEF e
<1>4. SourceType(r, x)
  BY <1>1, <1>3 DEF SourceType, Unreadable, Hole, Empty, InMemory, InFile, Source
<1>5. ASSUME NEW a \in Nat, NEW m \in Nat \ {0}, a < r.size, a \div r.unit = at \div r.unit
      PROVE  ReadAt(file, r, a, m) = Fetch(file, x, Within(r, a), Clip(r, a, m))
  <2>1. ReadAt(file, r, a, m) = BochsRead(file, r, a, m)
    <3>1. Size(r) = r.size BY DEF Size
    <3>2. ~(a >= Size(r)) BY <1>1, <1>5, <3>1 DEF ClusterType
    <3> QED BY <3>2 DEF ReadAt
  <2>2. FirstLevel(r, a) = e BY <1>2, <1>5 DEF e
  <2> QED BY <1>5, <2>1, <2>2 DEF BochsRead, Fetch, Unreadable, Hole, Empty, InMemory, InFile, Source
<1> QED BY <1>4, <1>5 DEF HasSource, FromSource

LEMMA VhdSource ==
    ASSUME NEW file, FileType(file), NEW r, OneLevel(r), r.format = "vhd",
           r.bitmap \in Nat, NEW at \in Nat
    PROVE  HasSource(file, r, at)
<1> DEFINE e == FirstEntry(r, at \div r.unit)
           x == IF e = Zero \/ e.flag = "unallocated" THEN Hole
                ELSE InFile(e.at * Sector + r.bitmap)
<1>1. ClusterType(r) /\ TableType(r.table) /\ r.unit \in Nat BY DEF OneLevel, ClusterType
<1>2. \A a \in Nat : FirstLevel(r, a) = FirstEntry(r, a \div r.unit)
  BY <1>1, FirstLevelByCluster
<1>3. e.at \in Nat BY <1>1, FirstLevelByCluster
<1> HIDE DEF e
<1>4. SourceType(r, x)
  BY <1>1, <1>3, ReaderAssumption DEF SourceType, Unreadable, Hole, Empty, InMemory, InFile, Source
<1>5. ASSUME NEW a \in Nat, NEW m \in Nat \ {0}, a < r.size, a \div r.unit = at \div r.unit
      PROVE  ReadAt(file, r, a, m) = Fetch(file, x, Within(r, a), Clip(r, a, m))
  <2>1. ReadAt(file, r, a, m) = VhdRead(file, r, a, m)
    <3>1. Size(r) = r.size BY DEF Size
    <3>2. ~(a >= Size(r)) BY <1>1, <1>5, <3>1 DEF ClusterType
    <3> QED BY <3>2 DEF ReadAt
  <2>2. FirstLevel(r, a) = e BY <1>2, <1>5 DEF e
  <2> QED BY <1>5, <2>1, <2>2 DEF VhdRead, Fetch, Unreadable, Hole, Empty, InMemory, InFile, Source
<1> QED BY <1>4, <1>5 DEF HasSource, FromSource

LEMMA VhdxSource ==
    ASSUME NEW file, FileType(file), NEW r, OneLevel(r), r.format = "vhdx",
           NEW at \in Nat
    PROVE  HasSource(file, r, at)
<1> DEFINE e == FirstEntry(r, at \div r.unit)
           x == IF e.flag # "fully-present" THEN Hole ELSE InFile(e.at)
<1>1. ClusterType(r) /\ TableType(r.table) /\ r.unit \in Nat BY DEF OneLevel, ClusterType
<1>2. \A a \in Nat : FirstLevel(r, a) = FirstEntry(r, a \div r.unit)
  BY <1>1, FirstLevelByCluster
<1>3. e.at \in Nat BY <1>1, FirstLevelByCluster
<1> HIDE DEF e
<1>4. SourceType(r, x)
  BY <1>1, <1>3 DEF SourceType, Unreadable, Hole, Empty, InMemory, InFile, Source
<1>5. ASSUME NEW a \in Nat, NEW m \in Nat \ {0}, a < r.size, a \div r.unit = at \div r.unit
      PROVE  ReadAt(file, r, a, m) = Fetch(file, x, Within(r, a), Clip(r, a, m))
  <2>1. ReadAt(file, r, a, m) = VhdxRead(file, r, a, m)
    <3>1. Size(r) = r.size BY DEF Size
    <3>2. ~(a >= Size(r)) BY <1>1, <1>5, <3>1 DEF ClusterType
    <3> QED BY <3>2 DEF ReadAt
  <2>2. FirstLevel(r, a) = e BY <1>2, <1>5 DEF e
  <2> QED BY <1>5, <2>1, <2>2 DEF VhdxRead, Fetch, Unreadable, Hole, Empty, InMemory, InFile, Source
<1> QED BY <1>4, <1>5 DEF HasSource, FromSource

LEMMA CloopSource ==
    ASSUME NEW file, FileType(file), NEW r, ClusterType(r), r.format = "cloop",
           NEW at \in Nat
    PROVE  HasSource(file, r, at)
<1> DEFINE b == (at \div r.unit) + 1
           packed == r.table[b + 1].at - r.table[b].at
           stream == ReadWhole(file, r.table[b].at, packed)
           x == IF packed > ZlibBound(r.unit) \/ stream = Failure THEN Unreadable
                ELSE InMemory(Unpack(stream, r.unit))
<1>1. r.unit \in Nat /\ r.size \in Nat BY DEF ClusterType
<1>2. ASSUME NEW a \in Nat, NEW m \in Nat \ {0}, a < r.size, a \div r.unit = at \div r.unit
      PROVE  ReadAt(file, r, a, m) = Fetch(file, x, Within(r, a), Clip(r, a, m))
  <2>1. Size(r) = r.size BY DEF Size
  <2>2. ~(a >= Size(r)) BY <1>1, <1>2, <2>1
  <2>3. ReadAt(file, r, a, m) = CloopRead(file, r, a, m) BY <2>2 DEF ReadAt
  <2>4. (a \div r.unit) + 1 = b BY <1>2
  <2> QED BY <2>3, <2>4 DEF CloopRead, Fetch, Unreadable, InMemory, Source
<1> HIDE DEF packed, stream
<1>3. SourceType(r, x)
  BY <1>1, UnpackType DEF SourceType, Unreadable, InMemory, Source
<1> QED BY <1>2, <1>3 DEF HasSource, FromSource

LEMMA UbiSource ==
    ASSUME NEW file, FileType(file), NEW r, ClusterType(r), r.format = "ubi",
           \A b \in DOMAIN r.blocks : r.blocks[b] \in Nat, NEW at \in Nat
    PROVE  HasSource(file, r, at)
<1> DEFINE b == at \div r.unit
           x == IF b \in DOMAIN r.blocks THEN InFile(r.blocks[b]) ELSE Hole
<1>1. SourceType(r, x) BY DEF SourceType, InFile, Hole, Source
<1>2. ASSUME NEW a \in Nat, NEW m \in Nat \ {0}, a < r.size, a \div r.unit = at \div r.unit
      PROVE  ReadAt(file, r, a, m) = Fetch(file, x, Within(r, a), Clip(r, a, m))
  <2>1. Size(r) = r.size BY DEF Size
  <2>2. ~(a >= Size(r)) BY <1>2, <2>1 DEF ClusterType
  <2>3. ReadAt(file, r, a, m) = UbiRead(file, r, a, m) BY <2>2 DEF ReadAt
  <2> QED BY <1>2, <2>3 DEF UbiRead, Fetch, InFile, Hole, Source
<1> QED BY <1>1, <1>2 DEF HasSource, FromSource
-----------------------------------------------------------------------------
(* The other readers: pieces of their own lengths. *)

(* Where words come from a place in the file. *)
LEMMA FileIsWordwise ==
    ASSUME NEW file, FileType(file), NEW r, NEW at \in Nat, Size(r) \in Nat,
           NEW n \in Nat \ {0}, NEW k \in 1..n, at + k <= Size(r), NEW p \in Nat,
           ReadAt(file, r, at, n) = ReadFrom(file, p, k),
           \A j \in 1..k : ReadAt(file, r, at + (j - 1), 1) = ReadFrom(file, p + (j - 1), 1)
    PROVE  /\ Wordwise(file, r, at, n, ReadAt(file, r, at, n))
           /\ Firm(file, r, at, ReadAt(file, r, at, n))
<1> DEFINE s == ReadAt(file, r, at, n)
           o == ReadAt(file, r, at, 1)
<1>1. FilePiece(file, p, k, s) BY PieceOfFile
<1>2. o = ReadFrom(file, p, 1)
  <2>1. 1 \in 1..k /\ at + (1 - 1) = at /\ p + (1 - 1) = p OBVIOUS
  <2>2. ReadAt(file, r, at + (1 - 1), 1) = ReadFrom(file, p + (1 - 1), 1) BY <2>1
  <2> QED BY <2>1, <2>2
<1> HIDE DEF s, o
<1>3. WordSeq(s) /\ Len(s) \in 0..k BY <1>1 DEF FilePiece, Piece
<1>4. \A j \in 1..Len(s) : j \in 1..k BY <1>3
<1>5. \A j \in 1..Len(s) : ReadAt(file, r, at + (j - 1), 1) = <<s[j]>>
  BY <1>1, <1>4 DEF FilePiece
<1>6. Len(s) \in 0..n /\ at + Len(s) <= Size(r) BY <1>3
<1>7. Wordwise(file, r, at, n, s) BY <1>3, <1>5, <1>6 DEF Wordwise, Piece
<1>8. s = <<>> => o = s BY <1>1, <1>2 DEF FilePiece
<1>9. s = Failure => o = s
  <2>1. s = Failure => Len(s) = 1 /\ s = <<s[1]>> BY DEF Failure
  <2>2. 1 \in 1..1 /\ p + (1 - 1) = p OBVIOUS
  <2>3. s = Failure => ReadFrom(file, p + (1 - 1), 1) = <<s[1]>> BY <1>1, <2>1, <2>2 DEF FilePiece
  <2> QED BY <1>2, <2>1, <2>2, <2>3
<1>10. Firm(file, r, at, s) BY <1>8, <1>9 DEF Firm, o
<1> QED BY <1>7, <1>10 DEF s

LEMMA SliceIsWordwise ==
    ASSUME NEW file, FileType(file), NEW r, r.format = "slice", r.start \in Nat, r.length \in Nat,
           NEW at \in Nat, at < Size(r), NEW n \in Nat \ {0}
    PROVE  /\ Wordwise(file, r, at, n, ReadAt(file, r, at, n))
           /\ Firm(file, r, at, ReadAt(file, r, at, n))
<1> DEFINE k == Min({n, r.length - at})
           p == r.start + at
<1>1. Size(r) = r.length BY DEF Size
<1>2. r.length - at \in Nat \ {0} BY <1>1
<1>3. k \in 1..n /\ at + k <= r.length
  <2>1. k \in Nat /\ k <= n /\ k <= r.length - at /\ (k = n \/ k = r.length - at) BY <1>2, MinOfTwo
  <2> HIDE DEF k
  <2> QED BY <1>2, <2>1
<1>4. \A a \in Nat, m \in Nat : a < r.length =>
         ReadAt(file, r, a, m) = ReadFrom(file, r.start + a, Min({m, r.length - a}))
  BY <1>1 DEF ReadAt, ReadSlice
<1>5. ReadAt(file, r, at, n) = ReadFrom(file, p, k) BY <1>1, <1>4
<1> HIDE DEF k
<1>6. ASSUME NEW j \in 1..k PROVE ReadAt(file, r, at + (j - 1), 1) = ReadFrom(file, p + (j - 1), 1)
  <2> DEFINE a == at + (j - 1)
  <2>1. a \in Nat /\ a < r.length /\ r.length - a \in Nat \ {0} /\ r.start + a = p + (j - 1)
    BY <1>3
  <2> HIDE DEF a
  <2>2. Min({1, r.length - a}) = 1 BY <2>1, MinOfTwo
  <2>3. ReadAt(file, r, a, 1) = ReadFrom(file, r.start + a, 1) BY <1>4, <2>1, <2>2
  <2> QED BY <2>1, <2>3 DEF a
<1> HIDE DEF p
<1>7. p \in Nat BY DEF p
<1> QED BY <1>1, <1>3, <1>5, <1>6, <1>7, FileIsWordwise

LEMMA FixedIsWordwise ==
    ASSUME NEW file, FileType(file), NEW r, r.format = "vhd-fixed", r.size \in Nat,
           NEW at \in Nat, at < Size(r), NEW n \in Nat \ {0}
    PROVE  /\ Wordwise(file, r, at, n, ReadAt(file, r, at, n))
           /\ Firm(file, r, at, ReadAt(file, r, at, n))
<1> DEFINE k == Min({n, r.size - at})
<1>1. Size(r) = r.size BY DEF Size
<1>2. r.size - at \in Nat \ {0} BY <1>1
<1>3. k \in 1..n /\ at + k <= r.size
  <2>1. k \in Nat /\ k <= n /\ k <= r.size - at /\ (k = n \/ k = r.size - at) BY <1>2, MinOfTwo
  <2> HIDE DEF k
  <2> QED BY <1>2, <2>1
<1>4. \A a \in Nat, m \in Nat : a < r.size =>
         ReadAt(file, r, a, m) = ReadFrom(file, a, Min({m, r.size - a}))
  BY <1>1 DEF ReadAt, VhdFixedRead
<1>5. ReadAt(file, r, at, n) = ReadFrom(file, at, k) BY <1>1, <1>4
<1> HIDE DEF k
<1>6. ASSUME NEW j \in 1..k PROVE ReadAt(file, r, at + (j - 1), 1) = ReadFrom(file, at + (j - 1), 1)
  <2> DEFINE a == at + (j - 1)
  <2>1. a \in Nat /\ a < r.size /\ r.size - a \in Nat \ {0} BY <1>3
  <2> HIDE DEF a
  <2>2. Min({1, r.size - a}) = 1 BY <2>1, MinOfTwo
  <2>3. ReadAt(file, r, a, 1) = ReadFrom(file, a, 1) BY <1>4, <2>1, <2>2
  <2> QED BY <2>3 DEF a
<1> QED BY <1>1, <1>3, <1>5, <1>6, FileIsWordwise

LEMMA BytesIsWordwise ==
    ASSUME NEW file, NEW r, r.format = "bytes", WordSeq(r.words),
           NEW at \in Nat, at < Size(r), NEW n \in Nat \ {0}
    PROVE  /\ Wordwise(file, r, at, n, ReadAt(file, r, at, n))
           /\ Firm(file, r, at, ReadAt(file, r, at, n))
<1> DEFINE c == r.words
           e == Min({at + n, Len(c)})
           k == e - at
           s == ReadAt(file, r, at, n)
<1>1. Size(r) = Len(c) /\ Len(c) \in Nat BY DEF Size, WordSeq
<1>2. k \in 1..n /\ at + k <= Len(c) /\ e = at + k
  <2>1. e \in Nat /\ e <= at + n /\ e <= Len(c) /\ (e = at + n \/ e = Len(c)) BY <1>1, MinOfTwo
  <2> HIDE DEF e, c
  <2> QED BY <1>1, <2>1
<1>3. ASSUME NEW a \in Nat, NEW m \in Nat, a < Len(c)
      PROVE  ReadAt(file, r, a, m) = SubSeq(c, a + 1, Min({a + m, Len(c)}))
  <2>1. ~(a >= Size(r)) BY <1>1, <1>3
  <2>2. ReadAt(file, r, a, m) = BytesRead(r, a, m) BY <2>1 DEF ReadAt
  <2> QED BY <2>2 DEF BytesRead
<1>4. s = SubSeq(c, at + 1, at + k) BY <1>1, <1>2, <1>3
<1> HIDE DEF k, s, e
<1>5. Part(s, c, at, k) BY <1>1, <1>2, <1>4, PartIsSeq
<1>6. ASSUME NEW j \in 1..k PROVE ReadAt(file, r, at + (j - 1), 1) = <<s[j]>>
  <2> DEFINE a == at + (j - 1)
             o == SubSeq(c, a + 1, a + 1)
  <2>1. a \in Nat /\ a < Len(c) /\ a + 1 <= Len(c) /\ a + 1 = at + j BY <1>1, <1>2
  <2> HIDE DEF a
  <2>2. Min({a + 1, Len(c)}) = a + 1
    <3> DEFINE b == a + 1
    <3>1. b \in Nat /\ b <= Len(c) BY <2>1
    <3> HIDE DEF b, c
    <3>2. Min({b, Len(c)}) <= b /\ (Min({b, Len(c)}) = b \/ Min({b, Len(c)}) = Len(c))
      BY <1>1, <3>1, MinOfTwo
    <3>3. Min({b, Len(c)}) = b BY <1>1, <3>1, <3>2
    <3> QED BY <3>3 DEF b
  <2>3. ReadAt(file, r, a, 1) = o BY <1>3, <2>1, <2>2
  <2>4. Part(o, c, a, 1) BY <2>1, PartIsSeq
  <2> HIDE DEF o
  <2>5. WordSeq(o) /\ Len(o) = 1 /\ o[1] = c[at + j] BY <2>1, <2>4 DEF Part
  <2>6. o = <<o[1]>> BY <2>5, OneIsSeq
  <2>7. s[j] = c[at + j] BY <1>5 DEF Part
  <2> QED BY <2>3, <2>5, <2>6, <2>7 DEF a
<1>7. WordSeq(s) /\ Len(s) = k BY <1>5 DEF Part
<1>8. Wordwise(file, r, at, n, s) BY <1>1, <1>2, <1>6, <1>7 DEF Wordwise, Piece
<1>9. Firm(file, r, at, s)
  <2>1. s # <<>> BY <1>2, <1>7
  <2>2. s = Failure => s = <<s[1]>> BY DEF Failure
  <2>3. 1 \in 1..k /\ at + (1 - 1) = at BY <1>2
  <2>4. ReadAt(file, r, at + (1 - 1), 1) = <<s[1]>> BY <1>6, <2>3
  <2> QED BY <2>1, <2>2, <2>3, <2>4 DEF Firm
<1> QED BY <1>8, <1>9 DEF s

(* A word of a piece that lies in one cluster of an ewf image. *)
LEMMA SpanRead ==
    ASSUME NEW file, FileType(file), NEW a \in Nat, NEW b \in Nat, ~(b < a)
    PROVE  ReadWhole(file, a, b - a) = Failure \/ WordSeq(ReadWhole(file, a, b - a))
<1> DEFINE l == b - a
<1>1. l \in Nat OBVIOUS
<1> HIDE DEF l
<1>2. FilePiece(file, a, l, ReadFrom(file, a, l)) BY <1>1, PieceOfFile
<1>3. WordSeq(ReadFrom(file, a, l)) BY <1>2 DEF FilePiece, Piece
<1>4. ReadWhole(file, a, l) = Failure \/ WordSeq(ReadWhole(file, a, l)) BY <1>3 DEF ReadWhole
<1> QED BY <1>4 DEF l

LEMMA EwfIsWordwise ==
    ASSUME NEW file, FileType(file), NEW r, r.format = "ewf", EwfType(r),
           NEW at \in Nat, at < Size(r), NEW n \in Nat \ {0}
    PROVE  /\ Wordwise(file, r, at, n, ReadAt(file, r, at, n))
           /\ ReadAt(file, r, at, n) # <<>>
           /\ FailsAtAWord(file, r, ReadAt(file, r, at, n))
<1> DEFINE c == (at \div r.unit) + 1
           start == r.base + r.table[c].at
           end == IF c < Len(r.table) THEN r.base + r.table[c + 1].at ELSE r.end
           raw == ReadWhole(file, start, end - start)
           k == Clip(r, at, n)
           w == Within(r, at)
           s == ReadAt(file, r, at, n)
           bad == c > Len(r.table) \/ end < start \/ end - start > r.unit + PackedWords
                  \/ raw = Failure
           packed == r.table[c].flag = "packed"
           content == IF packed THEN Unpack(raw, r.unit) ELSE raw
           get(x, l) == IF bad THEN Failure
                        ELSE IF packed THEN Cut(Unpack(raw, r.unit), x, l)
                        ELSE IF Len(raw) < x + l THEN Failure
                        ELSE Cut(raw, x, l)
<1>1. Size(r) = r.size /\ r.size \in Nat /\ r.unit \in Nat \ {0} BY DEF Size, EwfType, ClusterType
<1>2. InCluster(r, at, n, k) BY <1>1, ClipInCluster DEF EwfType
<1>3. ASSUME NEW a \in Nat, NEW m \in Nat, a < r.size, a \div r.unit = at \div r.unit
      PROVE  ReadAt(file, r, a, m) = get(Within(r, a), Clip(r, a, m))
  <2>1. ~(a >= Size(r)) BY <1>1, <1>3
  <2>2. ReadAt(file, r, a, m) = EwfRead(file, r, a, m) BY <2>1 DEF ReadAt
  <2>3. (a \div r.unit) + 1 = c BY <1>3
  <2> QED BY <2>2, <2>3, SMTT(30) DEF EwfRead
<1>4. raw = Failure \/ bad \/ WordSeq(raw)
  <2> SUFFICES ASSUME ~bad PROVE raw = Failure \/ WordSeq(raw) OBVIOUS
  <2>1. ~(c > Len(r.table)) /\ ~(end < start) OBVIOUS
  <2> DEFINE q == at \div r.unit
             here == r.table[c].at
             next == r.table[c + 1].at
  <2>2. q \in Nat /\ c = q + 1 BY <1>1, Division
  <2>3. Len(r.table) \in Nat /\ r.base \in Nat /\ r.end \in Nat /\ TableType(r.table)
    BY DEF EwfType, TableType, WordSeq
  <2>4. start = r.base + here /\ end = IF c < Len(r.table) THEN r.base + next ELSE r.end OBVIOUS
  <2> HIDE DEF bad, raw, q, c, start, end
  <2>5. here \in Nat
    <3>1. q < Len(r.table) BY <2>1, <2>2, <2>3
    <3>2. r.table[q + 1].at \in Nat BY <2>2, <2>3, <3>1, EntryType
    <3> QED BY <2>2, <3>2
  <2>6. c < Len(r.table) => next \in Nat
    <3>1. c \in Nat BY <2>2
    <3> QED BY <2>3, <3>1, EntryType
  <2> HIDE DEF here, next
  <2>7. start \in Nat BY <2>3, <2>4, <2>5
  <2>8. end \in Nat
    <3>1. CASE c < Len(r.table)
      <4>1. end = r.base + next /\ next \in Nat BY <2>4, <2>6, <3>1
      <4> QED BY <2>3, <4>1
    <3>2. CASE ~(c < Len(r.table)) BY <2>3, <2>4, <3>2
    <3> QED BY <3>1, <3>2
  <2> QED BY <2>1, <2>7, <2>8, SpanRead DEF raw
<1>5. k \in 1..n /\ at + k <= r.size /\ w \in Nat /\ w + k <= r.unit BY <1>2 DEF InCluster
<1>6. s = get(w, k) BY <1>1, <1>3
<1> HIDE DEF start, end, raw, packed, w, k, s, c
<1>7. ASSUME NEW j \in 1..k
      PROVE  ReadAt(file, r, at + (j - 1), 1) = get(w + (j - 1), 1)
  <2> DEFINE a == at + (j - 1)
  <2>1. /\ a \in Nat /\ a < r.size /\ a \div r.unit = at \div r.unit
        /\ Within(r, a) = w + (j - 1) /\ Clip(r, a, 1) = 1
    BY <1>2 DEF InCluster, w
  <2> HIDE DEF a, bad
  <2>2. ReadAt(file, r, a, 1) = get(Within(r, a), Clip(r, a, 1)) BY <1>3, <2>1
  <2> QED BY <2>1, <2>2 DEF a
<1> HIDE DEF bad
<1>8. CASE s = Failure
  <2>1. Wordwise(file, r, at, n, s) /\ s # <<>> BY <1>8 DEF Wordwise, Failure
  <2>2. \E j \in 1..k : get(w + (j - 1), 1) = Failure
    <3>1. CASE bad BY <1>5, <3>1
    <3>2. CASE ~bad /\ packed
      <4> DEFINE d == Unpack(raw, r.unit)
      <4>1. Cut(d, w, k) = Failure BY <1>6, <1>8, <3>2
      <4>2. d # Failure => WordSeq(d) /\ Len(d) = r.unit BY <1>1, UnpackType
      <4> HIDE DEF d
      <4>3. d = Failure
        <5> SUFFICES ASSUME d # Failure PROVE FALSE OBVIOUS
        <5>1. WordSeq(Cut(d, w, k)) BY <1>5, <4>2, CutPiece
        <5> QED BY <4>1, <5>1, NoFailure
      <4>4. Cut(d, w + (1 - 1), 1) = Failure BY <4>3 DEF Cut
      <4>5. get(w + (1 - 1), 1) = Failure BY <3>2, <4>4 DEF d
      <4>6. 1 \in 1..k BY <1>5
      <4> QED BY <4>5, <4>6
    <3>3. CASE ~bad /\ ~packed
      <4>1. WordSeq(raw) /\ raw # Failure BY <1>4, <3>3 DEF bad
      <4>2. Len(raw) \in Nat BY <4>1 DEF WordSeq
      <4>3. Len(raw) < w + k
        <5> SUFFICES ASSUME ~(Len(raw) < w + k) PROVE FALSE OBVIOUS
        <5>1. Cut(raw, w, k) = Failure BY <1>6, <1>8, <3>3
        <5>2. w + k <= Len(raw) BY <1>5, <4>2
        <5>3. WordSeq(Cut(raw, w, k)) BY <1>5, <4>1, <5>2, CutPiece
        <5> QED BY <5>1, <5>3, NoFailure
      <4>4. k \in 1..k /\ w + (k - 1) + 1 = w + k BY <1>5
      <4>5. Len(raw) < w + (k - 1) + 1 BY <4>3, <4>4
      <4>6. get(w + (k - 1), 1) = Failure BY <3>3, <4>5
      <4> QED BY <4>4, <4>6
    <3> QED BY <3>1, <3>2, <3>3
  <2> HIDE DEF get
  <2>3. PICK j \in 1..k : get(w + (j - 1), 1) = Failure BY <2>2
  <2>4. ReadAt(file, r, at + (j - 1), 1) = Failure BY <1>7, <2>3
  <2>5. at + (j - 1) \in Nat /\ at + (j - 1) < Size(r) BY <1>1, <1>5
  <2> DEFINE a == at + (j - 1)
  <2> HIDE DEF a
  <2>6. a \in Nat /\ a < Size(r) /\ ReadAt(file, r, a, 1) = Failure BY <2>4, <2>5 DEF a
  <2>7. FailsAtAWord(file, r, s) BY <2>6 DEF FailsAtAWord
  <2> QED BY <2>1, <2>7 DEF s
<1>9. CASE s # Failure
  <2>1. ~bad BY <1>6, <1>9
  <2>2. WordSeq(content) /\ content # Failure /\ w + k <= Len(content) /\ s = Cut(content, w, k)
    <3>1. CASE packed
      <4>1. s = Cut(Unpack(raw, r.unit), w, k) BY <1>6, <2>1, <3>1
      <4>2. Unpack(raw, r.unit) # Failure BY <1>9, <4>1 DEF Cut
      <4>3. WordSeq(Unpack(raw, r.unit)) /\ Len(Unpack(raw, r.unit)) = r.unit BY <1>1, <4>2, UnpackType
      <4> QED BY <1>5, <3>1, <4>1, <4>2, <4>3
    <3>2. CASE ~packed
      <4>1. ~(Len(raw) < w + k) /\ s = Cut(raw, w, k) BY <1>6, <1>9, <2>1, <3>2
      <4>2. raw # Failure BY <2>1 DEF bad
      <4>3. WordSeq(raw) BY <1>4, <2>1, <4>2
      <4>4. Len(raw) \in Nat BY <4>3 DEF WordSeq
      <4> QED BY <1>5, <3>2, <4>1, <4>2, <4>3, <4>4
    <3> QED BY <3>1, <3>2
  <2>3. ASSUME NEW j \in 1..k PROVE ReadAt(file, r, at + (j - 1), 1) = Cut(content, w + (j - 1), 1)
    <3>1. ReadAt(file, r, at + (j - 1), 1) = get(w + (j - 1), 1) BY <1>7
    <3>2. CASE packed BY <2>1, <3>1, <3>2
    <3>3. CASE ~packed
      <4>1. Len(raw) \in Nat /\ w + k <= Len(raw) BY <2>2, <3>3 DEF WordSeq
      <4>2. ~(Len(raw) < w + (j - 1) + 1) BY <1>5, <4>1
      <4> QED BY <2>1, <3>1, <3>3, <4>2
    <3> QED BY <3>2, <3>3
  <2> HIDE DEF content
  <2>4. WordSeq(s) /\ Len(s) = k /\ \A j \in 1..k : Cut(content, w + (j - 1), 1) = <<s[j]>>
    BY <1>5, <2>2, CutPiece
  <2>5. Wordwise(file, r, at, n, s)
    <3>1. Len(s) \in 0..n /\ at + Len(s) <= Size(r) BY <1>1, <1>5, <2>4
    <3>2. \A j \in 1..Len(s) : ReadAt(file, r, at + (j - 1), 1) = <<s[j]>> BY <2>3, <2>4
    <3> QED BY <2>4, <3>1, <3>2 DEF Wordwise, Piece
  <2>6. s # <<>> BY <1>5, <2>4
  <2>7. FailsAtAWord(file, r, s) BY <1>9 DEF FailsAtAWord
  <2> QED BY <2>5, <2>6, <2>7 DEF s
<1> QED BY <1>8, <1>9

(* The chunk of a sector. *)
LEMMA Least ==
    ASSUME NEW T, T \subseteq Nat, T # {}
    PROVE  \E x \in T : \A y \in T : x <= y
<1> DEFINE U == {0..n : n \in T}
           R == StrictSubsetOrdering(Nat)
           F == FiniteSubsetsOf(Nat)
<1>1. IsWellFoundedOn(R, F) BY FS_StrictSubsetOrderingWellFounded
<1>2. U \subseteq F
  <2>1. \A n \in T : IsFiniteSet(0..n) BY FS_Interval
  <2> QED BY <2>1 DEF FiniteSubsetsOf
<1>3. U # {} OBVIOUS
<1>4. R = {p \in (SUBSET Nat) \X (SUBSET Nat) : p[1] \subseteq p[2] /\ p[1] # p[2]}
  BY DEF StrictSubsetOrdering
<1> HIDE DEF R, F
<1>5. PICK m \in U : \A u \in U : <<u, m>> \notin R BY <1>1, <1>2, <1>3, WFMin
<1>6. PICK x \in T : m = 0..x OBVIOUS
<1>7. ASSUME NEW y \in T, ~(x <= y) PROVE FALSE
  <2>1. x \in 0..x /\ x \notin 0..y /\ y \in Nat /\ x \in Nat BY <1>7
  <2>2. 0..y \subseteq 0..x /\ 0..y # 0..x BY <1>7, <2>1
  <2>3. <<0..y, m>> \in R BY <1>4, <1>6, <2>2
  <2> QED BY <1>5, <2>3
<1> QED BY <1>7

LEMMA FirstChunk ==
    ASSUME NEW r, r.chunks \in Seq(ToSet(r.chunks)), NEW sector
    PROVE  \/ ChunkOf(r, sector) = 0 /\ Ending(r, sector) = {}
           \/ /\ ChunkOf(r, sector) \in Ending(r, sector)
              /\ \A j \in Ending(r, sector) : ChunkOf(r, sector) <= j
<1> DEFINE E == Ending(r, sector)
<1>1. E \subseteq Nat
  <2>1. DOMAIN r.chunks = 1..Len(r.chunks) /\ Len(r.chunks) \in Nat OBVIOUS
  <2> QED BY <2>1 DEF Ending
<1>2. ChunkOf(r, sector) = IF E = {} THEN 0 ELSE Min(E) BY DEF ChunkOf
<1> HIDE DEF E
<1>3. CASE E # {}
  <2>1. \E x \in E : \A y \in E : x <= y BY <1>1, <1>3, Least
  <2>2. Min(E) \in E /\ \A y \in E : Min(E) <= y BY <2>1 DEF Min
  <2> QED BY <1>2, <1>3, <2>2 DEF E
<1> QED BY <1>2, <1>3 DEF E

LEMMA SameChunk ==
    ASSUME NEW r, DmgType(r), NEW s \in Nat, NEW t \in Nat, s <= t,
           ChunkOf(r, s) \in Ending(r, t)
    PROVE  ChunkOf(r, t) = ChunkOf(r, s)
<1> DEFINE i == ChunkOf(r, s)
           j == ChunkOf(r, t)
<1>1. r.chunks \in Seq(ToSet(r.chunks)) /\ Len(r.chunks) \in Nat /\ DOMAIN r.chunks = 1..Len(r.chunks)
  BY DEF DmgType
<1>2. j \in Ending(r, t) /\ j <= i BY <1>1, FirstChunk
<1>3. j \in Ending(r, s)
  <2>1. j \in DOMAIN r.chunks /\ r.chunks[j].number + r.chunks[j].count > t BY <1>2 DEF Ending
  <2> HIDE DEF j
  <2>2. r.chunks[j].number \in Nat /\ r.chunks[j].count \in Nat BY <1>1, <2>1 DEF DmgType
  <2>3. r.chunks[j].number + r.chunks[j].count > s BY <2>1, <2>2
  <2> QED BY <2>1, <2>3 DEF Ending
<1>4. i <= j BY <1>1, <1>3, FirstChunk
<1>5. i \in Nat /\ j \in Nat
  <2>1. i \in 1..Len(r.chunks) /\ j \in 1..Len(r.chunks) BY <1>1, <1>2 DEF Ending
  <2> HIDE DEF i, j
  <2> QED BY <1>1, <2>1
<1> HIDE DEF i, j
<1>6. i = j BY <1>2, <1>4, <1>5
<1> QED BY <1>6 DEF i, j

(* DmgRead, by the chunk. *)
GapRead(r, at, n) == Zeros(Min({n, Sector - (at % Sector), r.size - at}))
ChunkRead(file, c, from, k) ==
    CASE c.type = "zero" -> Zeros(k)
      [] c.type = "raw" -> ReadWhole(file, c.place + from, k)
      [] OTHER -> Cut(DecompressChunk(file, c), from, k)

LEMMA DmgReadByChunk ==
    ASSUME NEW file, NEW r, r.format = "dmg", DmgType(r), NEW at \in Nat, at < r.size, NEW n
    PROVE  LET i == ChunkOf(r, at \div Sector)
               c == r.chunks[i]
               from == at - c.number * Sector
           IN  ReadAt(file, r, at, n) =
                  IF i = 0 \/ c.number > at \div Sector THEN GapRead(r, at, n)
                  ELSE ChunkRead(file, c, from, Min({n, c.count * Sector - from, r.size - at}))
<1>1. Size(r) = r.size BY DEF Size
<1>2. ~(at >= Size(r)) BY <1>1 DEF DmgType
<1>3. ReadAt(file, r, at, n) = DmgRead(file, r, at, n) BY <1>2 DEF ReadAt
<1> QED BY <1>3 DEF DmgRead, GapRead, ChunkRead

LEMMA DivisionBounds ==
    ASSUME NEW u \in Nat \ {0}, NEW a \in Nat, NEW b \in Nat
    PROVE  /\ a \div u < b <=> a < b * u
           /\ b <= a \div u <=> b * u <= a
<1> DEFINE q == a \div u
           m == a % u
<1>1. q \in Nat /\ m \in 0..(u - 1) /\ a = u * q + m BY Division
<1> HIDE DEF q, m
<1>2. CASE q < b
  <2>1. q + 1 <= b BY <1>1, <1>2
  <2>2. u * (q + 1) <= u * b BY <1>1, <2>1
  <2>3. u * (q + 1) = u * q + u BY <1>1
  <2>4. u * q \in Nat /\ u * b \in Nat /\ b * u = u * b BY <1>1
  <2>5. a < b * u BY <1>1, <2>2, <2>3, <2>4
  <2>6. ~(b <= q) /\ ~(b * u <= a) BY <1>1, <1>2, <2>4, <2>5
  <2> QED BY <1>2, <2>5, <2>6 DEF q
<1>3. CASE ~(q < b)
  <2>1. b <= q BY <1>1, <1>3
  <2>2. u * b <= u * q BY <1>1, <2>1
  <2>3. u * q \in Nat /\ u * b \in Nat /\ b * u = u * b BY <1>1
  <2>4. b * u <= a /\ ~(a < b * u) BY <1>1, <2>2, <2>3
  <2> QED BY <1>3, <2>1, <2>4 DEF q
<1> QED BY <1>2, <1>3

LEMMA GapIsWordwise ==
    ASSUME NEW file, NEW r, r.format = "dmg", DmgType(r), NEW at \in Nat, at < r.size,
           NEW n \in Nat \ {0},
           LET i == ChunkOf(r, at \div Sector) IN i = 0 \/ r.chunks[i].number > at \div Sector
    PROVE  /\ Wordwise(file, r, at, n, ReadAt(file, r, at, n))
           /\ ReadAt(file, r, at, n) # <<>>
           /\ FailsAtAWord(file, r, ReadAt(file, r, at, n))
<1> DEFINE q == [size |-> r.size, unit |-> Sector]
           k == Clip(q, at, n)
           s == ReadAt(file, r, at, n)
<1>1. ClusterType(q) /\ q.size = r.size /\ q.unit = Sector BY ReaderAssumption DEF ClusterType, DmgType
<1>2. ASSUME NEW a \in Nat, NEW m, a < r.size, a \div Sector = at \div Sector
      PROVE  ReadAt(file, r, a, m) = Zeros(Clip(q, a, m))
  <2>1. ReadAt(file, r, a, m) = GapRead(r, a, m) BY <1>2, DmgReadByChunk
  <2>2. Within(q, a) = a % Sector BY DEF Within
  <2> QED BY <2>1, <2>2 DEF GapRead, Clip
<1> HIDE DEF q
<1>3. InCluster(q, at, n, k) BY <1>1, ClipInCluster
<1>4. s = Zeros(k) BY <1>2
<1> HIDE DEF k, s
<1>5. k \in 1..n /\ at + k <= r.size BY <1>1, <1>3 DEF InCluster
<1>6. ASSUME NEW j \in 1..k PROVE ReadAt(file, r, at + (j - 1), 1) = Zeros(1)
  <2> DEFINE a == at + (j - 1)
  <2>1. a \in Nat /\ a < r.size /\ Clip(q, a, 1) = 1 /\ a \div Sector = at \div Sector
    BY <1>1, <1>3 DEF InCluster
  <2> HIDE DEF a
  <2>2. ReadAt(file, r, a, 1) = Zeros(1) BY <1>2, <2>1
  <2> QED BY <2>2 DEF a
<1>7. WordSeq(s) /\ Len(s) = k /\ \A j \in 1..k : Zeros(1) = <<s[j]>> BY <1>4, <1>5, ZerosPiece
<1>8. \A j \in 1..Len(s) : ReadAt(file, r, at + (j - 1), 1) = <<s[j]>> BY <1>6, <1>7
<1>9. Len(s) \in 0..n /\ at + Len(s) <= Size(r)
  <2>1. Size(r) = r.size BY DEF Size
  <2> QED BY <1>5, <1>7, <2>1
<1>10. Wordwise(file, r, at, n, s) BY <1>7, <1>8, <1>9 DEF Wordwise, Piece
<1>11. s # <<>> BY <1>5, <1>7
<1>12. FailsAtAWord(file, r, s) BY <1>7, NoFailure DEF FailsAtAWord
<1> QED BY <1>10, <1>11, <1>12 DEF s

LEMMA ChunkFails ==
    ASSUME NEW file, FileType(file), Len(file.words) < file.step,
           NEW c, c.place \in Nat, c.count \in Nat,
           NEW from \in Nat, NEW k \in Nat \ {0}, from + k <= c.count * Sector,
           ChunkRead(file, c, from, k) = Failure
    PROVE  \E j \in 1..k : ChunkRead(file, c, from + (j - 1), 1) = Failure
<1>1. CASE c.type = "zero"
  <2>1. Zeros(k) = Failure BY <1>1 DEF ChunkRead
  <2>2. WordSeq(Zeros(k)) BY ZerosPiece
  <2> QED BY <2>1, <2>2, NoFailure
<1>2. CASE c.type = "raw"
  <2> DEFINE p == c.place + from
             f == ReadFrom(file, p, k)
  <2>1. ReadWhole(file, p, k) = Failure BY <1>2 DEF ChunkRead
  <2>2. p \in Nat /\ c.place + (from + (k - 1)) = p + (k - 1) /\ k \in 1..k OBVIOUS
  <2>3. ChunkRead(file, c, from + (k - 1), 1) = ReadWhole(file, c.place + (from + (k - 1)), 1)
    BY <1>2 DEF ChunkRead
  <2> HIDE DEF p
  <2>4. WordSeq(f) BY <2>2, PieceOfFile DEF FilePiece, Piece
  <2>5. Len(f) # k BY <2>1, <2>4, NoFailure DEF ReadWhole
  <2>6. ReadFrom(file, p + (k - 1), 1) = <<>> BY <2>2, <2>5, ShortAtTheEnd
  <2> DEFINE b == p + (k - 1)
  <2>7. ReadFrom(file, b, 1) = <<>> /\ Len(<<>>) # 1 BY <2>6
  <2>8. ReadWhole(file, b, 1) = Failure
    <3> HIDE DEF b
    <3> QED BY <2>7 DEF ReadWhole
  <2> QED BY <2>2, <2>3, <2>8
<1>3. CASE c.type # "zero" /\ c.type # "raw"
  <2> DEFINE d == DecompressChunk(file, c)
             l == c.count * Sector
  <2>1. Cut(d, from, k) = Failure /\ ChunkRead(file, c, from + (1 - 1), 1) = Cut(d, from + (1 - 1), 1)
    BY <1>3 DEF ChunkRead
  <2>2. l \in Nat BY ReaderAssumption
  <2>3. d = Failure \/ (WordSeq(d) /\ Len(d) = l)
    <3> HIDE DEF l
    <3>1. \A x : Unpack(x, l) = Failure \/ (WordSeq(Unpack(x, l)) /\ Len(Unpack(x, l)) = l)
      BY <2>2, UnpackType
    <3>2. d = Failure \/ d = Unpack(ReadWhole(file, c.place, c.length), l) BY DEF DecompressChunk, l
    <3> QED BY <3>1, <3>2
  <2> HIDE DEF d
  <2>4. d = Failure
    <3> SUFFICES ASSUME d # Failure PROVE FALSE OBVIOUS
    <3>1. WordSeq(d) /\ from + k <= Len(d) BY <2>3
    <3>2. WordSeq(Cut(d, from, k)) BY <3>1, CutPiece
    <3> QED BY <2>1, <3>2, NoFailure
  <2>5. Cut(d, from + (1 - 1), 1) = Failure BY <2>4 DEF Cut
  <2>6. 1 \in 1..k OBVIOUS
  <2> QED BY <2>1, <2>5, <2>6
<1> QED BY <1>1, <1>2, <1>3

LEMMA ChunkPiece ==
    ASSUME NEW file, FileType(file), NEW c, c.place \in Nat, c.count \in Nat,
           NEW from \in Nat, NEW k \in Nat \ {0}, from + k <= c.count * Sector
    PROVE  \/ ChunkRead(file, c, from, k) = Failure
           \/ /\ WordSeq(ChunkRead(file, c, from, k)) /\ Len(ChunkRead(file, c, from, k)) = k
              /\ \A j \in 1..k :
                    ChunkRead(file, c, from + (j - 1), 1) = <<ChunkRead(file, c, from, k)[j]>>
<1> DEFINE s == ChunkRead(file, c, from, k)
<1>1. CASE c.type = "zero"
  <2>1. s = Zeros(k) /\ \A j \in 1..k : ChunkRead(file, c, from + (j - 1), 1) = Zeros(1)
    BY <1>1 DEF ChunkRead
  <2> HIDE DEF s
  <2>2. WordSeq(s) /\ Len(s) = k /\ \A j \in 1..k : Zeros(1) = <<s[j]>> BY <2>1, ZerosPiece
  <2> QED BY <2>1, <2>2 DEF s
<1>2. CASE c.type = "raw"
  <2> DEFINE p == c.place + from
             f == ReadFrom(file, p, k)
  <2>1. s = ReadWhole(file, p, k) BY <1>2 DEF ChunkRead
  <2>2. p \in Nat OBVIOUS
  <2>3. ASSUME NEW j \in 1..k
        PROVE  ChunkRead(file, c, from + (j - 1), 1) = ReadWhole(file, p + (j - 1), 1)
    <3>1. c.place + (from + (j - 1)) = p + (j - 1) OBVIOUS
    <3>2. ChunkRead(file, c, from + (j - 1), 1) = ReadWhole(file, c.place + (from + (j - 1)), 1)
      BY <1>2 DEF ChunkRead
    <3> HIDE DEF p
    <3> QED BY <3>1, <3>2
  <2> HIDE DEF s, p
  <2>4. FilePiece(file, p, k, f) BY <2>2, PieceOfFile
  <2>5. s = IF Len(f) = k THEN f ELSE Failure BY <2>1 DEF ReadWhole
  <2> HIDE DEF f
  <2>6. CASE Len(f) = k
    <3>1. s = f /\ WordSeq(f) BY <2>4, <2>5, <2>6 DEF FilePiece, Piece
    <3>2. ASSUME NEW j \in 1..k PROVE ReadWhole(file, p + (j - 1), 1) = <<f[j]>>
      <4>1. ReadFrom(file, p + (j - 1), 1) = <<f[j]>> BY <2>4, <2>6 DEF FilePiece
      <4>2. Len(<<f[j]>>) = 1 OBVIOUS
      <4> QED BY <4>1, <4>2 DEF ReadWhole
    <3> QED BY <2>3, <2>6, <3>1, <3>2 DEF s
  <2> QED BY <2>5, <2>6 DEF s
<1>3. CASE c.type # "zero" /\ c.type # "raw"
  <2> DEFINE d == DecompressChunk(file, c)
             l == c.count * Sector
  <2>1. s = Cut(d, from, k)
        /\ \A j \in 1..k : ChunkRead(file, c, from + (j - 1), 1) = Cut(d, from + (j - 1), 1)
    BY <1>3 DEF ChunkRead
  <2>2. l \in Nat BY ReaderAssumption
  <2>3. d = Failure \/ (WordSeq(d) /\ Len(d) = l)
    <3> HIDE DEF l
    <3>1. \A x : Unpack(x, l) = Failure \/ (WordSeq(Unpack(x, l)) /\ Len(Unpack(x, l)) = l)
      BY <2>2, UnpackType
    <3>2. d = Failure \/ d = Unpack(ReadWhole(file, c.place, c.length), l) BY DEF DecompressChunk, l
    <3> QED BY <3>1, <3>2
  <2> HIDE DEF s, d
  <2>4. CASE d = Failure BY <2>1, <2>4 DEF Cut, s
  <2>5. CASE d # Failure
    <3>1. WordSeq(d) /\ from + k <= Len(d) BY <2>3, <2>5
    <3>2. WordSeq(s) /\ Len(s) = k /\ \A j \in 1..k : Cut(d, from + (j - 1), 1) = <<s[j]>>
      BY <2>1, <2>5, <3>1, CutPiece
    <3> QED BY <2>1, <3>2 DEF s
  <2> QED BY <2>4, <2>5
<1> QED BY <1>1, <1>2, <1>3

LEMMA DmgIsWordwise ==
    ASSUME NEW file, FileType(file), NEW r, r.format = "dmg", DmgType(r),
           NEW at \in Nat, at < Size(r), NEW n \in Nat \ {0}
    PROVE  /\ Wordwise(file, r, at, n, ReadAt(file, r, at, n))
           /\ ReadAt(file, r, at, n) # <<>>
           /\ FailsAtAWord(file, r, ReadAt(file, r, at, n))
<1> DEFINE sector == at \div Sector
           i == ChunkOf(r, sector)
           c == r.chunks[i]
           from == at - c.number * Sector
           rest == c.count * Sector - from
           k == Min({n, rest, r.size - at})
           s == ReadAt(file, r, at, n)
<1>1. Size(r) = r.size /\ r.size \in Nat /\ at < r.size BY DEF Size, DmgType
<1>2. CASE i = 0 \/ c.number > sector BY <1>1, <1>2, GapIsWordwise
<1>3. CASE ~(i = 0 \/ c.number > sector)
  <2>1. s = ChunkRead(file, c, from, k) BY <1>1, <1>3, DmgReadByChunk
  <2>2. sector \in Nat BY ReaderAssumption, Division
  <2>3. i \in Ending(r, sector)
    <3>1. r.chunks \in Seq(ToSet(r.chunks)) BY DEF DmgType
    <3> HIDE DEF sector
    <3> QED BY <1>3, <3>1, FirstChunk
  <2>4. i \in DOMAIN r.chunks /\ c.number + c.count > sector BY <2>3 DEF Ending
  <2>5. /\ c.number \in Nat /\ c.count \in Nat /\ c.place \in Nat
        /\ c.number <= sector /\ sector < c.number + c.count
    <3> HIDE DEF sector, i
    <3>1. c.number \in Nat /\ c.count \in Nat /\ c.place \in Nat BY <2>4 DEF DmgType
    <3> HIDE DEF c
    <3> QED BY <1>3, <2>2, <2>4, <3>1
  <2> DEFINE b == c.number * Sector
             l == c.count * Sector
             e == (c.number + c.count) * Sector
  <2>6. b \in Nat /\ l \in Nat /\ e = b + l
    <3> HIDE DEF c
    <3> QED BY <2>5, ReaderAssumption
  <2>7. b <= at /\ at < e
    <3>1. c.number + c.count \in Nat BY <2>5
    <3> HIDE DEF c
    <3> QED BY <2>5, <3>1, ReaderAssumption, DivisionBounds
  <2>8. from = at - b /\ rest = l - from OBVIOUS
  <2>9. ASSUME NEW a \in Nat, at <= a, a < e, a < r.size, NEW m
        PROVE  ReadAt(file, r, a, m) = ChunkRead(file, c, a - b, Min({m, l - (a - b), r.size - a}))
    <3> DEFINE t == a \div Sector
    <3>1. t \in Nat BY ReaderAssumption, Division
    <3>2. sector <= t
      <4>1. sector * Sector <= at BY <2>2, ReaderAssumption, DivisionBounds
      <4>2. sector * Sector \in Nat BY <2>2, ReaderAssumption
      <4> HIDE DEF sector
      <4>3. sector * Sector <= a BY <2>9, <4>1, <4>2
      <4> QED BY <2>2, <4>3, ReaderAssumption, DivisionBounds
    <3>3. t < c.number + c.count
      <4>1. c.number + c.count \in Nat BY <2>5
      <4> HIDE DEF c
      <4> QED BY <2>9, <4>1, ReaderAssumption, DivisionBounds
    <3> HIDE DEF t
    <3>4. i \in Ending(r, t) BY <2>4, <2>5, <3>1, <3>3 DEF Ending
    <3>5. ChunkOf(r, t) = i
      <4> HIDE DEF sector
      <4> QED BY <2>2, <3>1, <3>2, <3>4, SameChunk
    <3>6. ~(i = 0 \/ c.number > t)
      <4> HIDE DEF sector, i, c
      <4> QED BY <1>3, <2>2, <2>5, <3>1, <3>2
    <3> QED BY <2>9, <3>5, <3>6, DmgReadByChunk DEF t
  <2> HIDE DEF s, k, from, rest, b, l, e, c, i, sector
  <2>10. from \in Nat /\ rest \in Nat \ {0} BY <2>6, <2>7, <2>8
  <2>11. k \in 1..n /\ at + k <= r.size /\ from + k <= l
    <3> DEFINE left == r.size - at
    <3>1. left \in Nat \ {0} BY <1>1
    <3> HIDE DEF left
    <3>2. k \in Nat /\ k <= n /\ k <= rest /\ k <= left /\ (k = n \/ k = rest \/ k = left)
      BY <2>10, <3>1, MinOfThree DEF k, left
    <3> QED BY <1>1, <2>6, <2>8, <2>10, <3>1, <3>2 DEF left
  <2>12. ASSUME NEW j \in 1..k
         PROVE  ReadAt(file, r, at + (j - 1), 1) = ChunkRead(file, c, from + (j - 1), 1)
    <3> DEFINE a == at + (j - 1)
    <3>1. /\ a \in Nat /\ at <= a /\ a < e /\ a < r.size /\ a - b = from + (j - 1)
          /\ l - (a - b) \in Nat \ {0} /\ r.size - a \in Nat \ {0}
      BY <1>1, <2>6, <2>7, <2>8, <2>10, <2>11
    <3> HIDE DEF a
    <3> DEFINE x == l - (a - b)
               y == r.size - a
    <3>2. ReadAt(file, r, a, 1) = ChunkRead(file, c, a - b, Min({1, x, y})) BY <2>9, <3>1
    <3>3. x \in Nat \ {0} /\ y \in Nat \ {0} BY <3>1
    <3> HIDE DEF x, y
    <3>4. Min({1, x, y}) = 1 BY <3>3, MinOfThree
    <3> QED BY <3>1, <3>2, <3>4 DEF a
  <2>13. \/ s = Failure
         \/ WordSeq(s) /\ Len(s) = k /\ \A j \in 1..k : ChunkRead(file, c, from + (j - 1), 1) = <<s[j]>>
    <3>1. k \in Nat \ {0} /\ from + k <= c.count * Sector BY <2>11 DEF l
    <3> QED BY <2>1, <2>5, <2>10, <3>1, ChunkPiece
  <2>14. CASE s = Failure
    <3>1. Wordwise(file, r, at, n, s) /\ s # <<>> BY <2>14 DEF Wordwise, Failure
    <3>2. ASSUME Len(file.words) < file.step
          PROVE  \E a \in Nat : a < Size(r) /\ ReadAt(file, r, a, 1) = Failure
      <4>1. k \in Nat \ {0} /\ from + k <= c.count * Sector BY <2>11 DEF l
      <4>2. ChunkRead(file, c, from, k) = Failure BY <2>1, <2>14
      <4>3. c.place \in Nat /\ c.count \in Nat /\ from \in Nat BY <2>5, <2>10
      <4>4. \E j \in 1..k : ChunkRead(file, c, from + (j - 1), 1) = Failure
        BY <3>2, <4>1, <4>2, <4>3, ChunkFails, ZenonT(60)
      <4>5. PICK j \in 1..k : ChunkRead(file, c, from + (j - 1), 1) = Failure BY <4>4
      <4> DEFINE a == at + (j - 1)
      <4>6. a \in Nat /\ a < Size(r) BY <1>1, <2>11
      <4>7. ReadAt(file, r, a, 1) = Failure BY <2>12, <4>5
      <4> HIDE DEF a
      <4> QED BY <4>6, <4>7
    <3>3. FailsAtAWord(file, r, s) BY <3>2 DEF FailsAtAWord
    <3> QED BY <3>1, <3>3 DEF s
  <2>15. CASE s # Failure
    <3>1. WordSeq(s) /\ Len(s) = k BY <2>13, <2>15
    <3>2. \A j \in 1..Len(s) : ReadAt(file, r, at + (j - 1), 1) = <<s[j]>>
      BY <2>12, <2>13, <2>15
    <3>3. Len(s) \in 0..n /\ at + Len(s) <= Size(r) BY <1>1, <2>11, <3>1
    <3>4. Wordwise(file, r, at, n, s) BY <3>1, <3>2, <3>3 DEF Wordwise, Piece
    <3>5. s # <<>> BY <2>11, <3>1
    <3>6. FailsAtAWord(file, r, s) BY <2>15 DEF FailsAtAWord
    <3> QED BY <3>4, <3>5, <3>6 DEF s
  <2> QED BY <2>14, <2>15
<1> QED BY <1>2, <1>3
-----------------------------------------------------------------------------
(* The readers that the containers make. *)
ReaderType(r) ==
    \/ SegmentType(r)
    \/ r.format = "vhd-fixed" /\ r.size \in Nat
    \/ r.format \in {"qcow", "qcow2", "qed", "vmdk4", "vmdk4-compressed", "sesparse"} /\ TwoLevels(r)
    \/ r.format \in {"vmdk3", "parallels", "vhdx"} /\ OneLevel(r)
    \/ r.format = "vdi" /\ OneLevel(r) /\ r.base \in Nat
    \/ r.format = "bochs" /\ OneLevel(r) /\ r.base \in Nat /\ r.bitmap \in Nat
    \/ r.format = "vhd" /\ OneLevel(r) /\ r.bitmap \in Nat
    \/ r.format = "cloop" /\ ClusterType(r)

LEMMA CeilDivType ==
    ASSUME NEW a \in Nat, NEW b \in Nat \ {0}
    PROVE  CeilDiv(a, b) \in Nat
<1> DEFINE c == a + b - 1
<1>1. c \in Nat OBVIOUS
<1> HIDE DEF c
<1>2. c \div b \in Nat BY <1>1, Division
<1> QED BY <1>2 DEF CeilDiv, c

LEMMA TableRead ==
    ASSUME NEW file, FileType(file), NEW a \in Nat, NEW n \in Nat
    PROVE  /\ TableType(ReadFrom(file, a, n))
           /\ ReadWhole(file, a, n) = Failure \/ TableType(ReadWhole(file, a, n))
           /\ ReadTable(file, a, n) = Failure \/ TableType(ReadTable(file, a, n))
<1> DEFINE s == ReadFrom(file, a, n)
<1>1. FilePiece(file, a, n, s) BY PieceOfFile
<1> HIDE DEF s
<1>2. WordSeq(s) BY <1>1 DEF FilePiece, Piece
<1>3. DOMAIN s = 1..Len(s) BY <1>2 DEF WordSeq
<1>4. \A i \in DOMAIN s : s[i].at \in Nat BY <1>1, <1>3 DEF FilePiece, FileType, TableType
<1>5. TableType(s) BY <1>2, <1>4 DEF TableType
<1> QED BY <1>5 DEF s, ReadWhole, ReadTable

LEMMA Greatest ==
    ASSUME NEW s, WordSeq(s), NEW T, T \subseteq DOMAIN s, T # {}
    PROVE  Max(T) \in T
<1> DEFINE n == Len(s)
           U == {n - t : t \in T}
<1>1. DOMAIN s = 1..n /\ n \in Nat BY DEF WordSeq
<1> HIDE DEF n
<1>2. U \subseteq Nat /\ U # {} BY <1>1
<1> HIDE DEF U
<1>3. PICK u \in U : \A v \in U : u <= v BY <1>2, Least
<1>4. PICK x \in T : u = n - x BY DEF U
<1>5. \A y \in T : x >= y
  <2> SUFFICES ASSUME NEW y \in T PROVE x >= y OBVIOUS
  <2>1. n - y \in U BY DEF U
  <2>2. n - x <= n - y BY <1>3, <1>4, <2>1
  <2> QED BY <1>1, <2>2
<1>6. \E m \in T : \A y \in T : m >= y BY <1>5
<1> QED BY <1>6 DEF Max

LEMMA LastOfType ==
    ASSUME NEW s, TableType(s), NEW kind
    PROVE  /\ LastOf(kind, s).at \in Nat
           /\ (\A i \in DOMAIN s : s[i].length \in Nat) => LastOf(kind, s).length \in Nat
<1> DEFINE T == {i \in DOMAIN s : s[i].kind = kind}
<1>1. CASE T = {} BY <1>1 DEF LastOf
<1>2. CASE T # {}
  <2>1. Max(T) \in T BY <1>2, Greatest DEF TableType
  <2>2. Max(T) \in DOMAIN s BY <2>1
  <2>3. LastOf(kind, s) = s[Max(T)] BY <1>2 DEF LastOf
  <2> QED BY <2>2, <2>3 DEF TableType
<1> QED BY <1>1, <1>2

LEMMA QcowType ==
    ASSUME NEW file, FileType(file), NEW h, h.format = "qcow", HeaderType(h)
    PROVE  QcowOpen(file, h) = Refused \/ ReaderType(QcowOpen(file, h))
<1> DEFINE n == CeilDiv(h.size, h.unit * h.per)
           l1 == ReadWhole(file, h.table_at, n)
           r == QcowOpen(file, h)
<1> SUFFICES ASSUME r # Refused PROVE ReaderType(r) OBVIOUS
<1>1. r = [format |-> "qcow", size |-> h.size, unit |-> h.unit, per |-> h.per, table |-> l1]
      /\ h.unit \in Units /\ l1 # Failure
  BY DEF QcowOpen
<1>2. h.unit \in Nat \ {0} /\ h.size \in Nat /\ h.table_at \in Nat /\ h.per \in Nat \ {0}
  BY <1>1, UnitsAssumption DEF HeaderType
<1>3. n \in Nat
  <2>1. h.unit * h.per \in Nat \ {0} BY <1>2, DivisionTwice
  <2> QED BY <1>2, <2>1, CeilDivType
<1> HIDE DEF n
<1>4. TableType(l1) BY <1>1, <1>2, <1>3, TableRead
<1> HIDE DEF l1, r
<1> QED BY <1>1, <1>2, <1>4 DEF ReaderType, TwoLevels, ClusterType

LEMMA Qcow2Type ==
    ASSUME NEW file, FileType(file), NEW h, h.format = "qcow2", HeaderType(h)
    PROVE  Qcow2Open(file, h) = Refused \/ ReaderType(Qcow2Open(file, h))
<1> DEFINE l1 == ReadWhole(file, h.table_at, h.entries)
           r == Qcow2Open(file, h)
<1> SUFFICES ASSUME r # Refused PROVE ReaderType(r) OBVIOUS
<1>1. r = [format |-> "qcow2", size |-> h.size, unit |-> h.unit, per |-> h.unit, table |-> l1]
      /\ h.unit \in Units /\ l1 # Failure
  BY DEF Qcow2Open
<1>2. h.unit \in Nat \ {0} /\ h.size \in Nat /\ h.table_at \in Nat /\ h.entries \in Nat
  BY <1>1, UnitsAssumption DEF HeaderType
<1>3. TableType(l1) BY <1>1, <1>2, TableRead
<1> HIDE DEF l1, r
<1> QED BY <1>1, <1>2, <1>3 DEF ReaderType, TwoLevels, ClusterType

LEMMA QedType ==
    ASSUME NEW file, FileType(file), NEW h, h.format = "qed", HeaderType(h)
    PROVE  QedOpen(file, h) = Refused \/ ReaderType(QedOpen(file, h))
<1> DEFINE n == h.table_size * h.unit
           l1 == ReadTable(file, h.table_at, n)
           r == QedOpen(file, h)
<1> SUFFICES ASSUME r # Refused PROVE ReaderType(r) OBVIOUS
<1>1. r = [format |-> "qed", size |-> h.size, unit |-> h.unit, per |-> n, table |-> l1]
      /\ h.unit \in Units /\ h.table_size \in {1, 2, 4, 8, 16} /\ l1 # Failure
  BY DEF QedOpen
<1>2. h.unit \in Nat \ {0} /\ h.size \in Nat /\ h.table_at \in Nat
  BY <1>1, UnitsAssumption DEF HeaderType
<1>3. n \in Nat \ {0} BY <1>1, <1>2
<1> HIDE DEF n
<1>4. TableType(l1) BY <1>1, <1>2, <1>3, TableRead
<1> HIDE DEF l1, r
<1> QED BY <1>1, <1>2, <1>3, <1>4 DEF ReaderType, TwoLevels, ClusterType

LEMMA Vmdk3Type ==
    ASSUME NEW file, FileType(file), NEW h, h.format = "vmdk3", HeaderType(h)
    PROVE  Vmdk3Open(file, h) = Refused \/ ReaderType(Vmdk3Open(file, h))
<1> DEFINE l1 == ReadTable(file, h.table_at * Sector, h.entries)
           r == Vmdk3Open(file, h)
<1> SUFFICES ASSUME r # Refused PROVE ReaderType(r) OBVIOUS
<1>1. r = [format |-> "vmdk3", size |-> h.size, unit |-> h.granularity * Sector, table |-> l1]
      /\ h.granularity # 0 /\ l1 # Failure
  BY DEF Vmdk3Open
<1>2. h.granularity \in Nat /\ h.size \in Nat /\ h.table_at \in Nat /\ h.entries \in Nat
  BY DEF HeaderType
<1>3. h.granularity * Sector \in Nat \ {0} /\ h.table_at * Sector \in Nat
  BY <1>1, <1>2, ReaderAssumption
<1>4. TableType(l1) BY <1>1, <1>2, <1>3, TableRead
<1> HIDE DEF l1, r
<1> QED BY <1>1, <1>2, <1>3, <1>4 DEF ReaderType, OneLevel, ClusterType

LEMMA Vmdk4Type ==
    ASSUME NEW file, FileType(file), NEW h, h.format = "vmdk4", HeaderType(h)
    PROVE  Vmdk4Open(file, h) = Refused \/ ReaderType(Vmdk4Open(file, h))
<1> DEFINE unit == h.granularity * Sector
           n == CeilDiv(h.size, h.per * unit)
           a == h.table_at * Sector
           l1 == ReadFrom(file, a, n)
           f == IF h.compressed THEN "vmdk4-compressed" ELSE "vmdk4"
           r == Vmdk4Open(file, h)
<1> SUFFICES ASSUME r # Refused PROVE ReaderType(r) OBVIOUS
<1>1. r = [format |-> f, size |-> h.size, unit |-> unit, per |-> h.per, zeroed |-> h.zeroed,
           table |-> l1]
      /\ unit # 0 /\ h.per # 0
  BY DEF Vmdk4Open
<1>2. h.granularity \in Nat /\ h.size \in Nat /\ h.table_at \in Nat /\ h.per \in Nat
  BY DEF HeaderType
<1>3. unit \in Nat \ {0} /\ a \in Nat BY <1>1, <1>2, ReaderAssumption
<1> HIDE DEF unit, a
<1>4. n \in Nat
  <2>1. h.per * unit \in Nat \ {0} BY <1>1, <1>2, <1>3, DivisionTwice
  <2> QED BY <1>2, <2>1, CeilDivType
<1> HIDE DEF n
<1>5. TableType(l1) BY <1>3, <1>4, TableRead
<1>6. f \in {"vmdk4", "vmdk4-compressed"} OBVIOUS
<1> HIDE DEF l1, r, f
<1> QED BY <1>1, <1>2, <1>3, <1>5, <1>6 DEF ReaderType, TwoLevels, ClusterType

LEMMA SeSparseType ==
    ASSUME NEW file, FileType(file), NEW h, h.format = "sesparse", HeaderType(h)
    PROVE  SeSparseOpen(file, h) = Refused \/ ReaderType(SeSparseOpen(file, h))
<1> DEFINE n == CeilDiv(h.size, h.per * h.unit)
           l1 == ReadFrom(file, h.table_at, n)
           r == SeSparseOpen(file, h)
<1> SUFFICES ASSUME r # Refused PROVE ReaderType(r) OBVIOUS
<1>1. r = [format |-> "sesparse", size |-> h.size, unit |-> h.unit, per |-> h.per, table |-> l1]
      /\ h.per * h.unit # 0
  BY DEF SeSparseOpen
<1>2. h.unit \in Nat /\ h.size \in Nat /\ h.table_at \in Nat /\ h.per \in Nat BY DEF HeaderType
<1>3. h.unit # 0 /\ h.per # 0 /\ h.per * h.unit \in Nat BY <1>1, <1>2
<1>4. n \in Nat BY <1>1, <1>2, <1>3, CeilDivType
<1> HIDE DEF n
<1>5. TableType(l1) BY <1>2, <1>4, TableRead
<1> HIDE DEF l1, r
<1> QED BY <1>1, <1>2, <1>3, <1>5 DEF ReaderType, TwoLevels, ClusterType

LEMMA VdiType ==
    ASSUME NEW file, FileType(file), NEW h, h.format = "vdi", HeaderType(h)
    PROVE  VdiOpen(file, h) = Refused \/ ReaderType(VdiOpen(file, h))
<1> DEFINE map == ReadWhole(file, h.table_at, h.entries)
           r == VdiOpen(file, h)
<1> SUFFICES ASSUME r # Refused PROVE ReaderType(r) OBVIOUS
<1>1. r = [format |-> "vdi", size |-> h.size, unit |-> h.unit, base |-> h.data_at, table |-> map]
      /\ h.unit # 0 /\ map # Failure
  BY DEF VdiOpen
<1>2. /\ h.unit \in Nat /\ h.size \in Nat /\ h.table_at \in Nat /\ h.entries \in Nat
      /\ h.data_at \in Nat
  BY DEF HeaderType
<1>3. TableType(map) BY <1>1, <1>2, TableRead
<1> HIDE DEF map, r
<1> QED BY <1>1, <1>2, <1>3 DEF ReaderType, OneLevel, ClusterType

LEMMA ParallelsType ==
    ASSUME NEW file, FileType(file), NEW h, h.format = "parallels", HeaderType(h)
    PROVE  ParallelsOpen(file, h) = Refused \/ ReaderType(ParallelsOpen(file, h))
<1> DEFINE bat == ReadTable(file, h.table_at, h.entries)
           r == ParallelsOpen(file, h)
           extended == h.magic = "WithouFreSpacExt"
<1> SUFFICES ASSUME r # Refused PROVE ReaderType(r) OBVIOUS
<1>1. r = [format |-> "parallels", size |-> h.size, unit |-> h.tracks * Sector, table |-> bat,
           extended |-> extended]
      /\ h.tracks # 0 /\ bat # Failure
  BY DEF ParallelsOpen
<1>2. h.tracks \in Nat /\ h.size \in Nat /\ h.table_at \in Nat /\ h.entries \in Nat BY DEF HeaderType
<1>3. h.tracks * Sector \in Nat \ {0} BY <1>1, <1>2, ReaderAssumption
<1>4. TableType(bat) BY <1>1, <1>2, TableRead
<1> HIDE DEF bat, r, extended
<1> QED BY <1>1, <1>2, <1>3, <1>4 DEF ReaderType, OneLevel, ClusterType

LEMMA BochsType ==
    ASSUME NEW file, FileType(file), NEW h, h.format = "bochs", HeaderType(h)
    PROVE  BochsOpen(file, h) = Refused \/ ReaderType(BochsOpen(file, h))
<1> DEFINE catalog == ReadWhole(file, h.table_at, h.entries)
           bitmap == CeilDiv(h.bitmap, Sector) * Sector
           r == BochsOpen(file, h)
<1> SUFFICES ASSUME r # Refused PROVE ReaderType(r) OBVIOUS
<1>1. r = [format |-> "bochs", size |-> h.size, unit |-> h.unit, bitmap |-> bitmap,
           base |-> h.table_at + h.entries, table |-> catalog]
      /\ h.unit \in Units /\ catalog # Failure
  BY DEF BochsOpen
<1>2. /\ h.unit \in Nat \ {0} /\ h.size \in Nat /\ h.table_at \in Nat /\ h.entries \in Nat
      /\ h.bitmap \in Nat
  BY <1>1, UnitsAssumption DEF HeaderType
<1>3. bitmap \in Nat
  <2>1. CeilDiv(h.bitmap, Sector) \in Nat BY <1>2, ReaderAssumption, CeilDivType
  <2> QED BY <2>1, ReaderAssumption
<1>4. TableType(catalog) BY <1>1, <1>2, TableRead
<1> HIDE DEF catalog, r, bitmap
<1> QED BY <1>1, <1>2, <1>3, <1>4 DEF ReaderType, OneLevel, ClusterType

LEMMA VhdType ==
    ASSUME NEW file, FileType(file), NEW h, h.format = "vhd", HeaderType(h)
    PROVE  VhdOpen(file, h) = Refused \/ ReaderType(VhdOpen(file, h))
<1> DEFINE bat == ReadWhole(file, h.table_at, h.entries)
           d == CeilDiv(h.unit \div Sector, 8)
           bitmap == CeilDiv(d, Sector) * Sector
           r == VhdOpen(file, h)
<1> SUFFICES ASSUME r # Refused PROVE ReaderType(r) OBVIOUS
<1>1. h.size \in Nat /\ h.table_at \in Nat /\ h.entries \in Nat BY DEF HeaderType
<1>2. CASE h.type = "fixed"
  <2>1. r = [format |-> "vhd-fixed", size |-> h.size] BY <1>2 DEF VhdOpen
  <2> HIDE DEF r
  <2> QED BY <1>1, <2>1 DEF ReaderType
<1>3. CASE h.type # "fixed"
  <2>1. r = [format |-> "vhd", size |-> h.size, unit |-> h.unit, table |-> bat, bitmap |-> bitmap]
        /\ h.unit # 0 /\ bat # Failure
    BY <1>3 DEF VhdOpen
  <2>2. h.unit \in Nat BY <1>3 DEF HeaderType
  <2>3. d \in Nat
    <3> DEFINE q == h.unit \div Sector
    <3>1. q \in Nat BY <2>2, ReaderAssumption, Division
    <3> HIDE DEF q
    <3> QED BY <3>1, CeilDivType DEF q
  <2> HIDE DEF d
  <2>4. bitmap \in Nat
    <3>1. CeilDiv(d, Sector) \in Nat BY <2>3, ReaderAssumption, CeilDivType
    <3> QED BY <3>1, ReaderAssumption
  <2>5. TableType(bat) BY <1>1, <2>1, TableRead
  <2> HIDE DEF bat, r, bitmap
  <2> QED BY <1>1, <2>1, <2>2, <2>4, <2>5 DEF ReaderType, OneLevel, ClusterType
<1> QED BY <1>2, <1>3

LEMMA VhdxType ==
    ASSUME NEW file, FileType(file), NEW h, h.format = "vhdx", HeaderType(h)
    PROVE  VhdxOpen(file, h) = Refused \/ ReaderType(VhdxOpen(file, h))
<1> DEFINE bat == LastOf("bat", h.regions)
           size == LastOf("size", h.items).at
           unit == LastOf("block", h.items).at
           table == ReadFrom(file, bat.at, bat.length)
           r == VhdxOpen(file, h)
<1> SUFFICES ASSUME r # Refused PROVE ReaderType(r) OBVIOUS
<1>1. VhdxMetadata(h).size = size /\ VhdxMetadata(h).unit = unit BY DEF VhdxMetadata
<1>2. r = [format |-> "vhdx", size |-> size, unit |-> unit, table |-> table] /\ unit # 0
  <2> HIDE DEF size, unit
  <2> QED BY <1>1 DEF VhdxOpen
<1>3. /\ TableType(h.regions) /\ \A i \in DOMAIN h.regions : h.regions[i].length \in Nat
      /\ TableType(h.items)
  BY DEF HeaderType
<1>4. size \in Nat /\ unit \in Nat /\ bat.at \in Nat /\ bat.length \in Nat BY <1>3, LastOfType
<1>5. TableType(table)
  <2> HIDE DEF bat
  <2> QED BY <1>4, TableRead
<1> HIDE DEF table, r, size, unit
<1> QED BY <1>2, <1>4, <1>5 DEF ReaderType, OneLevel, ClusterType

LEMMA CloopType ==
    ASSUME NEW file, FileType(file), NEW h, h.format = "cloop", HeaderType(h)
    PROVE  CloopOpen(file, h) = Refused \/ ReaderType(CloopOpen(file, h))
<1> DEFINE offsets == ReadTable(file, h.table_at, h.blocks + 1)
           r == CloopOpen(file, h)
<1> SUFFICES ASSUME r # Refused PROVE ReaderType(r) OBVIOUS
<1>1. r = [format |-> "cloop", size |-> h.blocks * h.unit, unit |-> h.unit, table |-> offsets]
      /\ h.unit \in Units
  BY DEF CloopOpen
<1>2. h.unit \in Nat \ {0} /\ h.blocks \in Nat BY <1>1, UnitsAssumption DEF HeaderType
<1>3. h.blocks * h.unit \in Nat BY <1>2
<1> HIDE DEF offsets, r
<1> QED BY <1>1, <1>2, <1>3 DEF ReaderType, ClusterType

LEMMA OpenMappedType ==
    ASSUME NEW file, FileType(file), NEW h, h.format \in Mapped, HeaderType(h)
    PROVE  OpenMapped(file, h) = Refused \/ ReaderType(OpenMapped(file, h))
<1>1. CASE h.format = "qcow" BY <1>1, QcowType DEF OpenMapped
<1>2. CASE h.format = "qcow2" BY <1>2, Qcow2Type DEF OpenMapped
<1>3. CASE h.format = "qed" BY <1>3, QedType DEF OpenMapped
<1>4. CASE h.format = "vmdk3" BY <1>4, Vmdk3Type DEF OpenMapped
<1>5. CASE h.format = "vmdk4" BY <1>5, Vmdk4Type DEF OpenMapped
<1>6. CASE h.format = "sesparse" BY <1>6, SeSparseType DEF OpenMapped
<1>7. CASE h.format = "vdi" BY <1>7, VdiType DEF OpenMapped
<1>8. CASE h.format = "parallels" BY <1>8, ParallelsType DEF OpenMapped
<1>9. CASE h.format = "bochs" BY <1>9, BochsType DEF OpenMapped
<1>10. CASE h.format = "vhd" BY <1>10, VhdType DEF OpenMapped
<1>11. CASE h.format = "vhdx" BY <1>11, VhdxType DEF OpenMapped
<1>12. CASE h.format = "cloop" BY <1>12, CloopType DEF OpenMapped
<1> QED BY <1>1, <1>2, <1>3, <1>4, <1>5, <1>6, <1>7, <1>8, <1>9, <1>10, <1>11, <1>12 DEF Mapped

LEMMA ChildrenType ==
    ASSUME NEW i, ImageType(i), Open(i.file, i.header) # NoChildren
    PROVE  \A c \in ToSet(Open(i.file, i.header)) : ReaderType(c.reader)
<1>1. CASE i.header.format \in Mapped
  <2> DEFINE r == OpenMapped(i.file, i.header)
  <2>1. r # Refused /\ Open(i.file, i.header) = <<Child(0, 0, r)>> BY <1>1 DEF Open
  <2>2. ReaderType(r) BY <1>1, <2>1, OpenMappedType DEF ImageType
  <2> HIDE DEF r
  <2>3. ToSet(<<Child(0, 0, r)>>) = {Child(0, 0, r)} BY DEF ToSet
  <2>4. Child(0, 0, r).reader = r BY DEF Child
  <2> QED BY <2>1, <2>2, <2>3, <2>4
<1>2. CASE i.header.format \notin Mapped BY <1>2 DEF ImageType, ReaderType
<1> QED BY <1>1, <1>2
-----------------------------------------------------------------------------
(* Any reader. *)
Clustered ==
    {"qcow", "qcow2", "qed", "vmdk3", "vmdk4", "vmdk4-compressed", "sesparse", "vdi",
     "parallels", "bochs", "vhd", "vhdx", "cloop", "ubi"}

LEMMA ClusteredType ==
    ASSUME NEW file, FileType(file), NEW r, ReaderType(r), r.format \in Clustered, NEW at \in Nat
    PROVE  ClusterType(r) /\ Size(r) = r.size /\ HasSource(file, r, at)
<1>1. ClusterType(r)
  BY DEF ReaderType, SegmentType, UbiType, TwoLevels, OneLevel, Clustered
<1>2. Size(r) = r.size BY DEF Size, Clustered
<1>3. CASE r.format \in {"qcow", "qcow2", "qed", "vmdk4", "vmdk4-compressed", "sesparse"}
  <2>1. TwoLevels(r) BY <1>3 DEF ReaderType, SegmentType
  <2> QED BY <1>1, <1>2, <1>3, <2>1, QcowSource, Qcow2Source, QedSource, Vmdk4Source,
             Vmdk4CompressedSource, SeSparseSource
<1>4. CASE r.format \in {"vmdk3", "parallels", "vhdx"}
  <2>1. OneLevel(r) BY <1>4 DEF ReaderType, SegmentType
  <2> QED BY <1>1, <1>2, <1>4, <2>1, Vmdk3Source, ParallelsSource, VhdxSource
<1>5. CASE r.format \in {"vdi", "bochs", "vhd"}
  <2>1. /\ OneLevel(r) /\ (r.format = "vdi" => r.base \in Nat)
        /\ (r.format = "bochs" => r.base \in Nat /\ r.bitmap \in Nat)
        /\ (r.format = "vhd" => r.bitmap \in Nat)
    BY <1>5 DEF ReaderType, SegmentType
  <2> QED BY <1>1, <1>2, <1>5, <2>1, VdiSource, BochsSource, VhdSource
<1>6. CASE r.format = "cloop" BY <1>1, <1>2, <1>6, CloopSource
<1>7. CASE r.format = "ubi"
  <2>1. \A b \in DOMAIN r.blocks : r.blocks[b] \in Nat BY <1>7 DEF ReaderType, SegmentType, UbiType
  <2> QED BY <1>1, <1>2, <1>7, <2>1, UbiSource
<1> QED BY <1>1, <1>2, <1>3, <1>4, <1>5, <1>6, <1>7 DEF Clustered

LEMMA SizeType == ASSUME NEW r, ReaderType(r) PROVE Size(r) \in Nat
<1>1. CASE r.format \in Clustered
  <2>1. r.size \in Nat
    BY <1>1 DEF ReaderType, SegmentType, UbiType, TwoLevels, OneLevel, Clustered, ClusterType
  <2> QED BY <1>1, <2>1 DEF Size, Clustered
<1>2. CASE r.format = "slice" BY <1>2 DEF Size, ReaderType, SegmentType
<1>3. CASE r.format = "bytes"
  <2>1. WordSeq(r.words) BY <1>3 DEF ReaderType, SegmentType
  <2>2. Len(r.words) \in Nat BY <2>1 DEF WordSeq
  <2> QED BY <1>3, <2>2 DEF Size
<1>4. CASE r.format \in {"dmg", "ewf", "vhd-fixed"}
  <2>1. r.size \in Nat BY <1>4 DEF ReaderType, SegmentType, DmgType, EwfType, ClusterType
  <2> QED BY <1>4, <2>1 DEF Size
<1> QED BY <1>1, <1>2, <1>3, <1>4 DEF ReaderType, SegmentType, Clustered

(* s is what was read, of any number of words. *)
Reads(file, r, at, n, s) ==
    /\ Wordwise(file, r, at, n, s)
    /\ s = <<>> => ReadAt(file, r, at, 1) = <<>>
    /\ r.format \notin {"dmg", "ewf"} => Firm(file, r, at, s)
    /\ FailsAtAWord(file, r, s)

LEMMA ReaderReads ==
    ASSUME NEW file, FileType(file), NEW r, ReaderType(r), NEW at \in Nat, at <= Size(r),
           NEW n \in Nat \ {0}
    PROVE  Reads(file, r, at, n, ReadAt(file, r, at, n))
<1>1. Size(r) \in Nat BY SizeType
<1>2. CASE at = Size(r)
  <2>1. \A m : ReadAt(file, r, at, m) = <<>> BY <1>1, <1>2 DEF ReadAt
  <2>2. <<>> \in Seq({}) /\ Len(<<>>) = 0 /\ 1..0 = {} OBVIOUS
  <2>3. WordSeq(<<>>) BY <2>2, SeqIsSeq
  <2>4. Wordwise(file, r, at, n, <<>>) BY <1>1, <1>2, <2>2, <2>3 DEF Wordwise, Piece
  <2>5. <<>> # Failure BY NothingRead, NoFailure
  <2> QED BY <2>1, <2>4, <2>5 DEF Reads, Firm, FailsAtAWord
<1>3. CASE at < Size(r)
  <2> SUFFICES \/ /\ Wordwise(file, r, at, n, ReadAt(file, r, at, n))
                  /\ Firm(file, r, at, ReadAt(file, r, at, n))
               \/ /\ Wordwise(file, r, at, n, ReadAt(file, r, at, n))
                  /\ ReadAt(file, r, at, n) # <<>>
                  /\ FailsAtAWord(file, r, ReadAt(file, r, at, n))
                  /\ r.format \in {"dmg", "ewf"}
    <3> DEFINE s == ReadAt(file, r, at, n)
    <3> HIDE DEF s
    <3>1. CASE Wordwise(file, r, at, n, s) /\ Firm(file, r, at, s)
      <4>1. FailsAtAWord(file, r, s) BY <1>3, <3>1, FirmFails
      <4> QED BY <3>1, <4>1 DEF Reads, Firm, s
    <3>2. CASE /\ Wordwise(file, r, at, n, s) /\ s # <<>>
               /\ FailsAtAWord(file, r, s) /\ r.format \in {"dmg", "ewf"}
      BY <3>2 DEF Reads, s
    <3> QED BY <3>1, <3>2 DEF s
  <2>1. CASE r.format \in Clustered
    <3>1. ClusterType(r) /\ Size(r) = r.size /\ HasSource(file, r, at) BY <2>1, ClusteredType
    <3>2. PICK x : SourceType(r, x) /\ FromSource(file, r, at, x) BY <3>1 DEF HasSource
    <3> QED BY <1>3, <3>1, <3>2, ClusterIsWordwise
  <2>2. CASE r.format = "slice"
    <3>1. r.start \in Nat /\ r.length \in Nat BY <2>2 DEF ReaderType, SegmentType
    <3> QED BY <1>3, <2>2, <3>1, SliceIsWordwise
  <2>3. CASE r.format = "bytes"
    <3>1. WordSeq(r.words) BY <2>3 DEF ReaderType, SegmentType
    <3> QED BY <1>3, <2>3, <3>1, BytesIsWordwise
  <2>4. CASE r.format = "vhd-fixed"
    <3>1. r.size \in Nat BY <2>4 DEF ReaderType, SegmentType
    <3> QED BY <1>3, <2>4, <3>1, FixedIsWordwise
  <2>5. CASE r.format = "dmg"
    <3>1. DmgType(r) BY <2>5 DEF ReaderType, SegmentType
    <3> QED BY <1>3, <2>5, <3>1, DmgIsWordwise
  <2>6. CASE r.format = "ewf"
    <3>1. EwfType(r) BY <2>6 DEF ReaderType, SegmentType
    <3> QED BY <1>3, <2>6, <3>1, EwfIsWordwise
  <2> QED BY <2>1, <2>2, <2>3, <2>4, <2>5, <2>6 DEF ReaderType, SegmentType, Clustered
<1> QED BY <1>1, <1>2, <1>3
-----------------------------------------------------------------------------
(* A child and what was read of it, word by word. *)
Opened ==
    /\ Open(image.file, image.header) # NoChildren
    /\ child \in ToSet(Open(image.file, image.header))

WordsSoFar ==
    /\ Len(data) <= Size(child.reader)
    /\ \A i \in 1..Len(data) : ReadAt(image.file, child.reader, i - 1, 1) = <<data[i]>>

ReadingInv ==
    /\ image \in Images /\ WordSeq(data)
    /\ pc \in {"open", "read", "end", "refused", "failed"}
    /\ pc \in {"read", "failed"} => child # Nothing
    /\ pc \in {"open", "refused"} => child = Nothing
    /\ child = Nothing => data = <<>>
    /\ child # Nothing => Opened /\ WordsSoFar
    /\ ReadsWordByWord

LEMMA OpenedType ==
    ASSUME image \in Images, Opened
    PROVE  FileType(image.file) /\ ReaderType(child.reader) /\ child # Nothing
<1>1. ImageType(image) BY ImagesAssumption
<1>2. ReaderType(child.reader) BY <1>1, ChildrenType DEF Opened
<1>3. ~ReaderType(Nothing.reader)
  <2>1. Nothing.reader.format = "none" BY DEF Nothing, Child
  <2> QED BY <2>1 DEF ReaderType, SegmentType
<1> QED BY <1>1, <1>2, <1>3 DEF ImageType

LEMMA ReadingInit == Init => ReadingInv
<1> SUFFICES ASSUME Init PROVE ReadingInv OBVIOUS
<1>1. image \in Images /\ pc = "open" /\ child = Nothing /\ data = <<>> BY DEF Init
<1>2. WordSeq(data) BY <1>1, NothingRead
<1>3. ReadsWordByWord BY <1>1 DEF ReadsWordByWord
<1> QED BY <1>1, <1>2, <1>3 DEF ReadingInv

LEMMA ReadingStep == ReadingInv /\ [Next]_vars => ReadingInv'
<1> SUFFICES ASSUME ReadingInv, [Next]_vars PROVE ReadingInv' OBVIOUS
<1>1. CASE OpenImage
  <2> DEFINE children == Open(image.file, image.header)
  <2>1. /\ pc = "open" /\ children # NoChildren
        /\ pc' = IF children = <<>> THEN "end" ELSE "read"
        /\ child' \in (IF children = <<>> THEN {Nothing} ELSE ToSet(children))
        /\ image' = image /\ data' = data
    BY <1>1 DEF OpenImage
  <2>2. child = Nothing /\ data = <<>> /\ image \in Images BY <2>1 DEF ReadingInv
  <2>3. CASE children = <<>>
    <3>1. pc' = "end" /\ child' = Nothing BY <2>1, <2>3
    <3> HIDE DEF children
    <3> QED BY <2>1, <2>2, <3>1, NothingRead DEF ReadingInv, ReadsWordByWord
  <2>4. CASE children # <<>>
    <3>1. pc' = "read" /\ Opened' BY <2>1, <2>4 DEF Opened
    <3>2. ReaderType(child'.reader) /\ child' # Nothing
      <4>1. ImageType(image) BY <2>2, ImagesAssumption
      <4>2. (image \in Images)' /\ Opened' BY <2>1, <2>2, <3>1
      <4>3. ReaderType(child'.reader) BY <4>1, <2>1, <2>4, ChildrenType
      <4>4. Nothing.reader.format = "none" BY DEF Nothing, Child
      <4>5. ~ReaderType(Nothing.reader) BY <4>4 DEF ReaderType, SegmentType
      <4> QED BY <4>3, <4>5
    <3>3. Size(child'.reader) \in Nat BY <3>2, SizeType
    <3> HIDE DEF children
    <3>4. WordsSoFar' BY <2>1, <2>2, <3>3, NothingRead DEF WordsSoFar
    <3>5. ReadsWordByWord' BY <3>1, <3>4 DEF ReadsWordByWord, WordsSoFar
    <3> QED BY <2>1, <2>2, <3>1, <3>2, <3>4, <3>5, NothingRead DEF ReadingInv
  <2> QED BY <2>3, <2>4
<1>2. CASE OpenFails
  <2>1. pc = "open" /\ pc' = "refused" /\ image' = image /\ child' = child /\ data' = data
    BY <1>2 DEF OpenFails
  <2> QED BY <2>1 DEF ReadingInv, ReadsWordByWord
<1>3. CASE Read
  <2> DEFINE file == image.file
             r == child.reader
             at == Len(data)
  <2>1. PICK n \in 1..MaxRead :
           LET s == ReadAt(image.file, child.reader, Len(data), n) IN
           /\ pc' = IF s = Failure THEN "failed" ELSE IF s = <<>> THEN "end" ELSE "read"
           /\ data' = IF s = Failure THEN data ELSE data \o s
    BY <1>3 DEF Read
  <2> DEFINE s == ReadAt(file, r, at, n)
  <2>2. /\ pc' = IF s = Failure THEN "failed" ELSE IF s = <<>> THEN "end" ELSE "read"
        /\ data' = IF s = Failure THEN data ELSE data \o s
    BY <2>1
  <2>3. pc = "read" /\ image' = image /\ child' = child BY <1>3 DEF Read
  <2>4. child # Nothing /\ Opened /\ WordsSoFar /\ image \in Images /\ WordSeq(data)
    BY <2>3 DEF ReadingInv
  <2>5. FileType(file) /\ ReaderType(r) BY <2>4, OpenedType
  <2>6. at \in Nat /\ at <= Size(r) /\ n \in Nat \ {0} BY <2>4, ImagesAssumption DEF WordsSoFar, WordSeq
  <2> HIDE DEF file, r, at
  <2>7. Reads(file, r, at, n, s) BY <2>5, <2>6, ReaderReads
  <2> HIDE DEF s
  <2>8. Opened' BY <2>3, <2>4 DEF Opened
  <2>9. CASE s = Failure
    <3>1. pc' = "failed" /\ data' = data BY <2>2, <2>9
    <3>2. WordsSoFar' BY <2>3, <2>4, <3>1 DEF WordsSoFar
    <3>3. r.format \notin {"dmg", "ewf"} => ReadAt(file, r, at, 1) = Failure
      BY <2>7, <2>9 DEF Reads, Firm
    <3>4. ReadsWordByWord'
      BY <2>3, <3>1, <3>2, <3>3 DEF ReadsWordByWord, WordsSoFar, file, r, at
    <3> QED BY <2>3, <2>4, <2>8, <3>1, <3>2, <3>4 DEF ReadingInv
  <2>10. CASE s # Failure
    <3>1. /\ WordSeq(s) /\ Len(s) \in 0..n /\ at + Len(s) <= Size(r)
          /\ \A j \in 1..Len(s) : ReadAt(file, r, at + (j - 1), 1) = <<s[j]>>
      BY <2>7, <2>10 DEF Reads, Wordwise, Piece
    <3>2. data' = data \o s /\ pc' = (IF s = <<>> THEN "end" ELSE "read") BY <2>2, <2>10
    <3>3. /\ WordSeq(data') /\ Len(data') = at + Len(s)
          /\ \A i \in 1..at : data'[i] = data[i]
          /\ \A i \in 1..Len(s) : data'[at + i] = s[i]
      BY <2>4, <3>1, <3>2, ConcatIsSeq DEF at
    <3>4. ASSUME NEW i \in 1..Len(data') PROVE ReadAt(file, r, i - 1, 1) = <<data'[i]>>
      <4>1. CASE i <= at
        <5>1. i \in 1..at BY <2>6, <3>1, <3>3, <4>1
        <5>2. ReadAt(file, r, i - 1, 1) = <<data[i]>> BY <2>4, <5>1 DEF WordsSoFar, file, r, at
        <5> QED BY <3>3, <5>1, <5>2
      <4>2. CASE ~(i <= at)
        <5> DEFINE j == i - at
        <5>1. j \in 1..Len(s) /\ at + j = i /\ at + (j - 1) = i - 1 BY <2>6, <3>1, <3>3, <4>2
        <5> HIDE DEF j
        <5>2. ReadAt(file, r, at + (j - 1), 1) = <<s[j]>> /\ data'[at + j] = s[j] BY <3>1, <3>3, <5>1
        <5> QED BY <5>1, <5>2
      <4> QED BY <4>1, <4>2
    <3>5. WordsSoFar' BY <2>3, <3>1, <3>3, <3>4 DEF WordsSoFar, file, r
    <3>6. pc' = "end" => ReadAt(file, r, Len(data'), 1) = <<>>
      <4> SUFFICES ASSUME s = <<>> PROVE ReadAt(file, r, Len(data'), 1) = <<>> BY <3>2
      <4>1. Len(data') = at BY <2>6, <3>3, NothingRead
      <4>2. ReadAt(file, r, at, 1) = <<>> BY <2>7 DEF Reads
      <4> QED BY <4>1, <4>2
    <3>7. ReadsWordByWord'
      BY <2>3, <3>2, <3>4, <3>6 DEF ReadsWordByWord, file, r
    <3> QED BY <2>3, <2>4, <2>8, <3>2, <3>3, <3>5, <3>7 DEF ReadingInv
  <2> QED BY <2>9, <2>10
<1>4. CASE UNCHANGED vars
  BY <1>4 DEF vars, ReadingInv, Opened, WordsSoFar, ReadsWordByWord
<1> QED BY <1>1, <1>2, <1>3, <1>4 DEF Next

LEMMA ReadingHolds == Spec => []ReadingInv
<1> QED BY ReadingInit, ReadingStep, PTL DEF Spec
-----------------------------------------------------------------------------
(* The states of a reading, of any image: of no child more is read than its     *)
(* size.                                                                       *)
THEOREM ReadingTypes == Spec => []TypeOK
<1>1. ReadingInv => TypeOK BY DEF ReadingInv, WordsSoFar, TypeOK
<1> QED BY <1>1, ReadingHolds, PTL

(* Pieces do not matter: whatever the sizes of the reads, of any file, also one  *)
(* that is cut or split at any step, what is read of a child are the words that   *)
(* reads of one word give.                                                     *)
THEOREM PiecesDoNotMatter == Spec => []ReadsWordByWord
<1>1. ReadingInv => ReadsWordByWord BY DEF ReadingInv
<1> QED BY <1>1, ReadingHolds, PTL

(* What was read, of an image of which reads of one word are right. *)
RightSoFar ==
    /\ child.index \in DOMAIN image.disks
    /\ Len(data) <= Len(Written) /\ data = SubSeq(Written, 1, Len(data))

LEMMA RightSoFarHolds ==
    ASSUME ReadingInv, child # Nothing, WordsAreRight(image)
    PROVE  RightSoFar
<1> DEFINE disk == Written
           n == Len(data)
<1>1. Opened /\ WordsSoFar /\ image \in Images /\ WordSeq(data) BY DEF ReadingInv
<1>2. Size(child.reader) \in Nat /\ n \in Nat /\ n <= Size(child.reader)
  <2>1. ReaderType(child.reader) BY <1>1, OpenedType
  <2> QED BY <1>1, <2>1, SizeType DEF WordsSoFar, WordSeq
<1>3. /\ child.index \in DOMAIN image.disks /\ WordSeq(disk)
      /\ \A at \in 0..(Size(child.reader) - 1) :
            LET s == ReadAt(image.file, child.reader, at, 1) IN
            \/ s \in {<<>>, Failure}
            \/ at < Len(disk) /\ s = <<disk[at + 1]>>
  BY <1>1 DEF WordsAreRight, Opened, Written
<1> HIDE DEF disk, n
<1>4. ASSUME NEW i \in 1..n PROVE i <= Len(disk) /\ data[i] = disk[i]
  <2> DEFINE at == i - 1
             s == ReadAt(image.file, child.reader, at, 1)
  <2>1. at \in 0..(Size(child.reader) - 1) /\ at + 1 = i BY <1>2
  <2>2. s = <<data[i]>> BY <1>1 DEF WordsSoFar, n
  <2> HIDE DEF at, s
  <2>3. s \in {<<>>, Failure} \/ (at < Len(disk) /\ s = <<disk[at + 1]>>)
    BY <1>3, <2>1 DEF s
  <2>4. s # <<>> BY <2>2
  <2>5. s # Failure
    <3>1. data[i].kind # "failure" BY <1>1, <1>2 DEF WordSeq, n
    <3>2. Failure[1].kind = "failure" BY DEF Failure, Word
    <3> QED BY <2>2, <3>1, <3>2
  <2>6. Len(disk) \in Nat BY <1>3 DEF WordSeq
  <2> QED BY <2>1, <2>2, <2>3, <2>4, <2>5, <2>6
<1>5. n <= Len(disk)
  <2>1. Len(disk) \in Nat BY <1>3 DEF WordSeq
  <2>2. n \in 1..n => n <= Len(disk) BY <1>4
  <2> QED BY <1>2, <2>1, <2>2
<1>6. data = SubSeq(disk, 1, n)
  <2> DEFINE p == SubSeq(disk, 1, n)
  <2>0. WordSeq(disk) /\ 0 \in Nat /\ n \in Nat /\ 0 + n <= Len(disk) BY <1>2, <1>3, <1>5
  <2> HIDE DEF p
  <2>1. Part(SubSeq(disk, 0 + 1, 0 + n), disk, 0, n) BY <2>0, PartIsSeq
  <2>2. WordSeq(p) /\ Len(p) = n /\ \A i \in 1..n : p[i] = disk[i]
    <3>1. 0 + 1 = 1 /\ 0 + n = n /\ \A i \in 1..n : 0 + i = i BY <1>2
    <3> QED BY <2>1, <3>1 DEF Part, p
  <2>3. p \in Seq(ToSet(p)) /\ data \in Seq(ToSet(data)) /\ Len(data) = n
    BY <1>1, <2>2 DEF WordSeq, n
  <2>4. p = [i \in 1..n |-> p[i]] /\ data = [i \in 1..n |-> data[i]] BY <2>2, <2>3
  <2>5. \A i \in 1..n : p[i] = data[i] BY <1>4, <2>2
  <2>6. p = data BY <2>4, <2>5
  <2> QED BY <2>6 DEF p
<1> QED BY <1>3, <1>5, <1>6 DEF RightSoFar, disk, n

(* If reads of one word are right, which is finitely much for an image, then so   *)
(* are all readings of it.                                                     *)
THEOREM PiecesReadTheDisk ==
    ASSUME \A i \in Images : WordsAreRight(i)
    PROVE  Spec => []ReadsTheDisk
<1>1. ReadingInv => ReadsTheDisk
  <2>1. ReadingInv => image \in Images BY DEF ReadingInv
  <2> QED BY <2>1, RightSoFarHolds DEF ReadsTheDisk, RightSoFar
<1> QED BY <1>1, ReadingHolds, PTL

LEMMA WholeIsRight ==
    ASSUME NEW i, WordsAreWhole(i)
    PROVE  WordsAreRight(i)
<1> DEFINE children == Open(i.file, i.header)
<1> SUFFICES ASSUME NEW c \in ToSet(children)
             PROVE  /\ c.index \in DOMAIN i.disks /\ WordSeq(i.disks[c.index])
                    /\ \A at \in 0..(Size(c.reader) - 1) :
                          LET s == ReadAt(i.file, c.reader, at, 1) IN
                          \/ s \in {<<>>, Failure}
                          \/ at < Len(i.disks[c.index]) /\ s = <<i.disks[c.index][at + 1]>>
  BY DEF WordsAreRight
<1> DEFINE disk == i.disks[c.index]
<1>1. /\ c.index \in DOMAIN i.disks /\ WordSeq(disk) /\ Len(disk) = Size(c.reader)
      /\ \A at \in 0..(Size(c.reader) - 1) : ReadAt(i.file, c.reader, at, 1) = <<disk[at + 1]>>
  BY DEF WordsAreWhole
<1>2. Len(disk) \in Nat BY <1>1 DEF WordSeq
<1> HIDE DEF disk
<1>3. \A at \in 0..(Size(c.reader) - 1) : at < Len(disk) BY <1>1, <1>2
<1> QED BY <1>1, <1>3 DEF disk

(* An image of which every word is read alone is not refused, and no read of it   *)
(* fails.                                                                      *)
NoneFails == image.intact => pc \notin {"refused", "failed"}

LEMMA NoneFailsStep ==
    ASSUME \A i \in Images : i.intact => WordsAreWhole(i),
           ReadingInv, NoneFails, [Next]_vars
    PROVE  NoneFails'
<1> SUFFICES ASSUME image'.intact PROVE pc' \notin {"refused", "failed"} BY DEF NoneFails
<1>1. image' = image BY DEF Next, OpenImage, OpenFails, Read, vars
<1>2. image \in Images /\ WordsAreWhole(image) /\ pc \notin {"refused", "failed"}
  BY <1>1 DEF ReadingInv, NoneFails
<1>3. CASE OpenImage BY <1>3 DEF OpenImage
<1>4. CASE OpenFails BY <1>2, <1>4 DEF OpenFails, WordsAreWhole
<1>5. CASE Read
  <2> DEFINE file == image.file
             r == child.reader
             at == Len(data)
  <2>1. PICK n \in 1..MaxRead :
           pc' = IF ReadAt(image.file, child.reader, Len(data), n) = Failure THEN "failed"
                 ELSE IF ReadAt(image.file, child.reader, Len(data), n) = <<>> THEN "end" ELSE "read"
    BY <1>5 DEF Read
  <2> DEFINE s == ReadAt(file, r, at, n)
  <2>2. child # Nothing /\ Opened /\ WordsSoFar /\ WordSeq(data) BY <1>5 DEF Read, ReadingInv
  <2>3. FileType(file) /\ ReaderType(r) BY <1>2, <2>2, OpenedType
  <2>4. at \in Nat /\ at <= Size(r) /\ n \in Nat \ {0}
    BY <2>2, ImagesAssumption DEF WordsSoFar, WordSeq
  <2> HIDE DEF at
  <2>5. FailsAtAWord(file, r, s) BY <2>3, <2>4, ReaderReads DEF Reads
  <2>6. Len(file.words) < file.step BY <1>2 DEF WordsAreWhole
  <2>7. \A a \in Nat : a < Size(r) => ReadAt(file, r, a, 1) # Failure
    <3> SUFFICES ASSUME NEW a \in Nat, a < Size(r) PROVE ReadAt(file, r, a, 1) # Failure OBVIOUS
    <3> DEFINE disk == image.disks[child.index]
    <3>1. /\ WordSeq(disk) /\ Len(disk) = Size(r)
          /\ \A b \in 0..(Size(r) - 1) : ReadAt(file, r, b, 1) = <<disk[b + 1]>>
      BY <1>2, <2>2 DEF WordsAreWhole, Opened
    <3> HIDE DEF file, r, disk
    <3>2. Size(r) \in Nat BY <2>3, SizeType
    <3>3. a \in 0..(Size(r) - 1) /\ a + 1 \in 1..Len(disk) BY <3>1, <3>2
    <3>4. ReadAt(file, r, a, 1) = <<disk[a + 1]>> BY <3>1, <3>3
    <3>5. disk[a + 1].kind # "failure" BY <3>1, <3>3 DEF WordSeq
    <3>6. Failure[1].kind = "failure" BY DEF Failure, Word
    <3> QED BY <3>4, <3>5, <3>6
  <2> HIDE DEF s, file, r
  <2>8. s # Failure BY <2>5, <2>6, <2>7 DEF FailsAtAWord
  <2>9. pc' \in {"end", "read"} BY <2>1, <2>8 DEF s, file, r, at
  <2> QED BY <2>9
<1>6. CASE UNCHANGED vars BY <1>2, <1>6 DEF vars
<1> QED BY <1>3, <1>4, <1>5, <1>6 DEF Next

(* If every word of the complete images is read alone, then every reading of them *)
(* ends at the end of the disk, with all of it, however it is cut in pieces: an    *)
(* error of a read that is larger than a word, which a dmg or an ewf may give,     *)
(* would be an error of one of its words.                                        *)
THEOREM PiecesReadItWhole ==
    ASSUME \A i \in Images : i.intact => WordsAreWhole(i)
    PROVE  Spec => []IntactIsReadWhole
<1>1. Init => NoneFails BY DEF Init, NoneFails
<1>2. ReadingInv /\ NoneFails /\ [Next]_vars => NoneFails' BY NoneFailsStep
<1>3. ReadingInv /\ NoneFails => IntactIsReadWhole
  <2> SUFFICES ASSUME ReadingInv, image.intact, pc = "end", child # Nothing
               PROVE  data = Written
    BY DEF NoneFails, IntactIsReadWhole
  <2> DEFINE disk == image.disks[child.index]
             n == Len(data)
  <2>1. image \in Images /\ WordsAreWhole(image) /\ Opened /\ WordSeq(data) /\ ReadsWordByWord
    BY DEF ReadingInv
  <2>2. n \in Nat /\ n <= Size(child.reader) BY <2>1 DEF ReadingInv, WordsSoFar, WordSeq
  <2>3. /\ WordSeq(disk) /\ Len(disk) = Size(child.reader)
        /\ \A b \in 0..(Size(child.reader) - 1) :
              ReadAt(image.file, child.reader, b, 1) = <<disk[b + 1]>>
    BY <2>1 DEF WordsAreWhole, Opened
  <2>4. RightSoFar BY <2>1, WholeIsRight, RightSoFarHolds
  <2>5. ReadAt(image.file, child.reader, n, 1) = <<>> BY <2>1 DEF ReadsWordByWord
  <2>6. data = SubSeq(disk, 1, n) BY <2>4 DEF RightSoFar, Written
  <2> HIDE DEF disk, n
  <2>7. Len(disk) \in Nat /\ disk \in Seq(ToSet(disk)) BY <2>3 DEF WordSeq
  <2>8. n = Len(disk)
    <3> SUFFICES ASSUME n # Len(disk) PROVE FALSE OBVIOUS
    <3>1. n \in 0..(Size(child.reader) - 1) BY <2>2, <2>3, <2>7
    <3>2. <<disk[n + 1]>> = <<>> BY <2>3, <2>5, <3>1
    <3> QED BY <3>2
  <2>9. SubSeq(disk, 1, Len(disk)) = disk BY <2>7
  <2> QED BY <2>6, <2>8, <2>9 DEF disk, Written
<1> QED BY <1>1, <1>2, <1>3, ReadingHolds, PTL DEF Spec
=============================================================================
