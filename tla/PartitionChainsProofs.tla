------------------------ MODULE PartitionChainsProofs ------------------------
(***************************************************************************)
(* Theorems about PartitionChains, for disks with any tables and any links.   *)
(***************************************************************************)
EXTENDS PartitionLayouts, FiniteSetTheorems, SequenceTheorems, NaturalsInduction, TLAPS

(* The numbers of a list are not used twice, and a list has elements 1 to its length. *)
Elements(p) == {p[i] : i \in DOMAIN p}
Distinct(p) == \A i, j \in DOMAIN p : p[i].index = p[j].index => i = j
IsList(p) == p \in Seq(Elements(p))
Numbers(p, used) == IsList(p) /\ Distinct(p) /\ \A i \in DOMAIN p : p[i].index \in used
From(n) == {k \in Nat : k >= n}

(* Sets of numbers have a least element. *)
LEMMA LeastNumber ==
    ASSUME NEW S \in SUBSET Nat, S # {}
    PROVE  \E x \in S : \A y \in S : x <= y
<1>1. IsWellFoundedOn(OpToRel(<, Nat), Nat) BY NatLessThanWellFounded
<1>2. PICK x \in S : \A y \in S : ~(<<y, x>> \in OpToRel(<, Nat)) BY <1>1, WFMin
<1>3. \A y \in S : ~(y < x) BY <1>2 DEF OpToRel
<1> QED BY <1>3

(* Nth numbers a finite set: how many elements are up to an element grows with it, *)
(* so that it takes all the values up to the number of elements.                *)
LEMMA NthType ==
    ASSUME NEW S \in SUBSET Nat, IsFiniteSet(S), NEW k \in 1..Cardinality(S)
    PROVE  Nth(S, k) \in S /\ Cardinality({j \in S : j <= Nth(S, k)}) = k
<1> DEFINE upTo(i) == {j \in S : j <= i}
           rank == [i \in S |-> Cardinality(upTo(i))]
           n == Cardinality(S)
<1>1. n \in Nat BY FS_CardinalityType
<1>2. \A i \in S : IsFiniteSet(upTo(i)) /\ rank[i] \in Nat /\ rank[i] <= n /\ rank[i] # 0
  <2> TAKE i \in S
  <2>1. IsFiniteSet(upTo(i)) /\ Cardinality(upTo(i)) <= n BY FS_Subset
  <2>2. Cardinality(upTo(i)) \in Nat BY <2>1, FS_CardinalityType
  <2>3. i \in upTo(i) OBVIOUS
  <2>4. Cardinality(upTo(i)) # 0 BY <2>1, <2>3, FS_EmptySet
  <2> QED BY <2>1, <2>2, <2>4
<1>3. \A i, j \in S : i < j => rank[i] < rank[j]
  <2> SUFFICES ASSUME NEW i \in S, NEW j \in S, i < j PROVE rank[i] < rank[j] OBVIOUS
  <2>1. upTo(i) \in SUBSET upTo(j)
    <3>1. \A y \in S : y \in Nat /\ i \in Nat /\ j \in Nat /\ (y <= i => y <= j) OBVIOUS
    <3> QED BY <3>1
  <2>2. j \in upTo(j) /\ j \notin upTo(i) OBVIOUS
  <2>3. upTo(i) # upTo(j) BY <2>2
  <2>4. IsFiniteSet(upTo(j)) BY <1>2
  <2> HIDE DEF upTo
  <2>5. Cardinality(upTo(i)) <= Cardinality(upTo(j)) /\ Cardinality(upTo(j)) # Cardinality(upTo(i))
    BY <2>1, <2>3, <2>4, FS_Subset
  <2> QED BY <2>5, <1>2
<1>4. rank \in Injection(S, 1..n)
  <2>1. rank \in [S -> 1..n] BY <1>1, <1>2
  <2>2. \A i, j \in S : rank[i] = rank[j] => i = j
    <3> SUFFICES ASSUME NEW i \in S, NEW j \in S, i # j PROVE rank[i] # rank[j] OBVIOUS
    <3>1. i < j \/ j < i OBVIOUS
    <3>2. rank[i] \in Nat /\ rank[j] \in Nat BY <1>2
    <3> HIDE DEF rank
    <3> QED BY <3>1, <3>2, <1>3
  <2> HIDE DEF rank, n
  <2> QED BY <2>1, <2>2 DEF Injection, IsInjective
<1>5. IsFiniteSet(1..n) /\ Cardinality(1..n) = n BY <1>1, FS_Interval
<1>6. rank \in Surjection(S, 1..n)
  <2> HIDE DEF rank
  <2> QED BY <1>4, <1>5, FS_Injection
<1>7. PICK i \in S : rank[i] = k
  <2> HIDE DEF rank
  <2> QED BY <1>6 DEF Surjection
<1>8. \E x \in S : Cardinality({j \in S : j <= x}) = k BY <1>7
<1> QED BY <1>8 DEF Nth

LEMMA NthDiffers ==
    ASSUME NEW S \in SUBSET Nat, IsFiniteSet(S),
           NEW k \in 1..Cardinality(S), NEW l \in 1..Cardinality(S), Nth(S, k) = Nth(S, l)
    PROVE  k = l
<1>1. Cardinality({j \in S : j <= Nth(S, k)}) = k BY NthType
<1>2. Cardinality({j \in S : j <= Nth(S, l)}) = l BY NthType
<1> QED BY <1>1, <1>2

(* The slots of a list that are kept. *)
LEMMA KeptType ==
    ASSUME NEW T, NEW s \in Seq(T), NEW kept \in SUBSET (DOMAIN s)
    PROVE  kept \in SUBSET Nat /\ IsFiniteSet(kept) /\ Cardinality(kept) \in Nat
<1>1. Len(s) \in Nat /\ DOMAIN s = 1..Len(s) OBVIOUS
<1>2. IsFiniteSet(1..Len(s)) BY <1>1, FS_Interval
<1>3. IsFiniteSet(kept) BY <1>1, <1>2, FS_Subset
<1> QED BY <1>1, <1>3, FS_CardinalityType

(* Partitions that have the number of their slot, if there are any. *)
BySlots(p, kept) ==
    p # <<>> =>
        /\ DOMAIN p = 1..Cardinality(kept)
        /\ \A k \in 1..Cardinality(kept) : p[k].index = Slot(Nth(kept, k))

LEMMA SlotsDistinct ==
    ASSUME NEW T, NEW s \in Seq(T), NEW kept \in SUBSET (DOMAIN s), NEW p,
           BySlots(p, kept)
    PROVE  Distinct(p)
<1> SUFFICES ASSUME p # <<>> PROVE Distinct(p) BY DEF Distinct
<1>1. kept \in SUBSET Nat /\ IsFiniteSet(kept) BY KeptType
<1> SUFFICES ASSUME NEW k \in DOMAIN p, NEW l \in DOMAIN p, p[k].index = p[l].index
             PROVE  k = l
  BY DEF Distinct
<1>2. /\ k \in 1..Cardinality(kept) /\ l \in 1..Cardinality(kept)
      /\ Nth(kept, k) - 1 = Nth(kept, l) - 1
  BY DEF BySlots, Slot
<1>3. Nth(kept, k) \in Nat /\ Nth(kept, l) \in Nat BY <1>1, <1>2, NthType
<1>4. Nth(kept, k) = Nth(kept, l) BY <1>2, <1>3
<1> QED BY <1>1, <1>2, <1>4, NthDiffers

(* Partitions that are counted. *)
LEMMA CountedDistinct ==
    ASSUME NEW p, NEW first \in Int, NEW n, DOMAIN p = 1..n,
           \A i \in DOMAIN p : p[i].index = first + i - 1
    PROVE  Distinct(p)
BY DEF Distinct

LEMMA RenumberedDistinct ==
    ASSUME NEW p, NEW n, DOMAIN p = 1..n, \A i \in DOMAIN p : "index" \in DOMAIN p[i]
    PROVE  Distinct(Renumbered(p))
BY DEF Distinct, Renumbered

(* Lists *)
LEMMA IsListIntro ==
    ASSUME NEW n \in Nat, NEW p, DOMAIN p = 1..n, p = [k \in 1..n |-> p[k]]
    PROVE  IsList(p) /\ Len(p) = n
<1>1. p \in [1..n -> Elements(p)] BY DEF Elements
<1> QED BY <1>1 DEF IsList

LEMMA AppendNumbers ==
    ASSUME NEW used, NEW p, Numbers(p, used), NEW x, x.index \notin used
    PROVE  Numbers(Append(p, x), used \cup {x.index})
<1> DEFINE q == Append(p, x)
<1> DEFINE T == Elements(p) \cup {x}
<1>2. p \in Seq(T) /\ x \in T
  <2>1. Elements(p) \subseteq T /\ x \in T OBVIOUS
  <2> QED BY <2>1, SeqMonotonic DEF IsList, Numbers
<1> HIDE DEF T
<1>3. /\ Len(p) \in Nat /\ DOMAIN p = 1..Len(p)
      /\ DOMAIN q = 1..(Len(p) + 1) /\ q \in Seq(T)
      /\ \A i \in 1..(Len(p) + 1) : q[i] = IF i <= Len(p) THEN p[i] ELSE x
  BY <1>2
<1>4. q = [k \in 1..(Len(p) + 1) |-> q[k]]
  <2> HIDE DEF q
  <2>1. q \in [1..Len(q) -> T] BY <1>3
  <2> QED BY <2>1, <1>3
<1> HIDE DEF q
<1>5. IsList(q) BY <1>3, <1>4, IsListIntro
<1>6. \A i \in DOMAIN q : \/ i \in DOMAIN p /\ q[i] = p[i]
                          \/ i = Len(p) + 1 /\ q[i] = x
  BY <1>3
<1>7. Distinct(q) BY <1>6 DEF Distinct, Numbers
<1>8. \A i \in DOMAIN q : q[i].index \in used \cup {x.index} BY <1>6 DEF Numbers
<1> QED BY <1>5, <1>7, <1>8 DEF q, Numbers

LEMMA ConcatNumbers ==
    ASSUME NEW A, NEW B, A \cap B = {}, NEW p, Numbers(p, A), NEW q, Numbers(q, B)
    PROVE  Numbers(p \o q, A \cup B)
<1> DEFINE T == Elements(p) \cup Elements(q)
           r == p \o q
<1>1. p \in Seq(T)
  <2>1. Elements(p) \subseteq T OBVIOUS
  <2> QED BY <2>1, SeqMonotonic DEF IsList, Numbers
<1>2. q \in Seq(T)
  <2>1. Elements(q) \subseteq T OBVIOUS
  <2> QED BY <2>1, SeqMonotonic DEF IsList, Numbers
<1> HIDE DEF T
<1>3. /\ Len(p) \in Nat /\ DOMAIN p = 1..Len(p) /\ Len(q) \in Nat /\ DOMAIN q = 1..Len(q)
      /\ DOMAIN r = 1..(Len(p) + Len(q)) /\ r \in Seq(T)
  BY <1>1, <1>2
<1>4. \A i \in DOMAIN r : /\ i \in DOMAIN p => r[i] = p[i]
                          /\ i \notin DOMAIN p => i - Len(p) \in DOMAIN q /\ r[i] = q[i - Len(p)]
  BY <1>1, <1>2, <1>3
<1>5. r = [k \in 1..(Len(p) + Len(q)) |-> r[k]]
  <2> HIDE DEF r
  <2>1. r \in [1..Len(r) -> T] BY <1>3
  <2> QED BY <2>1, <1>3
<1> HIDE DEF r
<1>6. IsList(r) BY <1>3, <1>5, IsListIntro
<1>7. Distinct(r)
  <2> SUFFICES ASSUME NEW i \in DOMAIN r, NEW j \in DOMAIN r, r[i].index = r[j].index PROVE i = j
    BY DEF Distinct
  <2>1. CASE i \in DOMAIN p /\ j \in DOMAIN p BY <2>1, <1>4 DEF Distinct, Numbers
  <2>2. CASE i \in DOMAIN p /\ j \notin DOMAIN p BY <2>2, <1>4 DEF Numbers
  <2>3. CASE i \notin DOMAIN p /\ j \in DOMAIN p BY <2>3, <1>4 DEF Numbers
  <2>4. CASE i \notin DOMAIN p /\ j \notin DOMAIN p
    <3>1. i - Len(p) = j - Len(p) BY <2>4, <1>4 DEF Distinct, Numbers
    <3> QED BY <3>1, <1>3
  <2> QED BY <2>1, <2>2, <2>3, <2>4
<1>8. \A i \in DOMAIN r : r[i].index \in A \cup B BY <1>4 DEF Numbers
<1> QED BY <1>6, <1>7, <1>8 DEF r, Numbers

LEMMA NoNumbers ==
    ASSUME NEW used
    PROVE  Numbers(<<>>, used)
BY DEF IsList, Distinct, Elements, Numbers

LEMMA OneNumber ==
    ASSUME NEW used, NEW x, x.index \in used
    PROVE  Numbers(<<x>>, used)
<1>1. IsList(<<x>>) /\ Distinct(<<x>>) BY DEF IsList, Distinct, Elements
<1> QED BY <1>1 DEF Numbers
-----------------------------------------------------------------------------
(* What is in a sector. *)
LEMMA SectorType ==
    ASSUME disk \in Disks, NEW i
    PROVE  /\ Read(i).at \in Nat /\ Read(i).n \in Nat /\ Read(i).entries \in Seq(EntrySet)
           /\ Read(i).magic \in {"mbr", "atari"} => Len(Read(i).entries) >= 4
           /\ Read(i).magic = "ADFS" => Len(Read(i).entries) >= 1
<1>1. CASE i >= disk.size BY <1>1 DEF Read, SectorAt, Unreadable, Table
<1>2. CASE ~(i >= disk.size) /\ i \in DOMAIN disk.tables
  <2>1. Read(i) = disk.tables[i] BY <1>2 DEF Read, SectorAt
  <2> QED BY <2>1, <1>2, DisksAssumption
<1>3. CASE ~(i >= disk.size) /\ i \notin DOMAIN disk.tables
  BY <1>3 DEF Read, SectorAt, NoTable, Table
<1> QED BY <1>1, <1>2, <1>3

LEMMA EntriesType == ASSUME disk \in Disks, NEW i PROVE SectorAt(disk, i).entries \in Seq(EntrySet)
BY SectorType DEF Read

(* The tables that are a list: no two of their partitions have the same number. *)
LEMMA GptDistinct == ASSUME disk \in Disks PROVE Distinct(Gpt(disk).parts)
<1> DEFINE header == SectorAt(disk, 1)
           table == SectorAt(disk, header.at).entries
           last == AtMost(header.n, Len(table))
           entries == SubSeq(table, 1, last)
           kept == {i \in DOMAIN entries :
                       entries[i].type # "empty" /\ entries[i].count >= entries[i].start}
<1>1. table \in Seq(EntrySet) /\ header.n \in Nat BY SectorType DEF Read
<1>2. entries \in Seq(EntrySet)
  <2> HIDE DEF table, header
  <2>1. last \in Nat /\ last <= Len(table) BY <1>1 DEF AtMost
  <2>2. \A i \in 1..last : table[i] \in EntrySet BY <1>1, <2>1
  <2> HIDE DEF last
  <2> QED BY <2>1, <2>2, SubSeqProperties
<1>3. BySlots(Gpt(disk).parts, kept)
  BY DEF Gpt, Parts, Part, Found, NotFound, BySlots
<1> HIDE DEF entries
<1> QED BY <1>2, <1>3, SlotsDistinct

LEMMA DisklabelDistinct == ASSUME disk \in Disks PROVE Distinct(Disklabel(disk).parts)
<1> DEFINE entries == SectorAt(disk, IF SectorAt(disk, 0).magic = "BSD" THEN 0 ELSE 1).entries
           kept == {i \in DOMAIN entries :
                       i <= 22 /\ entries[i].type # "empty" /\ entries[i].count # 0 /\ Slot(i) # 2}
<1>1. entries \in Seq(EntrySet) BY EntriesType
<1>2. BySlots(Disklabel(disk).parts, kept)
  BY DEF Disklabel, Slots, Parts, Part, Found, NotFound, BySlots
<1> HIDE DEF entries
<1> QED BY <1>1, <1>2, SlotsDistinct

LEMMA SunSparcDistinct == ASSUME disk \in Disks PROVE Distinct(SunSparc(disk).parts)
<1> DEFINE entries == SectorAt(disk, 0).entries
           kept == {i \in DOMAIN entries : entries[i].count # 0 /\ Slot(i) # 2}
<1>1. entries \in Seq(EntrySet) BY EntriesType
<1>2. BySlots(SunSparc(disk).parts, kept) BY DEF SunSparc, Parts, Part, Found, NotFound, BySlots
<1> HIDE DEF entries
<1> QED BY <1>1, <1>2, SlotsDistinct

LEMMA SolarisX86Distinct == ASSUME disk \in Disks PROVE Distinct(SolarisX86(disk).parts)
<1> DEFINE entries == SectorAt(disk, 1).entries
           used == {i \in DOMAIN entries : Slot(i) # 2 /\ entries[i].count # 0}
           kept == {i \in DOMAIN entries : i \in used}
<1>1. entries \in Seq(EntrySet) BY EntriesType
<1>2. BySlots(SolarisX86(disk).parts, kept) BY DEF SolarisX86, Slots, Parts, Part, Found, NotFound, BySlots
<1> HIDE DEF entries
<1> QED BY <1>1, <1>2, SlotsDistinct

LEMMA SgiDistinct == ASSUME disk \in Disks PROVE Distinct(Sgi(disk).parts)
<1> DEFINE entries == SectorAt(disk, 0).entries
           kept == {i \in DOMAIN entries :
                       entries[i].count # 0 /\ entries[i].type \notin {"volhdr", "volume"}}
<1>1. entries \in Seq(EntrySet) BY EntriesType
<1>2. BySlots(Sgi(disk).parts, kept) BY DEF Sgi, Slots, Parts, Part, Found, NotFound, BySlots
<1> HIDE DEF entries
<1> QED BY <1>1, <1>2, SlotsDistinct

LEMMA KarmaDistinct == ASSUME disk \in Disks PROVE Distinct(Karma(disk).parts)
<1> DEFINE entries == SectorAt(disk, 0).entries
           kept == {i \in DOMAIN entries : i <= 2 /\ entries[i].type = "data" /\ entries[i].count # 0}
<1>1. entries \in Seq(EntrySet) BY EntriesType
<1>2. BySlots(Karma(disk).parts, kept) BY DEF Karma, Slots, Parts, Part, Found, NotFound, BySlots
<1> HIDE DEF entries
<1> QED BY <1>1, <1>2, SlotsDistinct

LEMMA UltrixDistinct == ASSUME disk \in Disks PROVE Distinct(Ultrix(disk).parts)
<1> DEFINE entries == SectorAt(disk, 31).entries
           kept == {i \in DOMAIN entries : entries[i].count # 0}
<1>1. entries \in Seq(EntrySet) BY EntriesType
<1>2. BySlots(Ultrix(disk).parts, kept) BY DEF Ultrix, Slots, Parts, Part, Found, NotFound, BySlots
<1> HIDE DEF entries
<1> QED BY <1>1, <1>2, SlotsDistinct

LEMMA Sysv68Distinct == ASSUME disk \in Disks PROVE Distinct(Sysv68(disk).parts)
<1> DEFINE label == SectorAt(disk, 0)
           entries == SectorAt(disk, label.at).entries
           kept == {i \in DOMAIN entries : i <= label.n - 1 /\ entries[i].count # 0}
<1>1. entries \in Seq(EntrySet) BY EntriesType
<1>2. BySlots(Sysv68(disk).parts, kept) BY DEF Sysv68, Slots, Parts, Part, Found, NotFound, BySlots
<1> HIDE DEF entries
<1> QED BY <1>1, <1>2, SlotsDistinct

LEMMA Pc98Distinct == ASSUME disk \in Disks PROVE Distinct(Pc98(disk).parts)
<1> DEFINE entries == SectorAt(disk, 1).entries
           end(i) == (CylinderOf(entries[i].count) + 1) * Cylinder
           start(i) == LET chs == entries[i].start IN
                       (CylinderOf(chs) * Heads + HeadOf(chs)) * PerTrack + SectorOf(chs)
           kept == {i \in DOMAIN entries : entries[i].type # "empty" /\ end(i) > start(i)}
<1>1. entries \in Seq(EntrySet) BY EntriesType
<1>2. BySlots(Pc98(disk).parts, kept) BY DEF Pc98, Parts, Part, Found, NotFound, BySlots
<1> HIDE DEF entries
<1> QED BY <1>1, <1>2, SlotsDistinct

LEMMA Plan9Distinct == ASSUME disk \in Disks PROVE Distinct(Plan9(disk).parts)
<1> DEFINE entries == SectorAt(disk, 1).entries
           kept == {i \in DOMAIN entries : TRUE}
<1>1. entries \in Seq(EntrySet) BY EntriesType
<1>2. BySlots(Plan9(disk).parts, kept) BY DEF Plan9, Parts, Part, Found, NotFound, BySlots
<1> HIDE DEF entries
<1> QED BY <1>1, <1>2, SlotsDistinct

LEMMA AixDistinct == ASSUME disk \in Disks PROVE Distinct(Aix(disk).parts)
<1> DEFINE lvm == SectorAt(disk, 7)
           sizes == SectorAt(disk, lvm.at).entries
           map == SectorAt(disk, lvm.at + 1)
           volume(i) == IF map.entries[i].start = 0 THEN 1 ELSE map.entries[i].start
           of(v) == {i \in 1..AtMost(Len(map.entries), 1016) :
                        volume(i) = v /\ map.entries[i].count # 0}
           firsts(v) == {i \in of(v) : map.entries[i].count = 1}
           kept == {v \in DOMAIN sizes :
                       /\ firsts(v) # {} /\ Cardinality(of(v)) = sizes[v].count
                       /\ \A i \in of(v) \ firsts(v) :
                             i - 1 \in of(v) /\ map.entries[i - 1].count + 1 = map.entries[i].count}
<1>1. sizes \in Seq(EntrySet) BY EntriesType
<1>2. BySlots(Aix(disk).parts, kept) BY DEF Aix, Parts, Part, Found, NotFound, BySlots
<1>3. kept \subseteq DOMAIN sizes OBVIOUS
<1> HIDE DEF sizes, kept
<1> QED BY <1>1, <1>2, <1>3, SlotsDistinct

LEMMA EesoxDistinct == ASSUME disk \in Disks PROVE Distinct(Eesox(disk).parts)
<1> DEFINE entries == SectorAt(disk, 7).entries
           end(i) == IF i < Len(entries) THEN entries[i + 1].start ELSE Endless
           kept == {i \in DOMAIN entries : end(i) > entries[i].start}
<1>1. entries \in Seq(EntrySet) BY EntriesType
<1>2. BySlots(Eesox(disk).parts, kept) BY DEF Eesox, Parts, Part, Found, NotFound, BySlots
<1> HIDE DEF entries
<1> QED BY <1>1, <1>2, SlotsDistinct

LEMMA DasdDistinct == Distinct(Dasd(disk).parts)
<1> DEFINE parts == Dasd(disk).parts
<1>1. parts = <<>> \/ \E a, b : parts = <<Part(0, a, b)>> BY DEF Dasd, Found, NotFound
<1>2. \A a, b : Distinct(<<Part(0, a, b)>>) BY DEF Distinct
<1>3. Distinct(<<>>) BY DEF Distinct
<1> HIDE DEF parts
<1>4. Distinct(parts) BY <1>1, <1>2, <1>3
<1> QED BY <1>4 DEF parts

LEMMA ApmDistinct == Distinct(Apm(disk).parts)
<1> DEFINE map == ApmMap(disk)
           kept == {i \in DOMAIN map : map[i].type \notin {"map", "driver", "empty"}}
           slots == [k \in 1..Cardinality(kept) |->
                        Part(Slot(Nth(kept, k)), map[Nth(kept, k)].start, map[Nth(kept, k)].count)]
<1>1. Apm(disk).parts = <<>> \/ Apm(disk).parts = Renumbered(slots)
  BY DEF Apm, Slots, Parts, Found, NotFound
<1>2. Distinct(Renumbered(slots))
  <2>1. DOMAIN slots = 1..Cardinality(kept) /\ \A i \in DOMAIN slots : "index" \in DOMAIN slots[i]
    BY DEF Part
  <2> HIDE DEF slots
  <2> QED BY <2>1, RenumberedDistinct
<1>3. Distinct(<<>>) BY DEF Distinct
<1> HIDE DEF slots
<1> QED BY <1>1, <1>2, <1>3

(* Entries that are kept, and partitions that are numbered in order. *)
LEMMA PickedType ==
    ASSUME NEW T, NEW s \in Seq(T), NEW kept \in SUBSET (DOMAIN s)
    PROVE  Picked(s, kept) \in Seq(T)
<1>1. kept \in SUBSET Nat /\ IsFiniteSet(kept) /\ Cardinality(kept) \in Nat BY KeptType
<1>2. \A k \in 1..Cardinality(kept) : Nth(kept, k) \in DOMAIN s BY <1>1, NthType
<1>3. \A k \in 1..Cardinality(kept) : s[Nth(kept, k)] \in T BY <1>2
<1> QED BY <1>1, <1>3 DEF Picked

LEMMA IndexedType ==
    ASSUME NEW T, NEW s \in Seq(T), NEW first \in Nat
    PROVE  Numbers(Indexed(first, s), From(first)) /\ DOMAIN Indexed(first, s) = 1..Len(s)
<1> DEFINE p == Indexed(first, s)
<1>1. Len(s) \in Nat /\ DOMAIN s = 1..Len(s) OBVIOUS
<1>2. /\ DOMAIN p = 1..Len(s) /\ p = [i \in 1..Len(s) |-> p[i]]
      /\ \A i \in DOMAIN p : p[i].index = first + i - 1
  BY <1>1 DEF Indexed, Part
<1> HIDE DEF p
<1>3. IsList(p) BY <1>1, <1>2, IsListIntro
<1>4. Distinct(p) BY <1>1, <1>2, CountedDistinct
<1>5. \A i \in DOMAIN p : p[i].index \in From(first) BY <1>1, <1>2 DEF From
<1> QED BY <1>2, <1>3, <1>4, <1>5 DEF p, Numbers

(* The entries before the first one that ends a list. *)
LEMMA BeforeType ==
    ASSUME NEW T, NEW s \in Seq(T), NEW ends \in SUBSET (DOMAIN s), ends # {}
    PROVE  SubSeq(s, 1, (CHOOSE i \in ends : \A j \in ends : i <= j) - 1) \in Seq(T)
<1> DEFINE least == CHOOSE i \in ends : \A j \in ends : i <= j
<1>1. DOMAIN s = 1..Len(s) /\ Len(s) \in Nat OBVIOUS
<1>2. \E i \in ends : \A j \in ends : i <= j BY <1>1, LeastNumber
<1>3. least \in ends BY <1>2
<1> HIDE DEF least
<1>4. least - 1 \in Int /\ \A i \in 1..(least - 1) : s[i] \in T BY <1>1, <1>3
<1>5. SubSeq(s, 1, least - 1) \in Seq(T) BY <1>4, SubSeqProperties
<1> QED BY <1>5 DEF least

LEMMA RiscixType ==
    ASSUME disk \in Disks, NEW first \in Nat, NEW i
    PROVE  Numbers(RiscixParts(first, SectorAt(disk, i)), From(first))
<1> DEFINE entries == SectorAt(disk, i).entries
           used == {j \in DOMAIN entries :
                       entries[j].type \notin {"empty", "All"} /\ Usable(entries[j])}
<1>1. entries \in Seq(EntrySet) BY EntriesType
<1>2. Picked(entries, used) \in Seq(EntrySet)
  <2> HIDE DEF entries
  <2> QED BY <1>1, PickedType
<1>3. RiscixParts(first, SectorAt(disk, i)) = Indexed(first, Picked(entries, used)) BY DEF RiscixParts
<1> HIDE DEF entries, used
<1> QED BY <1>2, <1>3, IndexedType

LEMMA LinuxType ==
    ASSUME disk \in Disks, NEW first \in Nat, NEW start \in Nat, NEW i
    PROVE  Numbers(LinuxParts(first, start, SectorAt(disk, i)), From(first))
<1> DEFINE entries == SectorAt(disk, i).entries
           bad == {j \in DOMAIN entries : entries[j].type \notin {"native", "swap"}}
           listed == IF bad = {} THEN entries
                     ELSE SubSeq(entries, 1, (CHOOSE j \in bad : \A k \in bad : j <= k) - 1)
           used == Picked(listed, {j \in DOMAIN listed : Usable(listed[j])})
           moved == [j \in DOMAIN used |-> [used[j] EXCEPT !.start = start + @]]
<1>1. entries \in Seq(EntrySet) BY EntriesType
<1>2. listed \in Seq(EntrySet)
  <2> HIDE DEF entries
  <2> QED BY <1>1, BeforeType
<1>3. used \in Seq(EntrySet)
  <2> HIDE DEF listed
  <2> QED BY <1>2, PickedType
<1>4. moved \in Seq(EntrySet)
  <2> HIDE DEF used
  <2>1. DOMAIN used = 1..Len(used) /\ Len(used) \in Nat BY <1>3
  <2>2. \A j \in DOMAIN used : used[j] \in EntrySet BY <1>3
  <2>3. \A j \in DOMAIN used : [used[j] EXCEPT !.start = start + @] \in EntrySet
    BY <2>2 DEF EntrySet
  <2> QED BY <2>1, <2>3
<1>5. LinuxParts(first, start, SectorAt(disk, i)) = Indexed(first, moved) BY DEF LinuxParts
<1> HIDE DEF moved
<1> QED BY <1>4, <1>5, IndexedType

LEMMA IcsDistinct == ASSUME disk \in Disks PROVE Distinct(Ics(disk).parts)
<1> DEFINE table == SectorAt(disk, 0).entries
           ends == {i \in DOMAIN table : table[i].count = 0}
           entries == IF ends = {} THEN table
                      ELSE SubSeq(table, 1, (CHOOSE i \in ends : \A j \in ends : i <= j) - 1)
           marked(e) == /\ e.type = "signed" /\ e.count > 1
                        /\ SectorAt(disk, e.start).magic = "LinuxPart"
           moved(e) == IF marked(e) THEN Entry(e.type, e.start + 1, e.count - 1) ELSE e
           listed == [i \in DOMAIN entries |-> moved(entries[i])]
<1>1. table \in Seq(EntrySet) BY EntriesType
<1>2. entries \in Seq(EntrySet)
  <2> HIDE DEF table
  <2> QED BY <1>1, BeforeType
<1>3. listed \in Seq(EntrySet)
  <2> HIDE DEF entries
  <2>1. DOMAIN entries = 1..Len(entries) /\ Len(entries) \in Nat BY <1>2
  <2>2. \A i \in DOMAIN entries : entries[i] \in EntrySet BY <1>2
  <2>3. \A e \in EntrySet : moved(e) \in EntrySet BY DEF EntrySet, Entry
  <2> HIDE DEF moved
  <2> QED BY <2>1, <2>2, <2>3
<1>4. Ics(disk).parts = <<>> \/ Ics(disk).parts = Indexed(0, listed) BY DEF Ics, Found, NotFound
<1> HIDE DEF listed
<1>5. Distinct(Indexed(0, listed)) BY <1>3, IndexedType DEF Numbers
<1>6. Distinct(<<>>) BY DEF Distinct
<1> QED BY <1>4, <1>5, <1>6

LEMMA PowertecDistinct == ASSUME disk \in Disks PROVE Distinct(Powertec(disk).parts)
<1> DEFINE entries == SectorAt(disk, 0).entries
           used == {i \in DOMAIN entries : entries[i].count > 0}
<1>1. entries \in Seq(EntrySet) BY EntriesType
<1>2. \/ Powertec(disk).parts = <<>>
      \/ Powertec(disk).parts = Indexed(0, Picked(entries, used))
  BY DEF Powertec, Found, NotFound
<1>3. Picked(entries, used) \in Seq(EntrySet)
  <2> HIDE DEF entries
  <2> QED BY <1>1, PickedType
<1> HIDE DEF entries, used
<1>4. Distinct(Indexed(0, Picked(entries, used))) BY <1>3, IndexedType DEF Numbers
<1>5. Distinct(<<>>) BY DEF Distinct
<1> QED BY <1>2, <1>4, <1>5
LEMMA SecondStartType ==
    ASSUME disk \in Disks, NEW i, IsBoot(Read(i))
    PROVE  SecondStart(Read(i)) \in Nat
<1>1. /\ Read(i).n \in Nat /\ Read(i).entries \in Seq(EntrySet)
      /\ Len(Read(i).entries) >= 1
  BY SectorType DEF IsBoot
<1>2. Read(i).entries[1] \in EntrySet BY <1>1
<1>3. Read(i).entries[1].start \in Nat BY <1>2 DEF EntrySet
<1>4. \A a, b \in Nat : a * b \in Nat OBVIOUS
<1>5. Read(i).entries[1].start * Read(i).n \in Nat BY <1>1, <1>3, <1>4
<1> QED BY <1>4, <1>5, GeometryAssumption DEF SecondStart

LEMMA AdfsDistinct == ASSUME disk \in Disks PROVE Distinct(Adfs(disk).parts)
<1> DEFINE start == SecondStart(Boot(disk, 6))
           slice == BootSlice(1, start)
           riscix == RiscixParts(2, SectorAt(disk, start))
           linux == LinuxParts(2, start, SectorAt(disk, start))
           whole == Part(1, start, Endless - start)
           table == SectorAt(disk, start)
           boot == Part(0, 0, Boot(disk, 6).entries[1].count)
<1>1. CASE IsBoot(Boot(disk, 6))
  <2>1. start \in Nat BY <1>1, SecondStartType DEF Boot, Read
  <2>2. slice.index = 1 /\ whole.index = 1 /\ boot.index = 0 BY DEF BootSlice, Part
  <2>3. Numbers(riscix, From(2)) /\ Numbers(linux, From(2))
    <3> HIDE DEF start
    <3> QED BY <2>1, RiscixType, LinuxType
  <2>4. \/ Adfs(disk).parts = <<>>
        \/ \E second \in {<<>>, <<slice>> \o riscix, <<slice>> \o linux, <<whole>>} :
              Adfs(disk).parts = <<boot>> \o second
    <3>1. CASE SecondType(Boot(disk, 6)) = "none" \/ start = 0
      <4>1. \/ Adfs(disk).parts = <<>>
            \/ Adfs(disk).parts = <<boot>> \o <<>>
        BY <3>1 DEF Adfs, Found, NotFound
      <4> QED BY <4>1
    <3>2. CASE SecondType(Boot(disk, 6)) = "linux" /\ start # 0
      <4>1. \/ Adfs(disk).parts = <<>>
            \/ Adfs(disk).parts = <<boot>> \o (<<slice>> \o linux)
        BY <3>2 DEF Adfs, Found, NotFound
      <4> QED BY <4>1
    <3>3. CASE SecondType(Boot(disk, 6)) = "riscix" /\ start # 0 /\ table.magic = "RISCIX"
      <4>1. \/ Adfs(disk).parts = <<>>
            \/ Adfs(disk).parts = <<boot>> \o (<<slice>> \o riscix)
        BY <3>3 DEF Adfs, Found, NotFound
      <4> QED BY <4>1
    <3>4. CASE /\ SecondType(Boot(disk, 6)) \notin {"none", "linux"} /\ start # 0
               /\ ~(SecondType(Boot(disk, 6)) = "riscix" /\ table.magic = "RISCIX")
      <4>1. \/ Adfs(disk).parts = <<>>
            \/ Adfs(disk).parts = <<boot>> \o <<whole>>
        BY <3>4 DEF Adfs, Found, NotFound
      <4> QED BY <4>1
    <3> QED BY <3>1, <3>2, <3>3, <3>4
  <2> HIDE DEF slice, riscix, linux, whole, boot
  <2>6. {1} \cap From(2) = {} /\ {1} \cup From(2) = From(1) /\ {0} \cap From(1) = {} /\ {1} \subseteq From(1)
    BY DEF From
  <2>7. Numbers(<<boot>>, {0}) /\ Numbers(<<slice>>, {1}) /\ Numbers(<<whole>>, From(1))
    BY <2>2, <2>6, OneNumber
  <2>8. Numbers(<<slice>> \o riscix, From(1)) BY <2>3, <2>6, <2>7, ConcatNumbers
  <2>9. Numbers(<<slice>> \o linux, From(1)) BY <2>3, <2>6, <2>7, ConcatNumbers
  <2>10. Numbers(<<>>, From(1)) BY NoNumbers
  <2>11. \A q : Numbers(q, From(1)) => Distinct(<<boot>> \o q)
    <3> TAKE q
    <3> HAVE Numbers(q, From(1))
    <3>1. Numbers(<<boot>> \o q, {0} \cup From(1)) BY <2>6, <2>7, ConcatNumbers
    <3> QED BY <3>1 DEF Numbers
  <2>12. Distinct(<<>>) BY DEF Distinct
  <2> QED BY <2>4, <2>7, <2>8, <2>9, <2>10, <2>11, <2>12
<1>2. CASE ~IsBoot(Boot(disk, 6))
  <2>1. Adfs(disk).parts = <<>> BY <1>2 DEF Adfs, NotFound
  <2> QED BY <2>1 DEF Distinct
<1> QED BY <1>1, <1>2

LEMMA FlatDistinct ==
    ASSUME disk \in Disks, disk.format \notin Chained
    PROVE  Distinct(Flat(disk).parts)
<1>1. disk.format \in Formats \ Chained BY DisksAssumption
<1>2. CASE disk.format = "gpt" BY <1>2, GptDistinct DEF Flat
<1>3. CASE disk.format = "apm" BY <1>3, ApmDistinct DEF Flat
<1>4. CASE disk.format = "disklabel" BY <1>4, DisklabelDistinct DEF Flat
<1>5. CASE disk.format = "sun_sparc" BY <1>5, SunSparcDistinct DEF Flat
<1>6. CASE disk.format = "solaris_x86_vtoc" BY <1>6, SolarisX86Distinct DEF Flat
<1>7. CASE disk.format = "sgi" BY <1>7, SgiDistinct DEF Flat
<1>8. CASE disk.format = "karma" BY <1>8, KarmaDistinct DEF Flat
<1>9. CASE disk.format = "ultrix" BY <1>9, UltrixDistinct DEF Flat
<1>10. CASE disk.format = "sysv68" BY <1>10, Sysv68Distinct DEF Flat
<1>11. CASE disk.format = "pc98" BY <1>11, Pc98Distinct DEF Flat
<1>12. CASE disk.format = "plan9" BY <1>12, Plan9Distinct DEF Flat
<1>13. CASE disk.format = "dasd" BY <1>13, DasdDistinct DEF Flat
<1>14. CASE disk.format = "aix" BY <1>14, AixDistinct DEF Flat
<1>15. CASE disk.format = "adfs" BY <1>15, AdfsDistinct DEF Flat
<1>16. CASE disk.format = "eesox" BY <1>16, EesoxDistinct DEF Flat
<1>17. CASE disk.format = "ics" BY <1>17, IcsDistinct DEF Flat
<1>18. CASE disk.format = "powertec" BY <1>18, PowertecDistinct DEF Flat
<1> QED
  BY <1>1, <1>2, <1>3, <1>4, <1>5, <1>6, <1>7, <1>8, <1>9, <1>10, <1>11, <1>12, <1>13, <1>14,
     <1>15, <1>16, <1>17, <1>18
  DEF Formats

(* The Icd table of atari is numbered behind what was found. *)
LEMMA IcdType ==
    ASSUME disk \in Disks, index \in Nat
    PROVE  Numbers(Icd, From(index)) /\ (disk.format = "mbr" => Icd = <<>>)
<1> DEFINE table == Read(0).entries
           entries == SubSeq(table, 5, Len(table))
           valid == Picked(entries, {i \in DOMAIN entries : IsValid(entries[i])})
           used == {i \in DOMAIN valid : Usable(valid[i])}
           parts == Indexed(index, valid)
           icd == Picked(parts, used)
<1>1. table \in Seq(EntrySet) BY SectorType
<1>2. entries \in Seq(EntrySet)
  <2> HIDE DEF table
  <2>1. Len(table) \in Nat /\ \A i \in 5..Len(table) : table[i] \in EntrySet BY <1>1
  <2> QED BY <2>1, SubSeqProperties
<1>3. valid \in Seq(EntrySet)
  <2> HIDE DEF entries
  <2> QED BY <1>2, PickedType
<1>4. Icd = <<>> \/ Icd = icd BY DEF Icd, IcdEntries
<1>5. disk.format = "mbr" => Icd = <<>> BY DEF Icd
<1> HIDE DEF valid
<1>6. DOMAIN valid = 1..Len(valid) BY <1>3
<1>7. Numbers(parts, From(index)) /\ DOMAIN parts = 1..Len(valid) BY <1>3, IndexedType
<1>8. used \in SUBSET DOMAIN valid OBVIOUS
<1>9. used \in SUBSET Nat /\ IsFiniteSet(used) /\ Cardinality(used) \in Nat BY <1>3, <1>8, KeptType
<1> HIDE DEF used, parts
<1>10. \A k \in 1..Cardinality(used) : Nth(used, k) \in DOMAIN parts
  BY <1>6, <1>7, <1>8, <1>9, NthType
<1>11. /\ DOMAIN icd = 1..Cardinality(used) /\ icd = [k \in 1..Cardinality(used) |-> icd[k]]
       /\ \A k \in DOMAIN icd : icd[k] = parts[Nth(used, k)]
  BY DEF Picked
<1> HIDE DEF icd
<1>12. IsList(icd) BY <1>9, <1>11, IsListIntro
<1>13. Distinct(icd)
  <2> SUFFICES ASSUME NEW k \in DOMAIN icd, NEW l \in DOMAIN icd, icd[k].index = icd[l].index
               PROVE  k = l
    BY DEF Distinct
  <2>1. k \in 1..Cardinality(used) /\ l \in 1..Cardinality(used) BY <1>11
  <2>2. parts[Nth(used, k)].index = parts[Nth(used, l)].index BY <1>11
  <2>3. Nth(used, k) = Nth(used, l) BY <2>1, <2>2, <1>7, <1>10 DEF Numbers, Distinct
  <2> QED BY <2>1, <2>3, <1>9, NthDiffers
<1>14. \A k \in DOMAIN icd : icd[k].index \in From(index) BY <1>7, <1>10, <1>11 DEF Numbers
<1>15. Numbers(icd, From(index)) BY <1>12, <1>13, <1>14 DEF Numbers
<1> QED BY <1>4, <1>5, <1>15, NoNumbers
-----------------------------------------------------------------------------
(* The children that a list can have. *)
Listed == {Part(n, Read(i).entries[1].start * Cylinder,
                (Read(i).entries[1].count - Read(i).entries[1].start + 1) * Cylinder) :
              n \in Nat, i \in Nat}
Linked == disk.format \in {"mbr", "atari"}

(* Which kind of chain is followed, and in a list a link for every child. *)
Types ==
    /\ TypeOK
    /\ disk \in Disks
    /\ pc = "open" => links = <<>> /\ children = <<>>
    /\ pc \in {"slots", "chain"} => Linked /\ Read(0).magic = disk.format
    /\ pc = "chain" => slot <= 4
    /\ pc \in {"list", "boots"} => ~Linked
    /\ pc = "list" => children \in Seq(Listed) /\ Len(children) = Len(links)

(* The next link is behind those that were read. *)
Forward ==
    Linked =>
        /\ \A i, j \in 1..Len(links) : i < j => links[i] < links[j]
        /\ \A i \in 1..Len(links) : i > 1 => base < links[i] /\ links[i] < limit
        /\ pc = "chain" =>
              /\ \A i \in 1..Len(links) : links[i] < at
              /\ links # <<>> => base < at /\ at < limit

IInv == Types /\ Forward
-----------------------------------------------------------------------------
(* The entries of a table that has the signature of mbr or atari. *)
LEMMA EntryType ==
    ASSUME disk \in Disks, NEW i, Read(i).magic \in {"mbr", "atari"}, NEW j \in 1..4
    PROVE  Read(i).entries[j].start \in Nat /\ Read(i).entries[j].count \in Nat
<1>1. Read(i).entries \in Seq(EntrySet) /\ j \in 1..Len(Read(i).entries) BY SectorType
<1>2. Read(i).entries[j] \in EntrySet BY <1>1
<1> QED BY <1>2 DEF EntrySet

LEMMA FirstType ==
    ASSUME Types, pc \in {"slots", "chain"}, slot <= 4
    PROVE  First.start \in Nat /\ First.count \in Nat
<1>1. slot \in 1..4 BY DEF Types, TypeOK
<1>2. Read(0).magic \in {"mbr", "atari"} BY DEF Types, Linked
<1> QED BY <1>1, <1>2, EntryType DEF Types, First

LEMMA FollowType ==
    ASSUME Types, pc = "chain", Read(at).magic = disk.format
    PROVE  /\ NextLink(Read(at)).start \in Nat /\ base + NextLink(Read(at)).start \in Nat
           /\ Logical(Read(at)).start \in Nat /\ Logical(Read(at)).count \in Nat
<1>1. Read(at).magic \in {"mbr", "atari"} /\ disk \in Disks BY DEF Types, Linked
<1>2. NextLink(Read(at)).start \in Nat BY <1>1, EntryType DEF NextLink
<1>3. Logical(Read(at)).start \in Nat /\ Logical(Read(at)).count \in Nat
  BY <1>1, EntryType DEF Logical
<1> QED BY <1>2, <1>3 DEF Types, TypeOK

LEMMA LinksLonger ==
    ASSUME links \in Seq(Nat), at \in Nat, More
    PROVE  /\ Append(links, at) \in Seq(Nat) /\ Len(Append(links, at)) = Len(links) + 1
           /\ Len(Append(links, at)) <= MaxLinks
           /\ \A i \in 1..(Len(links) + 1) :
                 Append(links, at)[i] = IF i <= Len(links) THEN links[i] ELSE at
<1>1. /\ Append(links, at) \in Seq(Nat) /\ Len(Append(links, at)) = Len(links) + 1
      /\ \A i \in 1..(Len(links) + 1) :
            Append(links, at)[i] = IF i <= Len(links) THEN links[i] ELSE at
  OBVIOUS
<1>2. Len(links) + 1 <= MaxLinks BY LinksAssumption DEF More
<1> QED BY <1>1, <1>2
-----------------------------------------------------------------------------
(* A step that leaves what was followed as it is. *)
LEMMA TypesFinish ==
    ASSUME IInv, NEW result \in {"done", "error"}, Finish(result)
    PROVE  IInv'
<1>1. TypeOK' BY DEF IInv, Types, TypeOK, Finish
<1>2. Types' BY <1>1 DEF IInv, Types, Finish, Linked
<1>3. Forward' BY DEF IInv, Forward, Finish, Linked
<1> QED BY <1>2, <1>3 DEF IInv

LEMMA IInvFinish ==
    ASSUME IInv, OpenFlat \/ OpenFails \/ ChainFails \/ EndSlots \/ OpenRdbFails \/ EndList \/ EndBoots
    PROVE  IInv'
<1>1. Finish("done") \/ Finish("error")
  BY DEF OpenFlat, OpenFails, ChainFails, EndSlots, OpenRdbFails, EndList, EndBoots
<1> QED BY <1>1, TypesFinish

LEMMA IInvOpenSlots ==
    ASSUME IInv, OpenSlots
    PROVE  IInv'
<1>1. Read(0).n \in Nat BY SectorType DEF IInv, Types
<1>2. TypeOK' BY <1>1 DEF IInv, Types, TypeOK, OpenSlots, FirstLogical
<1>3. Linked' /\ Read(0)'.magic = disk'.format BY DEF OpenSlots, Linked, Read
<1>4. Types' BY <1>2, <1>3 DEF IInv, Types, OpenSlots
<1>5. links' = <<>> /\ pc' = "slots" BY DEF IInv, Types, OpenSlots
<1>6. Forward' BY <1>5 DEF Forward
<1> QED BY <1>4, <1>6 DEF IInv

LEMMA IInvSlot ==
    ASSUME IInv, AddPrimary \/ SkipSlot
    PROVE  IInv'
<1>1. /\ UNCHANGED <<disk, pc, at, base, limit, links, extended>>
      /\ pc = "slots" /\ slot <= 4 /\ slot' = slot + 1 /\ index' \in {index, index + 1}
  BY DEF AddPrimary, SkipSlot, Walking
<1>2. TypeOK' BY <1>1 DEF IInv, Types, TypeOK
<1>3. Read(0)' = Read(0) BY <1>1 DEF Read
<1>4. Types' BY <1>1, <1>2, <1>3 DEF IInv, Types, Linked
<1>5. Forward' BY <1>1 DEF IInv, Forward, Linked
<1> QED BY <1>4, <1>5 DEF IInv

LEMMA IInvEnterChain ==
    ASSUME IInv, EnterChain
    PROVE  IInv'
<1>1. First.start \in Nat /\ First.count \in Nat BY FirstType DEF IInv, EnterChain
<1>2. /\ pc = "slots" /\ slot <= 4 /\ pc' = "chain" /\ at' = First.start /\ base' = First.start
      /\ links' = <<>> /\ extended' = TRUE /\ UNCHANGED <<disk, slot, index, children>>
      /\ limit' \in {First.start + First.count, limit}
  BY DEF EnterChain
<1>3. TypeOK'
  <2>1. limit' \in Nat BY <1>1, <1>2 DEF IInv, Types, TypeOK
  <2>2. links' \in Seq(Nat) /\ Len(links') <= MaxLinks BY <1>2, LinksAssumption
  <2> QED BY <1>1, <1>2, <2>1, <2>2 DEF IInv, Types, TypeOK
<1>4. Read(0)' = Read(0) BY <1>2 DEF Read
<1>5. Types' BY <1>2, <1>3, <1>4 DEF IInv, Types, Linked
<1>6. Forward' BY <1>2 DEF Forward
<1> QED BY <1>5, <1>6 DEF IInv

(* Back to the slots, with the chain as it was. *)
LEMMA IInvEndChain ==
    ASSUME IInv, EndChain
    PROVE  IInv'
<1>1. /\ pc = "chain" /\ pc' = "slots" /\ slot' = slot + 1 /\ at' = at
      /\ UNCHANGED <<disk, base, limit, index, links, extended, children>>
  BY DEF EndChain, LeaveChain
<1>2. TypeOK' BY <1>1 DEF IInv, Types, TypeOK
<1>3. Read(0)' = Read(0) BY <1>1 DEF Read
<1>4. Types' BY <1>1, <1>2, <1>3 DEF IInv, Types, Linked
<1>5. Forward' BY <1>1 DEF IInv, Forward, Linked
<1> QED BY <1>4, <1>5 DEF IInv

LEMMA IInvFollowChain ==
    ASSUME IInv, FollowChain
    PROVE  IInv'
<1> DEFINE next == base + NextLink(Read(at)).start
<1>1. /\ pc = "chain" /\ More /\ Read(at).magic = disk.format
      /\ links' = Append(links, at) /\ index' \in {index, index + 1}
      /\ UNCHANGED <<disk, base, limit, extended>>
  BY DEF FollowChain
<1>2. \/ Follows(Read(at)) /\ at' = next /\ UNCHANGED <<pc, slot>>
      \/ pc' = "slots" /\ slot' = slot + 1 /\ at' = at
  BY DEF FollowChain, LeaveChain
<1>3. next \in Nat BY <1>1, FollowType DEF IInv
<1>4. Follows(Read(at)) => base < next /\ at < next /\ next < limit
  <2>1. NextLink(Read(at)).start \in Nat BY <1>1, FollowType DEF IInv
  <2>2. Follows(Read(at)) => NextLink(Read(at)).start # 0 /\ at < next /\ next < limit
    BY DEF Follows
  <2>3. base \in Nat BY DEF IInv, Types, TypeOK
  <2> QED BY <2>1, <2>2, <2>3
<1> HIDE DEF next
<1>5. links \in Seq(Nat) /\ at \in Nat /\ base \in Nat /\ limit \in Nat BY DEF IInv, Types, TypeOK
<1>6. /\ links' \in Seq(Nat) /\ Len(links') = Len(links) + 1 /\ Len(links') <= MaxLinks
      /\ \A i \in 1..(Len(links) + 1) : links'[i] = IF i <= Len(links) THEN links[i] ELSE at
  BY <1>1, <1>5, LinksLonger
<1>7. TypeOK' BY <1>1, <1>2, <1>3, <1>6 DEF IInv, Types, TypeOK
<1>8. Read(0)' = Read(0) BY <1>1 DEF Read
<1>9. Types' BY <1>1, <1>2, <1>7, <1>8 DEF IInv, Types, Linked
<1>10. Linked BY <1>1 DEF IInv, Types
<1>11. Forward'
  <2>1. \A i \in 1..Len(links) : links[i] < at BY <1>1, <1>10 DEF IInv, Forward
  <2>2. \A i, j \in 1..Len(links') : i < j => links'[i] < links'[j]
    <3> SUFFICES ASSUME NEW i \in 1..Len(links'), NEW j \in 1..Len(links'), i < j
                 PROVE  links'[i] < links'[j]
      OBVIOUS
    <3>1. i \in 1..Len(links) /\ links'[i] = links[i] BY <1>5, <1>6
    <3>2. CASE j <= Len(links)
      <4>1. j \in 1..Len(links) /\ links'[j] = links[j] BY <3>2, <1>5, <1>6
      <4> QED BY <4>1, <3>1, <1>10 DEF IInv, Forward
    <3>3. CASE ~(j <= Len(links)) BY <3>3, <3>1, <2>1, <1>5, <1>6
    <3> QED BY <3>2, <3>3
  <2>3. \A i \in 1..Len(links') : i > 1 => base' < links'[i] /\ links'[i] < limit'
    <3> SUFFICES ASSUME NEW i \in 1..Len(links'), i > 1
                 PROVE  base < links'[i] /\ links'[i] < limit
      BY <1>1
    <3>1. CASE i <= Len(links)
      <4>1. i \in 1..Len(links) /\ links'[i] = links[i] BY <3>1, <1>5, <1>6
      <4> QED BY <4>1, <1>10 DEF IInv, Forward
    <3>2. CASE ~(i <= Len(links))
      <4>1. links'[i] = at /\ links # <<>> BY <3>2, <1>5, <1>6
      <4> QED BY <4>1, <1>1, <1>10 DEF IInv, Forward
    <3> QED BY <3>1, <3>2
  <2>4. pc' = "chain" => /\ \A i \in 1..Len(links') : links'[i] < at'
                         /\ links' # <<>> => base' < at' /\ at' < limit'
    <3> SUFFICES ASSUME pc' = "chain"
                 PROVE  /\ \A i \in 1..Len(links') : links'[i] < at'
                        /\ base < at' /\ at' < limit
      BY <1>1
    <3>1. base < at' /\ at < at' /\ at' < limit /\ at' \in Nat BY <1>1, <1>2, <1>3, <1>4
    <3>2. \A i \in 1..Len(links') : links'[i] <= at
      <4> TAKE i \in 1..Len(links')
      <4>1. CASE i <= Len(links)
        <5>1. i \in 1..Len(links) /\ links'[i] = links[i] /\ links[i] \in Nat BY <4>1, <1>5, <1>6
        <5> QED BY <5>1, <2>1, <1>5
      <4>2. CASE ~(i <= Len(links)) BY <4>2, <1>5, <1>6
      <4> QED BY <4>1, <4>2
    <3>3. \A i \in 1..Len(links') : links'[i] \in Nat BY <1>6
    <3> QED BY <3>1, <3>2, <3>3, <1>5
  <2> QED BY <2>2, <2>3, <2>4 DEF Forward
<1> QED BY <1>9, <1>11 DEF IInv
-----------------------------------------------------------------------------
(* The lists of rdb and of cumana, which are no chains that go forward. *)
LEMMA IInvOpenList ==
    ASSUME IInv, OpenRdb \/ OpenCumana
    PROVE  IInv'
<1>1. /\ pc = "open" /\ disk.format \in {"rdb", "cumana"} /\ pc' \in {"list", "boots"}
      /\ UNCHANGED <<disk, slot, base, limit, index, links, extended, children>>
  BY DEF OpenRdb, OpenCumana
<1>2. at' \in Nat
  <2>1. \A i : Read(i).at \in Nat BY SectorType DEF IInv, Types
  <2> QED BY <2>1 DEF OpenRdb, OpenCumana
<1>3. ~Linked' BY <1>1 DEF Linked
<1>4. TypeOK' BY <1>1, <1>2 DEF IInv, Types, TypeOK
<1>5. children' = <<>> /\ links' = <<>> BY <1>1 DEF IInv, Types
<1>6. Types' BY <1>1, <1>3, <1>4, <1>5 DEF IInv, Types
<1>7. Forward' BY <1>3 DEF Forward
<1> QED BY <1>6, <1>7 DEF IInv

(* A child is added for every link, so that there are not more links than children. *)
LEMMA IInvFollowList ==
    ASSUME IInv, FollowList
    PROVE  IInv'
<1>1. /\ pc = "list" /\ Len(children) < MaxLinks
      /\ children' = Append(children, RdbPart(Read(at)))
      /\ links' = Append(links, at) /\ at' = Read(at).at
      /\ UNCHANGED <<disk, pc, slot, base, limit, index, extended>>
  BY DEF FollowList
<1>2. /\ at \in Nat /\ links \in Seq(Nat) /\ children \in Seq(Listed)
      /\ Len(children) = Len(links) /\ ~Linked
  BY <1>1 DEF IInv, Types, TypeOK
<1>3. RdbPart(Read(at)) \in Listed
  <2>1. Len(children) \in Nat BY <1>2
  <2> QED BY <1>2, <2>1 DEF RdbPart, Listed
<1>4. children' \in Seq(Listed) /\ Len(children') = Len(children) + 1 BY <1>1, <1>2, <1>3
<1>5. links' \in Seq(Nat) /\ Len(links') = Len(links) + 1 BY <1>1, <1>2
<1>6. Len(links') <= MaxLinks BY <1>1, <1>2, <1>5, LinksAssumption
<1>7. at' \in Nat BY <1>1, SectorType DEF IInv, Types
<1>8. TypeOK' BY <1>1, <1>5, <1>6, <1>7 DEF IInv, Types, TypeOK
<1>9. Listed' = Listed BY <1>1 DEF Listed, Read
<1>10. ~Linked' BY <1>1, <1>2 DEF Linked
<1>11. Types' BY <1>1, <1>2, <1>4, <1>5, <1>8, <1>9, <1>10 DEF IInv, Types
<1>12. Forward' BY <1>10 DEF Forward
<1> QED BY <1>11, <1>12 DEF IInv

LEMMA IInvFollowBoots ==
    ASSUME IInv, FollowBoots
    PROVE  IInv'
<1> DEFINE start == SecondStart(Read(at))
<1>1. /\ pc = "boots" /\ More /\ IsBoot(Read(at))
      /\ links' = Append(links, at) /\ index' = index + 1
      /\ base' = base + start /\ at' = at + 2 * (start \div 2)
      /\ UNCHANGED <<disk, slot, limit, extended>>
  BY DEF FollowBoots
<1>2. pc' \in {"boots", "done", "error"} BY <1>1 DEF FollowBoots
<1>3. start \in Nat BY <1>1, SecondStartType DEF IInv, Types
<1> HIDE DEF start
<1>4. /\ at \in Nat /\ base \in Nat /\ index \in Nat /\ links \in Seq(Nat)
  BY DEF IInv, Types, TypeOK
<1>5. base' \in Nat /\ at' \in Nat /\ index' \in Nat BY <1>1, <1>3, <1>4
<1>6. links' \in Seq(Nat) /\ Len(links') <= MaxLinks BY <1>1, <1>4, LinksLonger
<1>7. TypeOK' BY <1>1, <1>2, <1>5, <1>6 DEF IInv, Types, TypeOK
<1>8. ~Linked' BY <1>1 DEF IInv, Types, Linked
<1>9. Types' BY <1>1, <1>2, <1>7, <1>8 DEF IInv, Types
<1>10. Forward' BY <1>8 DEF Forward
<1> QED BY <1>9, <1>10 DEF IInv
-----------------------------------------------------------------------------
LEMMA IInvInit == Init => IInv
<1> SUFFICES ASSUME Init PROVE IInv OBVIOUS
<1>1. links = <<>> /\ children = <<>> /\ pc = "open" BY DEF Init
<1>2. links \in Seq(Nat) /\ Len(links) = 0 BY <1>1
<1>3. TypeOK
  <2>1. extended \in BOOLEAN BY DEF Init
  <2>2. Len(links) <= MaxLinks BY <1>2, LinksAssumption
  <2>3. slot \in 1..5 /\ at \in Nat /\ base \in Nat /\ limit \in Nat /\ index \in Nat BY DEF Init
  <2>4. pc \in {"open", "slots", "chain", "list", "boots", "done", "error"} BY <1>1
  <2> QED BY <1>2, <2>1, <2>2, <2>3, <2>4 DEF TypeOK
<1>4. Types
  <2>1. disk \in Disks BY DEF Init
  <2>2. pc \notin {"slots", "chain", "list", "boots"} BY <1>1
  <2> QED BY <2>1, <2>2, <1>1, <1>3 DEF Types
<1>5. Forward BY <1>1, <1>2 DEF Forward
<1> QED BY <1>4, <1>5 DEF IInv

LEMMA IInvNext == IInv /\ [Next]_vars => IInv'
<1> SUFFICES ASSUME IInv, [Next]_vars PROVE IInv' OBVIOUS
<1>1. CASE UNCHANGED vars
  <2>1. TypeOK' /\ Read(0)' = Read(0) /\ Listed' = Listed /\ Linked' = Linked
    BY <1>1 DEF IInv, Types, TypeOK, vars, Read, Listed, Linked
  <2>2. Types' BY <1>1, <2>1 DEF IInv, Types, vars
  <2>3. Forward' BY <1>1, <2>1 DEF IInv, Forward, vars
  <2> QED BY <2>2, <2>3 DEF IInv
<1>2. CASE OpenFlat \/ OpenFails \/ ChainFails \/ EndSlots \/ OpenRdbFails \/ EndList \/ EndBoots
  BY <1>2, IInvFinish
<1>3. CASE OpenSlots BY <1>3, IInvOpenSlots
<1>4. CASE AddPrimary \/ SkipSlot BY <1>4, IInvSlot
<1>5. CASE EnterChain BY <1>5, IInvEnterChain
<1>6. CASE EndChain BY <1>6, IInvEndChain
<1>7. CASE FollowChain BY <1>7, IInvFollowChain
<1>8. CASE OpenRdb \/ OpenCumana BY <1>8, IInvOpenList
<1>9. CASE FollowList BY <1>9, IInvFollowList
<1>10. CASE FollowBoots BY <1>10, IInvFollowBoots
<1> QED BY <1>1, <1>2, <1>3, <1>4, <1>5, <1>6, <1>7, <1>8, <1>9, <1>10 DEF Next

LEMMA IInvHolds == Spec => []IInv
BY IInvInit, IInvNext, PTL DEF Spec

LEMMA IInvImpliesChainIsForward == IInv => ChainIsForward
<1> SUFFICES ASSUME IInv, Linked
             PROVE  /\ \A i, j \in DOMAIN links : i < j => links[i] < links[j]
                    /\ \A i \in DOMAIN links : i > 1 => base < links[i] /\ links[i] < limit
  BY DEF ChainIsForward, Linked
<1>1. DOMAIN links = 1..Len(links) BY DEF IInv, Types, TypeOK
<1> QED BY <1>1 DEF IInv, Forward

(* The numbers that are computed from a table stay numbers, the slots are those of  *)
(* a table and a list or chain has no more links than the bound of its loop, for     *)
(* tables of any content.                                                      *)
THEOREM PartitionTypes == Spec => []TypeOK
<1>1. IInv => TypeOK BY DEF IInv, Types
<1> QED BY <1>1, IInvHolds, PTL

(* parse_extended_chain and parse_xgm_chain follow any links only forward and inside  *)
(* of the extended partition, and so read no sector as a link twice.               *)
THEOREM PartitionForward == Spec => []ChainIsForward
BY IInvHolds, IInvImpliesChainIsForward, PTL
-----------------------------------------------------------------------------
(* The numbers that were given: of mbr those of the slots and from 4 those of the  *)
(* chains, of the others those that were counted.                              *)
Given == IF disk.format = "mbr"
         THEN (0..(slot - 2)) \cup (FirstLogical..(index - 1)) ELSE 0..(index - 1)

Numbered ==
    /\ Distinct(children)
    /\ pc \in {"slots", "chain", "boots"} => Numbers(children, Given)
    /\ pc \in {"slots", "chain"} /\ disk.format = "mbr" => index >= FirstLogical
    /\ pc = "list" => \A i \in DOMAIN children : children[i].index = i - 1

LEMMA Widen ==
    ASSUME NEW A, NEW B, A \subseteq B, NEW p, Numbers(p, A)
    PROVE  Numbers(p, B)
BY DEF Numbers

LEMMA NumberedFlat ==
    ASSUME IInv, Numbered, OpenFlat
    PROVE  Numbered'
<1>1. children' = Flat(disk).parts /\ pc' \in {"done", "error"} /\ disk.format \notin Chained
  BY DEF OpenFlat, Finish
<1>2. Distinct(Flat(disk).parts) BY <1>1, FlatDistinct DEF IInv, Types
<1>3. Distinct(children') BY <1>1, <1>2
<1> QED BY <1>1, <1>3 DEF Numbered, Distinct

LEMMA NumberedFinish ==
    ASSUME IInv, Numbered, OpenFails \/ ChainFails \/ OpenRdbFails \/ EndList \/ EndBoots
    PROVE  Numbered'
<1>1. children' = children /\ pc' \in {"done", "error"}
  BY DEF OpenFails, ChainFails, OpenRdbFails, EndList, EndBoots, Finish
<1> QED BY <1>1 DEF Numbered, Distinct

LEMMA NumberedOpen ==
    ASSUME IInv, Numbered, OpenSlots \/ OpenRdb \/ OpenCumana
    PROVE  Numbered'
<1>1. children' = <<>>
  BY DEF IInv, Types, OpenSlots, OpenRdb, OpenCumana
<1>2. OpenSlots => disk' = disk /\ index' = IF disk.format = "mbr" THEN FirstLogical ELSE 0
  BY DEF OpenSlots
<1>3. OpenRdb \/ OpenCumana => pc' \in {"list", "boots"} BY DEF OpenRdb, OpenCumana
<1>4. pc' \in {"slots", "chain"} /\ disk'.format = "mbr" => index' >= FirstLogical
  BY <1>2, <1>3 DEF FirstLogical
<1>5. \A used : Numbers(<<>>, used) BY NoNumbers
<1>6. Numbers(children', Given') BY <1>1, <1>5
<1>7. Numbers(children, Given)' BY <1>6 DEF Numbers, Distinct, IsList, Elements
<1>8. Distinct(children)' BY <1>7 DEF Numbers
<1>9. \A i \in DOMAIN children' : FALSE BY <1>1
<1> QED BY <1>4, <1>7, <1>8, <1>9 DEF Numbered

(* A step of a chain that keeps the children or adds one with a new number.        *)
LEMMA NumberedMore ==
    ASSUME Numbered, pc \in {"slots", "chain"}, pc' \in {"slots", "chain"},
           Given \subseteq Given', disk' = disk,
           disk.format = "mbr" => index' >= FirstLogical,
           \/ children' = children
           \/ \E x : children' = Append(children, x) /\ x.index \in Given' /\ x.index \notin Given
    PROVE  Numbered'
<1>1. Numbers(children, Given) BY DEF Numbered
<1>2. Numbers(children', Given')
  <2>1. CASE children' = children BY <2>1, <1>1, Widen
  <2>2. CASE \E x : children' = Append(children, x) /\ x.index \in Given' /\ x.index \notin Given
    <3>1. PICK x : children' = Append(children, x) /\ x.index \in Given' /\ x.index \notin Given
      BY <2>2
    <3>2. Numbers(Append(children, x), Given \cup {x.index}) BY <1>1, <3>1, AppendNumbers
    <3>3. Given \cup {x.index} \subseteq Given' BY <3>1
    <3> QED BY <3>1, <3>2, <3>3, Widen
  <2> QED BY <2>1, <2>2
<1>3. Numbers(children, Given)' BY <1>2 DEF Numbers, Distinct, IsList, Elements
<1>4. Distinct(children)' BY <1>3 DEF Numbers
<1> QED BY <1>3, <1>4 DEF Numbered

LEMMA NumberedSlot ==
    ASSUME IInv, Numbered, AddPrimary \/ SkipSlot
    PROVE  Numbered'
<1>1. /\ UNCHANGED disk /\ pc = "slots" /\ pc' = "slots"
      /\ slot' = slot + 1 /\ slot <= 4
  BY DEF AddPrimary, SkipSlot, Walking
<1>2. slot \in 1..5 /\ index \in Nat BY DEF IInv, Types, TypeOK
<1>3. disk.format = "mbr" => index >= FirstLogical BY <1>1 DEF Numbered
<1>4. CASE SkipSlot
  <2>1. index' = index /\ children' = children BY <1>4 DEF SkipSlot
  <2>2. Given \subseteq Given' BY <1>1, <1>2, <2>1 DEF Given
  <2> QED BY <1>1, <1>3, <2>1, <2>2, NumberedMore
<1>5. CASE AddPrimary /\ disk.format = "mbr"
  <2>1. /\ index' = index
        /\ \/ children' = children
           \/ children' = Append(children, Part(slot - 1, First.start, First.count))
    BY <1>5 DEF AddPrimary
  <2>2. Given \subseteq Given' /\ slot - 1 \in Given' /\ slot - 1 \notin Given
    BY <1>1, <1>2, <1>3, <1>5, <2>1 DEF Given, FirstLogical
  <2>3. Part(slot - 1, First.start, First.count).index = slot - 1 BY DEF Part
  <2> HIDE DEF Given
  <2> QED BY <1>1, <1>3, <2>1, <2>2, <2>3, NumberedMore
<1>6. CASE AddPrimary /\ disk.format # "mbr"
  <2>1. /\ index' = index + 1
        /\ \/ children' = children
           \/ children' = Append(children, Part(index, First.start, First.count))
    BY <1>6 DEF AddPrimary
  <2>2. Given \subseteq Given' /\ index \in Given' /\ index \notin Given
    BY <1>1, <1>2, <1>6, <2>1 DEF Given
  <2>3. Part(index, First.start, First.count).index = index BY DEF Part
  <2> QED BY <1>1, <1>6, <2>1, <2>2, <2>3, NumberedMore
<1> QED BY <1>4, <1>5, <1>6

LEMMA NumberedChain ==
    ASSUME IInv, Numbered, EnterChain \/ EndChain \/ FollowChain
    PROVE  Numbered'
<1>1. /\ UNCHANGED disk /\ pc \in {"slots", "chain"} /\ pc' \in {"slots", "chain"}
      /\ slot' \in {slot, slot + 1}
  BY DEF EnterChain, EndChain, FollowChain, LeaveChain
<1>2. slot \in 1..5 /\ index \in Nat BY DEF IInv, Types, TypeOK
<1>3. disk.format = "mbr" => index >= FirstLogical BY <1>1 DEF Numbered
<1>4. CASE index' = index /\ children' = children
  <2>1. Given \subseteq Given' BY <1>1, <1>2, <1>4 DEF Given
  <2> QED BY <1>1, <1>3, <1>4, <2>1, NumberedMore
<1>5. CASE \E a, b : index' = index + 1 /\ children' = Append(children, Part(index, a, b))
  <2>1. PICK a, b : index' = index + 1 /\ children' = Append(children, Part(index, a, b))
    BY <1>5
  <2>2. slot <= 4
    <3>1. FollowChain \/ EnterChain \/ EndChain OBVIOUS
    <3> QED BY <3>1 DEF IInv, Types, FollowChain, EnterChain, EndChain
  <2>3. Given \subseteq Given' BY <1>1, <1>2, <2>1 DEF Given
  <2>4. index \in Given' /\ index \notin Given
    <3>1. CASE disk.format = "mbr"
      <4>1. Given' = (0..(slot' - 2)) \cup (FirstLogical..index) BY <1>1, <1>2, <2>1, <3>1 DEF Given
      <4>2. Given = (0..(slot - 2)) \cup (FirstLogical..(index - 1)) BY <3>1 DEF Given
      <4> QED BY <1>2, <1>3, <2>2, <3>1, <4>1, <4>2 DEF FirstLogical
    <3>2. CASE disk.format # "mbr" BY <1>1, <1>2, <2>1, <3>2 DEF Given
    <3> QED BY <3>1, <3>2
  <2>5. Part(index, a, b).index = index BY DEF Part
  <2>6. disk.format = "mbr" => index' >= FirstLogical BY <1>2, <1>3, <2>1 DEF FirstLogical
  <2> QED BY <1>1, <2>1, <2>3, <2>4, <2>5, <2>6, NumberedMore
<1>6. \/ index' = index /\ children' = children
      \/ \E a, b : index' = index + 1 /\ children' = Append(children, Part(index, a, b))
  <2>1. CASE FollowChain BY <2>1 DEF FollowChain
  <2>2. CASE EnterChain \/ EndChain BY <2>2 DEF EnterChain, EndChain
  <2> QED BY <2>1, <2>2
<1> QED BY <1>4, <1>5, <1>6

LEMMA NumberedEndSlots ==
    ASSUME IInv, Numbered, EndSlots
    PROVE  Numbered'
<1>1. children' = children \o Icd /\ pc' = "done" /\ pc = "slots" BY DEF EndSlots, Finish
<1>2. Numbers(children, Given) BY <1>1 DEF Numbered
<1>3. disk \in Disks /\ index \in Nat BY DEF IInv, Types, TypeOK
<1>4. \E used : Given \cap used = {} /\ Numbers(Icd, used)
  <2>1. CASE disk.format = "mbr"
    <3>1. Numbers(Icd, {}) BY <1>3, <2>1, IcdType, NoNumbers
    <3> QED BY <3>1
  <2>2. CASE disk.format # "mbr"
    <3>1. Given \cap From(index) = {} BY <1>3, <2>2 DEF Given, From
    <3> QED BY <1>3, <3>1, IcdType
  <2> QED BY <2>1, <2>2
<1>5. PICK used : Numbers(children \o Icd, Given \cup used) BY <1>2, <1>4, ConcatNumbers
<1>6. Distinct(children') BY <1>1, <1>5 DEF Numbers
<1> QED BY <1>1, <1>6 DEF Numbered, Distinct

LEMMA NumberedList ==
    ASSUME IInv, Numbered, FollowList
    PROVE  Numbered'
<1>1. pc = "list" /\ pc' = "list" /\ children' = Append(children, RdbPart(Read(at)))
  BY DEF FollowList
<1>2. children \in Seq(Listed) /\ \A i \in DOMAIN children : children[i].index = i - 1
  BY <1>1 DEF IInv, Types, Numbered
<1>3. RdbPart(Read(at)).index = Len(children) BY DEF RdbPart, Part
<1>4. /\ Len(children) \in Nat
      /\ DOMAIN children' = 1..(Len(children) + 1)
      /\ \A i \in DOMAIN children' : children'[i].index = i - 1
  <2>1. children' \in Seq(Listed \cup {RdbPart(Read(at))}) BY <1>1, <1>2, SeqMonotonic
  <2>2. Len(children) \in Nat /\ DOMAIN children = 1..Len(children) BY <1>2
  <2>3. DOMAIN children' = 1..(Len(children) + 1) BY <1>1, <1>2
  <2>4. \A i \in 1..(Len(children) + 1) :
            children'[i] = IF i <= Len(children) THEN children[i] ELSE RdbPart(Read(at))
    BY <1>1, <1>2
  <2> QED BY <2>2, <2>3, <2>4, <1>2, <1>3
<1>5. Distinct(children)' BY <1>4 DEF Distinct
<1> QED BY <1>1, <1>4, <1>5 DEF Numbered

LEMMA NumberedBoots ==
    ASSUME IInv, Numbered, FollowBoots
    PROVE  Numbered'
<1> DEFINE boot == Read(at)
           kid == Part(index, base, boot.entries[1].count)
           found == Append(children, kid)
           start == base + SecondStart(boot)
           slice == BootSlice(index + 1, start)
           riscix == RiscixParts(index + 2, Read(start))
           linux == LinuxParts(index + 2, start, Read(start))
<1>1. pc = "boots" /\ IsBoot(boot) /\ index' = index + 1 /\ disk' = disk BY DEF FollowBoots
<1>2. disk \in Disks /\ index \in Nat /\ base \in Nat /\ disk.format # "mbr"
  BY <1>1 DEF IInv, Types, TypeOK, Linked
<1>3. start \in Nat
  <2>1. SecondStart(boot) \in Nat BY <1>1, <1>2, SecondStartType
  <2> QED BY <1>2, <2>1
<1>4. \/ pc' \in {"boots", "done", "error"} /\ children' = found
      \/ pc' = "done" /\ \E rest \in {linux, riscix, <<>>} : children' = Append(found, slice) \o rest
  <2>1. CASE SecondStart(boot) = 0 BY <2>1 DEF FollowBoots
  <2>2. CASE SecondStart(boot) # 0 /\ SecondType(boot) = "none" BY <2>2 DEF FollowBoots
  <2>3. CASE SecondStart(boot) # 0 /\ SecondType(boot) = "linux"
    <3>1. \/ pc' = "error" /\ children' = found
          \/ pc' = "done" /\ children' = Append(found, slice) \o linux
      BY <2>3 DEF FollowBoots
    <3> QED BY <3>1
  <2>4. CASE SecondStart(boot) # 0 /\ SecondType(boot) = "riscix"
    <3>1. \/ pc' = "error" /\ children' = found
          \/ pc' = "done" /\ children' = Append(found, slice) \o riscix
          \/ pc' = "done" /\ children' = Append(found, slice) \o <<>>
      BY <2>4 DEF FollowBoots
    <3> QED BY <3>1
  <2>5. CASE SecondStart(boot) # 0 /\ SecondType(boot) \notin {"none", "linux", "riscix"}
    BY <2>5 DEF FollowBoots
  <2> QED BY <2>1, <2>2, <2>3, <2>4, <2>5
<1>5. kid.index = index /\ slice.index = index + 1 BY DEF Part, BootSlice
<1>6. Numbers(riscix, From(index + 2)) /\ Numbers(linux, From(index + 2)) /\ Numbers(<<>>, From(index + 2))
  <2> HIDE DEF start
  <2>1. index + 2 \in Nat BY <1>2
  <2> QED BY <1>2, <1>3, <2>1, RiscixType, LinuxType, NoNumbers DEF Read
<1> HIDE DEF kid, slice, riscix, linux, start
<1>7. Numbers(children, 0..(index - 1)) BY <1>1, <1>2 DEF Numbered, Given
<1>8. Numbers(found, 0..index)
  <2>1. index \notin 0..(index - 1) /\ (0..(index - 1)) \cup {index} = 0..index BY <1>2
  <2> QED BY <1>5, <1>7, <2>1, AppendNumbers
<1> HIDE DEF found
<1>9. Numbers(Append(found, slice), 0..(index + 1))
  <2>1. index + 1 \notin 0..index /\ (0..index) \cup {index + 1} = 0..(index + 1) BY <1>2
  <2>2. slice.index \notin 0..index BY <1>5, <2>1
  <2>3. Numbers(Append(found, slice), (0..index) \cup {slice.index}) BY <1>8, <2>2, AppendNumbers
  <2> QED BY <1>5, <2>1, <2>3
<1>10. \A rest \in {linux, riscix, <<>>} : Distinct(Append(found, slice) \o rest)
  <2> TAKE rest \in {linux, riscix, <<>>}
  <2>1. Numbers(rest, From(index + 2)) BY <1>6
  <2>2. (0..(index + 1)) \cap From(index + 2) = {} BY <1>2 DEF From
  <2>3. Numbers(Append(found, slice) \o rest, (0..(index + 1)) \cup From(index + 2))
    BY <1>9, <2>1, <2>2, ConcatNumbers
  <2> QED BY <2>3 DEF Numbers
<1>11. CASE pc' \in {"boots", "done", "error"} /\ children' = found
  <2>1. Given' = 0..index BY <1>1, <1>2 DEF Given
  <2>2. Numbers(children', Given') BY <2>1, <1>8, <1>11
  <2>3. Numbers(children, Given)' BY <2>2 DEF Numbers, Distinct, IsList, Elements
  <2>4. Distinct(children)' BY <2>3 DEF Numbers
  <2> QED BY <1>11, <2>3, <2>4 DEF Numbered
<1>12. CASE pc' = "done" /\ \E rest \in {linux, riscix, <<>>} : children' = Append(found, slice) \o rest
  <2>1. Distinct(children') BY <1>10, <1>12
  <2> QED BY <1>12, <2>1 DEF Numbered, Distinct
<1> QED BY <1>4, <1>11, <1>12

LEMMA NumberedInit == Init => Numbered
<1> SUFFICES ASSUME Init PROVE Numbered OBVIOUS
<1>1. children = <<>> /\ pc = "open" BY DEF Init
<1> QED BY <1>1 DEF Numbered, Distinct

LEMMA NumberedNext == IInv /\ Numbered /\ [Next]_vars => Numbered'
<1> SUFFICES ASSUME IInv, Numbered, [Next]_vars PROVE Numbered' OBVIOUS
<1>1. CASE UNCHANGED vars
  BY <1>1 DEF vars, Numbered, Numbers, Distinct, IsList, Elements, Given
<1>2. CASE OpenFlat BY <1>2, NumberedFlat
<1>3. CASE OpenFails \/ ChainFails \/ OpenRdbFails \/ EndList \/ EndBoots BY <1>3, NumberedFinish
<1>4. CASE OpenSlots \/ OpenRdb \/ OpenCumana BY <1>4, NumberedOpen
<1>5. CASE AddPrimary \/ SkipSlot BY <1>5, NumberedSlot
<1>6. CASE EnterChain \/ EndChain \/ FollowChain BY <1>6, NumberedChain
<1>7. CASE EndSlots BY <1>7, NumberedEndSlots
<1>8. CASE FollowList BY <1>8, NumberedList
<1>9. CASE FollowBoots BY <1>9, NumberedBoots
<1> QED BY <1>1, <1>2, <1>3, <1>4, <1>5, <1>6, <1>7, <1>8, <1>9 DEF Next

(* No two children of a partition table have the same number, whatever the table   *)
(* and its links hold: a caller that keeps children by their index loses none.      *)
THEOREM PartitionIndexes == Spec => []IndexesDistinct
<1>1. Numbered => IndexesDistinct BY DEF Numbered, Distinct, IndexesDistinct
<1> QED BY <1>1, IInvHolds, NumberedInit, NumberedNext, PTL DEF Spec
-----------------------------------------------------------------------------
(* The first k elements of a list. *)
Begins(c, p, k) == IsList(c) /\ Len(c) = k /\ k <= Len(p) /\ \A i \in 1..k : c[i] = p[i]

LEMMA BeginsEmpty == ASSUME NEW p, IsList(p) PROVE Begins(<<>>, p, 0)
<1>1. <<>> \in Seq(Elements(<<>>)) /\ Len(<<>>) = 0 BY DEF Elements
<1>2. Len(p) \in Nat BY DEF IsList
<1> QED BY <1>1, <1>2 DEF Begins, IsList

LEMMA BeginsConcat ==
    ASSUME NEW p, IsList(p), NEW k \in Nat, NEW c, Begins(c, p, k),
           NEW T, NEW q \in Seq(T), k + Len(q) <= Len(p),
           \A i \in 1..Len(q) : q[i] = p[k + i]
    PROVE  Begins(c \o q, p, k + Len(q))
<1> DEFINE U == Elements(c) \cup T
           r == c \o q
<1>1. c \in Seq(U) /\ q \in Seq(U)
  <2>1. Elements(c) \subseteq U /\ T \subseteq U OBVIOUS
  <2> QED BY <2>1, SeqMonotonic DEF IsList, Begins
<1> HIDE DEF U
<1>2. /\ Len(c) = k /\ DOMAIN c = 1..k /\ Len(q) \in Nat /\ DOMAIN q = 1..Len(q)
      /\ r \in Seq(U) /\ Len(r) = k + Len(q) /\ DOMAIN r = 1..(k + Len(q))
      /\ \A i \in 1..(k + Len(q)) : r[i] = IF i <= k THEN c[i] ELSE q[i - k]
  <2>1. Len(c) = k BY DEF Begins
  <2> HIDE DEF Begins
  <2>2. Len(q) \in Nat /\ DOMAIN q = 1..Len(q) /\ DOMAIN c = 1..k BY <1>1, <2>1
  <2>3. r \in Seq(U) /\ Len(r) = k + Len(q) BY <1>1, <2>1
  <2>4. DOMAIN r = 1..(k + Len(q)) BY <2>3
  <2>5. \A i \in 1..(k + Len(q)) : r[i] = IF i <= k THEN c[i] ELSE q[i - k]
    BY <1>1, <2>1, <2>2, ConcatProperties
  <2> QED BY <2>1, <2>2, <2>3, <2>4, <2>5
<1>3. r = [i \in 1..(k + Len(q)) |-> r[i]]
  <2> HIDE DEF r
  <2>1. r \in [1..Len(r) -> U] BY <1>2
  <2> QED BY <2>1, <1>2
<1> HIDE DEF r
<1>4. IsList(r) BY <1>2, <1>3, IsListIntro
<1>5. \A i \in 1..(k + Len(q)) : r[i] = p[i]
  <2> TAKE i \in 1..(k + Len(q))
  <2>1. CASE i <= k BY <2>1, <1>2 DEF Begins
  <2>2. CASE ~(i <= k)
    <3>1. i - k \in 1..Len(q) /\ k + (i - k) = i BY <2>2, <1>2
    <3>2. q[i - k] = p[k + (i - k)] BY <3>1
    <3> QED BY <3>1, <3>2, <2>2, <1>2
  <2> QED BY <2>1, <2>2
<1>6. Begins(r, p, k + Len(q)) BY <1>2, <1>4, <1>5 DEF Begins
<1> QED BY <1>6 DEF r

LEMMA BeginsAppend ==
    ASSUME NEW p, IsList(p), NEW k \in Nat, NEW c, Begins(c, p, k),
           k + 1 <= Len(p), NEW x, x = p[k + 1]
    PROVE  Begins(Append(c, x), p, k + 1)
<1> DEFINE q == <<x>>
<1>1. q \in Seq({x}) /\ Len(q) = 1 /\ \A i \in 1..Len(q) : q[i] = p[k + i] OBVIOUS
<1>2. c \in Seq(Elements(c)) BY DEF Begins, IsList
<1>3. Append(c, x) = c \o q
  <2>1. c \in Seq(Elements(c) \cup {x}) /\ x \in Elements(c) \cup {x}
    <3>1. Elements(c) \subseteq Elements(c) \cup {x} OBVIOUS
    <3> QED BY <3>1, <1>2, SeqMonotonic
  <2> QED BY <2>1, AppendIsConcat
<1>4. k + Len(q) <= Len(p) BY <1>1
<1> HIDE DEF q
<1>5. Begins(c \o q, p, k + Len(q)) BY <1>1, <1>4, BeginsConcat
<1> QED BY <1>1, <1>3, <1>5

LEMMA BeginsWhole ==
    ASSUME NEW p, IsList(p), NEW c, Begins(c, p, Len(p))
    PROVE  c = p
<1>1. c \in [1..Len(p) -> Elements(c)] BY DEF Begins, IsList
<1>2. p \in [1..Len(p) -> Elements(p)] BY DEF IsList
<1>3. \A i \in 1..Len(p) : c[i] = p[i] BY DEF Begins
<1> QED BY <1>1, <1>2, <1>3

(* The numbers of a set in their order are what Nth counts out of it. *)
LEMMA AscendsNth ==
    ASSUME NEW S \in SUBSET Nat, NEW t, Ascends(t, S)
    PROVE  /\ IsFiniteSet(S) /\ Cardinality(S) = Len(t) /\ Len(t) \in Nat
           /\ \A k \in 1..Len(t) : t[k] \in S /\ Nth(S, k) = t[k]
<1> DEFINE n == Len(t)
<1>1. t \in Seq(S) /\ n \in Nat /\ t \in [1..n -> S] BY DEF Ascends
<1>2. S = {t[i] : i \in 1..n} /\ \A i, j \in 1..n : i < j => t[i] < t[j] BY DEF Ascends
<1> HIDE DEF n
<1>3. \A i, j \in 1..n : t[i] <= t[j] <=> i <= j
  <2> SUFFICES ASSUME NEW i \in 1..n, NEW j \in 1..n PROVE t[i] <= t[j] <=> i <= j OBVIOUS
  <2>1. t[i] \in Nat /\ t[j] \in Nat BY <1>1
  <2>2. i < j \/ i = j \/ j < i BY <1>1
  <2>3. i < j => t[i] < t[j] BY <1>2
  <2>4. j < i => t[j] < t[i] BY <1>2
  <2> QED BY <2>1, <2>2, <2>3, <2>4, <1>1
<1>4. \A m \in 0..n : IsFiniteSet({t[i] : i \in 1..m}) /\ Cardinality({t[i] : i \in 1..m}) = m
  <2> SUFFICES ASSUME NEW m \in 0..n
               PROVE  /\ IsFiniteSet({t[i] : i \in 1..m})
                      /\ Cardinality({t[i] : i \in 1..m}) = m
    OBVIOUS
  <2> DEFINE U == {t[i] : i \in 1..m}
             f == [i \in 1..m |-> t[i]]
  <2>1. f \in Bijection(1..m, U)
    <3>1. f \in [1..m -> U] OBVIOUS
    <3>2. \A i, j \in 1..m : f[i] = f[j] => i = j
      <4> SUFFICES ASSUME NEW i \in 1..m, NEW j \in 1..m, t[i] = t[j] PROVE i = j OBVIOUS
      <4>1. i \in 1..n /\ j \in 1..n BY <1>1
      <4>2. t[i] \in Nat BY <4>1, <1>1
      <4>3. t[i] <= t[j] /\ t[j] <= t[i] BY <4>2
      <4> QED BY <4>1, <4>3, <1>3
    <3>3. \A u \in U : \E i \in 1..m : f[i] = u OBVIOUS
    <3> HIDE DEF f, U
    <3> QED BY <3>1, <3>2, <3>3 DEF Bijection, Injection, IsInjective, Surjection
  <2>2. IsFiniteSet(1..m) /\ Cardinality(1..m) = m BY <1>1, FS_Interval
  <2> HIDE DEF f, U
  <2>3. ExistsBijection(1..m, U) BY <2>1 DEF ExistsBijection
  <2>4. IsFiniteSet(U) /\ Cardinality(U) = m BY <2>2, <2>3, FS_Bijection
  <2> QED BY <2>4 DEF U
<1>5. IsFiniteSet(S) /\ Cardinality(S) = n
  <2>1. n \in 0..n BY <1>1
  <2> QED BY <1>2, <1>4, <2>1
<1>6. \A k \in 1..n : t[k] \in S /\ Nth(S, k) = t[k]
  <2> TAKE k \in 1..n
  <2>1. t[k] \in S BY <1>1
  <2>2. {j \in S : j <= t[k]} = {t[i] : i \in 1..k}
    <3>1. \A i \in 1..n : t[i] <= t[k] <=> i <= k BY <1>3
    <3>2. \A j \in S : \E i \in 1..n : j = t[i] BY <1>2
    <3>3. \A i \in 1..k : i \in 1..n /\ i <= k BY <1>1
    <3>4. \A i \in 1..n : i <= k => i \in 1..k BY <1>1
    <3>5. \A i \in 1..n : t[i] \in S BY <1>1
    <3> QED BY <3>1, <3>2, <3>3, <3>4, <3>5
  <2>3. Cardinality({j \in S : j <= t[k]}) = k
    <3>1. k \in 0..n BY <1>1
    <3> QED BY <2>2, <1>4, <3>1
  <2>4. Nth(S, k) \in S /\ Cardinality({j \in S : j <= Nth(S, k)}) = k BY <1>5, NthType
  <2>5. PICK i \in 1..n : Nth(S, k) = t[i] BY <1>2, <2>4
  <2>6. {j \in S : j <= t[i]} = {t[l] : l \in 1..i}
    <3>1. \A l \in 1..n : t[l] <= t[i] <=> l <= i BY <1>3
    <3>2. \A j \in S : \E l \in 1..n : j = t[l] BY <1>2
    <3>3. \A l \in 1..i : l \in 1..n /\ l <= i BY <1>1
    <3>4. \A l \in 1..n : l <= i => l \in 1..i BY <1>1
    <3>5. \A l \in 1..n : t[l] \in S BY <1>1
    <3> QED BY <3>1, <3>2, <3>3, <3>4, <3>5
  <2>7. Cardinality({j \in S : j <= t[i]}) = i
    <3>1. i \in 0..n BY <1>1
    <3> QED BY <2>6, <1>4, <3>1
  <2> QED BY <2>1, <2>4, <2>5, <2>7
<1> QED BY <1>1, <1>5, <1>6 DEF n

LEMMA PickedAscends ==
    ASSUME NEW S \in SUBSET Nat, NEW t, Ascends(t, S), NEW s
    PROVE  Picked(s, S) = [k \in 1..Len(t) |-> s[t[k]]]
<1>1. Cardinality(S) = Len(t) /\ \A k \in 1..Len(t) : Nth(S, k) = t[k] BY AscendsNth
<1> QED BY <1>1 DEF Picked

LEMMA PickedAll ==
    ASSUME NEW n \in Nat, NEW s
    PROVE  Picked(s, 1..n) = [k \in 1..n |-> s[k]]
<1> DEFINE t == [k \in 1..n |-> k]
<1>1. t \in Seq(1..n) /\ Len(t) = n /\ \A k \in 1..n : t[k] = k OBVIOUS
<1>2. 1..n = {t[k] : k \in 1..n} OBVIOUS
<1>3. 1..n \in SUBSET Nat OBVIOUS
<1> HIDE DEF t
<1>4. Ascends(t, 1..n) BY <1>1, <1>2 DEF Ascends
<1>5. Picked(s, 1..n) = [k \in 1..Len(t) |-> s[t[k]]] BY <1>3, <1>4, PickedAscends, ZenonT(60)
<1>6. [k \in 1..Len(t) |-> s[t[k]]] = [k \in 1..n |-> s[k]] BY <1>1
<1> QED BY <1>5, <1>6
-----------------------------------------------------------------------------
(* Where reading is in a table that is written, and the partitions it has by then. *)
SlotsSoFar(w) ==
    /\ Begins(children, disk.parts, w.before[slot]) /\ index = w.number[slot]
    /\ extended <=> \E s \in 1..(slot - 1) : SectorAt(disk, 0).entries[s].type = "extended"
    /\ disk.format = "atari" => limit = SectorAt(disk, 0).n
ChainSoFar(w) ==
    /\ ChainSlot(disk, w, slot) /\ extended
    /\ Len(links) < Len(w.chain[slot]) /\ at = w.chain[slot][Len(links) + 1]
    /\ base = SectorAt(disk, 0).entries[slot].start /\ limit = ChainEnd(disk, slot)
    /\ Begins(children, disk.parts, w.before[slot] + Len(links))
    /\ index = w.number[slot] + Len(links)
ListSoFar(w) ==
    /\ disk.format = "rdb" /\ Begins(children, disk.parts, Len(children))
    /\ at = IF Len(children) < Len(w.chain) THEN w.chain[Len(children) + 1] ELSE Endless
BootsSoFar(w) ==
    /\ disk.format = "cumana" /\ index = Len(links)
    /\ Len(links) < Len(w.chain) /\ at = w.chain[Len(links) + 1] /\ base = w.start[Len(links) + 1]
    /\ Begins(children, disk.parts, Len(links))
SoFar(w) ==
    /\ pc # "error"
    /\ pc = "open" => children = <<>> /\ links = <<>> /\ index = 0 /\ base = 0 /\ extended = FALSE
    /\ pc = "slots" => SlotsSoFar(w)
    /\ pc = "chain" => ChainSoFar(w)
    /\ pc = "list" => ListSoFar(w)
    /\ pc = "boots" => BootsSoFar(w)
    /\ pc = "done" => children = disk.parts

LEMMA WrittenParts ==
    ASSUME NEW w, Written(disk, w)
    PROVE  /\ IsList(disk.parts) /\ Len(disk.parts) \in Nat
           /\ disk.format \in {"mbr", "atari"} => WrittenSlots(disk, w)
           /\ disk.format = "rdb" => WrittenList(disk, w)
           /\ disk.format = "cumana" => WrittenBoots(disk, w)
<1>1. IsList(disk.parts) BY DEF Written, IsList, Elements
<1>2. Len(disk.parts) \in Nat BY <1>1 DEF IsList
<1>3. disk.format \in {"mbr", "atari"} => WrittenSlots(disk, w) BY DEF Written
<1>4. disk.format = "rdb" => WrittenList(disk, w) BY DEF Written
<1>5. disk.format = "cumana" => WrittenBoots(disk, w) BY DEF Written
<1> QED BY <1>1, <1>2, <1>3, <1>4, <1>5

(* The slots have their partitions one behind the other. *)
LEMMA TailType == ASSUME NEW w, WrittenIcd(disk, w) PROVE Len(w.tail) \in Nat
<1>1. w.tail = <<>> \/ \E S : w.tail \in Seq(S) BY DEF WrittenIcd, Ascends
<1> QED BY <1>1

LEMMA BeforeGrows ==
    ASSUME NEW w, WrittenSlots(disk, w)
    PROVE  \A s \in 1..4 : /\ w.before[s] \in Nat /\ w.before[s + 1] \in Nat
                           /\ w.number[s] \in Nat
                           /\ w.before[s] <= w.before[s + 1]
                           /\ w.before[s + 1] <= Len(disk.parts)
<1>1. \A s \in 1..5 : w.before[s] \in Nat /\ w.number[s] \in Nat BY DEF WrittenSlots
<1>2. \A s \in 1..4 : s \in 1..5 /\ s + 1 \in 1..5 OBVIOUS
<1>3. \A s \in 1..4 : w.before[s] <= w.before[s + 1]
  <2> TAKE s \in 1..4
  <2>1. w.before[s] \in Nat /\ w.before[s + 1] \in Nat BY <1>1, <1>2
  <2>2. UnusedSlot(disk, w, s) \/ PrimarySlot(disk, w, s) \/ ChainSlot(disk, w, s)
    BY DEF WrittenSlots
  <2>3. CASE UnusedSlot(disk, w, s) BY <2>1, <2>3 DEF UnusedSlot
  <2>4. CASE PrimarySlot(disk, w, s)
    <3>1. w.before[s + 1] = w.before[s] + 1 BY <2>4 DEF PrimarySlot
    <3> QED BY <2>1, <3>1
  <2>5. CASE ChainSlot(disk, w, s)
    <3>1. w.before[s + 1] = w.before[s] + Len(w.chain[s]) /\ Len(w.chain[s]) \in 1..MaxLinks
      BY <2>5 DEF ChainSlot
    <3> QED BY <2>1, <3>1, LinksAssumption
  <2> QED BY <2>2, <2>3, <2>4, <2>5
<1>4. Len(disk.parts) = w.before[5] + Len(w.tail) /\ Len(w.tail) \in Nat
  BY TailType DEF WrittenSlots
<1>5. /\ w.before[1] <= w.before[2] /\ w.before[2] <= w.before[3]
      /\ w.before[3] <= w.before[4] /\ w.before[4] <= w.before[5]
  <2>1. /\ w.before[1] <= w.before[1 + 1] /\ w.before[2] <= w.before[2 + 1]
        /\ w.before[3] <= w.before[3 + 1] /\ w.before[4] <= w.before[4 + 1]
    BY <1>3
  <2>2. 1 + 1 = 2 /\ 2 + 1 = 3 /\ 3 + 1 = 4 /\ 4 + 1 = 5 OBVIOUS
  <2> QED BY <2>1, <2>2
<1>6. /\ w.before[2] \in Nat /\ w.before[3] \in Nat /\ w.before[4] \in Nat /\ w.before[5] \in Nat
  BY <1>1
<1>7. \A s \in 1..4 : w.before[s + 1] <= Len(disk.parts)
  <2>1. /\ w.before[2] <= Len(disk.parts) /\ w.before[3] <= Len(disk.parts)
        /\ w.before[4] <= Len(disk.parts) /\ w.before[5] <= Len(disk.parts)
    <3>1. w.before[5] <= Len(disk.parts) /\ Len(disk.parts) \in Nat BY <1>4, <1>6
    <3>2. w.before[4] <= Len(disk.parts) BY <3>1, <1>5, <1>6
    <3>3. w.before[3] <= Len(disk.parts) BY <3>1, <3>2, <1>5, <1>6
    <3>4. w.before[2] <= Len(disk.parts) BY <3>1, <3>3, <1>5, <1>6
    <3> QED BY <3>1, <3>2, <3>3, <3>4
  <2> TAKE s \in 1..4
  <2>2. s + 1 = 2 \/ s + 1 = 3 \/ s + 1 = 4 \/ s + 1 = 5 OBVIOUS
  <2> QED BY <2>1, <2>2
<1> QED BY <1>1, <1>2, <1>3, <1>7

LEMMA FoundOpenSlots ==
    ASSUME IInv, NEW w, Written(disk, w), SoFar(w), OpenSlots
    PROVE  SoFar(w)'
<1>1. /\ pc = "open" /\ disk.format \in {"mbr", "atari"} /\ pc' = "slots" /\ slot' = 1
      /\ limit' = Read(0).n /\ index' = IF disk.format = "mbr" THEN 4 ELSE 0
      /\ UNCHANGED <<disk, at, base, links, extended, children>>
  BY DEF OpenSlots, FirstLogical
<1>2. children = <<>> /\ extended = FALSE BY <1>1 DEF SoFar
<1>3. IsList(disk.parts) /\ WrittenSlots(disk, w) BY <1>1, WrittenParts
<1>4. w.before[1] = 0 /\ w.number[1] = IF disk.format = "mbr" THEN 4 ELSE 0
  BY <1>3 DEF WrittenSlots
<1>5. Begins(children', disk.parts, w.before[slot'])
  <2>1. Begins(<<>>, disk.parts, 0) BY <1>3, BeginsEmpty
  <2> QED BY <1>1, <1>2, <1>4, <2>1
<1>6. SlotsSoFar(w)'
  <2>1. Begins(children, disk.parts, w.before[slot])' BY <1>1, <1>5 DEF Begins, IsList, Elements
  <2>2. (index = w.number[slot])' BY <1>1, <1>4
  <2>3. (limit = SectorAt(disk, 0).n)' BY <1>1 DEF Read
  <2>4. 1..(slot' - 1) = {} BY <1>1
  <2>5. ~extended' BY <1>1, <1>2
  <2> QED BY <2>1, <2>2, <2>3, <2>4, <2>5 DEF SlotsSoFar
<1> QED BY <1>1, <1>6 DEF SoFar

(* A slot that is not used is skipped, and the partition of one that is is found. *)
LEMMA FoundSlot ==
    ASSUME IInv, NEW w, Written(disk, w), SoFar(w), AddPrimary \/ SkipSlot
    PROVE  SoFar(w)'
<1> DEFINE e == SectorAt(disk, 0).entries[slot]
<1>1. /\ pc = "slots" /\ slot <= 4 /\ slot' = slot + 1 /\ ~IsLink(e)
      /\ UNCHANGED <<disk, pc, at, base, limit, links, extended>>
  BY DEF AddPrimary, SkipSlot, Walking, First, Read, IsLink, IsPrimary
<1>2. disk.format \in {"mbr", "atari"} /\ slot \in 1..4
  BY <1>1 DEF IInv, Types, TypeOK, Linked
<1>3. /\ IsList(disk.parts) /\ WrittenSlots(disk, w) BY <1>2, WrittenParts
<1>4. /\ w.before[slot] \in Nat /\ w.before[slot + 1] <= Len(disk.parts)
  BY <1>2, <1>3, BeforeGrows
<1>5. SlotsSoFar(w) BY <1>1 DEF SoFar
<1>6. UnusedSlot(disk, w, slot) \/ PrimarySlot(disk, w, slot) \/ ChainSlot(disk, w, slot)
  BY <1>2, <1>3 DEF WrittenSlots
<1>7. ~ChainSlot(disk, w, slot)
  <2>1. ChainSlot(disk, w, slot) => IsLink(e)
    BY <1>2 DEF ChainSlot, IsLink, IsValid, Read
  <2> QED BY <1>1, <2>1
<1>8. e.type # "extended" BY <1>6, <1>7, <1>2 DEF UnusedSlot, PrimarySlot
<1>9. /\ Begins(children', disk.parts, w.before[slot + 1])
      /\ index' = w.number[slot + 1]
  <2>1. CASE UnusedSlot(disk, w, slot)
    <3>1. w.before[slot + 1] = w.before[slot] /\ w.number[slot + 1] = w.number[slot]
      BY <2>1 DEF UnusedSlot
    <3>2. ~IsPrimary(e) BY <2>1, <1>2 DEF UnusedSlot, IsPrimary, IsValid
    <3>3. children' = children /\ index' = index
      BY <3>2 DEF AddPrimary, SkipSlot, First, Read
    <3> QED BY <1>5, <3>1, <3>3 DEF SlotsSoFar
  <2>2. CASE PrimarySlot(disk, w, slot)
    <3>1. /\ w.before[slot + 1] = w.before[slot] + 1 /\ Usable(e)
          /\ w.number[slot + 1] = IF disk.format = "mbr" THEN w.number[slot] ELSE w.number[slot] + 1
          /\ disk.parts[w.before[slot] + 1] =
                Part(IF disk.format = "mbr" THEN slot - 1 ELSE w.number[slot], e.start, e.count)
      BY <2>2 DEF PrimarySlot
    <3>2. IsPrimary(e) BY <2>2, <1>2 DEF PrimarySlot, IsPrimary, IsValid, Read
    <3>3. /\ children' = Append(children, Part(IF disk.format = "mbr" THEN slot - 1 ELSE index,
                                               e.start, e.count))
          /\ index' = IF disk.format = "mbr" THEN index ELSE index + 1
      BY <3>1, <3>2 DEF AddPrimary, SkipSlot, First, Read
    <3>4. index = w.number[slot] /\ Begins(children, disk.parts, w.before[slot])
      BY <1>5 DEF SlotsSoFar
    <3>5. children' = Append(children, disk.parts[w.before[slot] + 1]) BY <3>1, <3>3, <3>4
    <3>6. w.before[slot] + 1 <= Len(disk.parts) BY <1>4, <3>1
    <3>7. Begins(Append(children, disk.parts[w.before[slot] + 1]), disk.parts, w.before[slot] + 1)
      BY <1>3, <1>4, <3>4, <3>6, BeginsAppend
    <3> QED BY <3>1, <3>3, <3>4, <3>5, <3>7
  <2> QED BY <1>6, <1>7, <2>1, <2>2
<1>10. SlotsSoFar(w)'
  <2>1. Begins(children, disk.parts, w.before[slot])' BY <1>1, <1>9 DEF Begins, IsList, Elements
  <2>2. (index = w.number[slot])' BY <1>1, <1>9
  <2>3. (disk.format = "atari" => limit = SectorAt(disk, 0).n)' BY <1>1, <1>5 DEF SlotsSoFar
  <2>4. extended <=> \E s \in 1..slot : SectorAt(disk, 0).entries[s].type = "extended"
    <3>1. 1..slot = (1..(slot - 1)) \cup {slot} BY <1>2
    <3> QED BY <1>5, <1>8, <3>1 DEF SlotsSoFar
  <2>5. slot' - 1 = slot BY <1>1, <1>2
  <2>6. (extended <=> \E s \in 1..(slot - 1) : SectorAt(disk, 0).entries[s].type = "extended")'
    BY <1>1, <2>4, <2>5
  <2> QED BY <2>1, <2>2, <2>3, <2>6 DEF SlotsSoFar
<1> QED BY <1>1, <1>10 DEF SoFar

LEMMA FoundEnterChain ==
    ASSUME IInv, NEW w, Written(disk, w), SoFar(w), EnterChain
    PROVE  SoFar(w)'
<1> DEFINE e == SectorAt(disk, 0).entries[slot]
<1>1. /\ pc = "slots" /\ slot <= 4 /\ IsLink(e) /\ pc' = "chain"
      /\ at' = e.start /\ base' = e.start /\ links' = <<>> /\ extended' = TRUE
      /\ limit' = IF disk.format = "mbr" THEN e.start + e.count ELSE limit
      /\ UNCHANGED <<disk, slot, index, children>>
  BY DEF EnterChain, First, Read
<1>2. disk.format \in {"mbr", "atari"} /\ slot \in 1..4
  BY <1>1 DEF IInv, Types, TypeOK, Linked
<1>3. /\ IsList(disk.parts) /\ WrittenSlots(disk, w) BY <1>2, WrittenParts
<1>4. SlotsSoFar(w) BY <1>1 DEF SoFar
<1>5. w.before[slot] \in Nat /\ w.number[slot] \in Nat BY <1>2, <1>3, BeforeGrows
<1>6. ChainSlot(disk, w, slot)
  <2>1. UnusedSlot(disk, w, slot) \/ PrimarySlot(disk, w, slot) \/ ChainSlot(disk, w, slot)
    BY <1>2, <1>3 DEF WrittenSlots
  <2>2. e.type = "extended" BY <1>1, <1>2 DEF IsLink
  <2> QED BY <2>1, <2>2 DEF UnusedSlot, PrimarySlot
<1>7. Len(w.chain[slot]) \in 1..MaxLinks /\ w.chain[slot][1] = e.start
  BY <1>6 DEF ChainSlot
<1>8. Len(links') = 0 BY <1>1
<1>9. ChainSoFar(w)'
  <2>1. ChainSlot(disk, w, slot)' BY <1>1, <1>6
  <2>2. (Len(links) < Len(w.chain[slot]) /\ at = w.chain[slot][Len(links) + 1])'
    BY <1>1, <1>7, <1>8
  <2>3. (base = SectorAt(disk, 0).entries[slot].start /\ limit = ChainEnd(disk, slot))'
    BY <1>1, <1>2, <1>4 DEF SlotsSoFar, ChainEnd
  <2>4. Begins(children', disk.parts, w.before[slot] + 0) BY <1>1, <1>4, <1>5 DEF SlotsSoFar
  <2>5. Begins(children, disk.parts, w.before[slot] + Len(links))'
    BY <1>1, <1>8, <2>4 DEF Begins, IsList, Elements
  <2>6. (index = w.number[slot] + Len(links))' BY <1>1, <1>4, <1>5, <1>8 DEF SlotsSoFar
  <2> QED BY <1>1, <2>1, <2>2, <2>3, <2>5, <2>6 DEF ChainSoFar
<1> QED BY <1>1, <1>9 DEF SoFar

(* The link that is read next is one of those that are written. *)
LEMMA LinkIsWritten ==
    ASSUME IInv, NEW w, Written(disk, w), SoFar(w), pc = "chain"
    PROVE  /\ ChainSoFar(w) /\ disk.format \in {"mbr", "atari"} /\ slot \in 1..4
           /\ Len(links) \in Nat /\ Len(links) + 1 <= Len(w.chain[slot])
           /\ Len(w.chain[slot]) \in 1..MaxLinks /\ More
           /\ LinkOf(disk, w, slot, Len(links) + 1) /\ Read(at).magic = disk.format
<1>1. ChainSoFar(w) BY DEF SoFar
<1>2. disk.format \in {"mbr", "atari"} /\ slot \in 1..4 /\ links \in Seq(Nat)
  BY DEF IInv, Types, TypeOK, Linked
<1>3. Len(w.chain[slot]) \in 1..MaxLinks /\ Len(links) \in Nat /\ Len(links) < Len(w.chain[slot])
  BY <1>1, <1>2 DEF ChainSoFar, ChainSlot
<1>4. Len(links) + 1 <= Len(w.chain[slot]) /\ Len(links) + 1 \in 1..Len(w.chain[slot])
  BY <1>3, LinksAssumption
<1>5. More BY <1>3, LinksAssumption DEF More
<1>6. LinkOf(disk, w, slot, Len(links) + 1) BY <1>1, <1>4 DEF ChainSoFar, ChainSlot
<1>7. Read(at).magic = disk.format BY <1>1, <1>6 DEF ChainSoFar, LinkOf, Read
<1> QED BY <1>1, <1>2, <1>3, <1>4, <1>5, <1>6, <1>7

LEMMA FoundFollowChain ==
    ASSUME IInv, NEW w, Written(disk, w), SoFar(w), FollowChain
    PROVE  SoFar(w)'
<1> DEFINE table == SectorAt(disk, at)
           k == Len(links) + 1
           n == Len(w.chain[slot])
           first == table.entries[1]
           second == table.entries[2]
<1>1. /\ pc = "chain" /\ links' = Append(links, at) /\ UNCHANGED <<disk, base, limit, extended>>
  BY DEF FollowChain
<1>2. /\ ChainSoFar(w) /\ disk.format \in {"mbr", "atari"} /\ slot \in 1..4
      /\ Len(links) \in Nat /\ k <= n /\ n \in 1..MaxLinks /\ More
      /\ LinkOf(disk, w, slot, k) /\ table.magic = disk.format
  BY <1>1, LinkIsWritten DEF Read
<1>3. /\ IsList(disk.parts) /\ WrittenSlots(disk, w) /\ Len(disk.parts) \in Nat
  BY <1>2, WrittenParts
<1>4. /\ w.before[slot] \in Nat /\ w.number[slot] \in Nat
      /\ w.before[slot + 1] <= Len(disk.parts)
  BY <1>2, <1>3, BeforeGrows
<1>5. /\ w.before[slot + 1] = w.before[slot] + n /\ w.number[slot + 1] = w.number[slot] + n
      /\ SectorAt(disk, 0).entries[slot].type = "extended"
  BY <1>2 DEF ChainSoFar, ChainSlot
<1>6. /\ at \in Nat /\ base \in Nat /\ limit \in Nat /\ links \in Seq(Nat)
      /\ first.start \in Nat /\ first.count \in Nat /\ second.start \in Nat
  BY <1>1, <1>2, FollowType DEF IInv, Types, TypeOK, Read, Logical, NextLink
<1>7. /\ at = w.chain[slot][k] /\ base = SectorAt(disk, 0).entries[slot].start
      /\ limit = ChainEnd(disk, slot) /\ extended
      /\ Begins(children, disk.parts, w.before[slot] + Len(links))
      /\ index = w.number[slot] + Len(links)
  BY <1>2 DEF ChainSoFar
<1>8. /\ first.type # "empty" /\ Usable(first) /\ at + first.start + first.count <= limit
      /\ disk.parts[w.before[slot] + k] =
            Part(w.number[slot] + k - 1, at + first.start, first.count)
  BY <1>2, <1>7 DEF LinkOf
<1>9. /\ links' \in Seq(Nat) /\ Len(links') = k BY <1>1, <1>2, <1>6
<1>10. Fits(Read(at)) BY <1>8 DEF Fits, Logical, Read
<1>11. /\ children' = Append(children, Part(index, at + first.start, first.count))
       /\ index' = index + 1
  BY <1>10 DEF FollowChain, Logical, Read
<1>12. w.number[slot] + k - 1 = index /\ index + 1 = w.number[slot] + k
  <2> DEFINE l == Len(links)
             m == w.number[slot]
  <2>1. l \in Nat /\ m \in Nat /\ index = m + l /\ k = l + 1 BY <1>2, <1>4, <1>7, Zenon
  <2> HIDE DEF l, m, k
  <2>2. m + k - 1 = index /\ index + 1 = m + k BY <2>1
  <2> QED BY <2>2 DEF m
<1>13. Begins(children', disk.parts, w.before[slot] + k)
  <2> DEFINE m == w.before[slot] + Len(links)
  <2>1. m \in Nat /\ m + 1 = w.before[slot] + k /\ m + 1 <= Len(disk.parts)
    <3>1. m \in Nat /\ m + 1 = w.before[slot] + k
      <4> DEFINE l == Len(links)
                 b == w.before[slot]
      <4>1. l \in Nat /\ b \in Nat BY <1>2, <1>4
      <4> HIDE DEF l, b
      <4>2. b + l \in Nat /\ (b + l) + 1 = b + (l + 1) BY <4>1
      <4> QED BY <4>2 DEF l, b
    <3>2. n \in Nat /\ k \in Nat /\ k <= n BY <1>2, LinksAssumption
    <3>3. w.before[slot] + k <= w.before[slot] + n
      <4> HIDE DEF k, n
      <4> QED BY <1>4, <3>2
    <3>4. w.before[slot] + n <= Len(disk.parts) BY <1>4, <1>5
    <3> HIDE DEF k, n, m
    <3> QED BY <1>3, <1>4, <3>1, <3>2, <3>3, <3>4
  <2>2. children' = Append(children, disk.parts[m + 1]) BY <1>8, <1>11, <1>12, <2>1
  <2>3. Begins(children, disk.parts, m) BY <1>7
  <2> HIDE DEF m
  <2>4. Begins(Append(children, disk.parts[m + 1]), disk.parts, m + 1)
    BY <1>3, <2>1, <2>3, BeginsAppend
  <2> QED BY <2>1, <2>2, <2>4
<1>14. CASE k < n
  <2>1. /\ second.type = "extended" /\ second.start > 0
        /\ w.chain[slot][k + 1] = base + second.start
        /\ at < base + second.start /\ base + second.start < limit
    BY <1>2, <1>7, <1>14 DEF LinkOf
  <2>2. Follows(Read(at)) BY <1>6, <2>1 DEF Follows, NextLink, Read
  <2>3. at' = base + second.start /\ UNCHANGED <<pc, slot>>
    BY <2>2 DEF FollowChain, NextLink, Read
  <2>4. ChainSoFar(w)'
    <3>1. ChainSlot(disk, w, slot)' BY <1>1, <1>2, <2>3 DEF ChainSoFar
    <3>2. (Len(links) < Len(w.chain[slot]) /\ at = w.chain[slot][Len(links) + 1])'
      BY <1>9, <1>14, <2>1, <2>3
    <3>3. (base = SectorAt(disk, 0).entries[slot].start /\ limit = ChainEnd(disk, slot))'
      BY <1>1, <1>7, <2>3
    <3>4. Begins(children, disk.parts, w.before[slot] + Len(links))'
      BY <1>1, <1>9, <1>13, <2>3 DEF Begins, IsList, Elements
    <3>5. (index = w.number[slot] + Len(links))' BY <1>9, <1>11, <1>12, <2>3
    <3> QED BY <1>1, <1>7, <3>1, <3>2, <3>3, <3>4, <3>5 DEF ChainSoFar
  <2> QED BY <1>1, <2>3, <2>4 DEF SoFar
<1>15. CASE ~(k < n)
  <2>1. k = n BY <1>2, <1>15, LinksAssumption
  <2>2. second.type = "empty" BY <1>2, <1>7, <1>15 DEF LinkOf
  <2>3. ~Follows(Read(at)) BY <1>2, <2>2 DEF Follows, NextLink, Read
  <2>4. pc' = "slots" /\ slot' = slot + 1 BY <2>3 DEF FollowChain, LeaveChain
  <2>5. SlotsSoFar(w)'
    <3>1. Begins(children', disk.parts, w.before[slot + 1]) BY <1>5, <1>13, <2>1
    <3>2. Begins(children, disk.parts, w.before[slot])'
      BY <1>1, <2>4, <3>1 DEF Begins, IsList, Elements
    <3>3. (index = w.number[slot])' BY <1>5, <1>11, <1>12, <2>1, <2>4
    <3>4. (disk.format = "atari" => limit = SectorAt(disk, 0).n)'
      BY <1>1, <1>7 DEF ChainEnd
    <3>5. slot \in 1..(slot' - 1) BY <1>2, <2>4
    <3>6. (\E s \in 1..(slot - 1) : SectorAt(disk, 0).entries[s].type = "extended")'
      BY <1>1, <1>5, <3>5
    <3> QED BY <1>1, <1>7, <3>2, <3>3, <3>4, <3>6 DEF SlotsSoFar
  <2> QED BY <2>4, <2>5 DEF SoFar
<1> QED BY <1>14, <1>15

LEMMA FoundEndChain ==
    ASSUME IInv, NEW w, Written(disk, w), SoFar(w)
    PROVE  ~EndChain /\ ~ChainFails /\ ~OpenFails
<1>1. ~EndChain /\ ~ChainFails
  <2> SUFFICES ASSUME EndChain \/ ChainFails PROVE FALSE OBVIOUS
  <2>1. pc = "chain" /\ (~More \/ Read(at).magic # disk.format) BY DEF EndChain, ChainFails
  <2> QED BY <2>1, LinkIsWritten
<1>2. ~OpenFails
  <2> SUFFICES ASSUME OpenFails PROVE FALSE OBVIOUS
  <2>1. disk.format \in {"mbr", "atari"} /\ Read(0).magic # disk.format BY DEF OpenFails
  <2>2. WrittenSlots(disk, w) BY <2>1, WrittenParts
  <2> QED BY <2>1, <2>2 DEF WrittenSlots, Read
<1> QED BY <1>1, <1>2

(* The slots behind the first four are read as they are written. *)
LEMMA IcdIsWritten ==
    ASSUME IInv, NEW w, WrittenIcd(disk, w), w.number[5] = index,
           disk.format # "mbr" =>
              (extended <=> \E s \in 1..4 : SectorAt(disk, 0).entries[s].type = "extended"),
           disk.format \in {"mbr", "atari"}
    PROVE  /\ \E T : Icd \in Seq(T)
           /\ Len(Icd) = Len(w.tail)
           /\ \A k \in 1..Len(Icd) : Icd[k] = disk.parts[w.before[5] + k]
<1> DEFINE entries == SectorAt(disk, 0).entries
           used == {i \in DOMAIN entries : i > 4 /\ entries[i].type # "empty"}
           none == \/ disk.format = "mbr" \/ Len(entries) < 5
                   \/ \E s \in 1..4 : entries[s].type = "extended"
<1>1. entries \in Seq(EntrySet) /\ Len(entries) \in Nat /\ DOMAIN entries = 1..Len(entries)
  <2>1. entries \in Seq(EntrySet) BY EntriesType DEF IInv, Types
  <2> HIDE DEF entries
  <2> QED BY <2>1
<1>2. IcdEntries = SubSeq(entries, 5, Len(entries)) BY DEF IcdEntries, Read
<1>3. /\ IcdEntries \in Seq(EntrySet)
      /\ DOMAIN IcdEntries = 1..(IF Len(entries) < 5 THEN 0 ELSE Len(entries) - 4)
      /\ Len(entries) < 5 => IcdEntries = <<>>
      /\ \A i \in DOMAIN IcdEntries : i + 4 \in DOMAIN entries /\ IcdEntries[i] = entries[i + 4]
  <2> HIDE DEF entries
  <2>1. \A i \in 5..Len(entries) : entries[i] \in EntrySet BY <1>1
  <2>2. /\ IcdEntries \in Seq(EntrySet)
        /\ Len(IcdEntries) = IF 5 <= Len(entries) THEN Len(entries) - 4 ELSE 0
        /\ \A i \in 1..(Len(entries) - 4) : IcdEntries[i] = entries[i + 4]
    <3>1. SubSeq(entries, 5, Len(entries)) \in Seq(EntrySet) BY <1>1, <2>1, SubSeqProperties
    <3>2. Len(SubSeq(entries, 5, Len(entries))) = IF 5 <= Len(entries) THEN Len(entries) - 4 ELSE 0
      BY <1>1
    <3>3. \A i \in 1..(Len(entries) - 4) : SubSeq(entries, 5, Len(entries))[i] = entries[i + 4]
      BY <1>1
    <3> QED BY <1>2, <3>1, <3>2, <3>3
  <2> DEFINE m == Len(entries)
  <2>6. m \in Nat /\ DOMAIN entries = 1..m BY <1>1
  <2>9. Len(IcdEntries) = IF 5 <= m THEN m - 4 ELSE 0 BY <2>2
  <2> HIDE DEF m
  <2>7. Len(IcdEntries) = IF m < 5 THEN 0 ELSE m - 4 BY <2>6, <2>9
  <2>8. DOMAIN IcdEntries = 1..(IF m < 5 THEN 0 ELSE m - 4)
    <3>1. IcdEntries \in Seq(EntrySet) BY <2>2
    <3>2. DOMAIN IcdEntries = 1..Len(IcdEntries) BY <3>1
    <3> QED BY <2>7, <3>2
  <2>3. DOMAIN IcdEntries = 1..(IF Len(entries) < 5 THEN 0 ELSE Len(entries) - 4)
    BY <2>8 DEF m
  <2>4. Len(entries) < 5 => IcdEntries = <<>>
    <3>1. IcdEntries \in Seq(EntrySet) BY <2>2
    <3>2. m < 5 => Len(IcdEntries) = 0 BY <2>7
    <3>3. m < 5 => IcdEntries = <<>> BY <3>1, <3>2
    <3> QED BY <3>3 DEF m
  <2>5. \A i \in DOMAIN IcdEntries : i + 4 \in DOMAIN entries /\ IcdEntries[i] = entries[i + 4]
    <3> TAKE i \in DOMAIN IcdEntries
    <3>1. i \in 1..(m - 4) /\ i + 4 \in 1..m BY <2>6, <2>8
    <3>2. i \in 1..(Len(entries) - 4) BY <3>1 DEF m
    <3> QED BY <2>2, <2>6, <3>1, <3>2
  <2> QED BY <2>2, <2>3, <2>4, <2>5
<1>4. CASE none
  <2>1. w.tail = <<>> BY <1>4 DEF WrittenIcd
  <2>2. Icd = <<>> BY <1>3, <1>4 DEF Icd
  <2> QED BY <2>1, <2>2
<1>5. CASE ~none
  <2>1. /\ used # {} => entries[5].type # "empty"
        /\ \A i \in used :
              Usable(entries[i]) /\ entries[i].start + entries[i].count <= SectorAt(disk, 0).n
        /\ Ascends(w.tail, used)
        /\ \A k \in 1..Len(w.tail) :
              disk.parts[w.before[5] + k] =
                 Part(w.number[5] + k - 1, entries[w.tail[k]].start, entries[w.tail[k]].count)
    BY <1>5 DEF WrittenIcd
  <2>2. Len(entries) >= 5 /\ disk.format # "mbr" /\ ~extended BY <1>1, <1>5
  <2>3. IcdEntries[1] = entries[5] /\ IcdEntries # <<>> BY <1>1, <1>3, <2>2, SMTT(30)
  <2> HIDE DEF none, entries
  <2>4. used \in SUBSET Nat BY <1>1
  <2>5. w.tail \in Seq(used) /\ Len(w.tail) \in Nat BY <2>1 DEF Ascends
  <2>6. CASE used = {}
    <3>1. w.tail = <<>> BY <2>5, <2>6
    <3>2. 5 \in DOMAIN entries BY <1>1, <2>2
    <3>3. entries[5].type = "empty" BY <2>6, <3>2
    <3>4. Icd = <<>> BY <2>3, <3>3 DEF Icd
    <3> QED BY <3>1, <3>4
  <2>7. CASE used # {}
    <3> DEFINE n == Len(w.tail)
               places == {i \in DOMAIN IcdEntries : IsValid(IcdEntries[i])}
               t == [k \in 1..n |-> w.tail[k] - 4]
               valid == Picked(IcdEntries, places)
               kept == {i \in DOMAIN valid : Usable(valid[i])}
    <3>1. \A k \in 1..n : w.tail[k] \in used BY <2>5
    <3>2. \A i : i \in places <=> i \in Nat /\ i + 4 \in used
      <4>1. \A i \in DOMAIN IcdEntries : i \in Nat /\ i + 4 \in DOMAIN entries /\ i + 4 > 4
        BY <1>1, <1>3
      <4>2. \A i \in DOMAIN IcdEntries : IsValid(IcdEntries[i]) <=> i + 4 \in used
        <5> TAKE i \in DOMAIN IcdEntries
        <5>1. IcdEntries[i] = entries[i + 4] /\ i + 4 \in DOMAIN entries /\ i + 4 > 4 BY <1>3, <4>1
        <5>2. IsValid(IcdEntries[i]) <=> /\ entries[i + 4].type # "empty"
                                         /\ entries[i + 4].start + entries[i + 4].count <= SectorAt(disk, 0).n
          BY <5>1 DEF IsValid, Read
        <5> HIDE DEF used
        <5>3. i + 4 \in used => IsValid(IcdEntries[i]) BY <2>1, <5>1, <5>2 DEF used
        <5>4. IsValid(IcdEntries[i]) => i + 4 \in used BY <5>1, <5>2 DEF used
        <5> QED BY <5>3, <5>4
      <4>3. \A i \in Nat : i + 4 \in used => i \in DOMAIN IcdEntries
        <5> TAKE i \in Nat
        <5> HAVE i + 4 \in used
        <5>1. i + 4 \in 1..Len(entries) /\ i + 4 > 4 BY <1>1
        <5>2. i \in 1..(Len(entries) - 4) BY <5>1, <1>1
        <5> QED BY <5>2, <1>1, <1>3, <2>2
      <4> QED BY <4>1, <4>2, <4>3
    <3>3. places \in SUBSET Nat BY <3>2
    <3> HIDE DEF places
    <3>4. Ascends(t, places)
      <4>1. \A k \in 1..n : t[k] = w.tail[k] - 4 /\ t[k] \in Nat /\ t[k] + 4 = w.tail[k]
        <5> TAKE k \in 1..n
        <5>1. w.tail[k] \in Nat /\ w.tail[k] > 4 BY <3>1, <1>1
        <5> QED BY <5>1
      <4>2. \A k \in 1..n : t[k] \in places BY <3>1, <3>2, <4>1
      <4>3. t \in Seq(places) /\ Len(t) = n
        <5>1. t \in [1..n -> places] BY <4>2
        <5>2. n \in Nat BY <2>5
        <5> HIDE DEF t, n
        <5> QED BY <5>1, <5>2
      <4>4. \A i \in places : \E k \in 1..n : t[k] = i
        <5> TAKE i \in places
        <5>1. i + 4 \in used /\ i \in Nat BY <3>2
        <5>2. PICK k \in 1..n : w.tail[k] = i + 4 BY <5>1, <2>1 DEF Ascends
        <5> QED BY <5>1, <5>2
      <4>5. \A i, j \in 1..n : i < j => t[i] < t[j]
        <5> SUFFICES ASSUME NEW i \in 1..n, NEW j \in 1..n, i < j PROVE t[i] < t[j] OBVIOUS
        <5>1. w.tail[i] < w.tail[j] BY <2>1 DEF Ascends
        <5>2. t[i] + 4 = w.tail[i] /\ t[j] + 4 = w.tail[j] /\ t[i] \in Nat /\ t[j] \in Nat BY <4>1
        <5> HIDE DEF t
        <5> QED BY <5>1, <5>2
      <4>6. places = {t[k] : k \in 1..n} BY <4>2, <4>4
      <4> HIDE DEF t
      <4> QED BY <4>3, <4>5, <4>6 DEF Ascends
    <3>5. valid = [k \in 1..n |-> IcdEntries[t[k]]]
      <4>1. Len(t) = n BY <2>5
      <4> HIDE DEF t, n
      <4>2. valid = [k \in 1..Len(t) |-> IcdEntries[t[k]]] BY <3>3, <3>4, PickedAscends
      <4> QED BY <4>1, <4>2
    <3>6. valid = [k \in 1..n |-> entries[w.tail[k]]]
      <4>1. \A k \in 1..n : IcdEntries[t[k]] = entries[w.tail[k]]
        <5> TAKE k \in 1..n
        <5>1. t[k] \in places /\ t[k] + 4 = w.tail[k]
          <6>1. w.tail[k] \in Nat /\ w.tail[k] > 4 /\ w.tail[k] \in used BY <3>1, <1>1
          <6>2. t[k] \in Nat /\ t[k] + 4 = w.tail[k] BY <6>1
          <6> QED BY <6>1, <6>2, <3>2
        <5>2. t[k] \in DOMAIN IcdEntries BY <5>1 DEF places
        <5> QED BY <5>1, <5>2, <1>3
      <4> HIDE DEF t, valid
      <4> QED BY <3>5, <4>1
    <3> HIDE DEF valid
    <3>7. kept = 1..n
      <4>1. \A k \in 1..n : Usable(valid[k]) BY <3>1, <3>6, <2>1
      <4> QED BY <4>1, <3>6
    <3>8. Icd = Picked(Indexed(index, valid), kept)
      <4>1. 5 \in DOMAIN entries BY <1>1, <2>2
      <4>2. IcdEntries[1].type # "empty" BY <2>1, <2>3, <2>7
      <4> QED BY <2>2, <2>3, <4>2 DEF Icd, valid, places
    <3>9. Icd = [k \in 1..n |-> Indexed(index, valid)[k]]
      <4> HIDE DEF kept
      <4>1. Picked(Indexed(index, valid), 1..n) = [k \in 1..n |-> Indexed(index, valid)[k]]
        BY <2>5, PickedAll
      <4> QED BY <3>7, <3>8, <4>1
    <3>10. \A k \in 1..n : Icd[k] = Part(index + k - 1, entries[w.tail[k]].start, entries[w.tail[k]].count)
      BY <3>6, <3>9 DEF Indexed
    <3>11. \A k \in 1..n : Icd[k] = disk.parts[w.before[5] + k] BY <2>1, <3>10
    <3>12. Icd \in Seq({Icd[k] : k \in 1..n}) /\ Len(Icd) = n
      <4>1. Icd = [k \in 1..n |-> Icd[k]] BY <3>9
      <4> QED BY <4>1, <2>5
    <3> QED BY <3>11, <3>12
  <2> QED BY <2>6, <2>7
<1> QED BY <1>4, <1>5

LEMMA FoundEndSlots ==
    ASSUME IInv, NEW w, Written(disk, w), SoFar(w), EndSlots
    PROVE  SoFar(w)'
<1>1. pc = "slots" /\ slot > 4 /\ children' = children \o Icd /\ pc' = "done" /\ disk' = disk
  BY DEF EndSlots, Finish
<1>2. disk.format \in {"mbr", "atari"} /\ slot = 5 BY <1>1 DEF IInv, Types, TypeOK, Linked
<1>3. /\ IsList(disk.parts) /\ WrittenSlots(disk, w) BY <1>2, WrittenParts
<1>4. SlotsSoFar(w) BY <1>1 DEF SoFar
<1>5. /\ w.before[5] \in Nat /\ WrittenIcd(disk, w)
      /\ Len(disk.parts) = w.before[5] + Len(w.tail)
  BY <1>3 DEF WrittenSlots
<1>6. /\ Begins(children, disk.parts, w.before[5]) /\ w.number[5] = index
      /\ extended <=> \E s \in 1..4 : SectorAt(disk, 0).entries[s].type = "extended"
  <2>1. 1..(slot - 1) = 1..4 BY <1>2
  <2> QED BY <1>2, <1>4, <2>1 DEF SlotsSoFar
<1>7. /\ \E T : Icd \in Seq(T)
      /\ Len(Icd) = Len(w.tail)
      /\ \A k \in 1..Len(Icd) : Icd[k] = disk.parts[w.before[5] + k]
  BY <1>2, <1>5, <1>6, IcdIsWritten
<1>8. PICK T : Icd \in Seq(T) BY <1>7
<1>9. w.before[5] + Len(Icd) = Len(disk.parts) /\ Len(disk.parts) \in Nat
  BY <1>3, <1>5, <1>7 DEF IsList
<1>10. w.before[5] + Len(Icd) <= Len(disk.parts) BY <1>9
<1>11. Begins(children \o Icd, disk.parts, w.before[5] + Len(Icd))
  BY <1>3, <1>5, <1>6, <1>7, <1>8, <1>10, BeginsConcat
<1>12. Begins(children \o Icd, disk.parts, Len(disk.parts)) BY <1>9, <1>11
<1>13. children' = disk.parts BY <1>1, <1>3, <1>12, BeginsWhole
<1> QED BY <1>1, <1>13 DEF SoFar
-----------------------------------------------------------------------------
(* The list of rdb. *)
LEMMA FoundOpenRdb ==
    ASSUME IInv, NEW w, Written(disk, w), SoFar(w)
    PROVE  /\ OpenRdb => SoFar(w)'
           /\ ~OpenRdbFails
<1> DEFINE head == IF Len(w.chain) = 0 THEN Endless ELSE w.chain[1]
<1>1. disk.format = "rdb" =>
         /\ Len(w.chain) = Len(disk.parts) /\ IsList(disk.parts) /\ Len(disk.parts) \in Nat
         /\ \E i \in 0..15 : /\ Read(i).magic = "RDSK" /\ Read(i).at = head
                             /\ \A j \in 0..(i - 1) : Read(j).magic # "RDSK"
  BY WrittenParts DEF WrittenList, Read
<1>2. ~OpenRdbFails
  <2> SUFFICES ASSUME OpenRdbFails PROVE FALSE OBVIOUS
  <2>1. disk.format = "rdb" /\ RdbBlocks = {} BY DEF OpenRdbFails
  <2> QED BY <1>1, <2>1 DEF RdbBlocks
<1>3. ASSUME OpenRdb PROVE SoFar(w)'
  <2>1. /\ pc = "open" /\ disk.format = "rdb" /\ pc' = "list"
        /\ at' = Read(CHOOSE i \in RdbBlocks : \A j \in RdbBlocks : i <= j).at
        /\ UNCHANGED <<disk, children>>
    BY <1>3 DEF OpenRdb
  <2>2. PICK i \in 0..15 : /\ Read(i).magic = "RDSK" /\ Read(i).at = head
                           /\ \A j \in 0..(i - 1) : Read(j).magic # "RDSK"
    BY <1>1, <2>1
  <2>3. i \in RdbBlocks BY <2>2 DEF RdbBlocks
  <2>4. \A j \in RdbBlocks : j \in 0..15 /\ i <= j
    <3> SUFFICES ASSUME NEW j \in RdbBlocks PROVE j \in 0..15 /\ i <= j OBVIOUS
    <3>1. j \in 0..15 /\ Read(j).magic = "RDSK" BY DEF RdbBlocks
    <3>2. ~(j < i)
      <4> SUFFICES ASSUME j < i PROVE FALSE OBVIOUS
      <4>1. j \in 0..(i - 1) BY <3>1
      <4> QED BY <2>2, <3>1, <4>1
    <3> QED BY <3>1, <3>2
  <2> DEFINE c == CHOOSE x \in RdbBlocks : \A y \in RdbBlocks : x <= y
  <2>5. c \in RdbBlocks /\ \A y \in RdbBlocks : c <= y BY <2>3, <2>4
  <2>6. at' = Read(c).at BY <2>1
  <2> HIDE DEF c
  <2>7. c = i
    <3>1. c \in 0..15 /\ i <= c /\ c <= i BY <2>3, <2>4, <2>5
    <3> QED BY <3>1
  <2>8. children' = <<>> /\ Len(children') = 0 BY <2>1 DEF SoFar
  <2>9. at' = IF 0 < Len(w.chain) THEN w.chain[0 + 1] ELSE Endless
    BY <1>1, <2>1, <2>2, <2>6, <2>7
  <2>10. Begins(<<>>, disk.parts, 0) BY <1>1, <2>1, BeginsEmpty
  <2>11. Begins(children, disk.parts, Len(children))'
    BY <2>1, <2>8, <2>10 DEF Begins, IsList, Elements
  <2>12. ListSoFar(w)' BY <2>1, <2>8, <2>9, <2>11 DEF ListSoFar
  <2> QED BY <2>1, <2>12 DEF SoFar
<1> QED BY <1>2, <1>3

LEMMA FoundList ==
    ASSUME IInv, NEW w, Written(disk, w), SoFar(w), FollowList \/ EndList
    PROVE  SoFar(w)'
<1> DEFINE n == Len(w.chain)
           k == Len(children) + 1
           block == SectorAt(disk, w.chain[k])
           e == block.entries[1]
<1>1. pc = "list" /\ disk' = disk BY DEF FollowList, EndList, Finish
<1>2. ListSoFar(w) /\ Len(children) \in Nat
  <2>1. ListSoFar(w) BY <1>1 DEF SoFar
  <2>2. children \in Seq(Listed) BY <1>1 DEF IInv, Types
  <2> QED BY <2>1, <2>2
<1>3. /\ WrittenList(disk, w) /\ IsList(disk.parts) /\ Len(disk.parts) \in Nat
  BY <1>2, WrittenParts DEF ListSoFar
<1>4. n = Len(disk.parts) /\ n \in Nat /\ n <= MaxLinks BY <1>3 DEF WrittenList
<1>5. Begins(children, disk.parts, Len(children)) /\ Len(children) <= n
  BY <1>2, <1>4 DEF ListSoFar, Begins
<1>6. Len(children) < n =>
         /\ at = w.chain[k] /\ at # Endless /\ block.magic = "PART"
         /\ block.at = IF k < n THEN w.chain[k + 1] ELSE Endless
         /\ disk.parts[k] = Part(k - 1, e.start * Cylinder, (e.count - e.start + 1) * Cylinder)
  <2> HAVE Len(children) < n
  <2>1. k \in 1..n BY <1>2, <1>4
  <2>2. at = w.chain[k] BY <1>2 DEF ListSoFar
  <2> QED BY <1>3, <2>1, <2>2 DEF WrittenList
<1>7. CASE FollowList
  <2>1. /\ at # Endless /\ pc' = "list" /\ at' = Read(at).at
        /\ children' = Append(children, RdbPart(Read(at)))
    BY <1>1, <1>7 DEF FollowList
  <2>2. Len(children) < n
    <3>1. Len(children) < n \/ at = Endless BY <1>2 DEF ListSoFar
    <3> QED BY <2>1, <3>1
  <2>3. k - 1 = Len(children) BY <1>2
  <2>4. RdbPart(Read(at)) = disk.parts[k]
    <3>1. Read(at) = block BY <1>6, <2>2 DEF Read
    <3>2. RdbPart(block) = Part(Len(children), e.start * Cylinder, (e.count - e.start + 1) * Cylinder)
      BY DEF RdbPart
    <3> HIDE DEF k, e, block
    <3> QED BY <1>6, <2>2, <2>3, <3>1, <3>2
  <2>5. Begins(Append(children, disk.parts[Len(children) + 1]), disk.parts, Len(children) + 1)
    <3>1. Len(children) + 1 <= Len(disk.parts) BY <1>2, <1>4, <2>2
    <3> QED BY <1>2, <1>3, <1>5, <3>1, BeginsAppend
  <2>6. children' = Append(children, disk.parts[Len(children) + 1]) BY <2>1, <2>4
  <2>7. Begins(children', disk.parts, k) BY <2>5, <2>6
  <2>8. Len(children') = k BY <2>7 DEF Begins
  <2>9. Begins(children, disk.parts, Len(children))' BY <1>1, <2>7, <2>8 DEF Begins, IsList, Elements
  <2>10. at' = IF k < n THEN w.chain[k + 1] ELSE Endless BY <1>6, <2>1, <2>2 DEF Read
  <2>11. ListSoFar(w)' BY <1>1, <1>2, <2>8, <2>9, <2>10 DEF ListSoFar
  <2> QED BY <2>1, <2>11 DEF SoFar
<1>8. CASE EndList
  <2>1. /\ pc' = "done" /\ children' = children
        /\ at = Endless \/ Len(children) = MaxLinks \/ Read(at).magic # "PART"
    BY <1>8 DEF EndList, Finish
  <2>2. ~(Len(children) < n)
    <3> SUFFICES ASSUME Len(children) < n PROVE FALSE OBVIOUS
    <3>1. at # Endless /\ Read(at).magic = "PART" BY <1>6 DEF Read
    <3>2. Len(children) # MaxLinks BY <1>2, <1>4, LinksAssumption
    <3> QED BY <2>1, <3>1, <3>2
  <2>3. Len(children) = Len(disk.parts) BY <1>2, <1>4, <1>5, <2>2
  <2>4. Begins(children, disk.parts, Len(disk.parts)) BY <1>5, <2>3
  <2>5. children = disk.parts BY <1>3, <2>4, BeginsWhole
  <2> QED BY <1>1, <2>1, <2>5 DEF SoFar
<1> QED BY <1>7, <1>8
-----------------------------------------------------------------------------
(* The boot sectors of cumana.  q are the partitions of p behind the first n. *)
Continues(q, p, n) ==
    /\ \E T : q \in Seq(T)
    /\ n + Len(q) = Len(p) /\ \A k \in 1..Len(q) : q[k] = p[n + k]

LEMMA RiscixIsWritten ==
    ASSUME disk \in Disks, NEW i, NEW n \in Nat, NEW t,
           Ascends(t, {j \in DOMAIN SectorAt(disk, i).entries :
                          SectorAt(disk, i).entries[j].type \notin {"empty", "All"}}),
           \A j \in DOMAIN SectorAt(disk, i).entries :
              SectorAt(disk, i).entries[j].type \notin {"empty", "All"} =>
                 Usable(SectorAt(disk, i).entries[j]),
           Len(disk.parts) = n + 1 + Len(t),
           \A k \in 1..Len(t) :
              disk.parts[n + 1 + k] = Part(n + k, SectorAt(disk, i).entries[t[k]].start,
                                           SectorAt(disk, i).entries[t[k]].count)
    PROVE  Continues(RiscixParts(n + 1, SectorAt(disk, i)), disk.parts, n + 1)
<1> DEFINE entries == SectorAt(disk, i).entries
           used == {j \in DOMAIN entries : entries[j].type \notin {"empty", "All"}}
           kept == {j \in DOMAIN entries :
                       entries[j].type \notin {"empty", "All"} /\ Usable(entries[j])}
           picked == [k \in 1..Len(t) |-> entries[t[k]]]
           q == RiscixParts(n + 1, SectorAt(disk, i))
<1>1. kept = used OBVIOUS
<1>2. used \in SUBSET Nat
  <2>1. entries \in Seq(EntrySet) BY EntriesType
  <2> HIDE DEF entries
  <2> QED BY <2>1
<1>3. Len(t) \in Nat BY DEF Ascends
<1>4. Picked(entries, kept) = picked
  <2>1. Ascends(t, used) OBVIOUS
  <2> HIDE DEF used, kept, entries
  <2>2. \A s : Picked(s, used) = [k \in 1..Len(t) |-> s[t[k]]] BY <1>2, <2>1, PickedAscends, Zenon
  <2>3. Picked(entries, used) = picked BY <2>2, Zenon
  <2> QED BY <1>1, <2>3, Zenon
<1>5. q = Indexed(n + 1, picked) BY <1>4 DEF RiscixParts
<1>6. /\ q = [k \in 1..Len(t) |-> q[k]]
      /\ \A k \in 1..Len(t) : q[k] = Part(n + 1 + k - 1, entries[t[k]].start, entries[t[k]].count)
  BY <1>5 DEF Indexed
<1> HIDE DEF q, picked, kept, used
<1>7. q \in Seq({q[k] : k \in 1..Len(t)}) /\ Len(q) = Len(t) BY <1>3, <1>6
<1>8. \A k \in 1..Len(t) : q[k] = disk.parts[n + 1 + k]
  <2> TAKE k \in 1..Len(t)
  <2>1. n + 1 + k - 1 = n + k BY <1>3
  <2> QED BY <1>6, <2>1
<1>9. Continues(q, disk.parts, n + 1) BY <1>7, <1>8 DEF Continues
<1> QED BY <1>9 DEF q

LinuxLaid(entries, start, n, m) ==
    /\ m <= Len(entries)
    /\ m < Len(entries) => entries[m + 1].type \notin {"native", "swap"}
    /\ \A k \in 1..m :
          /\ entries[k].type \in {"native", "swap"} /\ Usable(entries[k])
          /\ disk.parts[n + 1 + k] = Part(n + k, start + entries[k].start, entries[k].count)

LEMMA LinuxIsWritten ==
    ASSUME disk \in Disks, NEW i, NEW start \in Nat, NEW n \in Nat, NEW m \in Nat,
           LinuxLaid(SectorAt(disk, i).entries, start, n, m), Len(disk.parts) = n + 1 + m
    PROVE  Continues(LinuxParts(n + 1, start, SectorAt(disk, i)), disk.parts, n + 1)
<1> DEFINE entries == SectorAt(disk, i).entries
           bad == {j \in DOMAIN entries : entries[j].type \notin {"native", "swap"}}
           least == CHOOSE j \in bad : \A k \in bad : j <= k
           listed == IF bad = {} THEN entries ELSE SubSeq(entries, 1, least - 1)
           kept == {j \in DOMAIN listed : Usable(listed[j])}
           used == Picked(listed, kept)
           moved == [j \in DOMAIN used |-> [used[j] EXCEPT !.start = start + @]]
           q == LinuxParts(n + 1, start, SectorAt(disk, i))
<1>1. entries \in Seq(EntrySet) BY EntriesType
<1>2. /\ m <= Len(entries)
      /\ m < Len(entries) => entries[m + 1].type \notin {"native", "swap"}
      /\ \A k \in 1..m :
            /\ entries[k].type \in {"native", "swap"} /\ Usable(entries[k])
            /\ disk.parts[n + 1 + k] = Part(n + k, start + entries[k].start, entries[k].count)
  BY DEF LinuxLaid
<1>13. m <= Len(entries) BY DEF LinuxLaid
<1>3. q = Indexed(n + 1, moved) BY DEF LinuxParts
<1> HIDE DEF entries
<1>4. Len(entries) \in Nat /\ DOMAIN entries = 1..Len(entries)
      /\ entries = [k \in 1..Len(entries) |-> entries[k]]
  BY <1>1
<1>14. Len(entries) \in Nat BY <1>1
<1>8. \A k \in 1..m : entries[k] \in EntrySet
  <2> TAKE k \in 1..m
  <2>1. k \in 1..Len(entries) BY <1>13, <1>14
  <2> QED BY <2>1, <1>1, <1>4
<1>5. listed = [k \in 1..m |-> entries[k]]
  <2>1. CASE m = Len(entries)
    <3>1. bad = {} BY <2>1, <1>2, <1>4
    <3> QED BY <3>1, <2>1, <1>4
  <2>2. CASE m < Len(entries)
    <3>1. m + 1 \in bad BY <2>2, <1>2, <1>4
    <3>2. \A j \in bad : j \in Nat /\ m + 1 <= j
      <4> TAKE j \in bad
      <4>1. j \in 1..Len(entries) /\ ~(j \in 1..m) BY <1>2, <1>4
      <4> QED BY <4>1, <1>4
    <3> HIDE DEF bad
    <3>3. least \in bad /\ \A k \in bad : least <= k BY <3>1, <3>2
    <3> HIDE DEF least
    <3>4. least = m + 1
      <4>1. least \in Nat /\ m + 1 <= least /\ least <= m + 1 BY <3>1, <3>2, <3>3
      <4> QED BY <4>1
    <3>5. listed = SubSeq(entries, 1, m)
      <4>1. bad # {} /\ least - 1 = m BY <3>1, <3>4
      <4> QED BY <4>1
    <3>6. SubSeq(entries, 1, m) = [k \in 1..m |-> entries[k]]
      <4>2. /\ SubSeq(entries, 1, m) \in Seq(EntrySet)
            /\ Len(SubSeq(entries, 1, m)) = m
            /\ \A k \in 1..m : SubSeq(entries, 1, m)[k] = entries[k]
        BY <1>1, <1>2, <1>8, SubSeqProperties
      <4> QED BY <4>2
    <3> QED BY <3>5, <3>6
  <2>3. m = Len(entries) \/ m < Len(entries) BY <1>13, <1>14
  <2> HIDE DEF listed
  <2> QED BY <2>1, <2>2, <2>3
<1> HIDE DEF listed
<1>6. kept = 1..m
  <2>1. DOMAIN listed = 1..m /\ \A k \in 1..m : Usable(listed[k]) BY <1>2, <1>5
  <2> QED BY <2>1
<1> HIDE DEF kept
<1>7. used = [k \in 1..m |-> entries[k]]
  <2>1. Picked(listed, 1..m) = [k \in 1..m |-> listed[k]] BY PickedAll
  <2>2. used = [k \in 1..m |-> listed[k]] BY <1>6, <2>1
  <2> HIDE DEF used
  <2> QED BY <2>2, <1>5
<1> HIDE DEF used
<1>9. /\ q = [k \in 1..m |-> q[k]]
      /\ \A k \in 1..m : q[k] = Part(n + 1 + k - 1, start + entries[k].start, entries[k].count)
  <2>1. DOMAIN moved = 1..m /\ \A k \in 1..m : moved[k] = [entries[k] EXCEPT !.start = start + @]
    BY <1>7
  <2> HIDE DEF moved
  <2>2. \A k \in 1..m : /\ moved[k].start = start + entries[k].start
                        /\ moved[k].count = entries[k].count
    <3> TAKE k \in 1..m
    <3>1. entries[k] \in EntrySet BY <1>8
    <3>2. moved[k] = [entries[k] EXCEPT !.start = start + @] BY <2>1
    <3> QED BY <3>1, <3>2 DEF EntrySet
  <2>3. q = [k \in 1..m |-> Part(n + 1 + k - 1, moved[k].start, moved[k].count)]
    BY <1>3, <2>1 DEF Indexed
  <2> HIDE DEF q
  <2> QED BY <2>2, <2>3
<1> HIDE DEF q, moved
<1>10. IsList(q) /\ Len(q) = m
  <2>1. q = [k \in 1..m |-> q[k]] BY <1>9
  <2>2. DOMAIN q = 1..m BY <2>1
  <2> QED BY <2>1, <2>2, IsListIntro
<1>11. \A k \in 1..m : q[k] = disk.parts[n + 1 + k]
  <2> TAKE k \in 1..m
  <2>1. n + 1 + k - 1 = n + k OBVIOUS
  <2> QED BY <1>2, <1>9, <2>1
<1>12. Continues(q, disk.parts, n + 1) BY <1>10, <1>11 DEF Continues, IsList
<1> QED BY <1>12 DEF q

LEMMA FoundOpenCumana ==
    ASSUME IInv, NEW w, Written(disk, w), SoFar(w), OpenCumana
    PROVE  SoFar(w)'
<1>1. /\ pc = "open" /\ disk.format = "cumana" /\ pc' = "boots" /\ at' = 6
      /\ UNCHANGED <<disk, slot, base, limit, index, links, extended, children>>
  BY DEF OpenCumana
<1>2. children = <<>> /\ links = <<>> /\ index = 0 /\ base = 0 BY <1>1 DEF SoFar
<1>3. WrittenBoots(disk, w) /\ IsList(disk.parts) BY <1>1, WrittenParts
<1>4. Len(w.chain) \in 1..MaxLinks /\ w.chain[1] = 6 /\ w.start[1] = 0
  BY <1>3 DEF WrittenBoots
<1>5. Len(links') = 0 BY <1>1, <1>2
<1>6. Begins(<<>>, disk.parts, 0) BY <1>3, BeginsEmpty
<1>7. Begins(children, disk.parts, Len(links))'
  BY <1>1, <1>2, <1>5, <1>6 DEF Begins, IsList, Elements
<1>8. (/\ index = Len(links) /\ Len(links) < Len(w.chain) /\ at = w.chain[Len(links) + 1]
       /\ base = w.start[Len(links) + 1])'
  BY <1>1, <1>2, <1>4, <1>5, LinksAssumption
<1>9. BootsSoFar(w)' BY <1>1, <1>7, <1>8 DEF BootsSoFar
<1> QED BY <1>1, <1>9 DEF SoFar

(* The boot sector that is read next is one of those that are written. *)
LEMMA BootIsWritten ==
    ASSUME IInv, NEW w, Written(disk, w), SoFar(w), pc = "boots"
    PROVE  /\ BootsSoFar(w) /\ WrittenBoots(disk, w) /\ Len(links) \in Nat
           /\ Len(links) + 1 \in 1..Len(w.chain) /\ Len(w.chain) \in 1..MaxLinks
           /\ More /\ IsBoot(Read(at)) /\ IsList(disk.parts) /\ Len(disk.parts) \in Nat
<1>1. BootsSoFar(w) BY DEF SoFar
<1>2. WrittenBoots(disk, w) /\ IsList(disk.parts) /\ Len(disk.parts) \in Nat
  BY <1>1, WrittenParts DEF BootsSoFar
<1>3. Len(links) \in Nat BY DEF IInv, Types, TypeOK
<1>4. Len(w.chain) \in 1..MaxLinks /\ Len(links) < Len(w.chain)
  BY <1>1, <1>2 DEF BootsSoFar, WrittenBoots
<1>5. Len(links) + 1 \in 1..Len(w.chain) BY <1>3, <1>4, LinksAssumption
<1>6. More BY <1>3, <1>4, LinksAssumption DEF More
<1>7. IsBoot(Read(at)) BY <1>1, <1>2, <1>5 DEF BootsSoFar, WrittenBoots, Read
<1> QED BY <1>1, <1>2, <1>3, <1>4, <1>5, <1>6, <1>7

(* What follows the last boot sector. *)
LEMMA TailIsWritten ==
    ASSUME IInv, NEW w, NEW n \in Nat, n = Len(w.chain), WrittenTail(disk, w),
           NEW boot, boot = SectorAt(disk, w.chain[n]), SecondStart(boot) # 0,
           NEW start \in Nat, start = w.start[n] + SecondStart(boot)
    PROVE  /\ SecondType(boot) \in {"riscix", "linux"} /\ SectorAt(disk, start) # Unreadable
           /\ n + 1 <= Len(disk.parts) /\ disk.parts[n + 1] = BootSlice(n, start)
           /\ Continues(IF SecondType(boot) = "linux" THEN LinuxParts(n + 1, start, SectorAt(disk, start))
                        ELSE IF SectorAt(disk, start).magic = "RISCIX"
                        THEN RiscixParts(n + 1, SectorAt(disk, start)) ELSE <<>>,
                        disk.parts, n + 1)
<1> DEFINE entries == SectorAt(disk, start).entries
           used == {i \in DOMAIN entries : entries[i].type \notin {"empty", "All"}}
           riscix == /\ SecondType(boot) = "riscix" /\ SectorAt(disk, start).magic = "RISCIX"
                     /\ Ascends(w.tail, used) /\ \A i \in used : Usable(entries[i])
                     /\ \A k \in 1..Len(w.tail) :
                           disk.parts[n + 1 + k] =
                              Part(n + k, entries[w.tail[k]].start, entries[w.tail[k]].count)
           linux == /\ SecondType(boot) = "linux" /\ SectorAt(disk, start) # Unreadable
                    /\ Len(w.tail) <= Len(entries)
                    /\ Len(w.tail) < Len(entries) =>
                          entries[Len(w.tail) + 1].type \notin {"native", "swap"}
                    /\ \A k \in 1..Len(w.tail) :
                          /\ entries[k].type \in {"native", "swap"} /\ Usable(entries[k])
                          /\ disk.parts[n + 1 + k] =
                                Part(n + k, start + entries[k].start, entries[k].count)
<1>1. /\ w.tail \in Seq(Nat) /\ Len(disk.parts) = n + 1 + Len(w.tail)
      /\ disk.parts[n + 1] = BootSlice(n, start) /\ (riscix \/ linux)
  BY DEF WrittenTail
<1>2. Len(w.tail) \in Nat /\ disk \in Disks
  <2>1. disk \in Disks BY DEF IInv, Types
  <2> HIDE DEF riscix, linux
  <2> QED BY <1>1, <2>1
<1>3. n + 1 <= Len(disk.parts)
  <2>1. \A l \in Nat : n + 1 <= n + 1 + l OBVIOUS
  <2>2. Len(disk.parts) = n + 1 + Len(w.tail) BY <1>1
  <2> QED BY <1>2, <2>1, <2>2
<1>4. CASE riscix
  <2>1. Continues(RiscixParts(n + 1, SectorAt(disk, start)), disk.parts, n + 1)
    <3>1. Ascends(w.tail, {j \in DOMAIN SectorAt(disk, start).entries :
                             SectorAt(disk, start).entries[j].type \notin {"empty", "All"}})
      BY <1>4
    <3>2. \A j \in DOMAIN SectorAt(disk, start).entries :
              SectorAt(disk, start).entries[j].type \notin {"empty", "All"} =>
                 Usable(SectorAt(disk, start).entries[j])
      BY <1>4
    <3>3. \A k \in 1..Len(w.tail) :
              disk.parts[n + 1 + k] = Part(n + k, SectorAt(disk, start).entries[w.tail[k]].start,
                                           SectorAt(disk, start).entries[w.tail[k]].count)
      BY <1>4
    <3>4. Len(disk.parts) = n + 1 + Len(w.tail) BY <1>1
    <3> HIDE DEF riscix, linux, used, entries
    <3> QED BY <1>2, <3>1, <3>2, <3>3, <3>4, RiscixIsWritten, ZenonT(60)
  <2>3. SecondType(boot) = "riscix" /\ SectorAt(disk, start).magic = "RISCIX" BY <1>4
  <2>4. Unreadable.magic = "unreadable" BY DEF Unreadable, Table
  <2>2. SectorAt(disk, start) # Unreadable
    <3> HIDE DEF riscix, linux, used, entries
    <3> QED BY <2>3, <2>4
  <2>5. disk.parts[n + 1] = BootSlice(n, start) BY <1>1
  <2> HIDE DEF riscix, linux, used, entries
  <2> QED BY <1>3, <2>1, <2>2, <2>3, <2>5
<1>5. CASE linux
  <2>1. Continues(LinuxParts(n + 1, start, SectorAt(disk, start)), disk.parts, n + 1)
    <3>2. LinuxLaid(SectorAt(disk, start).entries, start, n, Len(w.tail)) BY <1>5 DEF LinuxLaid
    <3>3. Len(disk.parts) = n + 1 + Len(w.tail) BY <1>1
    <3> HIDE DEF riscix, linux, used, entries
    <3> QED BY <1>2, <3>2, <3>3, LinuxIsWritten
  <2>2. SecondType(boot) = "linux" /\ SectorAt(disk, start) # Unreadable BY <1>5
  <2>3. disk.parts[n + 1] = BootSlice(n, start) BY <1>1
  <2> HIDE DEF riscix, linux, used, entries
  <2> QED BY <1>3, <2>1, <2>2, <2>3
<1>6. riscix \/ linux BY <1>1
<1> HIDE DEF riscix, linux
<1> QED BY <1>4, <1>5, <1>6

LEMMA FoundBoots ==
    ASSUME IInv, NEW w, Written(disk, w), SoFar(w), FollowBoots
    PROVE  SoFar(w)'
<1> DEFINE boot == SectorAt(disk, at)
           n == Len(w.chain)
           k == Len(links) + 1
           start == base + SecondStart(boot)
           table == SectorAt(disk, start)
           found == Append(children, Part(index, base, boot.entries[1].count))
           rest == IF SecondType(boot) = "linux" THEN LinuxParts(k + 1, start, table)
                   ELSE IF table.magic = "RISCIX" THEN RiscixParts(k + 1, table) ELSE <<>>
<1>1. /\ pc = "boots" /\ links' = Append(links, at) /\ index' = index + 1
      /\ base' = start /\ at' = at + 2 * (SecondStart(boot) \div 2) /\ disk' = disk
  BY DEF FollowBoots, Read
<1>2. /\ BootsSoFar(w) /\ WrittenBoots(disk, w) /\ Len(links) \in Nat
      /\ k \in 1..n /\ n \in 1..MaxLinks
      /\ IsBoot(boot) /\ IsList(disk.parts) /\ Len(disk.parts) \in Nat
  BY <1>1, BootIsWritten DEF Read
<1>3. /\ index = Len(links) /\ at = w.chain[k] /\ base = w.start[k]
      /\ Begins(children, disk.parts, Len(links))
  BY <1>2 DEF BootsSoFar
<1>4. links \in Seq(Nat) /\ Len(links') = k BY <1>1 DEF IInv, Types, TypeOK
<1>5. SecondStart(boot) \in Nat /\ start \in Nat
  <2>1. SecondStart(boot) \in Nat BY <1>2, SecondStartType DEF IInv, Types, Read
  <2>2. base \in Nat BY DEF IInv, Types, TypeOK
  <2> QED BY <2>1, <2>2
<1>6. /\ disk.parts[k] = Part(k - 1, w.start[k], boot.entries[1].count)
      /\ k < n => /\ SecondStart(boot) # 0 /\ SecondType(boot) = "none"
                  /\ w.start[k + 1] = w.start[k] + SecondStart(boot)
                  /\ w.chain[k + 1] = w.chain[k] + 2 * (SecondStart(boot) \div 2)
  BY <1>2, <1>3 DEF WrittenBoots
<1>7. WrittenTail(disk, w) BY <1>2 DEF WrittenBoots
<1>8. k = n /\ SecondStart(boot) = 0 => Len(disk.parts) = n
  BY <1>3, <1>7 DEF WrittenTail
<1>9. k = n /\ SecondStart(boot) # 0 =>
         /\ SecondType(boot) \in {"riscix", "linux"} /\ table # Unreadable
         /\ k + 1 <= Len(disk.parts) /\ disk.parts[k + 1] = BootSlice(k, start)
         /\ Continues(rest, disk.parts, k + 1)
  <2> SUFFICES ASSUME k = n, SecondStart(boot) # 0
               PROVE  /\ SecondType(boot) \in {"riscix", "linux"} /\ table # Unreadable
                      /\ k + 1 <= Len(disk.parts) /\ disk.parts[k + 1] = BootSlice(k, start)
                      /\ Continues(rest, disk.parts, k + 1)
    OBVIOUS
  <2>1. boot = SectorAt(disk, w.chain[k]) /\ start = w.start[k] + SecondStart(boot) BY <1>3
  <2>2. k \in Nat /\ k = Len(w.chain) BY <1>2
  <2> HIDE DEF k, n, boot, start
  <2>3. start \in Nat BY <1>5
  <2>4. /\ SecondType(boot) \in {"riscix", "linux"} /\ SectorAt(disk, start) # Unreadable
        /\ k + 1 <= Len(disk.parts) /\ disk.parts[k + 1] = BootSlice(k, start)
        /\ Continues(rest, disk.parts, k + 1)
    BY <1>7, <2>1, <2>2, <2>3, TailIsWritten, ZenonT(60)
  <2> QED BY <2>4
<1>10. k <= Len(disk.parts)
  <2>1. k < n \/ k = n BY <1>2, LinksAssumption
  <2>2. n <= Len(disk.parts)
    <3> DEFINE last == SectorAt(disk, w.chain[n])
    <3>1. \/ Len(disk.parts) = n
          \/ w.tail \in Seq(Nat) /\ Len(disk.parts) = n + 1 + Len(w.tail)
      BY <1>7 DEF WrittenTail
    <3>2. n \in Nat BY <1>2
    <3> HIDE DEF n
    <3>3. w.tail \in Seq(Nat) => Len(w.tail) \in Nat OBVIOUS
    <3>4. \A l \in Nat : n <= n + 1 + l BY <3>2
    <3>5. n <= n BY <3>2
    <3> QED BY <3>1, <3>3, <3>4, <3>5
  <2>3. n \in Nat /\ k \in Nat BY <1>2
  <2> HIDE DEF n, k
  <2> QED BY <1>2, <2>1, <2>2, <2>3
<1>11. Begins(found, disk.parts, k)
  <2>1. k - 1 = Len(links) /\ k = Len(links) + 1 BY <1>2
  <2>2. found = Append(children, disk.parts[Len(links) + 1]) BY <1>3, <1>6, <2>1
  <2>3. Begins(Append(children, disk.parts[Len(links) + 1]), disk.parts, Len(links) + 1)
    BY <1>2, <1>3, <1>10, BeginsAppend
  <2> QED BY <2>2, <2>3
<1>12. CASE k < n
  <2>1. pc' = "boots" /\ children' = found BY <1>6, <1>12 DEF FollowBoots, Read
  <2> HIDE DEF found
  <2>2. Begins(children, disk.parts, Len(links))'
    BY <1>1, <1>4, <1>11, <2>1 DEF Begins, IsList, Elements
  <2>3. (/\ index = Len(links) /\ Len(links) < Len(w.chain) /\ at = w.chain[Len(links) + 1]
         /\ base = w.start[Len(links) + 1])'
    BY <1>1, <1>3, <1>4, <1>6, <1>12
  <2>4. disk.format = "cumana" BY <1>2 DEF BootsSoFar
  <2>5. BootsSoFar(w)' BY <1>1, <2>2, <2>3, <2>4 DEF BootsSoFar
  <2> QED BY <2>1, <2>5 DEF SoFar
<1>13. CASE k = n /\ SecondStart(boot) = 0
  <2>1. pc' = "done" /\ children' = found BY <1>13 DEF FollowBoots, Read
  <2> HIDE DEF found
  <2>2. Begins(found, disk.parts, Len(disk.parts)) BY <1>8, <1>11, <1>13
  <2>3. children' = disk.parts BY <1>2, <2>1, <2>2, BeginsWhole
  <2> QED BY <1>1, <2>1, <2>3 DEF SoFar
<1>14. CASE k = n /\ SecondStart(boot) # 0
  <2>1. /\ SecondType(boot) \in {"riscix", "linux"} /\ table # Unreadable
        /\ k + 1 <= Len(disk.parts) /\ disk.parts[k + 1] = BootSlice(k, start)
        /\ Continues(rest, disk.parts, k + 1)
    BY <1>9, <1>14
  <2>2. k = index + 1 /\ k + 1 = index + 2 /\ k \in Nat /\ k + 1 \in Nat BY <1>2, <1>3
  <2>3. pc' = "done" /\ children' = Append(found, BootSlice(k, start)) \o rest
    <3>1. SecondType(boot) # "none" BY <2>1
    <3>2. /\ pc' = "done"
          /\ children' = Append(found, BootSlice(index + 1, start)) \o
               (IF SecondType(boot) = "linux" THEN LinuxParts(index + 2, start, table)
                ELSE IF table.magic = "RISCIX" THEN RiscixParts(index + 2, table) ELSE <<>>)
      BY <1>14, <2>1, <3>1 DEF FollowBoots, Read
    <3> HIDE DEF k, found, table, start, boot
    <3> QED BY <2>2, <3>2
  <2> HIDE DEF found, rest, k, start, table, boot
  <2>4. Begins(Append(found, disk.parts[k + 1]), disk.parts, k + 1)
    BY <1>2, <1>11, <2>1, <2>2, BeginsAppend
  <2>5. PICK T : rest \in Seq(T) BY <2>1 DEF Continues
  <2>6. k + 1 + Len(rest) = Len(disk.parts) /\ \A i \in 1..Len(rest) : rest[i] = disk.parts[k + 1 + i]
    BY <2>1 DEF Continues
  <2>7. k + 1 + Len(rest) <= Len(disk.parts) BY <1>2, <2>6
  <2>8. Begins(Append(found, disk.parts[k + 1]) \o rest, disk.parts, k + 1 + Len(rest))
    BY <1>2, <2>2, <2>4, <2>5, <2>6, <2>7, BeginsConcat
  <2>9. Begins(children', disk.parts, Len(disk.parts)) BY <2>1, <2>3, <2>6, <2>8
  <2>10. children' = disk.parts BY <1>2, <2>9, BeginsWhole
  <2> QED BY <1>1, <2>3, <2>10 DEF SoFar
<1>15. k < n \/ k = n BY <1>2, LinksAssumption
<1> QED BY <1>12, <1>13, <1>14, <1>15

LEMMA FoundEndBoots ==
    ASSUME IInv, NEW w, Written(disk, w), SoFar(w)
    PROVE  ~EndBoots
<1> SUFFICES ASSUME EndBoots PROVE FALSE OBVIOUS
<1>1. pc = "boots" /\ (~More \/ ~IsBoot(Read(at))) BY DEF EndBoots
<1> QED BY <1>1, BootIsWritten
-----------------------------------------------------------------------------
FoundInv == disk.intact /\ disk.format \in Chained => \E w : Written(disk, w) /\ SoFar(w)

LEMMA FoundInit ==
    ASSUME \A d \in Disks : d.intact /\ d.format \in Chained => \E w : Written(d, w), Init
    PROVE  FoundInv
<1> SUFFICES ASSUME disk.intact, disk.format \in Chained
             PROVE  \E w : Written(disk, w) /\ SoFar(w)
  BY DEF FoundInv
<1>1. disk \in Disks BY DEF Init
<1>2. PICK w : Written(disk, w) BY <1>1
<1>3. SoFar(w) BY DEF SoFar, Init
<1> QED BY <1>2, <1>3

LEMMA FoundNext == IInv /\ FoundInv /\ [Next]_vars => FoundInv'
<1> SUFFICES ASSUME IInv, FoundInv, [Next]_vars, disk'.intact, disk'.format \in Chained
             PROVE  \E w : Written(disk, w)' /\ SoFar(w)'
  BY DEF FoundInv
<1>1. disk' = disk
  <2>1. CASE UNCHANGED vars BY <2>1 DEF vars
  <2>2. CASE OpenFlat \/ OpenFails \/ ChainFails \/ EndSlots \/ OpenRdbFails \/ EndList \/ EndBoots
    BY <2>2 DEF OpenFlat, OpenFails, ChainFails, EndSlots, OpenRdbFails, EndList, EndBoots, Finish
  <2>3. CASE OpenSlots \/ AddPrimary \/ SkipSlot \/ EnterChain \/ EndChain
    BY <2>3 DEF OpenSlots, AddPrimary, SkipSlot, EnterChain, EndChain, Walking
  <2>4. CASE FollowChain \/ OpenRdb \/ OpenCumana \/ FollowList \/ FollowBoots
    BY <2>4 DEF FollowChain, OpenRdb, OpenCumana, FollowList, FollowBoots
  <2> QED BY <2>1, <2>2, <2>3, <2>4 DEF Next
<1>2. PICK w : Written(disk, w) /\ SoFar(w) BY <1>1 DEF FoundInv
<1>3. Written(disk, w)' BY <1>1, <1>2
<1>4. SoFar(w)'
  <2>1. CASE UNCHANGED vars
    <3>1. /\ disk' = disk /\ pc' = pc /\ slot' = slot /\ at' = at /\ base' = base /\ limit' = limit
          /\ index' = index /\ links' = links /\ extended' = extended /\ children' = children
      BY <2>1 DEF vars
    <3>2. SlotsSoFar(w) => SlotsSoFar(w)' BY <3>1 DEF SlotsSoFar
    <3>3. ChainSoFar(w) => ChainSoFar(w)' BY <3>1 DEF ChainSoFar
    <3>4. ListSoFar(w) => ListSoFar(w)' BY <3>1 DEF ListSoFar
    <3>5. BootsSoFar(w) => BootsSoFar(w)' BY <3>1 DEF BootsSoFar
    <3> QED BY <3>1, <3>2, <3>3, <3>4, <3>5, <1>2 DEF SoFar
  <2>2. CASE OpenFlat BY <2>2, <1>1 DEF OpenFlat
  <2>3. CASE OpenSlots BY <2>3, <1>2, FoundOpenSlots
  <2>4. CASE AddPrimary \/ SkipSlot BY <2>4, <1>2, FoundSlot
  <2>5. CASE EnterChain BY <2>5, <1>2, FoundEnterChain
  <2>6. CASE FollowChain BY <2>6, <1>2, FoundFollowChain
  <2>7. CASE EndChain \/ ChainFails \/ OpenFails BY <2>7, <1>2, FoundEndChain
  <2>8. CASE EndSlots BY <2>8, <1>2, FoundEndSlots
  <2>9. CASE OpenRdb \/ OpenRdbFails BY <2>9, <1>2, FoundOpenRdb
  <2>10. CASE FollowList \/ EndList BY <2>10, <1>2, FoundList
  <2>11. CASE OpenCumana BY <2>11, <1>2, FoundOpenCumana
  <2>12. CASE FollowBoots BY <2>12, <1>2, FoundBoots
  <2>13. CASE EndBoots BY <2>13, <1>2, FoundEndBoots
  <2> QED BY <2>1, <2>2, <2>3, <2>4, <2>5, <2>6, <2>7, <2>8, <2>9, <2>10, <2>11, <2>12, <2>13
          DEF Next
<1> QED BY <1>3, <1>4

(* The tables of mbr, atari, rdb and cumana that follow the rules of their format, *)
(* which a layout of PartitionLayouts says without the loops that read them: every   *)
(* partition is found once, in its place and with its number, however many links    *)
(* there are up to the bound of the loop, and reading such a table does not fail.     *)
THEOREM PartitionsAreFound ==
    ASSUME \A d \in Disks : d.intact /\ d.format \in Chained => \E w : Written(d, w)
    PROVE  Spec => [](disk.format \in Chained => FindsAll)
<1>1. Init => FoundInv BY FoundInit
<1>2. FoundInv => (disk.format \in Chained => FindsAll) BY DEF FoundInv, SoFar, FindsAll
<1> QED BY <1>1, <1>2, IInvHolds, FoundNext, PTL DEF Spec
-----------------------------------------------------------------------------
(* How many steps are left at most, a chain in every slot having all its links. *)
PerSlot == MaxLinks + 3
Rest ==
    CASE pc = "open" -> 6 * PerSlot
      [] pc = "slots" -> (6 - slot) * PerSlot
      [] pc = "chain" -> (6 - slot) * PerSlot - 1 - Len(links)
      [] pc = "list" -> MaxLinks + 1 - Len(children)
      [] pc = "boots" -> MaxLinks + 1 - Len(links)
      [] pc \in {"done", "error"} -> 0

LEMMA SlotRest ==
    ASSUME NEW s \in 1..5
    PROVE  /\ (6 - s) * PerSlot \in Nat
           /\ (6 - s) * PerSlot >= PerSlot
           /\ (6 - s) * PerSlot < 6 * PerSlot
           /\ (6 - (s + 1)) * PerSlot = (6 - s) * PerSlot - PerSlot
<1>1. PerSlot \in Nat /\ PerSlot > 0 BY LinksAssumption DEF PerSlot
<1> HIDE DEF PerSlot
<1>2. s = 1 \/ s = 2 \/ s = 3 \/ s = 4 \/ s = 5 OBVIOUS
<1>3. CASE s = 1 BY <1>1, <1>3
<1>4. CASE s = 2 BY <1>1, <1>4
<1>5. CASE s = 3 BY <1>1, <1>5
<1>6. CASE s = 4 BY <1>1, <1>6
<1>7. CASE s = 5 BY <1>1, <1>7
<1> QED BY <1>2, <1>3, <1>4, <1>5, <1>6, <1>7

LEMMA RestType == IInv => Rest \in Nat
<1> SUFFICES ASSUME IInv PROVE Rest \in Nat OBVIOUS
<1>1. TypeOK BY DEF IInv, Types
<1>2. PerSlot \in Nat /\ MaxLinks \in Nat /\ PerSlot = MaxLinks + 3
  BY LinksAssumption DEF PerSlot
<1>3. /\ slot \in 1..5 /\ Len(links) \in Nat /\ Len(links) <= MaxLinks
      /\ pc = "list" => Len(children) = Len(links)
  BY <1>1 DEF TypeOK, IInv, Types
<1>4. (6 - slot) * PerSlot \in Nat /\ (6 - slot) * PerSlot >= PerSlot BY <1>3, SlotRest
<1> DEFINE slots == (6 - slot) * PerSlot
<1>5. slots - 1 - Len(links) \in Nat
  <2> HIDE DEF slots
  <2>1. slots \in Nat /\ slots >= PerSlot BY <1>4 DEF slots
  <2> QED BY <2>1, <1>2, <1>3
<1>6. MaxLinks + 1 - Len(links) \in Nat /\ 6 * PerSlot \in Nat BY <1>2, <1>3
<1>7. CASE pc = "open" BY <1>7, <1>6 DEF Rest
<1>8. CASE pc = "slots" BY <1>8, <1>4 DEF Rest
<1>9. CASE pc = "chain" BY <1>9, <1>5 DEF Rest
<1>10. CASE pc = "list" BY <1>10, <1>3, <1>6 DEF Rest
<1>11. CASE pc = "boots" BY <1>11, <1>6 DEF Rest
<1>12. CASE pc \in {"done", "error"} BY <1>12 DEF Rest
<1> QED BY <1>1, <1>7, <1>8, <1>9, <1>10, <1>11, <1>12 DEF TypeOK

(* Something is left as long as the method has not returned. *)
LEMMA RestPositive == IInv /\ pc \notin {"done", "error"} => Rest > 0
<1> SUFFICES ASSUME IInv, pc \notin {"done", "error"} PROVE Rest > 0 OBVIOUS
<1>1. TypeOK BY DEF IInv, Types
<1>2. PerSlot \in Nat /\ MaxLinks \in Nat /\ PerSlot = MaxLinks + 3
  BY LinksAssumption DEF PerSlot
<1>3. /\ slot \in 1..5 /\ Len(links) \in Nat /\ Len(links) <= MaxLinks
      /\ pc = "list" => Len(children) = Len(links)
  BY <1>1 DEF TypeOK, IInv, Types
<1> DEFINE slots == (6 - slot) * PerSlot
<1>4. slots \in Nat /\ slots >= PerSlot BY <1>3, SlotRest
<1> HIDE DEF slots
<1>5. slots > 0 /\ slots - 1 - Len(links) > 0 BY <1>2, <1>3, <1>4
<1>6. MaxLinks + 1 - Len(links) > 0 /\ 6 * PerSlot > 0 BY <1>2, <1>3
<1> USE DEF slots
<1>7. CASE pc = "open" BY <1>7, <1>6 DEF Rest
<1>8. CASE pc = "slots" BY <1>8, <1>5 DEF Rest
<1>9. CASE pc = "chain" BY <1>9, <1>5 DEF Rest
<1>10. CASE pc = "list" BY <1>10, <1>3, <1>6 DEF Rest
<1>11. CASE pc = "boots" BY <1>11, <1>6 DEF Rest
<1> QED BY <1>1, <1>7, <1>8, <1>9, <1>10, <1>11 DEF TypeOK

(* The way into and out of the slots and chains. *)
LEMMA RestSlots ==
    ASSUME IInv, OpenSlots \/ AddPrimary \/ SkipSlot \/ EnterChain \/ EndChain
    PROVE  Rest' < Rest
<1>1. PerSlot \in Nat /\ MaxLinks \in Nat /\ PerSlot = MaxLinks + 3 /\ PerSlot' = PerSlot
  BY LinksAssumption DEF PerSlot
<1>2. slot \in 1..5 /\ Len(links) \in Nat /\ Len(links) <= MaxLinks
  BY DEF IInv, Types, TypeOK
<1> DEFINE left(s) == (6 - s) * PerSlot
<1>3. /\ left(slot) \in Nat /\ left(slot) >= PerSlot /\ left(slot) < 6 * PerSlot
      /\ left(slot + 1) = left(slot) - PerSlot /\ left(1) < 6 * PerSlot
  BY <1>2, SlotRest
<1>4. CASE OpenSlots
  <2>1. pc = "open" /\ pc' = "slots" /\ slot' = 1 BY <1>4 DEF OpenSlots
  <2>2. Rest = 6 * PerSlot BY <2>1 DEF Rest
  <2>3. Rest' = left(1) BY <2>1, <1>1 DEF Rest
  <2> QED BY <2>2, <2>3, <1>3
<1>5. CASE AddPrimary \/ SkipSlot
  <2>1. pc = "slots" /\ pc' = "slots" /\ slot' = slot + 1
    BY <1>5 DEF AddPrimary, SkipSlot, Walking
  <2>2. Rest = left(slot) BY <2>1 DEF Rest
  <2>3. Rest' = left(slot + 1) BY <2>1, <1>1 DEF Rest
  <2> HIDE DEF left
  <2> QED BY <2>2, <2>3, <1>1, <1>3
<1>6. CASE EnterChain
  <2>1. pc = "slots" /\ pc' = "chain" /\ slot' = slot /\ links' = <<>> BY <1>6 DEF EnterChain
  <2>2. Rest = left(slot) BY <2>1 DEF Rest
  <2>3. Rest' = left(slot) - 1 - Len(<<>>) BY <2>1, <1>1 DEF Rest
  <2> HIDE DEF left
  <2>4. Len(<<>>) = 0 OBVIOUS
  <2> QED BY <2>2, <2>3, <2>4, <1>3
<1>7. CASE EndChain
  <2>1. pc = "chain" /\ pc' = "slots" /\ slot' = slot + 1 BY <1>7 DEF EndChain, LeaveChain
  <2>2. Rest = left(slot) - 1 - Len(links) BY <2>1 DEF Rest
  <2>3. Rest' = left(slot + 1) BY <2>1, <1>1 DEF Rest
  <2> HIDE DEF left
  <2> QED BY <2>2, <2>3, <1>1, <1>2, <1>3
<1> QED BY <1>4, <1>5, <1>6, <1>7

LEMMA RestFollowChain ==
    ASSUME IInv, FollowChain
    PROVE  Rest' < Rest
<1>1. PerSlot \in Nat /\ MaxLinks \in Nat /\ PerSlot = MaxLinks + 3 /\ PerSlot' = PerSlot
  BY LinksAssumption DEF PerSlot
<1>2. slot \in 1..5 /\ at \in Nat /\ links \in Seq(Nat) /\ Len(links) <= MaxLinks
  BY DEF IInv, Types, TypeOK
<1> DEFINE left(s) == (6 - s) * PerSlot
<1>3. left(slot) \in Nat /\ left(slot) >= PerSlot /\ left(slot + 1) = left(slot) - PerSlot
  BY <1>2, SlotRest
<1>4. pc = "chain" /\ links' = Append(links, at) BY DEF FollowChain
<1>5. Len(links') = Len(links) + 1 /\ Len(links) \in Nat BY <1>2, <1>4
<1>6. Rest = left(slot) - 1 - Len(links) BY <1>4 DEF Rest
<1>7. UNCHANGED <<pc, slot>> \/ (pc' = "slots" /\ slot' = slot + 1)
  BY DEF FollowChain, LeaveChain
<1>8. CASE UNCHANGED <<pc, slot>>
  <2>1. Rest' = left(slot) - 1 - Len(links') BY <1>1, <1>4, <1>8 DEF Rest
  <2> HIDE DEF left
  <2> QED BY <2>1, <1>3, <1>5, <1>6
<1>9. CASE pc' = "slots" /\ slot' = slot + 1
  <2>1. Rest' = left(slot + 1) BY <1>1, <1>9 DEF Rest
  <2> HIDE DEF left
  <2> QED BY <2>1, <1>1, <1>2, <1>3, <1>5, <1>6
<1> QED BY <1>7, <1>8, <1>9

(* The lists of rdb and of cumana, which have no slots. *)
LEMMA RestLists ==
    ASSUME IInv, OpenRdb \/ OpenCumana \/ FollowList \/ FollowBoots
    PROVE  Rest' < Rest
<1>1. PerSlot = MaxLinks + 3 /\ MaxLinks \in Nat BY LinksAssumption DEF PerSlot
<1>2. links \in Seq(Nat) /\ Len(links) <= MaxLinks /\ at \in Nat BY DEF IInv, Types, TypeOK
<1>3. CASE OpenRdb \/ OpenCumana
  <2>1. pc = "open" /\ pc' \in {"list", "boots"} /\ children' = children /\ links' = links
    BY <1>3 DEF OpenRdb, OpenCumana
  <2>2. links = <<>> /\ children = <<>> /\ Len(<<>>) = 0 BY <2>1 DEF IInv, Types
  <2>3. Rest = 6 * PerSlot BY <2>1 DEF Rest
  <2>4. Rest' = MaxLinks + 1 BY <2>1, <2>2, <1>1 DEF Rest
  <2> QED BY <2>3, <2>4, <1>1
<1>4. CASE FollowList
  <2>1. pc = "list" /\ pc' = "list" /\ children' = Append(children, RdbPart(Read(at)))
    BY <1>4 DEF FollowList
  <2>2. children \in Seq(Listed) /\ Len(children) = Len(links) BY <2>1 DEF IInv, Types
  <2>3. RdbPart(Read(at)) \in Listed
    <3>1. Len(children) \in Nat BY <2>2
    <3> QED BY <3>1, <1>2 DEF RdbPart, Listed
  <2>4. Len(children') = Len(children) + 1 /\ Len(children) \in Nat BY <2>1, <2>2, <2>3
  <2>5. Rest = MaxLinks + 1 - Len(children) BY <2>1 DEF Rest
  <2>6. Rest' = MaxLinks + 1 - Len(children') BY <2>1 DEF Rest
  <2> QED BY <2>4, <2>5, <2>6, <1>1
<1>5. CASE FollowBoots
  <2>1. pc = "boots" /\ links' = Append(links, at) BY <1>5 DEF FollowBoots
  <2>2. pc' \in {"boots", "done", "error"} BY <1>5 DEF FollowBoots
  <2>3. Len(links') = Len(links) + 1 /\ Len(links) \in Nat BY <2>1, <1>2
  <2>4. Rest = MaxLinks + 1 - Len(links) BY <2>1 DEF Rest
  <2>5. CASE pc' = "boots"
    <3>1. Rest' = MaxLinks + 1 - Len(links') BY <2>5 DEF Rest
    <3> QED BY <3>1, <2>3, <2>4, <1>1
  <2>6. CASE pc' \in {"done", "error"}
    <3>1. Rest' = 0 BY <2>6 DEF Rest
    <3> QED BY <3>1, <2>3, <2>4, <1>1, <1>2
  <2> QED BY <2>2, <2>5, <2>6
<1> QED BY <1>3, <1>4, <1>5

LEMMA RestFinish ==
    ASSUME IInv,
           OpenFlat \/ OpenFails \/ ChainFails \/ EndSlots \/ OpenRdbFails \/ EndList \/ EndBoots
    PROVE  Rest' < Rest
<1>1. pc' \in {"done", "error"} /\ pc \notin {"done", "error"}
  BY DEF OpenFlat, OpenFails, ChainFails, EndSlots, OpenRdbFails, EndList, EndBoots, Finish
<1>2. Rest' = 0 BY <1>1 DEF Rest
<1> QED BY <1>1, <1>2, RestPositive

(* Every step that children takes brings it nearer to its end, whatever the links   *)
(* of a table hold: six times the bound of the loops, and a few more, are as many    *)
(* steps as there can be, and none is left only where the method has returned.       *)
THEOREM ReadingCountsDown ==
    Spec => /\ [](Rest \in Nat /\ (Rest = 0 => pc \in {"done", "error"}))
            /\ [][Rest' < Rest]_vars
<1>1. IInv => Rest \in Nat /\ (Rest = 0 => pc \in {"done", "error"})
  BY RestType, RestPositive
<1>2. IInv /\ [Next]_vars => [Rest' < Rest]_vars
  <2> SUFFICES ASSUME IInv, Next PROVE Rest' < Rest OBVIOUS
  <2>1. CASE OpenSlots \/ AddPrimary \/ SkipSlot \/ EnterChain \/ EndChain BY <2>1, RestSlots
  <2>2. CASE FollowChain BY <2>2, RestFollowChain
  <2>3. CASE OpenRdb \/ OpenCumana \/ FollowList \/ FollowBoots BY <2>3, RestLists
  <2>4. CASE OpenFlat \/ OpenFails \/ ChainFails \/ EndSlots \/ OpenRdbFails \/ EndList \/ EndBoots
    BY <2>4, RestFinish
  <2> QED BY <2>1, <2>2, <2>3, <2>4 DEF Next
<1> QED BY <1>1, <1>2, IInvHolds, PTL DEF Spec
=============================================================================
