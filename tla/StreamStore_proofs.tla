------------------------- MODULE StreamStore_proofs -------------------------
(***************************************************************************)
(* Proofs about StreamStore: no record that was inserted in the order of   *)
(* time is passed over by the polls, however many are under way, the list  *)
(* stays sorted when they wait for one another, and the list of exceptions *)
(* goes on with what the list shown has of them.                           *)
(***************************************************************************)
EXTENDS StreamStore, FiniteSetTheorems, SequenceTheorems, WellFoundedInduction, TLAPS

Entries == ToSet(TotalCarRecordList)

-----------------------------------------------------------------------------
(* Sequences.                                                              *)

(* Where the elements of a concatenation stand.                            *)
LEMMA ConcatAt ==
  ASSUME NEW S, NEW a \in Seq(S), NEW b \in Seq(S)
  PROVE  /\ a \o b \in Seq(S)
         /\ Len(a) \in Nat /\ Len(b) \in Nat
         /\ Len(a \o b) = Len(a) + Len(b)
         /\ \A i \in 1 .. Len(a) : (a \o b)[i] = a[i]
         /\ \A i \in 1 .. Len(b) : (a \o b)[Len(a) + i] = b[i]
OBVIOUS

(* The elements of a concatenation are those of its parts.                 *)
LEMMA InConcat ==
  ASSUME NEW S, NEW a \in Seq(S), NEW b \in Seq(S)
  PROVE  /\ a \o b \in Seq(S)
         /\ ToSet(a \o b) = ToSet(a) \cup ToSet(b)
<1>1. /\ a \o b \in Seq(S)
      /\ Len(a \o b) = Len(a) + Len(b)
      /\ \A i \in 1 .. Len(a) : (a \o b)[i] = a[i]
      /\ \A i \in 1 .. Len(b) : (a \o b)[Len(a) + i] = b[i]
  OBVIOUS
<1>2. ToSet(a \o b) \subseteq ToSet(a) \cup ToSet(b)
  <2>1. SUFFICES ASSUME NEW i \in 1 .. Len(a) + Len(b)
                 PROVE  (a \o b)[i] \in ToSet(a) \cup ToSet(b)
    BY <1>1 DEF ToSet
  <2>2. CASE i \in 1 .. Len(a)
    BY <1>1, <2>2 DEF ToSet
  <2>3. CASE i - Len(a) \in 1 .. Len(b)
    BY <1>1, <2>3 DEF ToSet
  <2>4. Len(a) \in Nat /\ Len(b) \in Nat
    OBVIOUS
  <2>5. i \in 1 .. Len(a) \/ i - Len(a) \in 1 .. Len(b)
    BY <2>4
  <2>6. QED
    BY <2>2, <2>3, <2>5
<1>3. ToSet(a) \subseteq ToSet(a \o b)
  BY <1>1 DEF ToSet
<1>4. ToSet(b) \subseteq ToSet(a \o b)
  <2>1. SUFFICES ASSUME NEW i \in 1 .. Len(b)
                 PROVE  b[i] \in ToSet(a \o b)
    BY DEF ToSet
  <2>2. Len(a) + i \in DOMAIN (a \o b)
    BY <1>1
  <2>3. (a \o b)[Len(a) + i] = b[i]
    BY <1>1
  <2>4. QED
    BY <2>2, <2>3 DEF ToSet
<1>5. QED
  BY <1>1, <1>2, <1>3, <1>4

(* Cutting a list keeps its first elements, and no more than the maximum.  *)
LEMMA InCapped ==
  ASSUME NEW S, NEW a \in Seq(S)
  PROVE  /\ Capped(a) \in Seq(S)
         /\ Len(Capped(a)) <= MAX_RECORDS_SIZE
         /\ Len(Capped(a)) <= Len(a)
         /\ \A i \in 1 .. Len(Capped(a)) : Capped(a)[i] = a[i]
         /\ ToSet(Capped(a)) \subseteq ToSet(a)
<1> DEFINE n == IF Len(a) <= MAX_RECORDS_SIZE THEN Len(a) ELSE MAX_RECORDS_SIZE
<1>1. n \in 0 .. Len(a) /\ n <= MAX_RECORDS_SIZE
  BY StoreAssumption
<1>2. Capped(a) = SubSeq(a, 1, n)
  BY DEF Capped
<1>3. /\ SubSeq(a, 1, n) \in Seq(S)
      /\ Len(SubSeq(a, 1, n)) = n
      /\ \A i \in 1 .. n : SubSeq(a, 1, n)[i] = a[i]
  BY <1>1
<1>4. QED
  BY <1>1, <1>2, <1>3 DEF ToSet

(* Removing a request leaves the others.                                   *)
LEMMA InRemoved ==
  ASSUME NEW S, NEW a \in Seq(S), NEW i \in 1 .. Len(a)
  PROVE  /\ RemoveAt(a, i) \in Seq(S)
         /\ Len(RemoveAt(a, i)) = Len(a) - 1
         /\ ToSet(RemoveAt(a, i)) \subseteq ToSet(a)
<1> DEFINE b == SubSeq(a, 1, i - 1)
           c == SubSeq(a, i + 1, Len(a))
<1>1. b \in Seq(S) /\ Len(b) = i - 1 /\ \A j \in 1 .. i - 1 : b[j] = a[j]
  OBVIOUS
<1>2. c \in Seq(S) /\ Len(c) = Len(a) - i /\ \A j \in 1 .. Len(a) - i : c[j] = a[j + i]
  OBVIOUS
<1>3. ToSet(b) \subseteq ToSet(a) /\ ToSet(c) \subseteq ToSet(a)
  BY <1>1, <1>2 DEF ToSet
<1>4. /\ b \o c \in Seq(S) /\ Len(b \o c) = Len(a) - 1
      /\ ToSet(b \o c) = ToSet(b) \cup ToSet(c)
  <2> HIDE DEF b, c
  <2>0. b \in Seq(S) /\ c \in Seq(S)
    BY <1>1, <1>2
  <2>1. b \o c \in Seq(S) /\ ToSet(b \o c) = ToSet(b) \cup ToSet(c)
    BY <2>0, InConcat, ZenonT(60)
  <2>2. Len(b \o c) = Len(b) + Len(c)
    BY <2>0, ConcatProperties
  <2>3. QED
    BY <1>1, <1>2, <2>1, <2>2
<1>5. QED
  BY <1>3, <1>4 DEF RemoveAt

-----------------------------------------------------------------------------
(* The filter.  It is defined by recursion over the list, and what it does *)
(* is proved by induction: over a set of natural numbers, because the      *)
(* library's theorem of induction takes an operator.                       *)

(* Of the numbers of a set one is the least.                               *)
LEMMA Least ==
  ASSUME NEW T, T \subseteq Nat, T # {}
  PROVE  \E m \in T : \A k \in T : m <= k
<1> DEFINE R == {ss \in Nat \X Nat : ss[1] < ss[2]}
<1>1. IsWellFoundedOn(R, Nat)
  BY NatLessThanWellFounded DEF OpToRel
<1>2. PICK m \in T : \A k \in T : ~(<<k, m>> \in R)
  <2> HIDE DEF R
  <2> QED
    BY <1>1, WFMin
<1>3. ASSUME NEW k \in T PROVE m <= k
  <2>1. k \in Nat /\ m \in Nat /\ <<k, m>>[1] = k /\ <<k, m>>[2] = m /\ <<k, m>> \in Nat \X Nat
    OBVIOUS
  <2>2. ~(<<k, m>>[1] < <<k, m>>[2])
    BY <1>2, <2>1
  <2> QED
    BY <2>1, <2>2
<1> QED
  BY <1>3

(* A set that holds 0, and with a number the next, holds them all.         *)
LEMMA Induction ==
  ASSUME NEW T, 0 \in T, \A n \in Nat : n \in T => n + 1 \in T
  PROVE  Nat \subseteq T
<1> SUFFICES ASSUME Nat \ T # {} PROVE FALSE
  OBVIOUS
<1>1. PICK m \in Nat \ T : \A k \in Nat \ T : m <= k
  BY Least
<1>2. m # 0 /\ m - 1 \in Nat
  OBVIOUS
<1>3. m - 1 \in T
  BY <1>1, <1>2
<1> QED
  BY <1>2, <1>3

(* The recursion of Exceptions, by name.                                   *)
KeptStep(g, list, i) ==
  IF i = 0 THEN <<>>
  ELSE IF IsException(list[i]) THEN Append(g[i - 1], list[i])
  ELSE g[i - 1]

Keeps(g, list, n) == g = [i \in 0 .. n |-> KeptStep(g, list, i)]

Kept(list) == CHOOSE g : Keeps(g, list, Len(list))

(* There is such a function.                                               *)
LEMMA KeepsExists ==
  ASSUME NEW list, NEW n \in Nat
  PROVE  \E g : Keeps(g, list, n)
<1> DEFINE T == {m \in Nat : \E g : Keeps(g, list, m)}
<1>1. 0 \in T
  <2>1. Keeps([i \in 0 .. 0 |-> <<>>], list, 0)
    BY DEF Keeps, KeptStep
  <2> QED
    BY <2>1
<1>2. ASSUME NEW m \in Nat, m \in T PROVE m + 1 \in T
  <2>1. PICK g : Keeps(g, list, m)
    BY <1>2
  <2> DEFINE h == [i \in 0 .. m + 1 |-> KeptStep(g, list, i)]
  <2>2. ASSUME NEW i \in 0 .. m + 1 PROVE KeptStep(g, list, i) = KeptStep(h, list, i)
    <3>1. CASE i = 0
      BY <3>1 DEF KeptStep
    <3>2. CASE i # 0
      <4>1. i - 1 \in 0 .. m
        BY <3>2
      <4>2. h[i - 1] = g[i - 1]
        BY <4>1, <2>1 DEF Keeps
      <4> QED
        BY <4>2 DEF KeptStep
    <3> QED
      BY <3>1, <3>2
  <2>3. Keeps(h, list, m + 1)
    BY <2>2, Zenon DEF Keeps
  <2> QED
    BY <2>3
<1> HIDE DEF T
<1>3. n \in T
  BY <1>1, <1>2, Induction
<1> QED
  BY <1>3 DEF T

(* The recursion, step by step.                                            *)
LEMMA KeptAt ==
  ASSUME NEW list \in Seq(Record)
  PROVE  /\ Exceptions(list) = Kept(list)[Len(list)]
         /\ Kept(list)[0] = <<>>
         /\ \A i \in 1 .. Len(list) :
              Kept(list)[i] = IF IsException(list[i]) THEN Append(Kept(list)[i - 1], list[i])
                                                      ELSE Kept(list)[i - 1]
<1>1. Len(list) \in Nat
  OBVIOUS
<1>2. Exceptions(list) = Kept(list)[Len(list)]
  BY DEF Exceptions, Kept, Keeps, KeptStep
<1>3. Keeps(Kept(list), list, Len(list))
  BY <1>1, KeepsExists DEF Kept
<1>4. \A i \in 0 .. Len(list) : Kept(list)[i] = KeptStep(Kept(list), list, i)
  <2> DEFINE f == Kept(list)
  <2>1. f = [i \in 0 .. Len(list) |-> KeptStep(f, list, i)]
    BY <1>3 DEF Keeps
  <2> HIDE DEF f
  <2>2. \A i \in 0 .. Len(list) : f[i] = KeptStep(f, list, i)
    BY <2>1
  <2> QED
    BY <2>2 DEF f
<1> QED
  BY <1>1, <1>2, <1>4 DEF KeptStep

(* It makes a list of records, and no longer one.                          *)
LEMMA KeptType ==
  ASSUME NEW list \in Seq(Record), NEW n \in 0 .. Len(list)
  PROVE  Kept(list)[n] \in Seq(Record) /\ Len(Kept(list)[n]) <= n
<1> DEFINE f == Kept(list)
           T == {i \in Nat : i <= Len(list) => f[i] \in Seq(Record) /\ Len(f[i]) <= i}
<1>1. 0 \in T
  <2>1. f[0] = <<>>
    BY KeptAt
  <2> HIDE DEF f
  <2>2. <<>> \in Seq(Record) /\ Len(<<>>) <= 0 /\ 0 \in Nat
    OBVIOUS
  <2> QED
    BY <2>1, <2>2, Zenon
<1>2. ASSUME NEW i \in Nat, i \in T PROVE i + 1 \in T
  <2> SUFFICES ASSUME i + 1 <= Len(list)
               PROVE  f[i + 1] \in Seq(Record) /\ Len(f[i + 1]) <= i + 1
    OBVIOUS
  <2>1. i + 1 \in 1 .. Len(list) /\ (i + 1) - 1 = i /\ list[i + 1] \in Record
    OBVIOUS
  <2>2. f[i] \in Seq(Record) /\ Len(f[i]) <= i
    BY <1>2
  <2>3. f[i + 1] = f[i] \/ f[i + 1] = Append(f[i], list[i + 1])
    BY <2>1, KeptAt
  <2> HIDE DEF f
  <2>4. /\ Append(f[i], list[i + 1]) \in Seq(Record)
        /\ Len(Append(f[i], list[i + 1])) = Len(f[i]) + 1 /\ Len(f[i]) \in Nat
    BY <2>1, <2>2, AppendProperties
  <2>5. Len(f[i]) <= i + 1 /\ Len(Append(f[i], list[i + 1])) <= i + 1
    BY <2>2, <2>4
  <2> QED
    BY <2>2, <2>3, <2>4, <2>5, Zenon
<1> HIDE DEF T
<1>3. n \in T
  BY <1>1, <1>2, Induction
<1> QED
  BY <1>3 DEF T

LEMMA ExceptionsType ==
  ASSUME NEW list \in Seq(Record)
  PROVE  Exceptions(list) \in Seq(Record) /\ Len(Exceptions(list)) <= Len(list)
<1>1. Len(list) \in 0 .. Len(list)
  OBVIOUS
<1> QED
  BY <1>1, KeptType, KeptAt

(* In a concatenation the first list is filtered as by itself.             *)
LEMMA KeptFront ==
  ASSUME NEW a \in Seq(Record), NEW b \in Seq(Record), NEW n \in 0 .. Len(a)
  PROVE  Kept(a \o b)[n] = Kept(a)[n]
<1> DEFINE T == {i \in Nat : i <= Len(a) => Kept(a \o b)[i] = Kept(a)[i]}
<1>1. a \o b \in Seq(Record) /\ Len(a \o b) = Len(a) + Len(b) /\ Len(b) \in Nat
  OBVIOUS
<1>2. 0 \in T
  BY <1>1, KeptAt
<1>3. ASSUME NEW i \in Nat, i \in T PROVE i + 1 \in T
  <2> SUFFICES ASSUME i + 1 <= Len(a) PROVE Kept(a \o b)[i + 1] = Kept(a)[i + 1]
    OBVIOUS
  <2>1. /\ i + 1 \in 1 .. Len(a) /\ i + 1 \in 1 .. Len(a \o b) /\ (i + 1) - 1 = i
        /\ (a \o b)[i + 1] = a[i + 1]
    BY <1>1
  <2>2. Kept(a \o b)[i] = Kept(a)[i]
    BY <1>3
  <2>3. Kept(a)[i + 1] = IF IsException(a[i + 1]) THEN Append(Kept(a)[i], a[i + 1]) ELSE Kept(a)[i]
    BY <2>1, KeptAt
  <2> DEFINE c == a \o b
  <2>4. c \in Seq(Record) /\ i + 1 \in 1 .. Len(c) /\ c[i + 1] = a[i + 1]
    BY <1>1, <2>1
  <2> HIDE DEF c
  <2>5. Kept(c)[i + 1] = IF IsException(c[i + 1]) THEN Append(Kept(c)[i], c[i + 1]) ELSE Kept(c)[i]
    BY <2>1, <2>4, KeptAt
  <2>6. Kept(c)[i + 1] = Kept(a)[i + 1]
    BY <2>2, <2>3, <2>4, <2>5 DEF c
  <2> QED
    BY <2>6 DEF c
<1> HIDE DEF T
<1>4. n \in T
  BY <1>2, <1>3, Induction
<1> QED
  BY <1>4 DEF T

(* The filter of a concatenation is that of its parts.                     *)
LEMMA ExceptionsConcat ==
  ASSUME NEW a \in Seq(Record), NEW b \in Seq(Record)
  PROVE  Exceptions(a \o b) = Exceptions(a) \o Exceptions(b)
<1> DEFINE A == Kept(a)[Len(a)]
           c == a \o b
           T == {i \in Nat : i <= Len(b) => Kept(c)[Len(a) + i] = A \o Kept(b)[i]}
<1>1. c \in Seq(Record) /\ Len(c) = Len(a) + Len(b) /\ Len(a) \in Nat /\ Len(b) \in Nat
  OBVIOUS
<1>2. A \in Seq(Record) /\ Kept(c)[Len(a)] = A
  <2>1. Len(a) \in 0 .. Len(a)
    OBVIOUS
  <2> QED
    BY <2>1, KeptType, KeptFront
<1>3. \A i \in 1 .. Len(b) : c[Len(a) + i] = b[i]
  BY ConcatAt
<1> HIDE DEF A, c
<1>4. 0 \in T
  <2>1. Kept(b)[0] = <<>>
    BY KeptAt
  <2> QED
    BY <1>1, <1>2, <2>1
<1>5. ASSUME NEW i \in Nat, i \in T PROVE i + 1 \in T
  <2> SUFFICES ASSUME i + 1 <= Len(b)
               PROVE  Kept(c)[Len(a) + (i + 1)] = A \o Kept(b)[i + 1]
    OBVIOUS
  <2>1. /\ i + 1 \in 1 .. Len(b) /\ (i + 1) - 1 = i /\ i \in 0 .. Len(b)
        /\ Len(a) + (i + 1) \in 1 .. Len(c) /\ (Len(a) + (i + 1)) - 1 = Len(a) + i
    BY <1>1
  <2>2. c[Len(a) + (i + 1)] = b[i + 1] /\ b[i + 1] \in Record
    BY <1>3, <2>1
  <2>3. Kept(c)[Len(a) + i] = A \o Kept(b)[i]
    BY <1>5, <2>1
  <2>4. Kept(b)[i] \in Seq(Record)
    BY <2>1, KeptType
  <2>5. Kept(b)[i + 1]
          = IF IsException(b[i + 1]) THEN Append(Kept(b)[i], b[i + 1]) ELSE Kept(b)[i]
    BY <2>1, KeptAt
  <2>6. Kept(c)[Len(a) + (i + 1)]
          = IF IsException(c[Len(a) + (i + 1)])
            THEN Append(Kept(c)[(Len(a) + (i + 1)) - 1], c[Len(a) + (i + 1)])
            ELSE Kept(c)[(Len(a) + (i + 1)) - 1]
    BY <1>1, <2>1, KeptAt
  <2>7. Append(A \o Kept(b)[i], b[i + 1]) = A \o Append(Kept(b)[i], b[i + 1])
    <3>1. PICK u \in Seq(Record), x \in Seq(Record), e \in Record :
            u = A /\ x = Kept(b)[i] /\ e = b[i + 1]
      BY <1>2, <2>2, <2>4
    <3>2. /\ <<e>> \in Seq(Record) /\ u \o x \in Seq(Record)
          /\ Append(u \o x, e) = (u \o x) \o <<e>> /\ Append(x, e) = x \o <<e>>
      BY ConcatProperties, AppendIsConcat, SMTT(30)
    <3>3. Append(u \o x, e) = u \o Append(x, e)
      BY <3>2, ConcatAssociative
    <3> QED
      BY <3>1, <3>3, Zenon
  <2> QED
    BY <2>1, <2>2, <2>3, <2>5, <2>6, <2>7, Zenon
<1> HIDE DEF T
<1>6. Len(b) \in T
  BY <1>1, <1>4, <1>5, Induction
<1>7. Kept(c)[Len(a) + Len(b)] = A \o Kept(b)[Len(b)]
  BY <1>1, <1>6 DEF T
<1>8. Exceptions(c) = A \o Exceptions(b) /\ Exceptions(a) = A
  BY <1>1, <1>7, KeptAt DEF A
<1> QED
  BY <1>8 DEF c

-----------------------------------------------------------------------------
(* Types, but for those of the list of exceptions, which nothing reads.    *)

TypeInv ==
  /\ TypeServer /\ TypeLists /\ TypePage /\ TypeReq
  /\ IsFiniteSet(db)
  /\ ~updating => \A k \in Kind : req[k] = <<>>

(* The types of the initial state.                                         *)
LEMMA TypeInit == Init => TypeInv
<1> SUFFICES ASSUME Init PROVE TypeInv
  OBVIOUS
<1>1. TypeServer
  BY StoreAssumption DEF Init, TypeServer, Time
<1>2. TypeLists
  BY StoreAssumption DEF Init, TypeLists
<1>3. TypePage
  <2>1. 0 \in 0 .. CleanupEvery - 1
    BY StoreAssumption
  <2>2. QED
    BY <2>1 DEF Init, TypePage
<1>4. TypeReq
  BY StoreAssumption DEF Init, TypeReq
<1>5. IsFiniteSet(db) /\ \A k \in Kind : req[k] = <<>>
  BY FS_EmptySet DEF Init
<1>6. QED
  BY <1>1, <1>2, <1>3, <1>4, <1>5 DEF TypeInv

(* A request that is sent is a request.                                    *)
LEMMA SentType ==
  ASSUME TypeInv, NEW k \in Kind, NEW s \in Streams \cup {NoStream}
  PROVE  Sent(k, s) \in Request
<1>0. 0 \in Time /\ 1 \in Time
  BY StoreAssumption DEF Time
<1>1. ASSUME NEW l \in Seq(Record) PROVE FirstTime(l) \in Time
  <2>1. CASE l = <<>>
    BY <1>0, <2>1 DEF FirstTime
  <2>2. CASE l # <<>>
    <3>1. l[1] \in Record
      BY <2>2
    <3>2. QED
      BY <2>2, <3>1 DEF FirstTime, Record
  <2>3. QED
    BY <2>1, <2>2
<1>2. From(k, s) \in Time
  <2>1. TotalCarRecordList \in Seq(Record) /\ SingleCarRecordList[s] \in Seq(Record)
    BY DEF TypeInv, TypeLists
  <2>2. FirstTime(TotalCarRecordList) \in Time /\ FirstTime(SingleCarRecordList[s]) \in Time
    BY <1>1, <2>1
  <2>3. QED
    BY <1>0, <2>2 DEF From, Kind
<1>3. now \in Time /\ 0 \in Nat /\ <<>> \in Seq(Record)
  BY DEF TypeInv, TypeServer
<1>4. QED
  BY <1>2, <1>3 DEF Sent, Request, Answered

(* Keys of the map.                                                        *)
LEMMA KeyType ==
  ASSUME NEW S, NEW order \in Seq(S), NEW s \in S
  PROVE  WithKey(order, s) \in Seq(S) /\ KeptKeys(order) \in Seq(S)
<1>1. WithKey(order, s) \in Seq(S)
  BY DEF WithKey
<1>2. CASE Len(order) <= MAX_MAP_SIZE
  BY <1>1, <1>2 DEF KeptKeys
<1>3. CASE ~(Len(order) <= MAX_MAP_SIZE)
  <2> DEFINE m == Len(order) - MAX_MAP_SIZE + 1
  <2>1. m \in Nat \ {0}
    BY <1>3, StoreAssumption
  <2>2. SubSeq(order, m, Len(order)) \in Seq(S)
    BY <2>1
  <2>3. QED
    BY <1>1, <1>3, <2>2 DEF KeptKeys
<1>4. QED
  BY <1>2, <1>3

(* The server's steps.                                                     *)
LEMMA ServerType ==
  ASSUME TypeInv, Tick \/ Stamp \/ (\E r \in pending : Insert(r))
  PROVE  TypeInv'
<1>1. TypeLists' /\ TypePage' /\ TypeReq' /\ (~updating => \A k \in Kind : req[k] = <<>>)'
  BY DEF TypeInv, TypeLists, TypePage, TypeReq, Tick, Stamp, Insert, totalVars, mapVars,
     pageVars
<1>2. CASE Tick
  BY <1>1, <1>2, StoreAssumption DEF TypeInv, TypeServer, Tick, Time
<1>3. CASE Stamp
  <2>1. PICK s \in Streams, normal \in BOOLEAN :
          pending' = pending \cup
            {[id |-> stamped + 1, time |-> now, stream |-> s, status |-> normal]}
    BY <1>3 DEF Stamp
  <2>2. stamped + 1 \in 1 .. MaxRecords /\ now \in Time
    BY <1>3, StoreAssumption DEF Stamp, TypeInv, TypeServer
  <2>3. pending' \in SUBSET Record
    BY <2>1, <2>2 DEF Record, TypeInv, TypeServer
  <2>4. stamped' \in 0 .. MaxRecords
    BY <1>3, <2>2 DEF Stamp
  <2>5. QED
    BY <1>1, <1>3, <2>3, <2>4 DEF TypeInv, TypeServer, Stamp
<1>4. CASE \E r \in pending : Insert(r)
  <2>1. PICK r \in pending : Insert(r)
    BY <1>4
  <2>2. TypeServer'
    BY <2>1 DEF Insert, TypeInv, TypeServer
  <2>3. IsFiniteSet(db')
    BY <2>1, FS_AddElement DEF Insert, TypeInv
  <2>4. QED
    BY <1>1, <2>2, <2>3 DEF TypeInv
<1>5. QED
  BY <1>2, <1>3, <1>4

(* A list in which the matching records stand is a sequence of records.    *)
LEMMA NewestType ==
  ASSUME TypeInv, NEW k \in Kind, NEW q \in Request, NEW d \in Newest(Matching(k, q))
  PROVE  /\ d \in Seq(Record)
         /\ ToSet(d) = Matching(k, q)
         /\ \A i, j \in 1 .. Len(d) : i < j => d[i].time >= d[j].time
<1>1. Matching(k, q) \in SUBSET db /\ db \in SUBSET Record /\ IsFiniteSet(db)
  BY DEF Matching, TypeInv, TypeServer
<1>2. IsFiniteSet(Matching(k, q))
  BY <1>1, FS_Subset
<1>3. Cardinality(Matching(k, q)) \in Nat
  BY <1>2, FS_CardinalityType
<1> DEFINE S == Matching(k, q)
           n == Cardinality(S)
<1>4. /\ d \in [1 .. n -> S] /\ ToSet(d) = S
      /\ \A i, j \in 1 .. n : i < j => d[i].time >= d[j].time
  BY DEF Newest
<1> HIDE DEF S, n
<1>5. d \in [1 .. n -> Record] /\ n \in Nat
  BY <1>1, <1>3, <1>4 DEF S, n
<1>6. d \in Seq(Record) /\ Len(d) = n
  BY <1>5
<1>7. QED
  BY <1>4, <1>6 DEF S
(* The page's steps.                                                       *)
LEMMA VideoListLoadedType ==
  ASSUME TypeInv, VideoListLoaded
  PROVE  TypeInv'
<1>1. TypeServer' /\ IsFiniteSet(db)'
  BY DEF TypeInv, TypeServer, VideoListLoaded, serverVars
<1>2. StreamList \in Seq(Streams)
  BY StoreAssumption
<1>3. TypeLists'
  BY <1>2, EmptySeq DEF TypeInv, TypeLists, VideoListLoaded, totalVars
<1>4. ASSUME StreamList # <<>>
      PROVE  StreamList[1] \in Streams
  BY <1>2, <1>4
<1>5. TypePage'
  BY <1>4 DEF TypeInv, TypePage, VideoListLoaded
<1>6. TypeReq'
  <2>1. CASE UNCHANGED req
    BY <2>1 DEF TypeInv, TypeReq
  <2>2. CASE /\ StreamList # <<>>
             /\ req' = [req EXCEPT !["single"] = Append(@, Sent("single", StreamList[1]))]
    <3>1. Sent("single", StreamList[1]) \in Request
      BY <1>4, <2>2, SentType DEF Kind
    <3>2. req["single"] = <<>> /\ req \in [Kind -> Seq(Request)] /\ InFlight \in Nat \ {0}
      BY StoreAssumption DEF VideoListLoaded, TypeInv, TypeReq, Kind
    <3>3. /\ Append(req["single"], Sent("single", StreamList[1])) \in Seq(Request)
          /\ Len(Append(req["single"], Sent("single", StreamList[1]))) = 1
      BY <3>1, <3>2
    <3>4. QED
      BY <2>2, <3>2, <3>3 DEF TypeInv, TypeReq, Kind
  <2>3. QED
    BY <2>1, <2>2 DEF VideoListLoaded
<1>7. updating'
  BY DEF VideoListLoaded
<1>8. QED
  BY <1>1, <1>3, <1>5, <1>6, <1>7 DEF TypeInv

(* Types: the page shows another stream.                                   *)
LEMMA SetActiveStreamType ==
  ASSUME TypeInv, NEW s \in Streams, SetActiveStream(s)
  PROVE  TypeInv'
<1>1. TypeServer' /\ IsFiniteSet(db)'
  BY DEF TypeInv, TypeServer, SetActiveStream, serverVars
<1>2. WithKey(mapOrder, s) \in Seq(Streams \cup {NoStream})
  BY KeyType DEF TypeInv, TypeLists
<1>3. TypeLists'
  BY <1>2 DEF TypeInv, TypeLists, SetActiveStream, totalVars
<1>4. TypePage'
  BY DEF TypeInv, TypePage, SetActiveStream
<1>5. TypeReq'
  <2>1. Sent("single", s) \in Request
    BY SentType DEF Kind
  <2>2. req["single"] \in Seq(Request) /\ Len(req["single"]) < InFlight /\ InFlight \in Nat
    BY StoreAssumption DEF SetActiveStream, TypeInv, TypeReq, Kind
  <2>3. /\ Append(req["single"], Sent("single", s)) \in Seq(Request)
        /\ Len(Append(req["single"], Sent("single", s))) <= InFlight
    BY <2>1, <2>2
  <2>4. QED
    BY <2>3 DEF TypeInv, TypeReq, Kind, SetActiveStream
<1>6. updating'
  BY DEF SetActiveStream
<1>7. QED
  BY <1>1, <1>3, <1>4, <1>5, <1>6 DEF TypeInv

(* Types: a poll is started.                                               *)
LEMMA UpdateType ==
  ASSUME TypeInv, Update
  PROVE  TypeInv'
<1>1. TypeServer' /\ IsFiniteSet(db)' /\ updating'
  BY DEF TypeInv, TypeServer, Update, serverVars
<1>2. ActiveStream \in Streams \cup {NoStream}
  BY DEF TypeInv, TypePage
<1>3. mapOrder' \in Seq(Streams \cup {NoStream})
  <2>1. mapOrder \in Seq(Streams \cup {NoStream})
    BY DEF TypeInv, TypeLists
  <2>2. \A keys \in Seq(Streams \cup {NoStream}) :
          KeptKeys(keys) \in Seq(Streams \cup {NoStream})
    BY <1>2, KeyType
  <2>3. WithKey(mapOrder, ActiveStream) \in Seq(Streams \cup {NoStream})
    BY <1>2, <2>1, KeyType
  <2>4. QED
    BY <2>1, <2>2, <2>3 DEF Update
<1>4. SingleCarRecordList' \in [Streams \cup {NoStream} -> Seq(Record)]
  <2>1. SingleCarRecordList \in [Streams \cup {NoStream} -> Seq(Record)]
    BY DEF TypeInv, TypeLists
  <2>2. SingleCarRecordList' =
             [s \in Streams \cup {NoStream} |->
                IF s \in ToSet(mapOrder') THEN SingleCarRecordList[s] ELSE <<>>]
    BY DEF Update
  <2>3. QED
    BY <2>1, <2>2
<1>5. TypeLists'
  BY <1>3, <1>4 DEF TypeInv, TypeLists, Update, totalVars
<1>6. cleanupCounter' \in 0 .. CleanupEvery - 1
  BY StoreAssumption DEF Update, TypeInv, TypePage
<1>8. TypePage'
  BY <1>6 DEF TypeInv, TypePage, Update
<1>9. TypeReq'
  <2>1. ASSUME NEW k \in Kind
        PROVE  req'[k] \in Seq(Request) /\ Len(req'[k]) <= InFlight
    <3>1. req[k] \in Seq(Request) /\ Len(req[k]) <= InFlight /\ InFlight \in Nat
      BY StoreAssumption DEF TypeInv, TypeReq
    <3>2. Sent(k, ActiveStream) \in Request
      BY <1>2, SentType
    <3>3. CASE k \in Kinds
      <4>1. req'[k] = Append(req[k], Sent(k, ActiveStream)) /\ Len(req[k]) < InFlight
        BY <3>3 DEF Update
      <4>2. QED
        BY <3>1, <3>2, <4>1
    <3>4. CASE k \notin Kinds
      BY <3>1, <3>4 DEF Update
    <3>5. QED
      BY <3>3, <3>4
  <2>2. req' \in [Kind -> Seq(Request)]
    BY <2>1 DEF Update
  <2>3. QED
    BY <2>1, <2>2 DEF TypeReq
<1>10. QED
  BY <1>1, <1>5, <1>8, <1>9 DEF TypeInv

(* A request that is gone leaves the others as they were.                  *)
LEMMA RemovedReq ==
  ASSUME TypeInv, NEW k \in Kind, NEW i \in 1 .. Len(req[k]),
         req' = [req EXCEPT ![k] = RemoveAt(@, i)], UNCHANGED updating
  PROVE  /\ TypeReq'
         /\ (~updating => \A h \in Kind : req[h] = <<>>)'
         /\ \A h \in Kind : ToSet(req'[h]) \subseteq ToSet(req[h])
<1>1. req \in [Kind -> Seq(Request)] /\ \A h \in Kind : Len(req[h]) <= InFlight
  BY DEF TypeInv, TypeReq
<1>2. InFlight \in Nat /\ Len(req[k]) \in Nat /\ req[k] \in Seq(Request)
  BY <1>1, StoreAssumption
<1>3. /\ RemoveAt(req[k], i) \in Seq(Request)
      /\ Len(RemoveAt(req[k], i)) = Len(req[k]) - 1
      /\ ToSet(RemoveAt(req[k], i)) \subseteq ToSet(req[k])
  BY <1>2, InRemoved
<1>4. TypeReq'
  <2>1. Len(RemoveAt(req[k], i)) <= InFlight
    BY <1>1, <1>2, <1>3
  <2>2. QED
    BY <1>1, <1>3, <2>1 DEF TypeReq
<1>5. \A h \in Kind : ToSet(req'[h]) \subseteq ToSet(req[h])
  BY <1>1, <1>3
<1>6. updating
  <2>1. req[k] # <<>>
    BY EmptySeq
  <2>2. QED
    BY <2>1 DEF TypeInv
<1>7. QED
  BY <1>4, <1>5, <1>6

(* Types: the server reads for a request.                                  *)
LEMMA ReadType ==
  ASSUME TypeInv, NEW k \in Kind, Read(k)
  PROVE  TypeInv'
<1>1. TypeServer' /\ TypeLists' /\ TypePage' /\ IsFiniteSet(db)' /\ UNCHANGED updating
  BY DEF TypeInv, TypeServer, TypeLists, TypePage, Read, serverVars, totalVars, mapVars,
     pageVars
<1>2. PICK i \in 1 .. Len(req[k]) :
        \E d \in (IF k \in {"total", "single"} THEN Newest(Matching(k, req[k][i]))
                                               ELSE {<<>>}) :
          req' = [req EXCEPT ![k][i].stage = "read", ![k][i].data = d,
                             ![k][i].count = IF k = "exceptions"
                               THEN Cardinality(Matching(k, req[k][i])) ELSE 0]
  BY DEF Read
<1>3. PICK d \in (IF k \in {"total", "single"} THEN Newest(Matching(k, req[k][i]))
                                               ELSE {<<>>}) :
        req' = [req EXCEPT ![k][i].stage = "read", ![k][i].data = d,
                           ![k][i].count = IF k = "exceptions"
                             THEN Cardinality(Matching(k, req[k][i])) ELSE 0]
  BY <1>2
<1> DEFINE n == IF k = "exceptions" THEN Cardinality(Matching(k, req[k][i])) ELSE 0
           q == [req[k][i] EXCEPT !.stage = "read", !.data = d, !.count = n]
<1>4. req \in [Kind -> Seq(Request)] /\ req[k] \in Seq(Request) /\ req[k][i] \in Request
  BY DEF TypeInv, TypeReq
<1>5. d \in Seq(Record)
  <2>1. CASE k \in {"total", "single"}
    <3>1. d \in Newest(Matching(k, req[k][i]))
      BY <2>1
    <3>2. QED
      BY <1>4, <3>1, NewestType
  <2>2. CASE k \notin {"total", "single"}
    <3>1. d = <<>>
      BY <2>2
    <3>2. QED
      BY <3>1
  <2>3. QED
    BY <2>1, <2>2
<1>6. n \in Nat
  <2>1. IsFiniteSet(Matching(k, req[k][i]))
    BY FS_Subset DEF Matching, TypeInv
  <2>2. QED
    BY <2>1, FS_CardinalityType
<1>7. q \in Request
  BY <1>4, <1>5, <1>6 DEF Request, Answered
<1>8. req' = [req EXCEPT ![k] = [@ EXCEPT ![i] = q]]
  BY <1>3, <1>4, ZenonT(60) DEF Request
<1> HIDE DEF q, n
<1>9. [req[k] EXCEPT ![i] = q] \in Seq(Request) /\ Len([req[k] EXCEPT ![i] = q]) = Len(req[k])
  BY <1>4, <1>7
<1>10. TypeReq'
  BY <1>4, <1>8, <1>9 DEF TypeInv, TypeReq
<1>11. updating
  BY EmptySeq, <1>2 DEF TypeInv
<1>12. QED
  BY <1>1, <1>10, <1>11 DEF TypeInv

(* Types: an answer arrives.                                               *)
LEMMA AnswerType ==
  ASSUME TypeInv, NEW k \in Kind, Answer(k)
  PROVE  TypeInv'
<1>1. PICK i \in 1 .. Len(req[k]) :
        /\ req' = [req EXCEPT ![k] = RemoveAt(@, i)]
        /\ IF k = "total" THEN UpdateTotalRecords(req[k][i].data) ELSE UNCHANGED totalVars
        /\ IF k = "single" THEN UpdateSingleRecords(req[k][i].stream, req[k][i].data)
                           ELSE UNCHANGED mapVars
        /\ TotalCarExceptionsCount' =
             IF k = "exceptions" THEN req[k][i].count ELSE TotalCarExceptionsCount
        /\ UNCHANGED <<serverVars, pageVars>>
  BY DEF Answer
<1> DEFINE q == req[k][i]
<1>2. q \in Request
  BY DEF TypeInv, TypeReq
<1>3. /\ q.stream \in Streams \cup {NoStream} /\ q.from \in Time /\ q.to \in Time
      /\ q.data \in Seq(Record) /\ q.count \in Nat
  BY <1>2 DEF Request
<1> HIDE DEF q
<1>4. TypeServer' /\ IsFiniteSet(db)'
  BY <1>1 DEF TypeInv, TypeServer, serverVars
<1>5. /\ TypeReq'
      /\ (~updating => \A h \in Kind : req[h] = <<>>)'
  <2>1. UNCHANGED updating
    BY <1>1 DEF pageVars
  <2>2. QED
    BY <1>1, <2>1, RemovedReq
<1>6. /\ TotalCarRecordList' \in Seq(Record) /\ Len(TotalCarRecordList') <= MAX_RECORDS_SIZE
      /\ delivered' \in SUBSET Record
  <2>1. CASE k = "total"
    <3>1. UpdateTotalRecords(q.data)
      BY <1>1, <2>1 DEF q
    <3>2. q.data \o TotalCarRecordList \in Seq(Record)
      BY <1>3, InConcat DEF TypeInv, TypeLists
    <3>3. ToSet(q.data) \subseteq Record
      BY <1>3 DEF ToSet
    <3>4. QED
      BY <3>1, <3>2, <3>3, InCapped DEF UpdateTotalRecords, TypeInv, TypeLists
  <2>2. CASE k # "total"
    BY <1>1, <2>2 DEF totalVars, TypeInv, TypeLists
  <2>3. QED
    BY <2>1, <2>2
<1>7. /\ SingleCarRecordList' \in [Streams \cup {NoStream} -> Seq(Record)]
      /\ mapOrder' \in Seq(Streams \cup {NoStream})
  <2>1. CASE k = "single"
    <3>1. UpdateSingleRecords(q.stream, q.data)
      BY <1>1, <2>1 DEF q
    <3>2. SingleCarRecordList[q.stream] \in Seq(Record)
      BY <1>3 DEF TypeInv, TypeLists
    <3>3. q.data \o SingleCarRecordList[q.stream] \in Seq(Record)
      BY <1>3, <3>2, InConcat
    <3>4. Capped(q.data \o SingleCarRecordList[q.stream]) \in Seq(Record)
      BY <3>3, InCapped
    <3>5. WithKey(mapOrder, q.stream) \in Seq(Streams \cup {NoStream})
      BY <1>3, KeyType DEF TypeInv, TypeLists
    <3>6. QED
      BY <3>1, <3>4, <3>5 DEF UpdateSingleRecords, TypeInv, TypeLists
  <2>2. CASE k # "single"
    BY <1>1, <2>2 DEF mapVars, TypeInv, TypeLists
  <2>3. QED
    BY <2>1, <2>2
<1>8. TypePage'
  <2>1. TotalCarExceptionsCount' \in Nat
    BY <1>1, <1>3 DEF q, TypeInv, TypePage
  <2>2. QED
    BY <1>1, <2>1 DEF TypeInv, TypePage, pageVars
<1>9. QED
  BY <1>4, <1>5, <1>6, <1>7, <1>8 DEF TypeInv, TypeLists

(* Types: a request fails.                                                 *)
LEMMA FailType ==
  ASSUME TypeInv, NEW k \in Kind, Fail(k)
  PROVE  TypeInv'
<1>1. TypeServer' /\ TypeLists' /\ TypePage' /\ IsFiniteSet(db)' /\ UNCHANGED updating
  BY DEF TypeInv, TypeServer, TypeLists, TypePage, Fail, serverVars, totalVars, mapVars,
     pageVars
<1>2. PICK i \in 1 .. Len(req[k]) : req' = [req EXCEPT ![k] = RemoveAt(@, i)]
  BY DEF Fail
<1>3. TypeReq' /\ (~updating => \A h \in Kind : req[h] = <<>>)'
  BY <1>1, <1>2, RemovedReq
<1>4. QED
  BY <1>1, <1>3 DEF TypeInv

(* Every step keeps the types.                                             *)
LEMMA TypeNext == TypeInv /\ [Next]_vars => TypeInv'
<1> SUFFICES ASSUME TypeInv, [Next]_vars PROVE TypeInv'
  OBVIOUS
<1>1. CASE Tick \/ Stamp \/ (\E r \in pending : Insert(r))
  BY <1>1, ServerType
<1>2. CASE VideoListLoaded
  BY <1>2, VideoListLoadedType
<1>3. CASE \E s \in Streams : SetActiveStream(s)
  BY <1>3, SetActiveStreamType
<1>4. CASE Update
  BY <1>4, UpdateType
<1>5. CASE \E k \in Kind : Read(k) \/ Answer(k) \/ Fail(k)
  BY <1>5, ReadType, AnswerType, FailType
<1>6. CASE UNCHANGED vars
  BY <1>6 DEF vars, serverVars, totalVars, mapVars, pageVars, TypeInv,
     TypeServer, TypeLists, TypePage, TypeReq
<1>7. QED
  BY <1>1, <1>2, <1>3, <1>4, <1>5, <1>6 DEF Next

(* The lists, the map and the requests are always of their types, and the  *)
(* list of all records never exceeds its maximum.                          *)
THEOREM TypesHold == Spec => []TypeInv
<1>1. QED
  BY TypeInit, TypeNext, PTL DEF Spec

-----------------------------------------------------------------------------
(* No record is passed over.  The records of the list, and those of an     *)
(* answer under way, are in the table, so that a record inserted in order  *)
(* is not older than any of them; and what a request leaves out below its  *)
(* bound was delivered before it was sent.                                 *)

Passed(q) ==
  /\ q.from = 0 \/ \E d \in db : q.from <= d.time
  /\ \A r \in inOrder : r.time < q.from => r \in delivered
  /\ q.stage = "read" =>
       /\ ToSet(q.data) \subseteq db
       /\ \A r \in inOrder, x \in ToSet(q.data) :
            r.time < x.time => r \in delivered \cup ToSet(q.data)

SkipInv ==
  /\ inOrder \subseteq db /\ Entries \subseteq db
  /\ \A r \in inOrder, x \in Entries : r.time < x.time => r \in delivered
  /\ \A q \in ToSet(req["total"]) : Passed(q)

(* Nothing is skipped at first.                                            *)
LEMMA SkipInit == Init => SkipInv
<1> SUFFICES ASSUME Init PROVE SkipInv
  OBVIOUS
<1>1. ToSet(TotalCarRecordList) = {} /\ ToSet(req["total"]) = {}
  BY DEF Init, ToSet, Kind
<1>2. inOrder = {} /\ db = {}
  BY DEF Init
<1>3. QED
  BY <1>1, <1>2 DEF SkipInv, Entries

(* What a request passed stays passed while the table and the deliveries   *)
(* only grow.                                                              *)
LEMMA StaysPassed ==
  ASSUME NEW q, Passed(q), db \subseteq db', inOrder' = inOrder, delivered \subseteq delivered'
  PROVE  Passed(q)'
BY DEF Passed

(* Appending a request adds it to the others.                              *)
LEMMA InAppended ==
  ASSUME NEW S, NEW a \in Seq(S), NEW x
  PROVE  ToSet(Append(a, x)) = ToSet(a) \cup {x}
<1>1. /\ Len(Append(a, x)) = Len(a) + 1 /\ Len(a) \in Nat
      /\ \A i \in 1 .. Len(a) : Append(a, x)[i] = a[i]
      /\ Append(a, x)[Len(a) + 1] = x
      /\ DOMAIN Append(a, x) = 1 .. Len(a) + 1 /\ DOMAIN a = 1 .. Len(a)
  OBVIOUS
<1>2. 1 .. Len(a) + 1 = (1 .. Len(a)) \cup {Len(a) + 1}
  BY <1>1
<1>3. QED
  BY <1>1, <1>2 DEF ToSet

(* Inserting a record skips none.                                          *)
LEMMA InsertSkip ==
  ASSUME TypeInv, SkipInv, NEW r \in pending, Insert(r)
  PROVE  SkipInv'
<1>1. /\ db \subseteq db' /\ r \in Record
      /\ UNCHANGED <<TotalCarRecordList, delivered, req>>
      /\ db \subseteq Record /\ Entries \subseteq db /\ inOrder \subseteq db
  BY DEF Insert, totalVars, TypeInv, TypeServer, SkipInv
<1>2. \/ inOrder' = inOrder
      \/ inOrder' = inOrder \cup {r} /\ r \in db' /\ \A d \in db : d.time <= r.time
  BY DEF Insert
<1>3. inOrder' \subseteq db' /\ Entries' \subseteq db'
  BY <1>1, <1>2 DEF Entries
<1>4. \A x \in Record : x.time \in Nat
  BY DEF Record, Time
<1>5. ASSUME NEW p \in inOrder', NEW x \in Entries', p.time < x.time
      PROVE  p \in delivered'
  <2>1. x \in Entries /\ x \in db
    BY <1>1 DEF Entries
  <2>2. CASE p \in inOrder
    BY <1>1, <1>5, <2>1, <2>2 DEF SkipInv
  <2>3. CASE p \notin inOrder
    <3>1. p = r /\ x.time <= r.time
      BY <1>2, <2>1, <2>3
    <3>2. QED
      BY <1>1, <1>4, <1>5, <2>1, <3>1
  <2>4. QED
    BY <2>2, <2>3
<1>6. ASSUME NEW q \in ToSet(req'["total"])
      PROVE  Passed(q)'
  <2>1. Passed(q) /\ q \in ToSet(req["total"])
    BY <1>1 DEF SkipInv
  <2>2. CASE inOrder' = inOrder
    BY <1>1, <2>1, <2>2, StaysPassed
  <2>3. CASE inOrder' = inOrder \cup {r} /\ r \in db' /\ \A d \in db : d.time <= r.time
    <3>1. q.from \in Nat
      <4>1. req["total"] \in Seq(Request)
        BY DEF TypeInv, TypeReq, Kind
      <4>2. q \in Request
        BY <2>1, <4>1 DEF ToSet
      <4>3. QED
        BY <4>2 DEF Request, Time
    <3>2. ~(r.time < q.from)
      <4>1. CASE q.from = 0
        BY <1>1, <1>4, <4>1
      <4>2. CASE \E d \in db : q.from <= d.time
        BY <1>1, <1>4, <2>3, <3>1, <4>2
      <4>3. QED
        BY <2>1, <4>1, <4>2 DEF Passed
    <3>3. ASSUME q.stage = "read", NEW x \in ToSet(q.data)
          PROVE  ~(r.time < x.time)
      <4>1. x \in db
        BY <2>1, <3>3 DEF Passed
      <4>2. QED
        BY <1>1, <1>4, <2>3, <4>1
    <3>4. QED
      BY <1>1, <2>1, <2>3, <3>2, <3>3 DEF Passed
  <2>4. QED
    BY <1>2, <2>2, <2>3
<1>7. QED
  BY <1>3, <1>5, <1>6 DEF SkipInv

(* A request is sent with the time of the head of the list, or 0.          *)
LEMMA SentPassed ==
  ASSUME TypeInv, SkipInv, NEW s \in Streams \cup {NoStream}
  PROVE  Passed(Sent("total", s))
<1>1. /\ Sent("total", s).from = FirstTime(TotalCarRecordList)
      /\ Sent("total", s).stage # "read"
  BY DEF Sent, From
<1>2. \A r \in inOrder : r.time \in Nat
  BY DEF TypeInv, TypeServer, Record, Time
<1>3. CASE TotalCarRecordList = <<>>
  <2>1. Sent("total", s).from = 0
    BY <1>1, <1>3 DEF FirstTime
  <2>2. QED
    BY <1>1, <1>2, <2>1 DEF Passed
<1>4. CASE TotalCarRecordList # <<>>
  <2>1. TotalCarRecordList[1] \in Entries
    BY <1>4 DEF Entries, ToSet, TypeInv, TypeLists
  <2>2. Sent("total", s).from = TotalCarRecordList[1].time
    BY <1>1, <1>4 DEF FirstTime
  <2>3. TotalCarRecordList[1] \in db /\ TotalCarRecordList[1].time \in Nat
    BY <2>1 DEF SkipInv, TypeInv, TypeServer, Record, Time
  <2>4. \E d \in db : Sent("total", s).from <= d.time
    BY <2>2, <2>3
  <2>5. \A r \in inOrder : r.time < Sent("total", s).from => r \in delivered
    BY <2>1, <2>2 DEF SkipInv
  <2>6. QED
    BY <1>1, <2>4, <2>5 DEF Passed
<1>5. QED
  BY <1>3, <1>4

(* An update adds one request at most to those for all records.            *)
LEMMA SentRequest ==
  ASSUME TypeInv, Update
  PROVE  ToSet(req'["total"]) \subseteq ToSet(req["total"]) \cup {Sent("total", ActiveStream)}
<1>1. req["total"] \in Seq(Request)
  BY DEF TypeInv, TypeReq, Kind
<1>2. CASE "total" \in Kinds
  <2>1. req'["total"] = Append(req["total"], Sent("total", ActiveStream))
    BY <1>2 DEF Update, Kind
  <2>2. QED
    BY <1>1, <2>1, InAppended, Zenon
<1>3. CASE "total" \notin Kinds
  BY <1>3 DEF Update, Kind
<1>4. QED
  BY <1>2, <1>3

(* A request takes its bound from the list.                                *)
LEMMA UpdateSkip ==
  ASSUME TypeInv, SkipInv, Update
  PROVE  SkipInv'
<1>1. UNCHANGED <<db, inOrder, delivered, TotalCarRecordList>>
  BY DEF Update, serverVars, totalVars
<1>2. Passed(Sent("total", ActiveStream))
  BY SentPassed DEF TypeInv, TypePage
<1>3. \A q \in ToSet(req'["total"]) : Passed(q)
  BY <1>2, SentRequest DEF SkipInv
<1>4. \A q \in ToSet(req'["total"]) : Passed(q)'
  BY <1>1, <1>3, StaysPassed
<1>5. QED
  BY <1>1, <1>4 DEF SkipInv, Entries

(* A read gives one request its answer.                                    *)
LEMMA ReadRequest ==
  ASSUME TypeInv, Read("total"), NEW q \in ToSet(req'["total"]), q \notin ToSet(req["total"])
  PROVE  \E o \in ToSet(req["total"]) :
           /\ o \in Request /\ q.from = o.from
           /\ q.data \in Newest(Matching("total", o))
<1>1. PICK i \in 1 .. Len(req["total"]) :
        \E d \in Newest(Matching("total", req["total"][i])) :
          req' = [req EXCEPT !["total"][i].stage = "read", !["total"][i].data = d,
                             !["total"][i].count = 0]
  BY DEF Read
<1>2. PICK d \in Newest(Matching("total", req["total"][i])) :
        req' = [req EXCEPT !["total"][i].stage = "read", !["total"][i].data = d,
                           !["total"][i].count = 0]
  BY <1>1
<1> DEFINE o == req["total"][i]
           n == [o EXCEPT !.stage = "read", !.data = d, !.count = 0]
<1>3. req["total"] \in Seq(Request) /\ o \in Request /\ o \in ToSet(req["total"])
  BY DEF TypeInv, TypeReq, Kind, ToSet
<1>4. req'["total"] = [req["total"] EXCEPT ![i] = n]
  BY <1>2, <1>3 DEF TypeInv, TypeReq, Kind, Request
<1>5. n.from = o.from /\ n.data = d
  BY <1>3 DEF Request
<1> HIDE DEF n
<1>6. q = n
  BY <1>3, <1>4 DEF ToSet
<1>7. QED
  BY <1>2, <1>3, <1>5, <1>6

(* The bound of a read is inclusive: what is in the table from there up to *)
(* the newest of the answer is in the answer.                              *)
LEMMA ReadPassed ==
  ASSUME TypeInv, SkipInv, Read("total"), NEW q \in ToSet(req'["total"])
  PROVE  Passed(q)'
<1>1. UNCHANGED <<db, inOrder, delivered>>
  BY DEF Read, serverVars, totalVars
<1>2. CASE q \in ToSet(req["total"])
  BY <1>1, <1>2, StaysPassed DEF SkipInv
<1>3. CASE q \notin ToSet(req["total"])
  <2>1. PICK o \in ToSet(req["total"]) :
           /\ o \in Request /\ q.from = o.from
           /\ q.data \in Newest(Matching("total", o))
    BY <1>3, ReadRequest
  <2>2. Passed(o)
    BY <2>1 DEF SkipInv
  <2>3. ToSet(q.data) = {r \in db : InRange(r, o)}
    <3>1. ToSet(q.data) = Matching("total", o)
      BY <2>1, NewestType DEF Kind
    <3>2. QED
      BY <3>1 DEF Matching
  <2>4. ASSUME NEW r \in inOrder, NEW x \in ToSet(q.data), r.time < x.time
        PROVE  r \in delivered \cup ToSet(q.data)
    <3>1. r \in db /\ x \in db /\ x.time <= o.to
      BY <2>3 DEF SkipInv, InRange
    <3>2. r.time \in Nat /\ x.time \in Nat
      BY <3>1 DEF TypeInv, TypeServer, Record, Time
    <3>3. o.from \in Nat /\ o.to \in Nat
      BY <2>1 DEF Request, Time
    <3>4. CASE r.time < o.from
      BY <2>2, <3>4 DEF Passed
    <3>5. CASE o.from <= r.time
      BY <2>3, <2>4, <3>1, <3>2, <3>3, <3>5 DEF InRange
    <3>6. QED
      BY <3>2, <3>3, <3>4, <3>5
  <2>5. ToSet(q.data) \subseteq db
    BY <2>3
  <2>6. Passed(q)
    BY <2>1, <2>2, <2>4, <2>5 DEF Passed
  <2>7. QED
    BY <1>1, <2>6, StaysPassed
<1>4. QED
  BY <1>2, <1>3

(* An answer holds all that its bound asks for.                            *)
LEMMA ReadSkip ==
  ASSUME TypeInv, SkipInv, NEW k \in Kind, Read(k)
  PROVE  SkipInv'
<1>1. UNCHANGED <<db, inOrder, delivered, TotalCarRecordList>>
  BY DEF Read, serverVars, totalVars
<1>2. ASSUME NEW q \in ToSet(req'["total"]) PROVE Passed(q)'
  <2>1. CASE k = "total"
    BY <1>2, <2>1, ReadPassed
  <2>2. CASE k # "total"
    <3>1. req'["total"] = req["total"]
      BY <2>2 DEF Read, TypeInv, TypeReq, Kind
    <3>2. QED
      BY <1>1, <1>2, <3>1, StaysPassed DEF SkipInv
  <2>3. QED
    BY <2>1, <2>2
<1>3. QED
  BY <1>1, <1>2 DEF SkipInv, Entries

(* An answer is put before the list.                                       *)
LEMMA AnswerSkip ==
  ASSUME TypeInv, SkipInv, NEW k \in Kind, Answer(k)
  PROVE  SkipInv'
<1>1. PICK i \in 1 .. Len(req[k]) :
        /\ req[k][i].stage = "read"
        /\ req' = [req EXCEPT ![k] = RemoveAt(@, i)]
        /\ IF k = "total" THEN UpdateTotalRecords(req[k][i].data) ELSE UNCHANGED totalVars
        /\ UNCHANGED <<serverVars, updating>>
  BY DEF Answer, pageVars
<1>2. db' = db /\ inOrder' = inOrder /\ ToSet(req'["total"]) \subseteq ToSet(req["total"])
  BY <1>1, RemovedReq DEF serverVars, Kind
<1>3. /\ delivered \subseteq delivered'
      /\ Entries' \subseteq db
      /\ \A r \in inOrder, x \in Entries' : r.time < x.time => r \in delivered'
  <2>1. CASE k = "total"
    <3> DEFINE d == req["total"][i].data
    <3>1. UpdateTotalRecords(d)
      BY <1>1, <2>1
    <3>2. req["total"][i] \in Request /\ req["total"][i] \in ToSet(req["total"])
      BY <2>1 DEF TypeInv, TypeReq, Kind, ToSet
    <3>3. /\ ToSet(d) \subseteq db
          /\ \A r \in inOrder, x \in ToSet(d) : r.time < x.time => r \in delivered \cup ToSet(d)
      BY <1>1, <2>1, <3>2 DEF SkipInv, Passed
    <3>4. d \in Seq(Record) /\ TotalCarRecordList \in Seq(Record)
      BY <3>2 DEF Request, TypeInv, TypeLists
    <3> HIDE DEF d
    <3>5. Entries' \subseteq ToSet(d) \cup Entries
      <4>1. d \o TotalCarRecordList \in Seq(Record)
        BY <3>4, InConcat
      <4>2. ToSet(d \o TotalCarRecordList) = ToSet(d) \cup ToSet(TotalCarRecordList)
        BY <3>4, InConcat
      <4>3. ToSet(Capped(d \o TotalCarRecordList)) \subseteq ToSet(d \o TotalCarRecordList)
        BY <4>1, InCapped
      <4>4. TotalCarRecordList' = Capped(d \o TotalCarRecordList)
        BY <3>1 DEF UpdateTotalRecords
      <4>5. QED
        BY <4>2, <4>3, <4>4 DEF Entries
    <3>6. delivered' = delivered \cup ToSet(d)
      BY <3>1 DEF UpdateTotalRecords
    <3>7. QED
      BY <3>3, <3>5, <3>6 DEF SkipInv
  <2>2. CASE k # "total"
    BY <1>1, <2>2 DEF SkipInv, Entries, totalVars
  <2>3. QED
    BY <2>1, <2>2
<1>4. \A q \in ToSet(req'["total"]) : Passed(q)'
  BY <1>2, <1>3, StaysPassed DEF SkipInv
<1>5. QED
  BY <1>2, <1>3, <1>4 DEF SkipInv

(* A failure changes no list.                                              *)
LEMMA FailSkip ==
  ASSUME TypeInv, SkipInv, NEW k \in Kind, Fail(k)
  PROVE  SkipInv'
<1>1. UNCHANGED <<db, inOrder, delivered, TotalCarRecordList, updating>>
  BY DEF Fail, serverVars, totalVars, pageVars
<1>2. PICK i \in 1 .. Len(req[k]) : req' = [req EXCEPT ![k] = RemoveAt(@, i)]
  BY DEF Fail
<1>3. ToSet(req'["total"]) \subseteq ToSet(req["total"])
  BY <1>1, <1>2, RemovedReq DEF Kind
<1>4. \A q \in ToSet(req'["total"]) : Passed(q)'
  BY <1>1, <1>3, StaysPassed DEF SkipInv
<1>5. QED
  BY <1>1, <1>4 DEF SkipInv, Entries

(* Nothing is skipped by any step.                                         *)
LEMMA SkipNext == TypeInv /\ SkipInv /\ [Next]_vars => SkipInv'
<1> SUFFICES ASSUME TypeInv, SkipInv, [Next]_vars PROVE SkipInv'
  OBVIOUS
<1>1. ASSUME UNCHANGED <<db, inOrder, delivered, TotalCarRecordList>>,
             req'["total"] = req["total"]
      PROVE  SkipInv'
  BY <1>1 DEF SkipInv, Entries, Passed
<1>2. CASE Tick \/ Stamp
  BY <1>1, <1>2 DEF Tick, Stamp, totalVars
<1>3. CASE \E r \in pending : Insert(r)
  BY <1>3, InsertSkip
<1>4. CASE VideoListLoaded \/ \E s \in Streams : SetActiveStream(s)
  <2>1. UNCHANGED <<db, inOrder, delivered, TotalCarRecordList>>
    BY <1>4 DEF VideoListLoaded, SetActiveStream, serverVars, totalVars
  <2>2. req'["total"] = req["total"]
    BY <1>4 DEF VideoListLoaded, SetActiveStream, TypeInv, TypeReq, Kind
  <2>3. QED
    BY <1>1, <2>1, <2>2
<1>5. CASE Update
  BY <1>5, UpdateSkip
<1>6. CASE \E k \in Kind : Read(k) \/ Answer(k) \/ Fail(k)
  BY <1>6, ReadSkip, AnswerSkip, FailSkip
<1>7. CASE UNCHANGED vars
  BY <1>1, <1>7 DEF vars, serverVars, totalVars
<1>8. QED
  BY <1>2, <1>3, <1>4, <1>5, <1>6, <1>7 DEF Next

(* However many polls are under way, whatever is lost and in whatever      *)
(* order the answers come: a record that was inserted before every later   *)
(* one has been delivered when the list shows a later one.                 *)
THEOREM NoRecordSkipped == Spec => []NoneSkipped
<1>1. SkipInv /\ TypeInv => NoneSkipped
  BY DEF SkipInv, NoneSkipped, Entries, ToSet, TypeInv, TypeLists
<1>2. QED
  BY <1>1, TypeInit, TypeNext, SkipInit, SkipNext, PTL DEF Spec

-----------------------------------------------------------------------------
(* One poll at a time: then a request goes on from the head of the list as *)
(* it is when the answer is handled, and the list stays sorted.            *)

Sorted(list) == \A i, j \in 1 .. Len(list) : i < j => list[i].time >= list[j].time

Continues(q) ==
  /\ q.from = FirstTime(TotalCarRecordList)
  /\ q.stage = "read" =>
       /\ Sorted(q.data)
       /\ \A j \in 1 .. Len(q.data) : q.data[j].time >= q.from

OrderInv ==
  /\ Sorted(TotalCarRecordList)
  /\ \A q \in ToSet(req["total"]) : Continues(q)

(* Sorted records in front of sorted records none of which is later.       *)
LEMMA SortedParts ==
  ASSUME NEW a, NEW b, NEW c, NEW n \in Nat, NEW m \in Nat,
         \A i \in 1 .. n : c[i] = a[i],
         \A i \in 1 .. m : c[n + i] = b[i],
         \A i, j \in 1 .. n : i < j => a[i].time >= a[j].time,
         \A i, j \in 1 .. m : i < j => b[i].time >= b[j].time,
         \A i \in 1 .. n, j \in 1 .. m : a[i].time >= b[j].time
  PROVE  \A i, j \in 1 .. n + m : i < j => c[i].time >= c[j].time
<1>1. SUFFICES ASSUME NEW i \in 1 .. n + m, NEW j \in 1 .. n + m, i < j
               PROVE  c[i].time >= c[j].time
  OBVIOUS
<1>2. ASSUME NEW k \in 1 .. n + m, k > n
      PROVE  k - n \in 1 .. m /\ c[k] = b[k - n]
  <2>1. k - n \in 1 .. m /\ n + (k - n) = k
    BY <1>2
  <2>2. c[n + (k - n)] = b[k - n]
    BY <2>1
  <2>3. QED
    BY <2>1, <2>2
<1>3. CASE j <= n
  <2>1. i \in 1 .. n /\ j \in 1 .. n
    BY <1>1, <1>3
  <2>2. QED
    BY <1>1, <2>1
<1>4. CASE i > n
  <2>1. j > n /\ i - n < j - n
    BY <1>1, <1>4
  <2>2. QED
    BY <1>2, <1>4, <2>1
<1>5. CASE i <= n /\ j > n
  <2>1. i \in 1 .. n
    BY <1>5
  <2>2. QED
    BY <1>2, <1>5, <2>1
<1>6. QED
  BY <1>1, <1>3, <1>4, <1>5

(* Two sorted lists, one after the other.                                  *)
LEMMA SortedConcat ==
  ASSUME NEW a \in Seq(Record), NEW b \in Seq(Record), Sorted(a), Sorted(b),
         \A j \in 1 .. Len(a) : a[j].time >= FirstTime(b)
  PROVE  Sorted(Capped(a \o b))
<1>1. \A x \in Record : x.time \in Nat
  BY DEF Record, Time
<1>2. ASSUME NEW i \in 1 .. Len(a), NEW j \in 1 .. Len(b)
      PROVE  a[i].time >= b[j].time
  <2>1. /\ a[i].time \in Nat /\ b[1].time \in Nat /\ b[j].time \in Nat
        /\ b # <<>> /\ 1 \in 1 .. Len(b)
    BY <1>1
  <2>2. a[i].time >= b[1].time
    BY <2>1 DEF FirstTime
  <2>3. j = 1 \/ 1 < j
    OBVIOUS
  <2>4. b[1].time >= b[j].time
    BY <2>1, <2>3 DEF Sorted
  <2>5. QED
    BY <2>1, <2>2, <2>4
<1>3. /\ a \o b \in Seq(Record) /\ Len(a) \in Nat /\ Len(b) \in Nat
      /\ Len(a \o b) = Len(a) + Len(b)
      /\ \A i \in 1 .. Len(a) : (a \o b)[i] = a[i]
      /\ \A i \in 1 .. Len(b) : (a \o b)[Len(a) + i] = b[i]
  BY ConcatAt
<1>4. \A i, j \in 1 .. Len(a) + Len(b) : i < j => (a \o b)[i].time >= (a \o b)[j].time
  BY <1>2, <1>3, SortedParts DEF Sorted
<1>5. /\ Capped(a \o b) \in Seq(Record) /\ Len(Capped(a \o b)) <= Len(a \o b)
      /\ \A i \in 1 .. Len(Capped(a \o b)) : Capped(a \o b)[i] = (a \o b)[i]
  BY <1>3, InCapped
<1>6. QED
  <2>1. Len(Capped(a \o b)) \in Nat
    BY <1>5, LenProperties
  <2>2. 1 .. Len(Capped(a \o b)) \subseteq 1 .. Len(a) + Len(b)
    BY <1>3, <1>5, <2>1
  <2>3. QED
    BY <1>4, <1>5, <2>2 DEF Sorted

(* The empty list is sorted.                                               *)
LEMMA OrderInit == Init => OrderInv
<1> SUFFICES ASSUME Init PROVE OrderInv
  OBVIOUS
<1>1. TotalCarRecordList = <<>> /\ ToSet(req["total"]) = {}
  BY DEF Init, ToSet, Kind
<1>2. QED
  BY <1>1 DEF OrderInv, Sorted

(* The answer to the only request under way keeps the list sorted, and     *)
(* leaves no request.                                                      *)
LEMMA AnswerOrder ==
  ASSUME InFlight = 1, TypeInv, OrderInv, Answer("total")
  PROVE  OrderInv'
<1>1. PICK i \in 1 .. Len(req["total"]) :
        /\ req["total"][i].stage = "read"
        /\ req' = [req EXCEPT !["total"] = RemoveAt(@, i)]
        /\ UpdateTotalRecords(req["total"][i].data)
        /\ UNCHANGED updating
  BY DEF Answer, pageVars
<1> DEFINE q == req["total"][i]
<1>2. /\ req["total"] \in Seq(Request) /\ Len(req["total"]) <= 1
      /\ q \in Request /\ q \in ToSet(req["total"])
  BY DEF TypeInv, TypeReq, Kind, ToSet
<1>3. Continues(q) /\ q.stage = "read" /\ q.data \in Seq(Record)
  BY <1>1, <1>2 DEF OrderInv, Request
<1>4. TotalCarRecordList' = Capped(q.data \o TotalCarRecordList)
  BY <1>1 DEF UpdateTotalRecords
<1> HIDE DEF q
<1>5. Sorted(TotalCarRecordList')
  BY <1>3, <1>4, SortedConcat DEF Continues, OrderInv, TypeInv, TypeLists
<1>6. ToSet(req'["total"]) = {}
  <2>1. Len(RemoveAt(req["total"], i)) = Len(req["total"]) - 1
    BY <1>2, InRemoved
  <2>2. RemoveAt(req["total"], i) \in Seq(Request)
    BY <1>2, InRemoved
  <2>3. Len(RemoveAt(req["total"], i)) = 0
    <3>1. \A n \in Nat : n <= 1 /\ i \in 1 .. n => n - 1 = 0
      OBVIOUS
    <3>2. Len(req["total"]) \in Nat
      BY <1>2, LenProperties
    <3>3. QED
      BY <1>2, <2>1, <3>1, <3>2
  <2>4. req'["total"] = RemoveAt(req["total"], i)
    BY <1>1 DEF TypeInv, TypeReq, Kind
  <2>5. QED
    BY <2>2, <2>3, <2>4 DEF ToSet
<1>7. QED
  BY <1>5, <1>6 DEF OrderInv, Sorted

(* An answer is sorted, and newer than the list.                           *)
LEMMA ReadOrder ==
  ASSUME TypeInv, OrderInv, Read("total")
  PROVE  OrderInv'
<1>1. UNCHANGED TotalCarRecordList
  BY DEF Read, totalVars
<1>2. ASSUME NEW q \in ToSet(req'["total"]) PROVE Continues(q)
  <2>1. CASE q \in ToSet(req["total"])
    BY <2>1 DEF OrderInv
  <2>2. CASE q \notin ToSet(req["total"])
    <3>1. PICK o \in ToSet(req["total"]) :
             /\ o \in Request /\ q.from = o.from
             /\ q.data \in Newest(Matching("total", o))
      BY <2>2, ReadRequest
    <3>2. /\ q.data \in Seq(Record) /\ Sorted(q.data)
          /\ ToSet(q.data) = Matching("total", o)
      BY <3>1, NewestType DEF Kind, Sorted
    <3>3. ASSUME NEW j \in 1 .. Len(q.data) PROVE q.data[j].time >= q.from
      <4>1. q.data[j] \in Matching("total", o) /\ q.data[j] \in Record
        BY <3>2 DEF ToSet
      <4>2. o.from <= q.data[j].time
        BY <4>1 DEF Matching, InRange
      <4>3. q.data[j].time \in Nat /\ o.from \in Nat
        BY <3>1, <4>1 DEF Record, Request, Time
      <4>4. QED
        BY <3>1, <4>2, <4>3
    <3>4. QED
      BY <3>1, <3>2, <3>3 DEF OrderInv, Continues
  <2>3. QED
    BY <2>1, <2>2
<1>3. QED
  BY <1>1, <1>2 DEF OrderInv, Continues, Sorted

(* The list stays sorted with one request at a time.                       *)
LEMMA OrderNext == InFlight = 1 /\ TypeInv /\ OrderInv /\ [Next]_vars => OrderInv'
<1> SUFFICES ASSUME InFlight = 1, TypeInv, OrderInv, [Next]_vars PROVE OrderInv'
  OBVIOUS
<1>1. ASSUME UNCHANGED TotalCarRecordList, \A q \in ToSet(req'["total"]) : Continues(q)
      PROVE  OrderInv'
  BY <1>1 DEF OrderInv, Continues, Sorted
<1>2. ASSUME UNCHANGED TotalCarRecordList, ToSet(req'["total"]) \subseteq ToSet(req["total"])
      PROVE  OrderInv'
  BY <1>1, <1>2 DEF OrderInv
<1>3. CASE Tick \/ Stamp \/ \E r \in pending : Insert(r)
  BY <1>2, <1>3 DEF Tick, Stamp, Insert, totalVars
<1>4. CASE VideoListLoaded \/ \E s \in Streams : SetActiveStream(s)
  <2>1. UNCHANGED TotalCarRecordList
    BY <1>4 DEF VideoListLoaded, SetActiveStream, totalVars
  <2>2. req'["total"] = req["total"]
    BY <1>4 DEF VideoListLoaded, SetActiveStream, TypeInv, TypeReq, Kind
  <2>3. QED
    BY <1>2, <2>1, <2>2
<1>5. CASE Update
  <2>1. UNCHANGED TotalCarRecordList
    BY <1>5 DEF Update, totalVars
  <2>2. Continues(Sent("total", ActiveStream))
    BY DEF Continues, Sent, From
  <2>3. QED
    BY <1>1, <1>5, <2>1, <2>2, SentRequest DEF OrderInv
<1>6. ASSUME NEW k \in Kind, Read(k) \/ Answer(k)
      PROVE  OrderInv'
  <2>1. CASE k = "total"
    BY <1>6, <2>1, ReadOrder, AnswerOrder
  <2>2. CASE k # "total"
    <3>1. UNCHANGED TotalCarRecordList
      <4>1. CASE Read(k)
        BY <4>1 DEF Read, totalVars
      <4>2. CASE Answer(k)
        BY <2>2, <4>2 DEF Answer, totalVars
      <4>3. QED
        BY <1>6, <4>1, <4>2
    <3>2. req'["total"] = req["total"]
      <4>1. req \in [Kind -> Seq(Request)] /\ "total" \in Kind
        BY DEF TypeInv, TypeReq, Kind
      <4>2. CASE Read(k)
        BY <2>2, <4>1, <4>2 DEF Read
      <4>3. CASE Answer(k)
        BY <2>2, <4>1, <4>3 DEF Answer
      <4>4. QED
        BY <1>6, <4>2, <4>3
    <3>3. ToSet(req'["total"]) \subseteq ToSet(req["total"])
      BY <3>2
    <3>4. QED
      BY <1>2, <3>1, <3>3
  <2>3. QED
    BY <2>1, <2>2
<1>7. ASSUME NEW k \in Kind, Fail(k)
      PROVE  OrderInv'
  <2>1. UNCHANGED <<TotalCarRecordList, updating>>
    BY <1>7 DEF Fail, totalVars, pageVars
  <2>2. PICK i \in 1 .. Len(req[k]) : req' = [req EXCEPT ![k] = RemoveAt(@, i)]
    BY <1>7 DEF Fail
  <2>3. ToSet(req'["total"]) \subseteq ToSet(req["total"])
    BY <2>1, <2>2, RemovedReq DEF Kind
  <2>4. QED
    BY <1>2, <2>1, <2>3
<1>8. CASE UNCHANGED vars
  BY <1>2, <1>8 DEF vars, totalVars
<1>9. QED
  BY <1>3, <1>4, <1>5, <1>6, <1>7, <1>8 DEF Next

(* With one poll under way at a time the list of all records is sorted,    *)
(* newest first; with two it is not (run store_overlap).                   *)
THEOREM SortedOneAtATime ==
  ASSUME InFlight = 1
  PROVE  Spec => []NewestFirst
<1>1. OrderInv => NewestFirst
  BY DEF OrderInv, Sorted, NewestFirst
<1>2. TypeInv /\ OrderInv /\ [Next]_vars => OrderInv'
  BY OrderNext
<1>3. QED
  BY <1>1, <1>2, TypeInit, TypeNext, OrderInit, PTL DEF Spec

-----------------------------------------------------------------------------
(* The list of exceptions.                                                 *)

(* A prefix, element by element.                                           *)
LEMMA Prefix ==
  ASSUME NEW S, NEW a \in Seq(S), NEW b \in Seq(S)
  PROVE  IsPrefix(a, b) <=> Len(a) <= Len(b) /\ \A i \in 1 .. Len(a) : a[i] = b[i]
<1> SUFFICES ASSUME Len(a) <= Len(b)
             PROVE  SubSeq(a, 1, Len(a)) = SubSeq(b, 1, Len(a)) <=> \A i \in 1 .. Len(a) : a[i] = b[i]
  BY DEF IsPrefix
<1>1. /\ SubSeq(a, 1, Len(a)) \in Seq(S) /\ SubSeq(b, 1, Len(a)) \in Seq(S)
      /\ Len(SubSeq(a, 1, Len(a))) = Len(a) /\ Len(SubSeq(b, 1, Len(a))) = Len(a)
  OBVIOUS
<1>2. \A i \in 1 .. Len(a) : SubSeq(a, 1, Len(a))[i] = a[i] /\ SubSeq(b, 1, Len(a))[i] = b[i]
  OBVIOUS
<1>3. SubSeq(a, 1, Len(a)) = SubSeq(b, 1, Len(a))
        <=> \A i \in 1 .. Len(a) : SubSeq(a, 1, Len(a))[i] = SubSeq(b, 1, Len(a))[i]
  BY <1>1, SeqEqual
<1> QED
  BY <1>2, <1>3

(* The filter of what a cut leaves is what the filter begins with.         *)
LEMMA ExceptionsCapped ==
  ASSUME NEW list \in Seq(Record)
  PROVE  IsPrefix(Exceptions(Capped(list)), Exceptions(list))
<1> DEFINE n == IF Len(list) <= MAX_RECORDS_SIZE THEN Len(list) ELSE MAX_RECORDS_SIZE
           a == SubSeq(list, 1, n)
           b == SubSeq(list, n + 1, Len(list))
<1>1. n \in 0 .. Len(list) /\ Capped(list) = a
  BY StoreAssumption DEF Capped
<1>2. a \in Seq(Record) /\ b \in Seq(Record) /\ list = a \o b
  <2> HIDE DEF n
  <2>1. /\ a \in Seq(Record) /\ Len(a) = n /\ \A i \in 1 .. n : a[i] = list[i]
        /\ b \in Seq(Record) /\ Len(b) = Len(list) - n
        /\ \A i \in 1 .. Len(list) - n : b[i] = list[n + i]
    BY <1>1
  <2> HIDE DEF a, b
  <2>2. /\ a \o b \in Seq(Record) /\ Len(a \o b) = Len(list)
        /\ \A i \in 1 .. n : (a \o b)[i] = a[i]
        /\ \A i \in 1 .. Len(list) - n : (a \o b)[n + i] = b[i]
    BY <1>1, <2>1, ConcatAt
  <2>3. ASSUME NEW i \in 1 .. Len(list) PROVE (a \o b)[i] = list[i]
    <3>0. n \in Nat /\ Len(list) \in Nat
      BY <1>1
    <3>1. CASE i <= n
      BY <2>1, <2>2, <3>0, <3>1
    <3>2. CASE i > n
      <4> DEFINE j == i - n
      <4>1. j \in 1 .. Len(list) - n /\ n + j = i
        BY <3>0, <3>2
      <4> HIDE DEF j
      <4>2. (a \o b)[n + j] = b[j] /\ b[j] = list[n + j]
        BY <2>1, <2>2, <4>1, Zenon
      <4> QED
        BY <4>1, <4>2, Zenon
    <3>3. i <= n \/ i > n
      BY <3>0
    <3> QED
      BY <3>1, <3>2, <3>3, Zenon
  <2>4. list = a \o b
    BY <2>2, <2>3, SeqEqual
  <2> QED
    BY <2>1, <2>4
<1> HIDE DEF a, b
<1>3. Exceptions(list) = Exceptions(a) \o Exceptions(b)
  BY <1>2, ExceptionsConcat
<1>4. Exceptions(a) \in Seq(Record) /\ Exceptions(b) \in Seq(Record)
  BY <1>2, ExceptionsType
<1>5. /\ Exceptions(a) \o Exceptions(b) \in Seq(Record)
      /\ Len(Exceptions(a)) <= Len(Exceptions(a) \o Exceptions(b))
      /\ \A i \in 1 .. Len(Exceptions(a)) : (Exceptions(a) \o Exceptions(b))[i] = Exceptions(a)[i]
  BY <1>4, ConcatAt
<1> QED
  BY <1>1, <1>3, <1>4, <1>5, Prefix

AgreeInv == TypeExceptions /\ ExceptionsAgree

(* An answer: the exceptions it brings are the first of both, and the cut  *)
(* of the longer list leaves no exception that the other cut takes.        *)
LEMMA AnswerAgree ==
  ASSUME TypeInv, AgreeInv, NEW data \in Seq(Record), UpdateTotalRecords(data)
  PROVE  AgreeInv'
<1> DEFINE T == TotalCarRecordList
           E == TotalCarExceptionsRecordList
           X == Exceptions(data)
<1>1. T \in Seq(Record) /\ E \in Seq(Record)
  BY DEF TypeInv, TypeLists, AgreeInv, TypeExceptions
<1>2. T' = Capped(data \o T) /\ E' = Capped(X \o E)
  BY DEF UpdateTotalRecords
<1>3. X \in Seq(Record) /\ Exceptions(T) \in Seq(Record) /\ Exceptions(data \o T) = X \o Exceptions(T)
  BY <1>1, ExceptionsType, ExceptionsConcat
<1>4. Len(Exceptions(T)) <= Len(E) /\ \A i \in 1 .. Len(Exceptions(T)) : Exceptions(T)[i] = E[i]
  BY <1>1, <1>3, Prefix DEF AgreeInv, ExceptionsAgree
<1> HIDE DEF T, E, X
<1>5. data \o T \in Seq(Record) /\ X \o E \in Seq(Record) /\ X \o Exceptions(T) \in Seq(Record)
  BY <1>1, <1>3, ConcatAt
<1>6. /\ Len(X \o Exceptions(T)) <= Len(X \o E)
      /\ \A i \in 1 .. Len(X \o Exceptions(T)) : (X \o Exceptions(T))[i] = (X \o E)[i]
  <2>1. /\ Len(X) \in Nat /\ Len(E) \in Nat /\ Len(Exceptions(T)) \in Nat
        /\ Len(X \o E) = Len(X) + Len(E) /\ Len(X \o Exceptions(T)) = Len(X) + Len(Exceptions(T))
    BY <1>1, <1>3, ConcatAt
  <2>2. ASSUME NEW i \in 1 .. Len(X) + Len(Exceptions(T))
        PROVE  (X \o Exceptions(T))[i] = (X \o E)[i]
    <3>1. CASE i \in 1 .. Len(X)
      BY <1>1, <1>3, <3>1, ConcatAt
    <3>2. CASE i \notin 1 .. Len(X)
      <4>1. i - Len(X) \in 1 .. Len(Exceptions(T)) /\ i - Len(X) \in 1 .. Len(E)
            /\ Len(X) + (i - Len(X)) = i
        BY <1>4, <2>1, <3>2
      <4>2. (X \o Exceptions(T))[i] = Exceptions(T)[i - Len(X)] /\ (X \o E)[i] = E[i - Len(X)]
        BY <1>1, <1>3, <4>1, ConcatAt
      <4> QED
        BY <1>4, <4>1, <4>2
    <3> QED
      BY <3>1, <3>2
  <2> QED
    BY <1>4, <2>1, <2>2
<1>7. /\ E' \in Seq(Record) /\ Len(E') <= MAX_RECORDS_SIZE
      /\ T' \in Seq(Record) /\ Len(T') <= MAX_RECORDS_SIZE
  BY <1>2, <1>5, InCapped
<1>8. Exceptions(T') \in Seq(Record) /\ Len(Exceptions(T')) <= MAX_RECORDS_SIZE
  <2>1. /\ Exceptions(T') \in Seq(Record) /\ Len(Exceptions(T')) <= Len(T')
        /\ Len(T') \in Nat /\ Len(Exceptions(T')) \in Nat
    BY <1>7, ExceptionsType
  <2> QED
    BY <1>7, <2>1, StoreAssumption
<1>9. /\ Len(Exceptions(T')) <= Len(X \o Exceptions(T))
      /\ \A i \in 1 .. Len(Exceptions(T')) : Exceptions(T')[i] = (X \o Exceptions(T))[i]
  <2>1. IsPrefix(Exceptions(T'), X \o Exceptions(T))
    BY <1>2, <1>3, <1>5, ExceptionsCapped
  <2>2. Exceptions(T') \in Seq(Record) /\ X \o Exceptions(T) \in Seq(Record)
    BY <1>5, <1>8
  <2> DEFINE V == Exceptions(T')
             W == X \o Exceptions(T)
  <2>3. V \in Seq(Record) /\ W \in Seq(Record) /\ IsPrefix(V, W)
    BY <2>1, <2>2
  <2> HIDE DEF V, W
  <2>4. Len(V) <= Len(W) /\ \A i \in 1 .. Len(V) : V[i] = W[i]
    BY <2>3, Prefix
  <2> QED
    BY <2>4 DEF V, W
<1>10. Len(Exceptions(T')) <= Len(E')
  <2>1. /\ Len(Exceptions(T')) \in Nat /\ Len(X \o Exceptions(T)) \in Nat /\ Len(X \o E) \in Nat
    BY <1>5, <1>8
  <2>2. Len(E') = IF Len(X \o E) <= MAX_RECORDS_SIZE THEN Len(X \o E) ELSE MAX_RECORDS_SIZE
    BY <1>2, <1>5, StoreAssumption DEF Capped
  <2> QED
    BY <1>6, <1>8, <1>9, <2>1, <2>2
<1>11. \A i \in 1 .. Len(E') : E'[i] = (X \o E)[i]
  BY <1>2, <1>5, InCapped
<1>12. \A i \in 1 .. Len(Exceptions(T')) : Exceptions(T')[i] = E'[i]
  <2> TAKE i \in 1 .. Len(Exceptions(T'))
  <2>1. i \in 1 .. Len(X \o Exceptions(T)) /\ i \in 1 .. Len(E')
    BY <1>5, <1>7, <1>8, <1>9, <1>10
  <2> QED
    BY <1>6, <1>9, <1>11, <2>1
<1>13. IsPrefix(Exceptions(T'), E')
  BY <1>7, <1>8, <1>10, <1>12, Prefix
<1> QED
  BY <1>7, <1>13 DEF AgreeInv, TypeExceptions, ExceptionsAgree, T, E

LEMMA AgreeNext == TypeInv /\ AgreeInv /\ [Next]_vars => AgreeInv'
<1> SUFFICES ASSUME TypeInv, AgreeInv, [Next]_vars PROVE AgreeInv'
  OBVIOUS
<1>1. ASSUME UNCHANGED <<TotalCarRecordList, TotalCarExceptionsRecordList>> PROVE AgreeInv'
  BY <1>1, Zenon DEF AgreeInv, TypeExceptions, ExceptionsAgree
<1>2. CASE Tick \/ Stamp \/ (\E r \in pending : Insert(r)) \/ VideoListLoaded
             \/ (\E s \in Streams : SetActiveStream(s)) \/ Update \/ UNCHANGED vars
  <2>1. UNCHANGED <<TotalCarRecordList, TotalCarExceptionsRecordList>>
    BY <1>2 DEF Tick, Stamp, Insert, VideoListLoaded, SetActiveStream, Update, vars, totalVars
  <2> QED
    BY <1>1, <2>1
<1>3. ASSUME NEW k \in Kind, Read(k) \/ Fail(k) PROVE AgreeInv'
  <2>1. UNCHANGED <<TotalCarRecordList, TotalCarExceptionsRecordList>>
    BY <1>3, Zenon DEF Read, Fail, totalVars
  <2> QED
    BY <1>1, <2>1, Zenon
<1>4. ASSUME NEW k \in Kind, Answer(k) PROVE AgreeInv'
  <2>1. PICK i \in 1 .. Len(req[k]) :
          IF k = "total" THEN UpdateTotalRecords(req[k][i].data) ELSE UNCHANGED totalVars
    BY <1>4, Zenon DEF Answer
  <2>2. req[k][i].data \in Seq(Record)
    <3>1. req[k] \in Seq(Request)
      BY DEF TypeInv, TypeReq
    <3>2. req[k][i] \in Request
      BY <3>1
    <3> QED
      BY <3>2 DEF Request
  <2>3. CASE k = "total"
    BY <2>1, <2>2, <2>3, AnswerAgree
  <2>4. CASE k # "total"
    BY <1>1, <2>1, <2>4 DEF totalVars
  <2> QED
    BY <2>3, <2>4
<1> QED
  BY <1>2, <1>3, <1>4 DEF Next

LEMMA AgreeInit == Init => AgreeInv
<1> SUFFICES ASSUME Init PROVE AgreeInv
  OBVIOUS
<1>1. <<>> \in Seq(Record) /\ Len(<<>>) = 0
  OBVIOUS
<1>2. Exceptions(<<>>) = <<>>
  BY <1>1, KeptAt
<1>3. IsPrefix(<<>>, <<>>)
  BY <1>1 DEF IsPrefix
<1>4. TotalCarRecordList = <<>> /\ TotalCarExceptionsRecordList = <<>> /\ 0 <= MAX_RECORDS_SIZE
  BY StoreAssumption DEF Init
<1> QED
  BY <1>1, <1>2, <1>3, <1>4 DEF AgreeInv, TypeExceptions, ExceptionsAgree

(* Whatever the polls bring, in whatever order and however often the same, *)
(* the list of exceptions begins with the exceptions of the list of all    *)
(* records, although the two are cut independently.                        *)
THEOREM ExceptionsAlwaysAgree == Spec => []ExceptionsAgree
<1>1. AgreeInv => ExceptionsAgree
  BY DEF AgreeInv
<1> QED
  BY <1>1, TypeInit, TypeNext, AgreeInit, AgreeNext, PTL DEF Spec

(* Every variable keeps its type, the lists their maximum.                 *)
THEOREM TypeCorrect == Spec => []TypeOK
<1>1. TypeInv /\ AgreeInv => TypeOK
  BY DEF TypeInv, AgreeInv, TypeOK
<1> QED
  BY <1>1, TypeInit, TypeNext, AgreeInit, AgreeNext, PTL DEF Spec

=============================================================================
