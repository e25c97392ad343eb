----------------------- MODULE RoomListPipelineProofs ----------------------
(***************************************************************************)
(* Theorems about the room list pipeline, for any rooms, infos, diffs and  *)
(* bounds. In order:                                                       *)
(*   1. the operators on sequences that the specifications use;            *)
(*   2. type correctness, with the lengths that keep indices in range;     *)
(*   3. a joined room of the frontend has its details;                     *)
(*   4. the status, the queue and the displayed lists of the RoomsList;    *)
(*   5. the frontend converges to the rooms that have details;             *)
(*   6. all_known_rooms is the service's vector, and what follows for the  *)
(*      rooms that are torn down;                                          *)
(*   7. the order diffs add up to what the service did;                    *)
(*   8. the frontend shows the data that all_known_rooms has;              *)
(*   9. the lists of joined rooms hold joined rooms.                       *)
(***************************************************************************)
EXTENDS RoomListPipeline, FiniteSetTheorems, SequenceTheorems, WellFoundedInduction, TLAPS

(***************************************************************************)
(* 1. What the operators on sequences return: the counterparts of the      *)
(* operations of imbl's Vector and of VecDeque.                            *)
(***************************************************************************)

(* A slice of a sequence over S is one, of the expected length. *)
LEMMA SubSeqType ==
    ASSUME NEW S, NEW s \in Seq(S), NEW m \in Nat \ {0}, NEW n \in Nat, n <= Len(s)
    PROVE  /\ SubSeq(s, m, n) \in Seq(S)
           /\ Len(SubSeq(s, m, n)) = IF m <= n THEN n - m + 1 ELSE 0
<1>1. m \in Int /\ n \in Int
  OBVIOUS
<1>2. \A i \in m..n : s[i] \in S
  OBVIOUS
<1> QED BY ONLY <1>1, <1>2, SubSeqProperties

(* InsertAt (eyeball Vector::insert) stays within the type and adds one    *)
(* element.                                                                *)
LEMMA InsertAtType ==
    ASSUME NEW S, NEW s \in Seq(S), NEW i \in 1..Len(s) + 1, NEW e \in S
    PROVE  /\ InsertAt(s, i, e) \in Seq(S)
           /\ Len(InsertAt(s, i, e)) = Len(s) + 1
<1> DEFINE a == SubSeq(s, 1, i - 1)
           b == SubSeq(s, i, Len(s))
<1>1. a \in Seq(S) /\ Len(a) = i - 1
  BY SubSeqType, i - 1 \in Nat, i - 1 <= Len(s), 1 \in Nat \ {0}
<1>2. b \in Seq(S) /\ Len(b) = Len(s) - i + 1
  BY SubSeqType, i \in Nat \ {0}, Len(s) \in Nat
<1>3. <<e>> \in Seq(S) /\ Len(<<e>>) = 1
  OBVIOUS
<1>0. Len(s) \in Nat
  OBVIOUS
<1> HIDE DEF a, b
<1>4. a \o <<e>> \in Seq(S) /\ Len(a \o <<e>>) = i
  BY <1>1, <1>3, ConcatProperties
<1>5. a \o <<e>> \o b \in Seq(S) /\ Len(a \o <<e>> \o b) = Len(s) + 1
  <2>1. /\ a \o <<e>> \o b \in Seq(S)
        /\ Len(a \o <<e>> \o b) = Len(a \o <<e>>) + Len(b)
    BY ONLY <1>2, <1>4, ConcatProperties
  <2> QED BY <1>0, <1>2, <1>4, <2>1
<1> QED BY <1>5 DEF InsertAt, a, b

(* RemoveAt (Vector::remove) stays within the type and removes one         *)
(* element.                                                                *)
LEMMA RemoveAtType ==
    ASSUME NEW S, NEW s \in Seq(S), NEW i \in 1..Len(s)
    PROVE  /\ RemoveAt(s, i) \in Seq(S)
           /\ Len(RemoveAt(s, i)) = Len(s) - 1
<1> DEFINE a == SubSeq(s, 1, i - 1)
           b == SubSeq(s, i + 1, Len(s))
<1>1. a \in Seq(S) /\ Len(a) = i - 1
  BY SubSeqType, i - 1 \in Nat, i - 1 <= Len(s), 1 \in Nat \ {0}
<1>2. b \in Seq(S) /\ Len(b) = Len(s) - i
  BY SubSeqType, i + 1 \in Nat \ {0}, Len(s) \in Nat
<1>0. Len(s) \in Nat
  OBVIOUS
<1> HIDE DEF a, b
<1>3. a \o b \in Seq(S) /\ Len(a \o b) = Len(s) - 1
  <2>1. a \o b \in Seq(S) /\ Len(a \o b) = Len(a) + Len(b)
    BY ONLY <1>1, <1>2, ConcatProperties
  <2> QED BY <1>0, <1>1, <1>2, <2>1
<1> QED BY <1>3 DEF RemoveAt, a, b

(* ReplaceAt (Vector::set) stays within the type and keeps the length. *)
LEMMA ReplaceAtType ==
    ASSUME NEW S, NEW s \in Seq(S), NEW i \in 1..Len(s), NEW e \in S
    PROVE  /\ ReplaceAt(s, i, e) \in Seq(S)
           /\ Len(ReplaceAt(s, i, e)) = Len(s)
BY DEF ReplaceAt

(* Front and Last (Vector::pop_back) of a sequence that is not empty. *)
LEMMA FrontType ==
    ASSUME NEW S, NEW s \in Seq(S), s # <<>>
    PROVE  /\ Front(s) \in Seq(S)
           /\ Len(Front(s)) = Len(s) - 1
           /\ Last(s) \in S
<1>1. Len(s) \in Nat \ {0}
  BY EmptySeq
<1>2. Front(s) \in Seq(S) /\ Len(Front(s)) = Len(s) - 1
  <2> DEFINE n == Len(s) - 1
  <2>1. n \in Nat /\ n <= Len(s)
    BY <1>1
  <2> HIDE DEF n
  <2>2. /\ SubSeq(s, 1, n) \in Seq(S)
        /\ Len(SubSeq(s, 1, n)) = IF 1 <= n THEN n - 1 + 1 ELSE 0
    BY ONLY <2>1, s \in Seq(S), SubSeqType, 1 \in Nat \ {0}
  <2>3. Len(SubSeq(s, 1, n)) = n
    BY <2>1, <2>2
  <2> QED BY <2>2, <2>3 DEF Front, n
<1> QED BY <1>1, <1>2 DEF Last

(* A set of numbers that is not empty has a least element. *)
LEMMA LeastOf ==
    ASSUME NEW I, I \subseteq Nat, I # {}
    PROVE  \E n \in I : \A j \in I : n <= j
<1> DEFINE R == OpToRel(<, Nat)
<1>1. PICK n \in I : \A j \in I : <<j, n>> \notin R
  <2> HIDE DEF R
  <2>1. IsWellFoundedOn(R, Nat)
    BY NatLessThanWellFounded DEF R
  <2> QED BY <2>1, WFMin
<1>2. ASSUME NEW j \in I, j < n PROVE FALSE
  <2>1. R = {ss \in Nat \X Nat : ss[1] < ss[2]}
    BY DEF OpToRel
  <2>2. <<j, n>> \in Nat \X Nat
    OBVIOUS
  <2>3. <<j, n>> \in {ss \in Nat \X Nat : ss[1] < ss[2]}
    BY ONLY <1>2, <2>2
  <2> HIDE DEF R
  <2> QED BY <1>1, <2>1, <2>3
<1> QED BY <1>2

(* Removing the first occurrence of a value (position, then remove) is     *)
(* removing it at a position where it is, if there is one.                 *)
LEMMA RemoveFirstOf ==
    ASSUME NEW s, NEW e, Len(s) \in Nat
    PROVE  \/ /\ \A i \in 1..Len(s) : s[i] # e
              /\ RemoveFirst(s, e) = s
           \/ \E n \in 1..Len(s) : s[n] = e /\ RemoveFirst(s, e) = RemoveAt(s, n)
<1> DEFINE I == {i \in 1..Len(s) : s[i] = e}
<1>1. CASE I # {}
  <2>1. I \subseteq Nat
    OBVIOUS
  <2>2. PICK n \in I : \A j \in I : n <= j
    <3> HIDE DEF I
    <3> QED BY <1>1, <2>1, LeastOf
  <2>3. Min(I) \in I
    BY <2>2 DEF Min
  <2>4. RemoveFirst(s, e) = RemoveAt(s, Min(I))
    BY <1>1 DEF RemoveFirst, SelectInSeq
  <2> QED BY <2>3, <2>4
<1>2. CASE I = {}
  BY <1>2 DEF RemoveFirst
<1> QED BY <1>1, <1>2

(* So it stays within the type. *)
LEMMA RemoveFirstType ==
    ASSUME NEW S, NEW s \in Seq(S), NEW e
    PROVE  RemoveFirst(s, e) \in Seq(S)
BY RemoveFirstOf, RemoveAtType

(* An enumeration of a finite set is a sequence over the set. *)
LEMMA SetToSeqsType ==
    ASSUME NEW S, IsFiniteSet(S), NEW s \in SetToSeqs(S)
    PROVE  s \in Seq(S)
<1>1. Cardinality(S) \in Nat
  BY FS_CardinalityType
<1>2. s \in [1..Cardinality(S) -> S]
  BY DEF SetToSeqs
<1> QED BY <1>1, <1>2

(* The elements of a sequence and of its tail (pop_front). *)
LEMMA TailOf ==
    ASSUME NEW S, NEW s \in Seq(S), s # <<>>
    PROVE  /\ 1 \in DOMAIN s /\ Head(s) = s[1]
           /\ DOMAIN s = 1..Len(s) /\ Len(s) \in Nat \ {0}
           /\ DOMAIN Tail(s) = 1..Len(s) - 1
           /\ \A j \in DOMAIN s : j > 1 => j - 1 \in DOMAIN Tail(s) /\ Tail(s)[j - 1] = s[j]
           /\ \A j \in DOMAIN Tail(s) : j + 1 \in DOMAIN s /\ Tail(s)[j] = s[j + 1]
<1>1. Len(s) \in Nat /\ DOMAIN s = 1..Len(s) /\ Len(s) # 0
  BY EmptySeq
<1>2. /\ Tail(s) \in Seq(S) /\ Len(Tail(s)) = Len(s) - 1 /\ Head(s) = s[1]
      /\ \A i \in 1..Len(s) - 1 : Tail(s)[i] = s[i + 1]
  BY <1>1, HeadTailProperties
<1>3. DOMAIN Tail(s) = 1..Len(s) - 1
  BY <1>2
<1>4. \A j \in 1..Len(s) : j > 1 => j - 1 \in 1..Len(s) - 1 /\ (j - 1) + 1 = j
  BY <1>1
<1> QED BY <1>1, <1>2, <1>3, <1>4

(* The elements of a sequence with one more at its end (push_back). *)
LEMMA AppendOf ==
    ASSUME NEW S, NEW s \in Seq(S), NEW e \in S
    PROVE  /\ Len(s) \in Nat
           /\ DOMAIN s = 1..Len(s)
           /\ DOMAIN Append(s, e) = 1..Len(s) + 1
           /\ \A j \in DOMAIN s : j \in DOMAIN Append(s, e) /\ Append(s, e)[j] = s[j]
           /\ Len(s) + 1 \in DOMAIN Append(s, e) /\ Append(s, e)[Len(s) + 1] = e
<1>1. /\ Append(s, e) \in Seq(S) /\ Len(Append(s, e)) = Len(s) + 1
      /\ \A i \in 1..Len(s) : Append(s, e)[i] = s[i]
      /\ Append(s, e)[Len(s) + 1] = e
  BY AppendProperties
<1>2. Len(s) \in Nat /\ DOMAIN s = 1..Len(s) /\ DOMAIN Append(s, e) = 1..Len(s) + 1
  BY <1>1
<1> QED BY <1>1, <1>2

(* The elements of a sequence with one inserted. *)
LEMMA InsertAtOf ==
    ASSUME NEW S, NEW s \in Seq(S), NEW i \in 1..Len(s) + 1, NEW e \in S
    PROVE  /\ DOMAIN InsertAt(s, i, e) = 1..Len(s) + 1
           /\ \A j \in 1..Len(s) + 1 :
                InsertAt(s, i, e)[j] = IF j < i THEN s[j] ELSE IF j = i THEN e ELSE s[j - 1]
<1> DEFINE a == SubSeq(s, 1, i - 1)
           b == SubSeq(s, i, Len(s))
           t == InsertAt(s, i, e)
<1>0. Len(s) \in Nat /\ i \in Nat \ {0} /\ i <= Len(s) + 1
  OBVIOUS
<1>1. a \in Seq(S) /\ Len(a) = i - 1 /\ \A j \in 1..i - 1 : a[j] = s[j]
  <2>1. \A j \in 1..i - 1 : s[j] \in S
    BY <1>0
  <2>2. /\ a \in Seq(S) /\ Len(a) = IF 1 <= i - 1 THEN i - 1 - 1 + 1 ELSE 0
        /\ \A j \in 1..i - 1 - 1 + 1 : a[j] = s[1 + j - 1]
    BY <1>0, <2>1, SubSeqProperties, 1 \in Int, i - 1 \in Int
  <2> QED BY <1>0, <2>2
<1>2. b \in Seq(S) /\ Len(b) = Len(s) - i + 1 /\ \A j \in 1..Len(s) - i + 1 : b[j] = s[i + j - 1]
  <2>1. \A j \in i..Len(s) : s[j] \in S
    BY <1>0
  <2>2. /\ b \in Seq(S) /\ Len(b) = IF i <= Len(s) THEN Len(s) - i + 1 ELSE 0
        /\ \A j \in 1..Len(s) - i + 1 : b[j] = s[i + j - 1]
    BY <1>0, <2>1, SubSeqProperties, i \in Int, Len(s) \in Int
  <2> QED BY <1>0, <2>2
<1> HIDE DEF a, b
<1>3. <<e>> \in Seq(S) /\ Len(<<e>>) = 1 /\ <<e>>[1] = e
  OBVIOUS
<1>4. /\ a \o <<e>> \in Seq(S) /\ Len(a \o <<e>>) = i
      /\ \A j \in 1..i : (a \o <<e>>)[j] = IF j < i THEN s[j] ELSE e
  <2>1. /\ a \o <<e>> \in Seq(S) /\ Len(a \o <<e>>) = Len(a) + Len(<<e>>)
        /\ \A j \in 1..Len(a) + Len(<<e>>) :
             (a \o <<e>>)[j] = IF j <= Len(a) THEN a[j] ELSE <<e>>[j - Len(a)]
    BY <1>1, <1>3, ConcatProperties
  <2>2. Len(a \o <<e>>) = i
    BY ONLY <1>0, <1>1, <1>3, <2>1
  <2>3. ASSUME NEW j \in 1..i PROVE (a \o <<e>>)[j] = IF j < i THEN s[j] ELSE e
    <3>1. j \in 1..Len(a) + Len(<<e>>)
      BY ONLY <1>0, <1>1, <1>3, j \in 1..i
    <3>2. CASE j < i
      BY ONLY <1>0, <1>1, <2>1, <3>1, <3>2, j \in 1..i
    <3>3. CASE j = i
      <4>1. j - Len(a) = 1 /\ ~(j <= Len(a)) /\ ~(j < i)
        BY ONLY <1>0, <1>1, <3>3
      <4>2. (a \o <<e>>)[j] = <<e>>[j - Len(a)]
        BY ONLY <2>1, <3>1, <4>1
      <4>3. (a \o <<e>>)[j] = <<e>>[1]
        BY ONLY <4>1, <4>2
      <4> QED BY <4>1, <4>3
    <3>4. j < i \/ j = i
      BY ONLY <1>0, j \in 1..i
    <3> QED BY ONLY <3>2, <3>3, <3>4
  <2> QED BY ONLY <2>1, <2>2, <2>3
<1> DEFINE h == a \o <<e>>
<1> HIDE DEF h
<1>5. /\ h \o b \in Seq(S) /\ Len(h \o b) = Len(h) + Len(b)
      /\ \A j \in 1..Len(h) + Len(b) : (h \o b)[j] = IF j <= Len(h) THEN h[j] ELSE b[j - Len(h)]
  <2>1. h \in Seq(S) /\ b \in Seq(S)
    BY ONLY <1>2, <1>4 DEF h
  <2> QED BY ONLY <2>1, ConcatProperties
<1>6. t = h \o b
  BY DEF InsertAt, h, a, b
<1> HIDE DEF t
<1>7. t \in Seq(S) /\ Len(t) = Len(s) + 1 /\ DOMAIN t = 1..Len(s) + 1
  <2>1. t \in Seq(S) /\ Len(t) = Len(h) + Len(b) /\ Len(h) = i
    BY ONLY <1>4, <1>5, <1>6 DEF h
  <2>2. Len(t) = Len(s) + 1
    BY ONLY <1>0, <1>2, <2>1
  <2> QED BY ONLY <2>1, <2>2
<1>8. ASSUME NEW j \in 1..Len(s) + 1
      PROVE  t[j] = IF j < i THEN s[j] ELSE IF j = i THEN e ELSE s[j - 1]
  <2>1. j \in 1..Len(h) + Len(b) /\ Len(h) = i
    BY ONLY <1>0, <1>2, <1>4, j \in 1..Len(s) + 1 DEF h
  <2>2. t[j] = IF j <= i THEN h[j] ELSE b[j - i]
    BY ONLY <1>5, <1>6, <2>1
  <2>3. CASE j <= i
    BY ONLY <1>0, <1>4, <2>2, <2>3, j \in 1..Len(s) + 1 DEF h
  <2>4. CASE j > i
    <3>1. j - i \in 1..Len(s) - i + 1 /\ i + (j - i) - 1 = j - 1
      BY ONLY <1>0, <2>4, j \in 1..Len(s) + 1
    <3>2. b[j - i] = s[j - 1]
      BY ONLY <1>2, <3>1
    <3> QED BY ONLY <1>0, <2>2, <2>4, <3>2, j \in 1..Len(s) + 1
  <2> QED BY ONLY <1>0, <2>3, <2>4, j \in 1..Len(s) + 1
<1> QED BY <1>7, <1>8 DEF t

(* The elements of a sequence with one removed. *)
LEMMA RemoveAtOf ==
    ASSUME NEW S, NEW s \in Seq(S), NEW i \in 1..Len(s)
    PROVE  /\ DOMAIN RemoveAt(s, i) = 1..Len(s) - 1
           /\ \A j \in 1..Len(s) - 1 : RemoveAt(s, i)[j] = IF j < i THEN s[j] ELSE s[j + 1]
<1> DEFINE a == SubSeq(s, 1, i - 1)
           b == SubSeq(s, i + 1, Len(s))
           t == RemoveAt(s, i)
<1>0. Len(s) \in Nat /\ i \in Nat \ {0} /\ i <= Len(s)
  OBVIOUS
<1>1. a \in Seq(S) /\ Len(a) = i - 1 /\ \A j \in 1..i - 1 : a[j] = s[j]
  <2>1. \A j \in 1..i - 1 : s[j] \in S
    BY <1>0
  <2>2. /\ a \in Seq(S) /\ Len(a) = IF 1 <= i - 1 THEN i - 1 - 1 + 1 ELSE 0
        /\ \A j \in 1..i - 1 - 1 + 1 : a[j] = s[1 + j - 1]
    BY <1>0, <2>1, SubSeqProperties, 1 \in Int, i - 1 \in Int
  <2> QED BY <1>0, <2>2
<1>2. b \in Seq(S) /\ Len(b) = Len(s) - i /\ \A j \in 1..Len(s) - i : b[j] = s[i + j]
  <2>1. \A j \in i + 1..Len(s) : s[j] \in S
    BY <1>0
  <2>2. /\ b \in Seq(S) /\ Len(b) = IF i + 1 <= Len(s) THEN Len(s) - (i + 1) + 1 ELSE 0
        /\ \A j \in 1..Len(s) - (i + 1) + 1 : b[j] = s[(i + 1) + j - 1]
    BY <1>0, <2>1, SubSeqProperties, i + 1 \in Int, Len(s) \in Int
  <2>3. Len(s) - (i + 1) + 1 = Len(s) - i
    BY <1>0
  <2>4. \A j \in 1..Len(s) - i : (i + 1) + j - 1 = i + j
    BY <1>0
  <2>5. Len(b) = Len(s) - i
    BY <1>0, <2>2
  <2>6. \A j \in 1..Len(s) - i : b[j] = s[(i + 1) + j - 1]
    BY ONLY <2>2, <2>3
  <2> QED BY ONLY <2>2, <2>4, <2>5, <2>6
<1> HIDE DEF a, b
<1>5. /\ a \o b \in Seq(S) /\ Len(a \o b) = Len(a) + Len(b)
      /\ \A j \in 1..Len(a) + Len(b) : (a \o b)[j] = IF j <= Len(a) THEN a[j] ELSE b[j - Len(a)]
  BY ONLY <1>1, <1>2, ConcatProperties
<1>6. t = a \o b
  BY DEF RemoveAt, a, b
<1> HIDE DEF t
<1>7. t \in Seq(S) /\ Len(t) = Len(s) - 1 /\ DOMAIN t = 1..Len(s) - 1
  <2>1. t \in Seq(S) /\ Len(t) = Len(a) + Len(b)
    BY ONLY <1>5, <1>6
  <2>2. Len(t) = Len(s) - 1
    BY ONLY <1>0, <1>1, <1>2, <2>1
  <2> QED BY ONLY <2>1, <2>2
<1>8. ASSUME NEW j \in 1..Len(s) - 1
      PROVE  t[j] = IF j < i THEN s[j] ELSE s[j + 1]
  <2>1. j \in 1..Len(a) + Len(b) /\ Len(a) = i - 1
    BY ONLY <1>0, <1>1, <1>2, j \in 1..Len(s) - 1
  <2>2. t[j] = IF j <= i - 1 THEN a[j] ELSE b[j - (i - 1)]
    BY ONLY <1>5, <1>6, <2>1
  <2>3. CASE j < i
    BY ONLY <1>0, <1>1, <2>2, <2>3, j \in 1..Len(s) - 1
  <2>4. CASE j >= i
    <3>1. j - (i - 1) \in 1..Len(s) - i /\ i + (j - (i - 1)) = j + 1
      BY ONLY <1>0, <2>4, j \in 1..Len(s) - 1
    <3>2. b[j - (i - 1)] = s[j + 1]
      BY ONLY <1>2, <3>1
    <3> QED BY ONLY <1>0, <2>2, <2>4, <3>2, j \in 1..Len(s) - 1
  <2> QED BY ONLY <1>0, <2>3, <2>4, j \in 1..Len(s) - 1
<1> QED BY <1>7, <1>8 DEF t

(* It loses no other element, and all occurrences if there is at most one. *)
LEMMA RemoveFirstKeeps ==
    ASSUME NEW S, NEW s \in Seq(S), NEW e
    PROVE  /\ RemoveFirst(s, e) \in Seq(S)
           /\ ToSet(RemoveFirst(s, e)) \subseteq ToSet(s)
           /\ ToSet(s) \ {e} \subseteq ToSet(RemoveFirst(s, e))
           /\ IsInjective(s) => /\ IsInjective(RemoveFirst(s, e))
                                /\ e \notin ToSet(RemoveFirst(s, e))
<1>0. Len(s) \in Nat /\ DOMAIN s = 1..Len(s)
  OBVIOUS
<1>1. CASE (\A i \in 1..Len(s) : s[i] # e) /\ RemoveFirst(s, e) = s
  BY <1>0, <1>1 DEF ToSet
<1>2. CASE \E n \in 1..Len(s) : s[n] = e /\ RemoveFirst(s, e) = RemoveAt(s, n)
  <2>1. PICK n \in 1..Len(s) : s[n] = e /\ RemoveFirst(s, e) = RemoveAt(s, n)
    BY <1>2
  <2> DEFINE t == RemoveAt(s, n)
  <2>2. /\ t \in Seq(S) /\ DOMAIN t = 1..Len(s) - 1
        /\ \A j \in 1..Len(s) - 1 : t[j] = IF j < n THEN s[j] ELSE s[j + 1]
    BY RemoveAtType, RemoveAtOf
  <2> HIDE DEF t
  <2>3. ToSet(t) \subseteq ToSet(s)
    BY <1>0, <2>2 DEF ToSet
  <2>4. ASSUME NEW i \in 1..Len(s), s[i] # e
        PROVE  s[i] \in ToSet(t)
    <3>1. CASE i < n
      <4>1. i \in 1..Len(s) - 1
        BY <1>0, <3>1
      <4>2. t[i] = s[i]
        BY <2>2, <3>1, <4>1
      <4> QED BY <2>2, <4>1, <4>2 DEF ToSet
    <3>2. CASE i > n
      <4>1. i - 1 \in 1..Len(s) - 1 /\ ~(i - 1 < n) /\ (i - 1) + 1 = i
        BY <1>0, <3>2
      <4>2. t[i - 1] = s[i]
        BY <2>2, <4>1
      <4> QED BY <2>2, <4>1, <4>2 DEF ToSet
    <3> QED BY <1>0, <2>1, <2>4, <3>1, <3>2
  <2>5. ToSet(s) \ {e} \subseteq ToSet(t)
    BY <1>0, <2>4 DEF ToSet
  <2>6. ASSUME IsInjective(s)
        PROVE  IsInjective(t) /\ e \notin ToSet(t)
    <3>1. \A a, b \in 1..Len(s) : s[a] = s[b] => a = b
      BY <1>0, <2>6 DEF IsInjective
    <3>2. \A j \in 1..Len(s) - 1 : t[j] # e
      BY <1>0, <2>1, <2>2, <3>1
    <3>3. ASSUME NEW a \in 1..Len(s) - 1, NEW b \in 1..Len(s) - 1, t[a] = t[b]
          PROVE  a = b
      <4> DEFINE p(x) == IF x < n THEN x ELSE x + 1
      <4>1. p(a) \in 1..Len(s) /\ p(b) \in 1..Len(s) /\ t[a] = s[p(a)] /\ t[b] = s[p(b)]
        BY <1>0, <2>2
      <4>2. p(a) = p(b)
        BY <3>1, <3>3, <4>1
      <4> QED BY <1>0, <4>2
    <3> QED BY <2>2, <3>2, <3>3 DEF IsInjective, ToSet
  <2> QED BY <2>1, <2>2, <2>3, <2>5, <2>6 DEF t
<1> QED BY <1>0, <1>1, <1>2, RemoveFirstOf

(* One more element at the end. *)
LEMMA AppendKeeps ==
    ASSUME NEW S, NEW s \in Seq(S), NEW e \in S
    PROVE  /\ ToSet(Append(s, e)) = ToSet(s) \cup {e}
           /\ IsInjective(s) /\ e \notin ToSet(s) => IsInjective(Append(s, e))
<1>1. /\ Len(s) \in Nat /\ DOMAIN s = 1..Len(s)
      /\ DOMAIN Append(s, e) = 1..Len(s) + 1
      /\ \A j \in DOMAIN s : j \in DOMAIN Append(s, e) /\ Append(s, e)[j] = s[j]
      /\ Len(s) + 1 \in DOMAIN Append(s, e) /\ Append(s, e)[Len(s) + 1] = e
  BY AppendOf
<1> DEFINE t == Append(s, e)
<1> HIDE DEF t
<1>2. \A j \in 1..Len(s) + 1 : j \in 1..Len(s) \/ j = Len(s) + 1
  BY <1>1
<1>3. ToSet(t) = ToSet(s) \cup {e}
  BY <1>1, <1>2 DEF ToSet, t
<1>4. ASSUME IsInjective(s), e \notin ToSet(s), NEW a \in DOMAIN t, NEW b \in DOMAIN t, t[a] = t[b]
      PROVE  a = b
  BY <1>1, <1>2, <1>4 DEF IsInjective, ToSet, t
<1> QED BY <1>3, <1>4 DEF IsInjective, t

(* An enumeration of a finite set has each of its elements once. *)
LEMMA SetToSeqsOf ==
    ASSUME NEW S, IsFiniteSet(S), NEW s \in SetToSeqs(S)
    PROVE  /\ s \in Seq(S)
           /\ ToSet(s) = S
           /\ IsInjective(s)
<1> DEFINE D == 1..Cardinality(S)
<1>1. Cardinality(S) \in Nat /\ IsFiniteSet(D) /\ Cardinality(D) = Cardinality(S)
  BY FS_CardinalityType, FS_Interval
<1>2. s \in [D -> S] /\ \A i, j \in D : i # j => s[i] # s[j]
  BY DEF SetToSeqs
<1>3. s \in Injection(D, S) /\ IsInjective(s)
  BY <1>2 DEF Injection, IsInjective
<1>4. s \in Surjection(D, S)
  <2> HIDE DEF D
  <2> QED BY <1>1, <1>3, FS_Injection
<1>5. ToSet(s) = S
  BY <1>2, <1>4 DEF Surjection, ToSet
<1> QED BY <1>3, <1>5, SetToSeqsType

(* A sequence without repetition is as long as the set of its elements. *)
LEMMA InjectiveLen ==
    ASSUME NEW S, NEW s \in Seq(S), IsInjective(s)
    PROVE  Len(s) = Cardinality(ToSet(s))
<1> DEFINE D == 1..Len(s)
           T == ToSet(s)
<1>0. Len(s) \in Nat /\ DOMAIN s = D
  OBVIOUS
<1>1. IsFiniteSet(D) /\ Cardinality(D) = Len(s)
  <2>1. IsFiniteSet(1..Len(s)) /\ Cardinality(1..Len(s)) = IF 1 > Len(s) THEN 0 ELSE Len(s) - 1 + 1
    BY ONLY <1>0, FS_Interval, 1 \in Int, Len(s) \in Int
  <2> QED BY <1>0, <2>1
<1>2. s \in Surjection(D, T) /\ s \in Injection(D, T)
  <2>1. s \in [D -> T]
    BY <1>0 DEF ToSet
  <2>2. \A x \in T : \E i \in D : s[i] = x
    BY <1>0 DEF ToSet
  <2> HIDE DEF D, T
  <2> QED BY <2>1, <2>2 DEF Surjection, Injection
<1> HIDE DEF D, T
<1>3. Cardinality(T) = Cardinality(D)
  BY <1>1, <1>2, FS_Surjection
<1> QED BY <1>0, <1>1, <1>3 DEF T

(* Of a sequence of commands, some of which put a thing in place and some  *)
(* of which take it away: whether it is there at the end, given whether it *)
(* was there before.                                                       *)
Outcome(before, s, put, take) ==
    \/ before /\ \A i \in DOMAIN s : s[i] \notin take
    \/ \E i \in DOMAIN s : s[i] \in put /\ \A j \in DOMAIN s : j > i => s[j] \notin take

(* No command changes nothing. *)
LEMMA OutcomeOfNone ==
    ASSUME NEW r, NEW X, NEW put, NEW take
    PROVE  Outcome(r \in X, <<>>, put, take) <=> r \in X
BY DEF Outcome

(* The first command decides what the others find. *)
LEMMA OutcomeOfTail ==
    ASSUME NEW S, NEW s \in Seq(S), s # <<>>, NEW put, NEW take, put \cap take = {},
           NEW r, NEW X, NEW Y,
           r \in Y <=> Head(s) \in put \/ (r \in X /\ Head(s) \notin take)
    PROVE  Outcome(r \in Y, Tail(s), put, take) <=> Outcome(r \in X, s, put, take)
<1> DEFINE t == Tail(s)
<1>1. /\ 1 \in DOMAIN s /\ Head(s) = s[1]
      /\ \A j \in DOMAIN s : j \in Nat /\ j >= 1
      /\ \A j \in DOMAIN s : j > 1 => j - 1 \in DOMAIN t /\ t[j - 1] = s[j]
      /\ \A j \in DOMAIN t : j \in Nat /\ j >= 1 /\ j + 1 \in DOMAIN s /\ t[j] = s[j + 1]
  <2>1. /\ 1 \in DOMAIN s /\ Head(s) = s[1]
        /\ DOMAIN s = 1..Len(s) /\ Len(s) \in Nat \ {0}
        /\ DOMAIN t = 1..Len(s) - 1
        /\ \A j \in DOMAIN s : j > 1 => j - 1 \in DOMAIN t /\ t[j - 1] = s[j]
        /\ \A j \in DOMAIN t : j + 1 \in DOMAIN s /\ t[j] = s[j + 1]
    BY TailOf
  <2> QED BY <2>1
<1> HIDE DEF t
<1>2. ASSUME NEW i \in DOMAIN s, i > 1
      PROVE  (\A j \in DOMAIN s : j > i => s[j] \notin take)
               <=> (\A j \in DOMAIN t : j > i - 1 => t[j] \notin take)
  <2>1. ASSUME \A j \in DOMAIN s : j > i => s[j] \notin take, NEW j \in DOMAIN t, j > i - 1
        PROVE  t[j] \notin take
    <3>1. j + 1 > i
      BY <1>1, <2>1
    <3> QED BY <1>1, <2>1, <3>1
  <2>2. ASSUME \A j \in DOMAIN t : j > i - 1 => t[j] \notin take, NEW j \in DOMAIN s, j > i
        PROVE  s[j] \notin take
    <3>1. j > 1 /\ j - 1 > i - 1
      BY <1>1, <1>2, <2>2
    <3> QED BY <1>1, <2>2, <3>1
  <2> QED BY <2>1, <2>2
<1>3. (\A j \in DOMAIN s : j > 1 => s[j] \notin take) <=> (\A j \in DOMAIN t : t[j] \notin take)
  <2>1. ASSUME \A j \in DOMAIN s : j > 1 => s[j] \notin take, NEW j \in DOMAIN t
        PROVE  t[j] \notin take
    <3>1. j + 1 > 1
      BY <1>1
    <3> QED BY <1>1, <2>1, <3>1
  <2>2. ASSUME \A j \in DOMAIN t : t[j] \notin take, NEW j \in DOMAIN s, j > 1
        PROVE  s[j] \notin take
    BY <1>1, <2>2
  <2> QED BY <2>1, <2>2
<1>4. ASSUME NEW i \in DOMAIN t
      PROVE  i + 1 \in DOMAIN s /\ i + 1 > 1 /\ (i + 1) - 1 = i /\ s[i + 1] = t[i]
  BY <1>1
<1>5. ASSUME Outcome(r \in X, s, put, take)
      PROVE  Outcome(r \in Y, t, put, take)
  <2>1. CASE r \in X /\ \A i \in DOMAIN s : s[i] \notin take
    BY <1>1, <1>3, <2>1 DEF Outcome
  <2>2. ASSUME NEW i \in DOMAIN s, s[i] \in put, \A j \in DOMAIN s : j > i => s[j] \notin take
        PROVE  Outcome(r \in Y, t, put, take)
    <3>1. CASE i = 1
      BY <1>1, <1>3, <2>2, <3>1 DEF Outcome
    <3>2. CASE i > 1
      BY <1>1, <1>2, <2>2, <3>2 DEF Outcome
    <3> QED BY <1>1, <3>1, <3>2
  <2> QED BY <1>5, <2>1, <2>2 DEF Outcome
<1>6. ASSUME Outcome(r \in Y, t, put, take)
      PROVE  Outcome(r \in X, s, put, take)
  <2>1. CASE r \in Y /\ \A i \in DOMAIN t : t[i] \notin take
    <3>1. CASE Head(s) \in put
      BY <1>1, <1>3, <2>1, <3>1 DEF Outcome
    <3>2. CASE r \in X /\ Head(s) \notin take
      <4>1. \A i \in DOMAIN s : i = 1 \/ i > 1
        BY <1>1
      <4> QED BY <1>1, <1>3, <2>1, <3>2, <4>1 DEF Outcome
    <3> QED BY <2>1, <3>1, <3>2
  <2>2. ASSUME NEW i \in DOMAIN t, t[i] \in put, \A j \in DOMAIN t : j > i => t[j] \notin take
        PROVE  Outcome(r \in X, s, put, take)
    <3>1. \A j \in DOMAIN s : j > i + 1 => s[j] \notin take
      BY <1>2, <1>4, <2>2
    <3> QED BY <1>4, <2>2, <3>1 DEF Outcome
  <2> QED BY <1>6, <2>1, <2>2 DEF Outcome
<1> QED BY <1>5, <1>6 DEF t

(* Two sequences, one after the other. *)
LEMMA OutcomeOfConcat ==
    ASSUME NEW S, NEW s \in Seq(S), NEW t \in Seq(S), NEW put, NEW take,
           NEW r, NEW X, NEW Y,
           r \in Y <=> Outcome(r \in X, s, put, take)
    PROVE  Outcome(r \in X, s \o t, put, take) <=> Outcome(r \in Y, t, put, take)
<1> DEFINE st == s \o t
<1>1. /\ Len(s) \in Nat /\ Len(t) \in Nat
      /\ DOMAIN s = 1..Len(s) /\ DOMAIN t = 1..Len(t)
      /\ DOMAIN st = 1..(Len(s) + Len(t))
      /\ \A i \in 1..Len(s) : st[i] = s[i]
      /\ \A i \in 1..Len(t) : st[Len(s) + i] = t[i]
  BY ConcatProperties
<1> HIDE DEF st
<1>2. \A i \in DOMAIN s : i \in DOMAIN st /\ st[i] = s[i] /\ i <= Len(s)
  BY <1>1
<1>3. \A i \in DOMAIN t : Len(s) + i \in DOMAIN st /\ st[Len(s) + i] = t[i] /\ Len(s) + i > Len(s)
  BY <1>1
<1>4. \A i \in DOMAIN st : i \in DOMAIN s \/ \E k \in DOMAIN t : i = Len(s) + k
  <2> TAKE i \in DOMAIN st
  <2>1. CASE i > Len(s)
    <3>1. i - Len(s) \in DOMAIN t /\ i = Len(s) + (i - Len(s))
      BY <1>1, <2>1
    <3> QED BY <3>1
  <2> QED BY <1>1, <2>1
<1>5. ASSUME NEW i \in DOMAIN s
      PROVE  (\A j \in DOMAIN st : j > i => st[j] \notin take)
               <=> /\ \A j \in DOMAIN s : j > i => s[j] \notin take
                   /\ \A j \in DOMAIN t : t[j] \notin take
  <2>1. \A j \in DOMAIN t : Len(s) + j > i
    BY <1>1
  <2> QED BY <1>2, <1>3, <1>4, <2>1
<1>6. ASSUME NEW i \in DOMAIN t
      PROVE  (\A j \in DOMAIN st : j > Len(s) + i => st[j] \notin take)
               <=> (\A j \in DOMAIN t : j > i => t[j] \notin take)
  <2>1. \A j \in DOMAIN t : Len(s) + j > Len(s) + i <=> j > i
    BY <1>1
  <2>2. \A j \in DOMAIN s : ~(j > Len(s) + i)
    BY <1>1
  <2> QED BY <1>3, <1>4, <2>1, <2>2
<1>7. ASSUME Outcome(r \in X, st, put, take)
      PROVE  Outcome(r \in Y, t, put, take)
  <2>1. CASE r \in X /\ \A i \in DOMAIN st : st[i] \notin take
    BY <1>2, <1>3, <2>1 DEF Outcome
  <2>2. ASSUME NEW i \in DOMAIN st, st[i] \in put, \A j \in DOMAIN st : j > i => st[j] \notin take
        PROVE  Outcome(r \in Y, t, put, take)
    <3>1. CASE i \in DOMAIN s
      BY <1>2, <1>5, <2>2, <3>1 DEF Outcome
    <3>2. ASSUME NEW k \in DOMAIN t, i = Len(s) + k
          PROVE  Outcome(r \in Y, t, put, take)
      BY <1>3, <1>6, <2>2, <3>2 DEF Outcome
    <3> QED BY <1>4, <3>1, <3>2
  <2> QED BY <1>7, <2>1, <2>2 DEF Outcome
<1>8. ASSUME Outcome(r \in Y, t, put, take)
      PROVE  Outcome(r \in X, st, put, take)
  <2>1. CASE r \in Y /\ \A i \in DOMAIN t : t[i] \notin take
    <3>1. CASE r \in X /\ \A i \in DOMAIN s : s[i] \notin take
      BY <1>2, <1>3, <1>4, <2>1, <3>1 DEF Outcome
    <3>2. ASSUME NEW i \in DOMAIN s, s[i] \in put, \A j \in DOMAIN s : j > i => s[j] \notin take
          PROVE  Outcome(r \in X, st, put, take)
      BY <1>2, <1>5, <2>1, <3>2 DEF Outcome
    <3> QED BY <2>1, <3>1, <3>2 DEF Outcome
  <2>2. ASSUME NEW i \in DOMAIN t, t[i] \in put, \A j \in DOMAIN t : j > i => t[j] \notin take
        PROVE  Outcome(r \in X, st, put, take)
    BY <1>3, <1>6, <2>2 DEF Outcome
  <2> QED BY <1>8, <2>1, <2>2 DEF Outcome
<1> QED BY <1>7, <1>8 DEF st

(* A single command. *)
LEMMA OutcomeOfOne ==
    ASSUME NEW e, NEW put, NEW take, NEW r, NEW X
    PROVE  Outcome(r \in X, <<e>>, put, take) <=> e \in put \/ (r \in X /\ e \notin take)
<1>1. DOMAIN <<e>> = {1} /\ <<e>>[1] = e
  OBVIOUS
<1> QED BY <1>1 DEF Outcome

(* Two commands. *)
LEMMA OutcomeOfTwo ==
    ASSUME NEW s, DOMAIN s = {1, 2}, NEW put, NEW take, NEW r, NEW X
    PROVE  Outcome(r \in X, s, put, take)
             <=> s[2] \in put \/ (s[2] \notin take /\ (s[1] \in put \/ (s[1] \notin take /\ r \in X)))
<1>1. 2 > 1 /\ ~(1 > 1) /\ ~(1 > 2) /\ ~(2 > 2)
  OBVIOUS
<1> QED BY <1>1 DEF Outcome

(* One more command at the end. *)
LEMMA OutcomeOfAppend ==
    ASSUME NEW S, NEW s \in Seq(S), NEW e \in S, NEW put, NEW take, NEW r, NEW X
    PROVE  Outcome(r \in X, Append(s, e), put, take)
             <=> e \in put \/ (Outcome(r \in X, s, put, take) /\ e \notin take)
<1> DEFINE Y == {x \in {r} : Outcome(r \in X, s, put, take)}
<1>1. r \in Y <=> Outcome(r \in X, s, put, take)
  OBVIOUS
<1> HIDE DEF Y
<1>2. <<e>> \in Seq(S) /\ Append(s, e) = s \o <<e>>
  BY AppendIsConcat
<1>3. Outcome(r \in X, s \o <<e>>, put, take) <=> Outcome(r \in Y, <<e>>, put, take)
  BY <1>1, <1>2, OutcomeOfConcat
<1> QED BY <1>1, <1>2, <1>3, OutcomeOfOne

(* Sequences of the same length with the same elements are the same. *)
LEMMA SameElements ==
    ASSUME NEW S, NEW s \in Seq(S), NEW t \in Seq(S), Len(s) = Len(t),
           \A i \in 1..Len(s) : s[i] = t[i]
    PROVE  s = t
<1>1. s = [i \in 1..Len(s) |-> s[i]] /\ t = [i \in 1..Len(t) |-> t[i]]
  OBVIOUS
<1> QED BY <1>1

(* The domain and the length of a sequence. *)
LEMMA DomainOf ==
    ASSUME NEW S, NEW s \in Seq(S)
    PROVE  Len(s) \in Nat /\ DOMAIN s = 1..Len(s) /\ \A i \in 1..Len(s) : s[i] \in S
OBVIOUS

(* The elements of a concatenation. *)
LEMMA ConcatOf ==
    ASSUME NEW S, NEW s \in Seq(S), NEW t \in Seq(S)
    PROVE  /\ s \o t \in Seq(S) /\ Len(s \o t) = Len(s) + Len(t)
           /\ Len(s) \in Nat /\ Len(t) \in Nat
           /\ \A i \in 1..Len(s) : (s \o t)[i] = s[i]
           /\ \A i \in 1..Len(t) : (s \o t)[Len(s) + i] = t[i]
BY ConcatProperties

(* InsertAt adds its element, and keeps a sequence without duplicates so. *)
LEMMA InsertAtKeeps ==
    ASSUME NEW S, NEW s \in Seq(S), NEW i \in 1..Len(s) + 1, NEW e \in S
    PROVE  /\ ToSet(InsertAt(s, i, e)) = ToSet(s) \cup {e}
           /\ IsInjective(s) /\ e \notin ToSet(s) => IsInjective(InsertAt(s, i, e))
<1> DEFINE t == InsertAt(s, i, e)
<1>1. /\ DOMAIN t = 1..Len(s) + 1
      /\ \A j \in 1..Len(s) + 1 : t[j] = IF j < i THEN s[j] ELSE IF j = i THEN e ELSE s[j - 1]
  BY InsertAtOf
<1>2. Len(s) \in Nat /\ DOMAIN s = 1..Len(s) /\ i \in Nat \ {0} /\ i <= Len(s) + 1
  OBVIOUS
<1> HIDE DEF t
<1>3. /\ i \in DOMAIN t /\ t[i] = e
      /\ \A j \in DOMAIN t : j < i => j \in DOMAIN s /\ t[j] = s[j]
      /\ \A j \in DOMAIN t : j > i => j - 1 \in DOMAIN s /\ t[j] = s[j - 1]
      /\ \A j \in DOMAIN s : j < i => j \in DOMAIN t /\ t[j] = s[j]
      /\ \A j \in DOMAIN s : j >= i => j + 1 \in DOMAIN t /\ t[j + 1] = s[j]
  BY <1>1, <1>2
<1>4. \A j \in DOMAIN t : j < i \/ j = i \/ j > i
  BY <1>1, <1>2
<1>5. \A j \in DOMAIN s : j < i \/ j >= i
  BY <1>2
<1>6. ToSet(t) = ToSet(s) \cup {e}
  <2>1. \A j \in DOMAIN t : t[j] \in ToSet(s) \cup {e}
    BY <1>3, <1>4 DEF ToSet
  <2>2. \A j \in DOMAIN s : s[j] \in ToSet(t)
    BY <1>3, <1>5 DEF ToSet
  <2>3. e \in ToSet(t)
    BY <1>3 DEF ToSet
  <2> QED BY <2>1, <2>2, <2>3 DEF ToSet
<1>7. ASSUME IsInjective(s), e \notin ToSet(s), NEW j \in DOMAIN t, NEW k \in DOMAIN t, t[j] = t[k]
      PROVE  j = k
  <2>0. \A a, b \in DOMAIN s : s[a] = s[b] => a = b
    BY <1>7 DEF IsInjective
  <2>1. \A a \in DOMAIN s : s[a] # e
    BY <1>7 DEF ToSet
  <2>2. CASE j = i \/ k = i
    BY <1>3, <1>4, <1>7, <2>1, <2>2
  <2>3. CASE j < i /\ k < i
    BY <1>3, <1>7, <2>0, <2>3
  <2>4. CASE j > i /\ k > i
    <3>1. j - 1 = k - 1
      BY <1>3, <1>7, <2>0, <2>4
    <3> QED BY <1>1, <1>2, <3>1
  <2>5. CASE j < i /\ k > i
    <3>1. j = k - 1
      BY <1>3, <1>7, <2>0, <2>5
    <3> QED BY <1>1, <1>2, <2>5, <3>1
  <2>6. CASE j > i /\ k < i
    <3>1. j - 1 = k
      BY <1>3, <1>7, <2>0, <2>6
    <3> QED BY <1>1, <1>2, <2>6, <3>1
  <2> QED BY <1>4, <2>2, <2>3, <2>4, <2>5, <2>6
<1> QED BY <1>6, <1>7 DEF IsInjective, t

(* RemoveAt removes one occurrence of its element. *)
LEMMA RemoveAtKeeps ==
    ASSUME NEW S, NEW s \in Seq(S), NEW i \in 1..Len(s)
    PROVE  /\ ToSet(RemoveAt(s, i)) \subseteq ToSet(s)
           /\ ToSet(s) \ {s[i]} \subseteq ToSet(RemoveAt(s, i))
           /\ IsInjective(s) => /\ IsInjective(RemoveAt(s, i))
                                /\ s[i] \notin ToSet(RemoveAt(s, i))
<1> DEFINE t == RemoveAt(s, i)
<1>1. /\ DOMAIN t = 1..Len(s) - 1
      /\ \A j \in 1..Len(s) - 1 : t[j] = IF j < i THEN s[j] ELSE s[j + 1]
  BY RemoveAtOf
<1>2. Len(s) \in Nat /\ DOMAIN s = 1..Len(s) /\ i \in Nat \ {0} /\ i <= Len(s)
  OBVIOUS
<1> HIDE DEF t
<1>3. /\ \A j \in DOMAIN t : j < i => j \in DOMAIN s /\ t[j] = s[j]
      /\ \A j \in DOMAIN t : j >= i => j + 1 \in DOMAIN s /\ t[j] = s[j + 1]
      /\ \A j \in DOMAIN s : j < i => j \in DOMAIN t /\ t[j] = s[j]
      /\ \A j \in DOMAIN s : j > i => j - 1 \in DOMAIN t /\ t[j - 1] = s[j]
  BY <1>1, <1>2
<1>4. \A j \in DOMAIN t : j < i \/ j >= i
  BY <1>1, <1>2
<1>5. \A j \in DOMAIN s : j < i \/ j = i \/ j > i
  BY <1>2
<1>6. ToSet(t) \subseteq ToSet(s)
  BY <1>3, <1>4 DEF ToSet
<1>7. ToSet(s) \ {s[i]} \subseteq ToSet(t)
  BY <1>3, <1>5 DEF ToSet
<1>8. ASSUME IsInjective(s)
      PROVE  IsInjective(t) /\ s[i] \notin ToSet(t)
  <2>0. i \in DOMAIN s /\ \A a, b \in DOMAIN s : s[a] = s[b] => a = b
    BY <1>2, <1>8 DEF IsInjective
  <2>1. ASSUME NEW j \in DOMAIN t, NEW k \in DOMAIN t, t[j] = t[k]
        PROVE  j = k
    <3>1. CASE j < i /\ k < i
      BY <1>3, <2>0, <2>1, <3>1
    <3>2. CASE j >= i /\ k >= i
      <4>1. j + 1 = k + 1
        BY <1>3, <2>0, <2>1, <3>2
      <4> QED BY <1>1, <1>2, <4>1
    <3>3. CASE j < i /\ k >= i
      <4>1. j = k + 1
        BY <1>3, <2>0, <2>1, <3>3
      <4> QED BY <1>1, <1>2, <3>3, <4>1
    <3>4. CASE j >= i /\ k < i
      <4>1. j + 1 = k
        BY <1>3, <2>0, <2>1, <3>4
      <4> QED BY <1>1, <1>2, <3>4, <4>1
    <3> QED BY <1>4, <3>1, <3>2, <3>3, <3>4
  <2>2. ASSUME NEW j \in DOMAIN t, t[j] = s[i]
        PROVE  FALSE
    <3>1. CASE j < i
      <4>1. j = i
        BY <1>3, <2>0, <2>2, <3>1
      <4> QED BY <1>1, <1>2, <3>1, <4>1
    <3>2. CASE j >= i
      <4>1. j + 1 = i
        BY <1>3, <2>0, <2>2, <3>2
      <4> QED BY <1>1, <1>2, <3>2, <4>1
    <3> QED BY <1>4, <3>1, <3>2
  <2> QED BY <2>1, <2>2 DEF IsInjective, ToSet
<1> QED BY <1>6, <1>7, <1>8 DEF t

(* ReplaceAt exchanges an element. *)
LEMMA ReplaceAtKeeps ==
    ASSUME NEW S, NEW s \in Seq(S), NEW i \in 1..Len(s), NEW e \in S
    PROVE  /\ (ToSet(s) \ {s[i]}) \cup {e} \subseteq ToSet(ReplaceAt(s, i, e))
           /\ ToSet(ReplaceAt(s, i, e)) \subseteq ToSet(s) \cup {e}
           /\ IsInjective(s) /\ e \notin ToSet(s) \ {s[i]} => IsInjective(ReplaceAt(s, i, e))
           /\ IsInjective(s) /\ e # s[i] => s[i] \notin ToSet(ReplaceAt(s, i, e))
<1> DEFINE t == ReplaceAt(s, i, e)
<1>1. /\ DOMAIN t = DOMAIN s /\ i \in DOMAIN s /\ t[i] = e
      /\ \A j \in DOMAIN s : j # i => t[j] = s[j]
  BY DEF ReplaceAt
<1> HIDE DEF t
<1>2. (ToSet(s) \ {s[i]}) \cup {e} \subseteq ToSet(t)
  BY <1>1 DEF ToSet
<1>3. ASSUME IsInjective(s), e \notin ToSet(s) \ {s[i]}, NEW j \in DOMAIN t, NEW k \in DOMAIN t, t[j] = t[k]
      PROVE  j = k
  <2>1. \A a, b \in DOMAIN s : s[a] = s[b] => a = b
    BY <1>3 DEF IsInjective
  <2>2. \A a \in DOMAIN s : a # i => s[a] # e
    BY <1>1, <1>3, <2>1 DEF ToSet
  <2> QED BY <1>1, <1>3, <2>1, <2>2
<1>4. ToSet(t) \subseteq ToSet(s) \cup {e}
  BY <1>1 DEF ToSet
<1>5. IsInjective(s) /\ e # s[i] => s[i] \notin ToSet(t)
  BY <1>1 DEF ToSet, IsInjective
<1> QED BY <1>2, <1>3, <1>4, <1>5 DEF IsInjective, t

(* A concatenation has the elements of both, and no duplicates only if     *)
(* neither has.                                                            *)
LEMMA ConcatKeeps ==
    ASSUME NEW S, NEW s \in Seq(S), NEW t \in Seq(S)
    PROVE  /\ ToSet(s \o t) = ToSet(s) \cup ToSet(t)
           /\ IsInjective(s \o t) => IsInjective(s)
           /\ IsInjective(s) /\ IsInjective(t) /\ ToSet(s) \cap ToSet(t) = {}
                => IsInjective(s \o t)
<1> DEFINE st == s \o t
<1>1. /\ Len(s) \in Nat /\ Len(t) \in Nat
      /\ DOMAIN s = 1..Len(s) /\ DOMAIN t = 1..Len(t)
      /\ DOMAIN st = 1..(Len(s) + Len(t))
      /\ \A i \in 1..Len(s) : st[i] = s[i]
      /\ \A i \in 1..Len(t) : st[Len(s) + i] = t[i]
  BY ConcatProperties
<1> HIDE DEF st
<1>2. \A i \in DOMAIN s : i \in DOMAIN st /\ st[i] = s[i]
  BY <1>1
<1>3. \A i \in DOMAIN t : Len(s) + i \in DOMAIN st /\ st[Len(s) + i] = t[i]
  BY <1>1
<1>4. \A i \in DOMAIN st : i \in DOMAIN s \/ \E k \in DOMAIN t : i = Len(s) + k
  <2> TAKE i \in DOMAIN st
  <2>1. CASE i > Len(s)
    <3>1. i - Len(s) \in DOMAIN t /\ i = Len(s) + (i - Len(s))
      BY <1>1, <2>1
    <3> QED BY <3>1
  <2> QED BY <1>1, <2>1
<1>5. ToSet(st) = ToSet(s) \cup ToSet(t)
  <2>1. \A i \in DOMAIN st : st[i] \in ToSet(s) \cup ToSet(t)
    BY <1>2, <1>3, <1>4 DEF ToSet
  <2>2. \A i \in DOMAIN s : s[i] \in ToSet(st)
    BY <1>2 DEF ToSet
  <2>3. \A i \in DOMAIN t : t[i] \in ToSet(st)
    BY <1>3 DEF ToSet
  <2> QED BY <2>1, <2>2, <2>3 DEF ToSet
<1>6. IsInjective(st) => IsInjective(s)
  BY <1>2 DEF IsInjective
<1>7. ASSUME IsInjective(s), IsInjective(t), ToSet(s) \cap ToSet(t) = {},
             NEW i \in DOMAIN st, NEW j \in DOMAIN st, st[i] = st[j]
      PROVE  i = j
  <2>1. CASE i \in DOMAIN s /\ j \in DOMAIN s
    BY <1>2, <1>7, <2>1 DEF IsInjective
  <2>2. ASSUME NEW k \in DOMAIN t, NEW l \in DOMAIN t, i = Len(s) + k, j = Len(s) + l
        PROVE  i = j
    <3>1. t[k] = t[l]
      BY <1>3, <1>7, <2>2
    <3> QED BY <1>7, <2>2, <3>1 DEF IsInjective
  <2>3. \A a \in DOMAIN s, b \in DOMAIN t : s[a] # t[b]
    BY <1>7 DEF ToSet
  <2> QED BY <1>2, <1>3, <1>4, <1>7, <2>1, <2>2, <2>3
<1> QED BY <1>5, <1>6, <1>7 DEF IsInjective, st

(* The ends of a sequence: pushing and popping in terms of InsertAt and    *)
(* RemoveAt.                                                               *)
LEMMA PushIsInsert ==
    ASSUME NEW S, NEW s \in Seq(S), NEW e \in S
    PROVE  /\ InsertAt(s, 1, e) = <<e>> \o s
           /\ InsertAt(s, Len(s) + 1, e) = Append(s, e)
<1>1. Len(s) \in Nat /\ 1 \in 1..Len(s) + 1 /\ Len(s) + 1 \in 1..Len(s) + 1
  OBVIOUS
<1>2. InsertAt(s, 1, e) = <<e>> \o s
  <2> DEFINE a == InsertAt(s, 1, e)
             b == <<e>> \o s
  <2>1. a \in Seq(S) /\ Len(a) = Len(s) + 1
    BY <1>1, InsertAtType
  <2>2. \A j \in 1..Len(s) + 1 : a[j] = IF j < 1 THEN s[j] ELSE IF j = 1 THEN e ELSE s[j - 1]
    BY <1>1, InsertAtOf
  <2>3. <<e>> \in Seq(S) /\ Len(<<e>>) = 1 /\ <<e>>[1] = e
    OBVIOUS
  <2>4. /\ b \in Seq(S) /\ Len(b) = 1 + Len(s)
        /\ b[1] = e
        /\ \A j \in 1..Len(s) : b[1 + j] = s[j]
    BY <2>3, ConcatProperties
  <2> HIDE DEF a, b
  <2>5. ASSUME NEW j \in 1..Len(a)
        PROVE  a[j] = b[j]
    <3>1. CASE j = 1
      BY <1>1, <2>1, <2>2, <2>4, <3>1
    <3>2. CASE j > 1
      <4>1. j - 1 \in 1..Len(s) /\ 1 + (j - 1) = j /\ j \in 1..Len(s) + 1
        BY <1>1, <2>1, <3>2
      <4>2. a[j] = s[j - 1] /\ b[j] = s[j - 1]
        BY <2>2, <2>4, <3>2, <4>1
      <4> QED BY <4>2
    <3> QED BY <1>1, <2>1, <3>1, <3>2
  <2>6. Len(a) = Len(b)
    BY <1>1, <2>1, <2>4
  <2> QED BY <2>1, <2>4, <2>5, <2>6, SameElements DEF a, b
<1>3. InsertAt(s, Len(s) + 1, e) = Append(s, e)
  <2> DEFINE a == InsertAt(s, Len(s) + 1, e)
             b == Append(s, e)
  <2>1. a \in Seq(S) /\ Len(a) = Len(s) + 1
    BY <1>1, InsertAtType
  <2>2. \A j \in 1..Len(s) + 1 :
          a[j] = IF j < Len(s) + 1 THEN s[j] ELSE IF j = Len(s) + 1 THEN e ELSE s[j - 1]
    BY <1>1, InsertAtOf
  <2>3. /\ b \in Seq(S) /\ Len(b) = Len(s) + 1
        /\ \A j \in 1..Len(s) : b[j] = s[j]
        /\ b[Len(s) + 1] = e
    OBVIOUS
  <2> HIDE DEF a, b
  <2>5. ASSUME NEW j \in 1..Len(a)
        PROVE  a[j] = b[j]
    BY <1>1, <2>1, <2>2, <2>3
  <2> QED BY <2>1, <2>3, <2>5, SameElements DEF a, b
<1> QED BY <1>2, <1>3

(* The prefix of a sequence. *)
LEMMA PrefixOf ==
    ASSUME NEW S, NEW s \in Seq(S), NEW n \in 0..Len(s)
    PROVE  /\ SubSeq(s, 1, n) \in Seq(S) /\ Len(SubSeq(s, 1, n)) = n
           /\ \A j \in 1..n : SubSeq(s, 1, n)[j] = s[j]
<1> DEFINE a == SubSeq(s, 1, n)
<1>0. Len(s) \in Nat /\ n \in Nat /\ n <= Len(s)
  OBVIOUS
<1>1. \A j \in 1..n : s[j] \in S
  BY <1>0
<1>2. /\ a \in Seq(S) /\ Len(a) = IF 1 <= n THEN n - 1 + 1 ELSE 0
      /\ \A j \in 1..n - 1 + 1 : a[j] = s[1 + j - 1]
  BY <1>0, <1>1, SubSeqProperties, 1 \in Int, n \in Int
<1> HIDE DEF a
<1>3. Len(a) = n /\ \A j \in 1..n : a[j] = s[j]
  BY <1>0, <1>2
<1> QED BY <1>2, <1>3 DEF a

(* pop_front and pop_back. *)
LEMMA PopIsRemove ==
    ASSUME NEW S, NEW s \in Seq(S), s # <<>>
    PROVE  RemoveAt(s, 1) = Tail(s) /\ RemoveAt(s, Len(s)) = Front(s)
<1>1. Len(s) \in Nat \ {0} /\ 1 \in 1..Len(s) /\ Len(s) \in 1..Len(s)
  OBVIOUS
<1>2. RemoveAt(s, 1) = Tail(s)
  <2> DEFINE a == RemoveAt(s, 1)
             b == Tail(s)
  <2>1. a \in Seq(S) /\ Len(a) = Len(s) - 1
    BY <1>1, RemoveAtType
  <2>2. \A j \in 1..Len(s) - 1 : a[j] = IF j < 1 THEN s[j] ELSE s[j + 1]
    BY <1>1, RemoveAtOf
  <2>3. b \in Seq(S) /\ Len(b) = Len(s) - 1 /\ \A j \in 1..Len(s) - 1 : b[j] = s[j + 1]
    BY <1>1
  <2> HIDE DEF a, b
  <2>4. \A j \in 1..Len(a) : a[j] = b[j]
    BY <1>1, <2>1, <2>2, <2>3
  <2> QED BY <2>1, <2>3, <2>4, SameElements DEF a, b
<1>3. RemoveAt(s, Len(s)) = Front(s)
  <2> DEFINE a == RemoveAt(s, Len(s))
             b == SubSeq(s, 1, Len(s) - 1)
  <2>1. a \in Seq(S) /\ Len(a) = Len(s) - 1
    BY <1>1, RemoveAtType
  <2>2. \A j \in 1..Len(s) - 1 : a[j] = IF j < Len(s) THEN s[j] ELSE s[j + 1]
    BY <1>1, RemoveAtOf
  <2>3. b \in Seq(S) /\ Len(b) = Len(s) - 1 /\ \A j \in 1..Len(s) - 1 : b[j] = s[j]
    BY <1>1, PrefixOf, Len(s) - 1 \in 0..Len(s)
  <2> HIDE DEF a, b
  <2>4. \A j \in 1..Len(a) : a[j] = b[j]
    BY <1>1, <2>1, <2>2, <2>3
  <2> QED BY <2>1, <2>3, <2>4, SameElements DEF a, b, Front
<1> QED BY <1>2, <1>3

(***************************************************************************)
(* 2. Type correctness of the room list pipeline. The type invariant is    *)
(* not inductive: that a diff's index is in range needs the length of      *)
(* all_known_rooms to follow the vector of the service through the loops   *)
(* of the Reset, Truncate and Append handlers (KnownTracksService).        *)
(***************************************************************************)

(* The assumptions on the constants, gathered. *)
LEMMA ConstantsType ==
    /\ IsFiniteSet(Room)
    /\ None \notin Data
    /\ Observable \subseteq RoomInfo
    /\ MaxDiffs \in Nat
    /\ None \notin Shown
    /\ MaxRooms \subseteq Nat \cup {None}
    /\ MaxCommands \in Nat
BY RoomAssumption, SyncAssumption, ShownAssumption, PipelineAssumption

(* What from_room makes of a room handle is an entry of all_known_rooms. *)
LEMMA ObservedEntry ==
    ASSUME NEW r \in Room, NEW info \in Observable
    PROVE  [room |-> r, info |-> info] \in Entry
BY ConstantsType DEF Entry

(* The payload of each kind of RoomsListUpdate. *)
LEMMA UpdateFields ==
    ASSUME NEW u \in RoomsListUpdate
    PROVE  /\ u.op \in {"AddInvitedRoom", "AddJoinedRoom"} => u.room \in Room /\ u.info \in RoomInfo
           /\ u.op = "RemoveRoom" => u.room \in Room
           /\ u.op = "UpdateIsDirect" => u.room \in Room /\ u.direct \in BOOLEAN
           /\ u.op \in {"UpdateRoomName", "UpdateRoomAvatar"} => u.room \in Room /\ u.value \in Data
           /\ u.op = "RoomOrderUpdate" => u.diff \in VecDiff
           /\ u.op = "LoadedRooms" => u.max \in Nat \cup {None}
           /\ u.op = "Status" => u.kind \in StatusKind
           /\ u.op = "ApplyFilter" => u.keywords \in Keywords
BY DEF RoomsListUpdate

(* Enqueueing an update is an effect. *)
LEMMA SendType ==
    ASSUME NEW u \in RoomsListUpdate
    PROVE  Send(u) \in Effect
BY DEF Send, Effect

(* Enqueueing a RoomOrderUpdate is an effect. *)
LEMMA SendOrderType ==
    ASSUME NEW diff \in VecDiff
    PROVE  SendOrder(diff) \in Effect
<1>1. [op |-> "RoomOrderUpdate", diff |-> diff] \in RoomsListUpdate
  BY DEF RoomsListUpdate
<1> QED BY <1>1, SendType DEF SendOrder

(* A conditional effect. *)
LEMMA WhenType ==
    ASSUME NEW condition, NEW effect, condition => effect \in Effect
    PROVE  When(condition, effect) \in Seq(Effect)
BY DEF When

(* The effects of add_new_room. *)
LEMMA AddNewRoomType ==
    ASSUME NEW new \in Entry
    PROVE  AddNewRoom(new) \in Seq(Effect)
<1>1. new.room \in Room /\ new.info \in RoomInfo
  BY DEF Entry
<1>2. [do |-> "insert_room_details", room |-> new.room] \in Effect
  BY <1>1 DEF Effect
<1>3. Send([op |-> "AddJoinedRoom", room |-> new.room, info |-> new.info]) \in Effect
  BY <1>1, SendType DEF RoomsListUpdate
<1>4. Send([op |-> "AddInvitedRoom", room |-> new.room, info |-> new.info]) \in Effect
  BY <1>1, SendType DEF RoomsListUpdate
<1> QED BY <1>2, <1>3, <1>4 DEF AddNewRoom

(* The effects of remove_room. *)
LEMMA RemoveRoomType ==
    ASSUME NEW r \in Room
    PROVE  RemoveRoom(r) \in Seq(Effect)
<1>1. [do |-> "remove_room_details", room |-> r] \in Effect
  BY DEF Effect
<1>2. Send([op |-> "RemoveRoom", room |-> r]) \in Effect
  BY SendType DEF RoomsListUpdate
<1> QED BY <1>1, <1>2 DEF RemoveRoom

(* The three data updates of update_room. *)
LEMMA UpdateDataType ==
    ASSUME NEW old \in Entry, NEW new \in Entry
    PROVE  /\ When(/\ old.info.avatar # new.info.avatar
                   /\ new.info.avatar # None,
                   Send([op |-> "UpdateRoomAvatar", room |-> new.room,
                         value |-> new.info.avatar])) \in Seq(Effect)
           /\ When(old.info.name # new.info.name,
                   Send([op |-> "UpdateRoomName", room |-> new.room,
                         value |-> new.info.name])) \in Seq(Effect)
           /\ When(/\ new.info.state = "Joined"
                   /\ old.info.direct # new.info.direct,
                   Send([op |-> "UpdateIsDirect", room |-> new.room,
                         direct |-> new.info.direct])) \in Seq(Effect)
<1>1. /\ new.room \in Room
      /\ new.info.avatar \in Data \cup {None} /\ new.info.name \in Data
      /\ new.info.direct \in BOOLEAN
  BY DEF Entry, RoomInfo
<1>2. /\ new.info.avatar # None =>
           [op |-> "UpdateRoomAvatar", room |-> new.room, value |-> new.info.avatar] \in RoomsListUpdate
      /\ [op |-> "UpdateRoomName", room |-> new.room, value |-> new.info.name] \in RoomsListUpdate
      /\ [op |-> "UpdateIsDirect", room |-> new.room, direct |-> new.info.direct] \in RoomsListUpdate
  BY <1>1 DEF RoomsListUpdate
<1> QED BY <1>2, SendType, WhenType

(* The effects that the functions of joined_room.rs have: they concern the *)
(* room they are called for,                                               *)
SendsAbout(e, ops, r) == e.do = "enqueue" /\ e.update.op \in ops /\ e.update.room = r

LEMMA AddNewRoomHas ==
    ASSUME NEW new, NEW e \in ToSet(AddNewRoom(new))
    PROVE  \/ e.do = "insert_room_details" /\ e.room = new.room
           \/ SendsAbout(e, {"AddJoinedRoom", "AddInvitedRoom"}, new.room)
<1> DEFINE d == [do |-> "insert_room_details", room |-> new.room]
           u == [op |-> "AddJoinedRoom", room |-> new.room, info |-> new.info]
           v == [op |-> "AddInvitedRoom", room |-> new.room, info |-> new.info]
<1>1. AddNewRoom(new) \in {<<d, Send(u)>>, <<Send(v)>>, <<>>}
  BY DEF AddNewRoom
<1>2. SendsAbout(Send(u), {"AddJoinedRoom", "AddInvitedRoom"}, new.room)
      /\ SendsAbout(Send(v), {"AddJoinedRoom", "AddInvitedRoom"}, new.room)
      /\ d.do = "insert_room_details" /\ d.room = new.room
  BY DEF SendsAbout, Send
<1> HIDE DEF d, u, v
<1>3. e \in {d, Send(u), Send(v)}
  BY <1>1 DEF ToSet
<1> QED BY <1>2, <1>3

LEMMA RemoveRoomHas ==
    ASSUME NEW room, NEW e \in ToSet(RemoveRoom(room))
    PROVE  \/ e.do = "remove_room_details" /\ e.room = room
           \/ SendsAbout(e, {"RemoveRoom"}, room)
<1> DEFINE d == [do |-> "remove_room_details", room |-> room]
           u == [op |-> "RemoveRoom", room |-> room]
<1>1. RemoveRoom(room) = <<d, Send(u)>>
  BY DEF RemoveRoom
<1>2. SendsAbout(Send(u), {"RemoveRoom"}, room) /\ d.do = "remove_room_details" /\ d.room = room
  BY DEF SendsAbout, Send
<1> HIDE DEF d, u
<1>3. e \in {d, Send(u)}
  BY <1>1 DEF ToSet
<1> QED BY <1>2, <1>3

(* and update_room calls them, or only sends updates of the room's data.   *)
DataUpdates == {"UpdateRoomAvatar", "UpdateRoomName", "UpdateIsDirect"}

LEMMA UpdateRoomCases ==
    ASSUME NEW old \in Entry, NEW new \in Entry
    PROVE  \/ /\ old.room # new.room
              /\ UpdateRoom(old, new) = RemoveRoom(old.room) \o AddNewRoom(new)
           \/ /\ old.room = new.room /\ old.info.state # new.info.state
              /\ \/ /\ new.info.state \in {"Banned", "Left"}
                    /\ UpdateRoom(old, new) = RemoveRoom(new.room)
                 \/ /\ new.info.state \notin {"Banned", "Left"}
                    /\ UpdateRoom(old, new) = AddNewRoom(new)
           \/ /\ old.room = new.room /\ old.info.state = new.info.state
              /\ UpdateRoom(old, new) \in Seq(Effect)
              /\ \A e \in ToSet(UpdateRoom(old, new)) : SendsAbout(e, DataUpdates, new.room)
<1> DEFINE ua == Send([op |-> "UpdateRoomAvatar", room |-> new.room, value |-> new.info.avatar])
           un == Send([op |-> "UpdateRoomName", room |-> new.room, value |-> new.info.name])
           ud == Send([op |-> "UpdateIsDirect", room |-> new.room, direct |-> new.info.direct])
           a == When(old.info.avatar # new.info.avatar /\ new.info.avatar # None, ua)
           n == When(old.info.name # new.info.name, un)
           d == When(new.info.state = "Joined" /\ old.info.direct # new.info.direct, ud)
<1>1. a \in Seq(Effect) /\ n \in Seq(Effect) /\ d \in Seq(Effect)
  BY UpdateDataType
<1>2. \A e \in ToSet(a) \cup ToSet(n) \cup ToSet(d) : SendsAbout(e, DataUpdates, new.room)
  <2>1. /\ SendsAbout(ua, DataUpdates, new.room)
        /\ SendsAbout(un, DataUpdates, new.room)
        /\ SendsAbout(ud, DataUpdates, new.room)
    BY DEF SendsAbout, DataUpdates, Send
  <2> HIDE DEF ua, un, ud
  <2>2. a \in {<<ua>>, <<>>} /\ n \in {<<un>>, <<>>} /\ d \in {<<ud>>, <<>>}
    BY DEF When
  <2> HIDE DEF a, n, d
  <2>3. \A e : ToSet(<<e>>) = {e} /\ ToSet(<<>>) = {}
    BY DEF ToSet
  <2> QED BY <2>1, <2>2, <2>3
<1>3. UpdateRoom(old, new) = IF old.room # new.room THEN RemoveRoom(old.room) \o AddNewRoom(new)
                             ELSE IF old.info.state # new.info.state
                             THEN IF new.info.state \in {"Banned", "Left"}
                                  THEN RemoveRoom(new.room)
                                  ELSE AddNewRoom(new)
                             ELSE a \o n \o d
  BY DEF UpdateRoom
<1> HIDE DEF ua, un, ud, a, n, d
<1>4. a \o n \o d \in Seq(Effect) /\ ToSet(a \o n \o d) = ToSet(a) \cup ToSet(n) \cup ToSet(d)
  <2> DEFINE an == a \o n
  <2>1. an \in Seq(Effect) /\ ToSet(an) = ToSet(a) \cup ToSet(n)
    BY <1>1, ConcatProperties, ConcatKeeps
  <2> HIDE DEF an
  <2>2. an \o d \in Seq(Effect) /\ ToSet(an \o d) = ToSet(an) \cup ToSet(d)
    BY <1>1, <2>1, ConcatProperties, ConcatKeeps
  <2> QED BY <2>1, <2>2 DEF an
<1> QED BY <1>2, <1>3, <1>4

(* The effects of update_room. *)
LEMMA UpdateRoomType ==
    ASSUME NEW old \in Entry, NEW new \in Entry
    PROVE  UpdateRoom(old, new) \in Seq(Effect)
<1>1. old.room \in Room /\ new.room \in Room
  BY DEF Entry
<1>2. /\ AddNewRoom(new) \in Seq(Effect)
      /\ RemoveRoom(old.room) \in Seq(Effect)
      /\ RemoveRoom(new.room) \in Seq(Effect)
  BY <1>1, AddNewRoomType, RemoveRoomType
<1>3. RemoveRoom(old.room) \o AddNewRoom(new) \in Seq(Effect)
  BY <1>2, ConcatProperties
<1> QED BY <1>2, <1>3, UpdateRoomCases

(* A diff that adds a room addresses a place of the vector. *)
LEMMA AddDiffType ==
    ASSUME NEW r \in Room, NEW n \in Nat, NEW diff \in AddDiffs(r, n)
    PROVE  /\ diff.value = r
           /\ diff \in VecDiff
           /\ Position(diff, n) \in 0..n
<1>1. CASE diff \in [diff: {"PushFront", "PushBack"}, value: {r}]
  BY <1>1 DEF VecDiff, Position
<1>2. CASE diff \in [diff: {"Insert"}, index: 0..n, value: {r}]
  BY <1>2 DEF VecDiff, Position
<1> QED BY <1>1, <1>2 DEF AddDiffs

(* A diff that removes a room addresses an element of the vector, so the   *)
(* code never pops from an empty vector.                                   *)
LEMMA RemoveDiffType ==
    ASSUME svc \in Seq(Room), NEW diff \in RemoveDiffs
    PROVE  /\ diff \in VecDiff
           /\ Position(diff, Len(svc)) \in 0..Len(svc) - 1
<1>1. Len(svc) \in Nat \ {0}
  BY EmptySeq DEF RemoveDiffs
<1>2. CASE diff \in [diff: {"PopFront", "PopBack"}]
  BY <1>1, <1>2 DEF VecDiff, Position
<1>3. CASE diff \in [diff: {"Remove"}, index: 0..Len(svc) - 1]
  BY <1>1, <1>3 DEF VecDiff, Position
<1> QED BY <1>1, <1>2, <1>3 DEF RemoveDiffs

(* The room ids of a vector of entries. *)
LEMMA IdsType ==
    ASSUME NEW s \in Seq(Entry)
    PROVE  Ids(s) \in Seq(Room) /\ Len(Ids(s)) = Len(s)
<1>1. Len(s) \in Nat /\ DOMAIN s = 1..Len(s)
  OBVIOUS
<1>2. ASSUME NEW i \in 1..Len(s)
      PROVE  s[i].room \in Room
  <2>1. s[i] \in Entry
    OBVIOUS
  <2> QED BY <2>1 DEF Entry
<1>3. Ids(s) \in [1..Len(s) -> Room]
  BY <1>1, <1>2 DEF Ids
<1> QED BY <1>1, <1>3

(* The rooms that an Append or a Reset carries are a vector of entries. *)
LEMMA EntrySeqsType ==
    ASSUME NEW rooms \in SUBSET Room, NEW s \in EntrySeqs(rooms)
    PROVE  /\ s \in Seq(Entry)
           /\ Ids(s) \in Seq(Room)
           /\ Len(Ids(s)) = Len(s)
<1>1. PICK R \in SUBSET rooms : s \in [1..Cardinality(R) -> [room: R, info: Observable]]
  BY DEF EntrySeqs
<1>2. Cardinality(R) \in Nat
  BY ConstantsType, FS_Subset, FS_CardinalityType
<1>3. s \in [1..Cardinality(R) -> Entry]
  BY <1>1, ConstantsType DEF Entry
<1>4. s \in Seq(Entry)
  BY <1>2, <1>3
<1> QED BY <1>4, IdsType

(* The guarded application of any VecDiff, also of one whose index is out  *)
(* of bounds, yields an order of rooms.                                    *)
LEMMA ApplyOrderType ==
    ASSUME NEW d \in VecDiff, NEW rooms \in Seq(Room)
    PROVE  ApplyOrder(d, rooms) \in Seq(Room)
<1> USE DEF ApplyOrder
<1>0. Len(rooms) \in Nat
  OBVIOUS
<1>1. CASE d.diff = "Append"
  BY <1>1, ConcatProperties DEF VecDiff
<1>2. CASE d.diff = "Clear"
  BY <1>2
<1>3. CASE d.diff = "PushFront"
  <2>1. <<d.value>> \in Seq(Room)
    BY <1>3 DEF VecDiff
  <2> QED BY <1>3, <2>1, ConcatProperties
<1>4. CASE d.diff = "PushBack"
  BY <1>4 DEF VecDiff
<1>5. CASE d.diff = "PopFront"
  BY <1>5, HeadTailProperties
<1>6. CASE d.diff = "PopBack"
  BY <1>6, FrontType
<1>7. CASE d.diff = "Insert"
  <2>1. d.index \in Nat /\ d.value \in Room
    BY <1>7 DEF VecDiff
  <2>2. d.index <= Len(rooms) => d.index + 1 \in 1..Len(rooms) + 1
    BY <1>0, <2>1
  <2> QED BY <1>7, <2>1, <2>2, InsertAtType
<1>8. CASE d.diff = "Set"
  <2>1. d.index \in Nat /\ d.value \in Room
    BY <1>8 DEF VecDiff
  <2>2. d.index < Len(rooms) => d.index + 1 \in 1..Len(rooms)
    BY <1>0, <2>1
  <2> QED BY <1>8, <2>1, <2>2, ReplaceAtType
<1>9. CASE d.diff = "Remove"
  <2>1. d.index \in Nat
    BY <1>9 DEF VecDiff
  <2>2. d.index < Len(rooms) => d.index + 1 \in 1..Len(rooms)
    BY <1>0, <2>1
  <2> QED BY <1>9, <2>1, <2>2, RemoveAtType
<1>10. CASE d.diff = "Truncate"
  <2>1. d.length \in Nat
    BY <1>10 DEF VecDiff
  <2>2. 1 \in Nat \ {0} /\ (d.length < Len(rooms) => d.length <= Len(rooms))
    BY <1>0, <2>1
  <2> QED BY <1>10, <2>1, <2>2, SubSeqType
<1> QED BY <1>1, <1>2, <1>3, <1>4, <1>5, <1>6, <1>7, <1>8, <1>9, <1>10 DEF VecDiff

(* update_status_rooms_count yields a status. *)
LEMMA RoomsCountType ==
    ASSUME NEW j, NEW i, NEW max
    PROVE  RoomsCount(j, i, max) \in Status
<1>1. Cardinality(Present(j)) \in Nat /\ Cardinality(Present(i)) \in Nat
  BY ConstantsType, FS_Subset, FS_CardinalityType DEF Present
<1> QED BY <1>1 DEF RoomsCount, Status, StatusKind

(* What the frontend keeps of the info in an Add update. *)
LEMMA ShownInfoType ==
    ASSUME NEW info \in RoomInfo
    PROVE  ShownInfo(info) \in Shown
BY DEF RoomInfo, Shown, ShownInfo

----------------------------------------------------------------------------

(* What links all_known_rooms to the vector of the service in each phase   *)
(* of a handler: their lengths, which is what keeps the indices of the     *)
(* next diff in range. Only the Append and Reset loops have futures to     *)
(* wait for.                                                               *)
KnownTracksService ==
    /\ phase = "idle" => Len(known) = Len(svc)
    /\ phase = "resetting" => Len(svc) = Len(incoming)
    /\ phase = "truncating" => Len(svc) <= Len(known)
    /\ phase = "adding" => Len(svc) = Len(known) + Len(incoming)
    /\ phase # "adding" => toAdd = {}

SyncInv == SyncTypeOK /\ KnownTracksService

(* The lengths of the vectors of the sync task are numbers. *)
LEMMA SyncLengths ==
    ASSUME SyncInv
    PROVE  /\ Len(svc) \in Nat /\ Len(known) \in Nat /\ Len(incoming) \in Nat
           /\ DOMAIN incoming = 1..Len(incoming)
BY DEF SyncInv, SyncTypeOK

(* A diff is taken between two handlers, when all_known_rooms has the      *)
(* length of the vector of the service.                                    *)
LEMMA TakeDiffType ==
    ASSUME SyncInv, NEW kind, TakeDiff(kind)
    PROVE  /\ diffs' \in 0..MaxDiffs
           /\ phase = "idle" /\ todo = <<>>
           /\ Len(known) = Len(svc) /\ toAdd = {}
           /\ svc \in Seq(Room) /\ known \in Seq(Entry) /\ Len(svc) \in Nat
BY ConstantsType DEF SyncInv, SyncTypeOK, KnownTracksService, TakeDiff, AtRest

(* One effect before or after a list of effects. *)
LEMMA OneEffect ==
    ASSUME NEW e \in Effect, NEW s \in Seq(Effect)
    PROVE  /\ <<e>> \in Seq(Effect)
           /\ <<e>> \o s \in Seq(Effect)
           /\ s \o <<e>> \in Seq(Effect)
<1>1. <<e>> \in Seq(Effect)
  OBVIOUS
<1> QED BY <1>1, ConcatProperties

(* What the diffs of the handlers do to the service's vector. *)
LEMMA ApplyAdd ==
    ASSUME NEW s \in Seq(Room), NEW r \in Room, NEW n \in Nat, n = Len(s), NEW diff \in AddDiffs(r, n)
    PROVE  ApplyOrder(diff, s) = InsertAt(s, Position(diff, n) + 1, r)
<1>1. /\ InsertAt(s, 1, r) = <<r>> \o s
      /\ InsertAt(s, n + 1, r) = Append(s, r)
  BY PushIsInsert
<1>2. CASE diff.diff = "PushFront"
  <2>1. diff.value = r /\ Position(diff, n) + 1 = 1
    BY <1>2 DEF AddDiffs, Position
  <2> QED BY <1>1, <1>2, <2>1 DEF ApplyOrder
<1>3. CASE diff.diff = "PushBack"
  <2>1. diff.value = r /\ Position(diff, n) = n
    BY <1>3 DEF AddDiffs, Position
  <2> QED BY <1>1, <1>3, <2>1 DEF ApplyOrder
<1>4. CASE diff.diff = "Insert"
  <2>1. diff.value = r /\ Position(diff, n) = diff.index /\ diff.index <= n
    BY <1>4 DEF AddDiffs, Position
  <2> QED BY <1>4, <2>1 DEF ApplyOrder
<1> QED BY <1>2, <1>3, <1>4 DEF AddDiffs

LEMMA ApplyRemove ==
    ASSUME svc \in Seq(Room), NEW diff \in RemoveDiffs
    PROVE  ApplyOrder(diff, svc) = RemoveAt(svc, Position(diff, Len(svc)) + 1)
<1>1. svc # <<>> /\ Len(svc) \in Nat
  BY DEF RemoveDiffs
<1>2. RemoveAt(svc, 1) = Tail(svc) /\ RemoveAt(svc, Len(svc)) = Front(svc)
  BY <1>1, PopIsRemove
<1>3. CASE diff.diff = "PopFront"
  <2>1. Position(diff, Len(svc)) + 1 = 1
    BY <1>3 DEF Position
  <2> QED BY <1>1, <1>2, <1>3, <2>1 DEF ApplyOrder
<1>4. CASE diff.diff = "PopBack"
  <2>1. Position(diff, Len(svc)) + 1 = Len(svc)
    BY <1>1, <1>4 DEF Position
  <2> QED BY <1>1, <1>2, <1>4, <2>1 DEF ApplyOrder
<1>5. CASE diff.diff = "Remove"
  <2>1. Position(diff, Len(svc)) = diff.index /\ diff.index < Len(svc)
    BY <1>1, <1>5 DEF RemoveDiffs, Position
  <2> QED BY <1>5, <2>1 DEF ApplyOrder
<1> QED BY <1>1, <1>3, <1>4, <1>5 DEF RemoveDiffs

----------------------------------------------------------------------------

(* The diffs that concern one room: its entry is inserted, removed, moved  *)
(* (a removal with the addition that follows) or replaced, in the vector   *)
(* of the service and in all_known_rooms, unless building the timeline of  *)
(* the room fails.                                                         *)
OneRoomDiff == PushFront \/ PushBack \/ Insert \/ RemoveDiff \/ RemoveThenAdd \/ Set

Inserted(k, new) ==
    \E diff \in VecDiff :
      /\ svc' = InsertAt(svc, k, new.room) /\ ApplyOrder(diff, svc) = svc'
      /\ \/ phase' = "failed" /\ UNCHANGED <<known, todo>>
         \/ /\ phase' = "idle"
            /\ known' = InsertAt(known, k, new)
            /\ todo' = AddNewRoom(new) \o <<SendOrder(diff)>>

Removed(i) ==
    \E diff \in VecDiff :
      /\ svc' = RemoveAt(svc, i) /\ ApplyOrder(diff, svc) = svc'
      /\ phase' = "idle"
      /\ known' = RemoveAt(known, i)
      /\ todo' = <<SendOrder(diff)>> \o RemoveRoom(known[i].room)

Moved(i, j, new) ==
    \E d \in VecDiff, a \in VecDiff :
      /\ svc' = InsertAt(RemoveAt(svc, i), j, new.room)
      /\ ApplyOrder(d, svc) = RemoveAt(svc, i) /\ ApplyOrder(a, RemoveAt(svc, i)) = svc'
      /\ \/ phase' = "failed" /\ known' = RemoveAt(known, i) /\ todo' = <<SendOrder(d)>>
         \/ /\ phase' = "idle"
            /\ known' = InsertAt(RemoveAt(known, i), j, new)
            /\ todo' = <<SendOrder(d)>> \o UpdateRoom(known[i], new) \o <<SendOrder(a)>>

Replaced(i, new) ==
    \E diff \in VecDiff :
      /\ svc' = ReplaceAt(svc, i, new.room) /\ ApplyOrder(diff, svc) = svc'
      /\ \/ phase' = "failed" /\ UNCHANGED known /\ todo' \in {RemoveRoom(known[i].room), <<>>}
         \/ /\ phase' = "idle"
            /\ known' = ReplaceAt(known, i, new)
            /\ todo' = UpdateRoom(known[i], new) \o <<SendOrder(diff)>>

OneRoom ==
    \/ \E k \in 1..Len(svc) + 1, new \in Entry : new.room \in Absent /\ Inserted(k, new)
    \/ \E i \in 1..Len(svc) : Removed(i)
    \/ \E i \in 1..Len(svc), j \in 1..Len(svc), new \in Entry : new.room = svc[i] /\ Moved(i, j, new)
    \/ \E i \in 1..Len(svc), new \in Entry : new.room \in Absent \cup {svc[i]} /\ Replaced(i, new)

LEMMA AddRoomDoes ==
    ASSUME SyncInv, NEW r \in Absent, NEW diff \in AddDiffs(r, Len(svc)), AddRoom(diff)
    PROVE  OneRoom
<1>1. /\ phase = "idle" /\ Len(known) = Len(svc) /\ svc \in Seq(Room) /\ Len(svc) \in Nat /\ r \in Room
  BY TakeDiffType DEF AddRoom, Absent
<1> DEFINE k == Position(diff, Len(svc)) + 1
<1>2. diff.value = r /\ diff \in VecDiff /\ k \in 1..Len(svc) + 1 /\ ApplyOrder(diff, svc) = InsertAt(svc, k, r)
  BY <1>1, AddDiffType, ApplyAdd
<1>3. PICK info \in Observable : Inserted(k, [room |-> r, info |-> info])
  BY <1>1, <1>2 DEF AddRoom, Inserted
<1> HIDE DEF k
<1> QED BY <1>1, <1>2, <1>3, ObservedEntry DEF OneRoom

LEMMA DropRoomDoes ==
    ASSUME SyncInv, NEW diff \in RemoveDiffs, DropRoom(diff)
    PROVE  OneRoom
<1>1. /\ phase = "idle" /\ Len(known) = Len(svc) /\ svc \in Seq(Room) /\ Len(svc) \in Nat
  BY TakeDiffType DEF DropRoom
<1> DEFINE i == Position(diff, Len(svc)) + 1
<1>2. diff \in VecDiff /\ i \in 1..Len(svc) /\ ApplyOrder(diff, svc) = RemoveAt(svc, i)
  BY <1>1, RemoveDiffType, ApplyRemove
<1>3. Removed(i)
  BY <1>1, <1>2 DEF DropRoom, Removed
<1> HIDE DEF i
<1> QED BY <1>2, <1>3 DEF OneRoom

LEMMA MoveRoomDoes ==
    ASSUME SyncInv, NEW d \in RemoveDiffs,
           NEW a \in AddDiffs(svc[Position(d, Len(svc)) + 1], Len(svc) - 1), MoveRoom(d, a)
    PROVE  OneRoom
<1>1. /\ phase = "idle" /\ Len(known) = Len(svc)
      /\ svc \in Seq(Room) /\ known \in Seq(Entry) /\ Len(svc) \in Nat
  BY TakeDiffType DEF MoveRoom
<1> DEFINE i == Position(d, Len(svc)) + 1
           r == svc[i]
           n == Len(svc) - 1
           j == Position(a, n) + 1
           left == RemoveAt(svc, i)
<1>2. d \in VecDiff /\ i \in 1..Len(svc) /\ ApplyOrder(d, svc) = left
  BY <1>1, RemoveDiffType, ApplyRemove
<1>3. /\ r \in Room /\ n \in Nat /\ left \in Seq(Room) /\ Len(left) = n
      /\ Len(RemoveAt(known, i)) = n /\ a \in AddDiffs(r, n)
  BY <1>1, <1>2, RemoveAtType
<1>4. a.value = r /\ a \in VecDiff /\ j \in 1..Len(svc) /\ ApplyOrder(a, left) = InsertAt(left, j, r)
  <2> HIDE DEF r, left
  <2>1. a.value = r /\ a \in VecDiff /\ Position(a, n) \in 0..n
    <3> HIDE DEF n
    <3> QED BY <1>3, AddDiffType
  <2>2. ApplyOrder(a, left) = InsertAt(left, j, r)
    <3> HIDE DEF n
    <3> QED BY <1>3, ApplyAdd
  <2> QED BY <1>1, <2>1, <2>2
<1>5. PICK info \in Observable : Moved(i, j, [room |-> r, info |-> info])
  <2>1. /\ Position(d, Len(known)) + 1 = i /\ Position(a, Len(RemoveAt(known, i))) + 1 = j
        /\ Position(d, Len(known)) = Position(d, Len(svc))
    BY <1>1, <1>3
  <2> HIDE DEF i, j, n
  <2> QED BY <1>1, <1>2, <1>4, <2>1 DEF MoveRoom, Moved
<1> HIDE DEF i, j, r
<1> QED BY <1>2, <1>3, <1>4, <1>5, ObservedEntry DEF OneRoom, r

LEMMA SetRoomDoes ==
    ASSUME SyncInv, NEW k \in 0..Len(svc) - 1, NEW r \in Absent \cup {svc[k + 1]}, SetRoom(k, r)
    PROVE  OneRoom
<1>1. phase = "idle" /\ Len(known) = Len(svc) /\ svc \in Seq(Room) /\ Len(svc) \in Nat
  BY TakeDiffType DEF SetRoom
<1> DEFINE i == k + 1
           diff == [diff |-> "Set", index |-> k, value |-> r]
<1>2. i \in 1..Len(svc) /\ r \in Room /\ k \in Nat /\ k < Len(svc)
  BY <1>1 DEF Absent
<1>3. diff \in VecDiff /\ ApplyOrder(diff, svc) = ReplaceAt(svc, i, r)
  BY <1>2 DEF VecDiff, ApplyOrder
<1>4. PICK info \in Observable : Replaced(i, [room |-> r, info |-> info])
  BY <1>1, <1>3 DEF SetRoom, Replaced
<1> HIDE DEF i
<1> QED BY <1>2, <1>4, ObservedEntry DEF OneRoom, i

LEMMA OneRoomDiffDoes ==
    ASSUME SyncInv, OneRoomDiff
    PROVE  /\ OneRoom
           /\ diffs' \in 0..MaxDiffs /\ phase = "idle" /\ todo = <<>> /\ toAdd = {}
           /\ svc \in Seq(Room) /\ known \in Seq(Entry) /\ Len(known) = Len(svc) /\ Len(svc) \in Nat
           /\ \A i \in 1..Len(svc) : known[i] \in Entry /\ known[i].room \in Room /\ svc[i] \in Room
           /\ UNCHANGED <<details, incoming, toAdd, pending>>
           /\ \E kind : TakeDiff(kind)
<1>0. \A i \in 1..Len(svc) : Len(known) = Len(svc) => known[i] \in Entry /\ known[i].room \in Room /\ svc[i] \in Room
  <2>1. \A i \in 1..Len(known) : known[i] \in Entry
    BY DEF SyncInv, SyncTypeOK
  <2>2. \A i \in 1..Len(svc) : svc[i] \in Room
    BY DEF SyncInv, SyncTypeOK
  <2> QED BY <2>1, <2>2 DEF Entry
<1>1. CASE \E r \in Absent : \E diff \in AddDiffs(r, Len(svc)) : AddRoom(diff)
  BY <1>0, <1>1, AddRoomDoes, TakeDiffType DEF AddRoom
<1>2. CASE PushFront \/ PushBack \/ Insert
  <2>1. \A r : /\ [diff |-> "PushFront", value |-> r] \in AddDiffs(r, Len(svc))
               /\ [diff |-> "PushBack", value |-> r] \in AddDiffs(r, Len(svc))
               /\ \A i \in 0..Len(svc) : [diff |-> "Insert", index |-> i, value |-> r] \in AddDiffs(r, Len(svc))
    BY DEF AddDiffs
  <2> QED BY <1>1, <1>2, <2>1 DEF PushFront, PushBack, Insert
<1>3. CASE RemoveDiff
  BY <1>0, <1>3, DropRoomDoes, TakeDiffType DEF RemoveDiff, DropRoom
<1>4. CASE RemoveThenAdd
  BY <1>0, <1>4, MoveRoomDoes, TakeDiffType DEF RemoveThenAdd, MoveRoom
<1>5. CASE Set
  BY <1>0, <1>5, SetRoomDoes, TakeDiffType DEF Set, SetRoom
<1> QED BY <1>2, <1>3, <1>4, <1>5 DEF OneRoomDiff

(* They preserve the invariant of the sync task. *)
LEMMA OneRoomInv ==
    ASSUME SyncInv, OneRoomDiff
    PROVE  SyncInv' /\ UNCHANGED pending
<1>1. /\ diffs' \in 0..MaxDiffs /\ phase = "idle" /\ toAdd = {} /\ details \in SUBSET Room
      /\ svc \in Seq(Room) /\ known \in Seq(Entry) /\ Len(known) = Len(svc) /\ Len(svc) \in Nat
      /\ \A i \in 1..Len(svc) : known[i] \in Entry /\ known[i].room \in Room /\ svc[i] \in Room
      /\ todo = <<>> /\ incoming \in Seq(Entry)
      /\ UNCHANGED <<details, incoming, toAdd, pending>>
  BY OneRoomDiffDoes DEF SyncInv, SyncTypeOK
<1>2. ASSUME phase' \in {"idle", "failed"}, todo' \in Seq(Effect), svc' \in Seq(Room), known' \in Seq(Entry),
             phase' = "idle" => Len(known') = Len(svc')
      PROVE  SyncInv' /\ UNCHANGED pending
  BY <1>1, <1>2 DEF SyncInv, SyncTypeOK, KnownTracksService, Phase
<1>3. /\ \A diff \in VecDiff : <<SendOrder(diff)>> \in Seq(Effect)
      /\ \A s \in Seq(Effect), t \in Seq(Effect) : s \o t \in Seq(Effect)
      /\ \A i \in 1..Len(svc) : /\ known[i] \in Entry /\ svc[i] \in Room
                                /\ RemoveRoom(known[i].room) \in Seq(Effect)
      /\ \A new \in Entry : new.room \in Room /\ AddNewRoom(new) \in Seq(Effect)
  <2>1. /\ \A i \in 1..Len(svc) : known[i] \in Entry /\ svc[i] \in Room
        /\ \A new \in Entry : new.room \in Room
    BY <1>1 DEF Entry
  <2>2. \A diff \in VecDiff : <<SendOrder(diff)>> \in Seq(Effect)
    BY SendOrderType
  <2>3. \A s \in Seq(Effect), t \in Seq(Effect) : s \o t \in Seq(Effect)
    BY ConcatProperties
  <2>4. \A i \in 1..Len(svc) : RemoveRoom(known[i].room) \in Seq(Effect)
    BY <2>1, RemoveRoomType
  <2> QED BY <2>1, <2>2, <2>3, <2>4, AddNewRoomType
<1>4. ASSUME NEW k \in 1..Len(svc) + 1, NEW new \in Entry, Inserted(k, new)
      PROVE  SyncInv' /\ UNCHANGED pending
  <2>1. /\ InsertAt(svc, k, new.room) \in Seq(Room) /\ Len(InsertAt(svc, k, new.room)) = Len(svc) + 1
        /\ InsertAt(known, k, new) \in Seq(Entry) /\ Len(InsertAt(known, k, new)) = Len(svc) + 1
    <3>1. k \in 1..Len(known) + 1 /\ new.room \in Room
      BY <1>1, <1>3
    <3>2. InsertAt(svc, k, new.room) \in Seq(Room) /\ Len(InsertAt(svc, k, new.room)) = Len(svc) + 1
      BY <1>1, <3>1, InsertAtType
    <3>3. InsertAt(known, k, new) \in Seq(Entry) /\ Len(InsertAt(known, k, new)) = Len(known) + 1
      BY <1>1, <3>1, InsertAtType
    <3> QED BY <1>1, <3>2, <3>3
  <2>2. phase' \in {"idle", "failed"} /\ todo' \in Seq(Effect)
    <3>1. <<>> \in Seq(Effect)
      OBVIOUS
    <3> QED BY <1>1, <1>3, <1>4, <3>1 DEF Inserted
  <2>3. svc' \in Seq(Room) /\ known' \in Seq(Entry) /\ (phase' = "idle" => Len(known') = Len(svc'))
    BY <1>1, <1>4, <2>1 DEF Inserted
  <2> QED BY <1>2, <2>2, <2>3
<1>5. ASSUME NEW i \in 1..Len(svc)
      PROVE  /\ RemoveAt(svc, i) \in Seq(Room) /\ Len(RemoveAt(svc, i)) = Len(svc) - 1
             /\ RemoveAt(known, i) \in Seq(Entry) /\ Len(RemoveAt(known, i)) = Len(svc) - 1
  <2>1. i \in 1..Len(known)
    BY <1>1
  <2>2. RemoveAt(svc, i) \in Seq(Room) /\ Len(RemoveAt(svc, i)) = Len(svc) - 1
    BY <1>1, RemoveAtType
  <2>3. RemoveAt(known, i) \in Seq(Entry) /\ Len(RemoveAt(known, i)) = Len(known) - 1
    BY <1>1, <2>1, RemoveAtType
  <2> QED BY <1>1, <2>2, <2>3
<1>6. ASSUME NEW i \in 1..Len(svc), Removed(i)
      PROVE  SyncInv' /\ UNCHANGED pending
  BY <1>2, <1>3, <1>5, <1>6 DEF Removed
<1>7. ASSUME NEW i \in 1..Len(svc), NEW j \in 1..Len(svc), NEW new \in Entry, Moved(i, j, new)
      PROVE  SyncInv' /\ UNCHANGED pending
  <2> DEFINE left == RemoveAt(svc, i)
             rest == RemoveAt(known, i)
  <2>1. /\ left \in Seq(Room) /\ Len(left) = Len(svc) - 1 /\ rest \in Seq(Entry) /\ Len(rest) = Len(svc) - 1
        /\ j \in 1..Len(left) + 1 /\ j \in 1..Len(rest) + 1
    BY <1>1, <1>5
  <2> HIDE DEF left, rest
  <2>2. /\ InsertAt(left, j, new.room) \in Seq(Room) /\ Len(InsertAt(left, j, new.room)) = Len(left) + 1
        /\ InsertAt(rest, j, new) \in Seq(Entry) /\ Len(InsertAt(rest, j, new)) = Len(rest) + 1
    <3>1. new.room \in Room
      BY <1>3
    <3> QED BY <2>1, <3>1, InsertAtType
  <2>3. UpdateRoom(known[i], new) \in Seq(Effect)
    BY <1>3, UpdateRoomType
  <2> QED BY <1>2, <1>3, <1>7, <2>1, <2>2, <2>3 DEF Moved, left, rest
<1>8. ASSUME NEW i \in 1..Len(svc), NEW new \in Entry, Replaced(i, new)
      PROVE  SyncInv' /\ UNCHANGED pending
  <2>1. /\ ReplaceAt(svc, i, new.room) \in Seq(Room) /\ Len(ReplaceAt(svc, i, new.room)) = Len(svc)
        /\ ReplaceAt(known, i, new) \in Seq(Entry) /\ Len(ReplaceAt(known, i, new)) = Len(svc)
    <3>1. i \in 1..Len(known) /\ new.room \in Room
      BY <1>1, <1>3
    <3>2. ReplaceAt(svc, i, new.room) \in Seq(Room) /\ Len(ReplaceAt(svc, i, new.room)) = Len(svc)
      <4>1. svc \in Seq(Room) /\ new.room \in Room
        BY <1>1, <3>1
      <4> QED BY ONLY <4>1, i \in 1..Len(svc), ReplaceAtType
    <3>3. ReplaceAt(known, i, new) \in Seq(Entry) /\ Len(ReplaceAt(known, i, new)) = Len(known)
      BY <1>1, <3>1, ReplaceAtType
    <3> QED BY <1>1, <3>2, <3>3
  <2>2. UpdateRoom(known[i], new) \in Seq(Effect) /\ <<>> \in Seq(Effect)
    BY <1>3, UpdateRoomType
  <2> QED BY <1>1, <1>2, <1>3, <1>8, <2>1, <2>2 DEF Replaced
<1> QED BY <1>4, <1>6, <1>7, <1>8, OneRoomDiffDoes DEF OneRoom

(* Clear preserves it. *)
LEMMA ClearInv ==
    ASSUME SyncInv, Clear
    PROVE  SyncInv' /\ UNCHANGED pending
<1> USE DEF SyncInv, SyncTypeOK, KnownTracksService
<1>1. diffs' \in 0..MaxDiffs /\ phase = "idle" /\ toAdd = {}
  BY TakeDiffType DEF Clear
<1>2. [diff |-> "Clear"] \in VecDiff /\ [op |-> "ClearRooms"] \in RoomsListUpdate
  BY DEF VecDiff, RoomsListUpdate
<1>3. /\ [do |-> "clear_all_rooms"] \in Effect
      /\ SendOrder([diff |-> "Clear"]) \in Effect
      /\ Send([op |-> "ClearRooms"]) \in Effect
  BY <1>2, SendOrderType, SendType DEF Effect
<1>4. todo' \in Seq(Effect)
  BY <1>3 DEF Clear
<1>5. svc' = <<>> /\ known' = <<>> /\ UNCHANGED <<details, phase, incoming, toAdd, pending>>
  BY DEF Clear
<1> QED BY <1>1, <1>4, <1>5

(* Taking an Append preserves it. *)
LEMMA AppendRoomsInv ==
    ASSUME SyncInv, NEW s \in EntrySeqs(Absent), AppendRooms(s)
    PROVE  SyncInv' /\ UNCHANGED pending
<1> USE DEF SyncInv, SyncTypeOK, KnownTracksService
<1>1. diffs' \in 0..MaxDiffs /\ phase = "idle" /\ Len(known) = Len(svc)
  BY TakeDiffType DEF AppendRooms
<1>2. s \in Seq(Entry) /\ Ids(s) \in Seq(Room) /\ Len(Ids(s)) = Len(s)
  BY EntrySeqsType DEF Absent
<1>3. svc' \in Seq(Room) /\ Len(svc') = Len(svc) + Len(s)
  <2>1. /\ svc \o Ids(s) \in Seq(Room)
        /\ Len(svc \o Ids(s)) = Len(svc) + Len(Ids(s))
    BY <1>2, ConcatProperties
  <2> QED BY <1>2, <2>1 DEF AppendRooms
<1>4. /\ phase' = "adding" /\ incoming' = s /\ toAdd' = DOMAIN s
      /\ UNCHANGED <<known, details, todo, pending>>
  BY DEF AppendRooms
<1> QED BY <1>1, <1>2, <1>3, <1>4 DEF Phase

(* Taking a Reset preserves it. *)
LEMMA ResetInv ==
    ASSUME SyncInv, NEW s \in EntrySeqs(Room), Reset(s)
    PROVE  SyncInv' /\ UNCHANGED pending
<1> USE DEF SyncInv, SyncTypeOK, KnownTracksService
<1>1. diffs' \in 0..MaxDiffs /\ toAdd = {}
  BY TakeDiffType DEF Reset
<1>2. s \in Seq(Entry) /\ Ids(s) \in Seq(Room) /\ Len(Ids(s)) = Len(s)
  BY EntrySeqsType
<1>3. /\ svc' = Ids(s) /\ phase' = "resetting" /\ incoming' = s
      /\ UNCHANGED <<known, details, todo, toAdd, pending>>
  BY DEF Reset
<1> QED BY <1>1, <1>2, <1>3 DEF Phase

(* Taking a Truncate preserves it. *)
LEMMA TruncateInv ==
    ASSUME SyncInv, NEW n \in 0..Len(svc) - 1, Truncate(n)
    PROVE  SyncInv' /\ UNCHANGED pending
<1> USE DEF SyncInv, SyncTypeOK, KnownTracksService
<1>1. diffs' \in 0..MaxDiffs /\ Len(known) = Len(svc) /\ toAdd = {}
  BY TakeDiffType DEF Truncate
<1>2. Len(svc) \in Nat
  BY SyncLengths
<1>3. svc' \in Seq(Room) /\ Len(svc') = n
  <2>1. n \in Nat /\ n <= Len(svc) /\ 1 \in Nat \ {0}
    BY <1>2
  <2>2. /\ SubSeq(svc, 1, n) \in Seq(Room)
        /\ Len(SubSeq(svc, 1, n)) = IF 1 <= n THEN n - 1 + 1 ELSE 0
    BY <2>1, SubSeqType
  <2> QED BY <2>1, <2>2 DEF Truncate
<1>4. /\ phase' = "truncating"
      /\ UNCHANGED <<known, details, todo, incoming, toAdd, pending>>
  BY DEF Truncate
<1> QED BY <1>1, <1>2, <1>3, <1>4 DEF Phase

(* One turn of the loop that pops the known rooms and removes them. *)
LEMMA PopAndRemoveType ==
    ASSUME SyncInv, known # <<>>, PopAndRemove
    PROVE  /\ todo' \in Seq(Effect)
           /\ known' \in Seq(Entry) /\ Len(known') = Len(known) - 1
           /\ UNCHANGED <<svc, details, phase, incoming, toAdd, diffs, pending>>
<1>1. known \in Seq(Entry)
  BY DEF SyncInv, SyncTypeOK
<1>2. /\ Front(known) \in Seq(Entry) /\ Len(Front(known)) = Len(known) - 1
      /\ Last(known) \in Entry
  BY <1>1, FrontType
<1>3. Last(known).room \in Room
  BY <1>2 DEF Entry
<1> QED BY <1>2, <1>3, RemoveRoomType DEF PopAndRemove

(* The popping loop of Reset preserves the invariant. *)
LEMMA PopOnResetInv ==
    ASSUME SyncInv, PopOnReset
    PROVE  SyncInv' /\ UNCHANGED pending
BY PopAndRemoveType DEF PopOnReset, SyncInv, SyncTypeOK, KnownTracksService

(* The popping loop of Truncate preserves it: it never pops from an empty  *)
(* vector.                                                                 *)
LEMMA PopOnTruncateInv ==
    ASSUME SyncInv, PopOnTruncate
    PROVE  SyncInv' /\ UNCHANGED pending
<1>1. known # <<>> /\ phase = "truncating" /\ Len(known) > Len(svc)
  BY SyncLengths DEF PopOnTruncate
<1>2. /\ todo' \in Seq(Effect)
      /\ known' \in Seq(Entry) /\ Len(known') = Len(known) - 1
      /\ UNCHANGED <<svc, details, phase, incoming, toAdd, diffs, pending>>
  BY <1>1, PopAndRemoveType DEF PopOnTruncate
<1> QED BY <1>1, <1>2, SyncLengths DEF SyncInv, SyncTypeOK, KnownTracksService

(* The end of that loop preserves it. *)
LEMMA ResetClearedInv ==
    ASSUME SyncInv, ResetCleared
    PROVE  SyncInv' /\ UNCHANGED pending
<1> USE DEF SyncInv, SyncTypeOK, KnownTracksService
<1>1. [diff |-> "Clear"] \in VecDiff /\ [op |-> "ClearRooms"] \in RoomsListUpdate
  BY DEF VecDiff, RoomsListUpdate
<1>2. /\ [do |-> "clear_all_rooms"] \in Effect
      /\ SendOrder([diff |-> "Clear"]) \in Effect
      /\ Send([op |-> "ClearRooms"]) \in Effect
  BY <1>1, SendOrderType, SendType DEF Effect
<1>3. todo' \in Seq(Effect)
  BY <1>2 DEF ResetCleared
<1>4. /\ phase = "resetting" /\ known = <<>> /\ phase' = "adding" /\ toAdd' = DOMAIN incoming
      /\ UNCHANGED <<svc, known, details, incoming, diffs, pending>>
  BY DEF ResetCleared
<1> QED BY <1>3, <1>4, SyncLengths DEF Phase

(* The end of the Truncate handler preserves it. *)
LEMMA TruncatedInv ==
    ASSUME SyncInv, Truncated
    PROVE  SyncInv' /\ UNCHANGED pending
<1> USE DEF SyncInv, SyncTypeOK, KnownTracksService
<1>1. [diff |-> "Truncate", length |-> Len(svc)] \in VecDiff
  BY SyncLengths DEF VecDiff
<1>2. todo' \in Seq(Effect)
  BY <1>1, SendOrderType DEF Truncated
<1>3. /\ phase = "truncating" /\ Len(known) <= Len(svc) /\ phase' = "idle"
      /\ UNCHANGED <<svc, known, details, incoming, toAdd, diffs, pending>>
  BY DEF Truncated
<1> QED BY <1>2, <1>3, SyncLengths DEF Phase

(* The end of one add_new_room future of a batch preserves it. *)
LEMMA AddIncomingInv ==
    ASSUME SyncInv, NEW i \in toAdd, NEW built \in BOOLEAN, AddIncoming(i, built)
    PROVE  SyncInv' /\ UNCHANGED pending
<1> USE DEF SyncInv, SyncTypeOK, KnownTracksService
<1>1. incoming[i] \in Entry
  OBVIOUS
<1>2. todo' \in Seq(Effect)
  BY <1>1, AddNewRoomType DEF AddIncoming
<1>3. /\ phase = "adding" /\ toAdd' = toAdd \ {i}
      /\ UNCHANGED <<svc, known, details, phase, incoming, diffs, pending>>
  BY DEF AddIncoming
<1> QED BY <1>2, <1>3

(* The end of join_all preserves it. *)
LEMMA AllAddedInv ==
    ASSUME SyncInv, AllAdded
    PROVE  SyncInv' /\ UNCHANGED pending
<1> USE DEF SyncInv, SyncTypeOK, KnownTracksService
<1>1. [diff |-> "Append", values |-> Ids(incoming)] \in VecDiff
  BY IdsType DEF VecDiff
<1>2. todo' \in Seq(Effect)
  BY <1>1, SendOrderType, WhenType DEF AllAdded
<1>3. known' \in Seq(Entry) /\ Len(known') = Len(known) + Len(incoming)
  BY ConcatProperties DEF AllAdded
<1>4. /\ phase = "adding" /\ toAdd = {} /\ phase' = "idle" /\ incoming' = <<>>
      /\ UNCHANGED <<svc, details, toAdd, diffs, pending>>
  BY DEF AllAdded
<1> QED BY <1>2, <1>3, <1>4 DEF Phase

(* The payload of each kind of effect. *)
LEMMA EffectFields ==
    ASSUME NEW e \in Effect
    PROVE  /\ e.do \in {"insert_room_details", "remove_room_details"} => e.room \in Room
           /\ e.do = "enqueue" => e.update \in RoomsListUpdate
           /\ e.do \in {"insert_room_details", "remove_room_details", "clear_all_rooms", "enqueue"}
BY DEF Effect

(* Performing an effect preserves it, and what it enqueues is an update. *)
LEMMA RunEffectInv ==
    ASSUME SyncInv, pending \in Seq(RoomsListUpdate), RunEffect
    PROVE  SyncInv' /\ pending' \in Seq(RoomsListUpdate)
<1> USE DEF SyncInv, SyncTypeOK, KnownTracksService
<1>1. Head(todo) \in Effect /\ Tail(todo) \in Seq(Effect)
  BY HeadTailProperties DEF RunEffect
<1>2. todo' \in Seq(Effect) /\ UNCHANGED <<svc, known, phase, incoming, toAdd, diffs>>
  BY <1>1 DEF RunEffect
<1> DEFINE e == Head(todo)
<1>3. \/ details' = details \cup {e.room} /\ e.do = "insert_room_details" /\ UNCHANGED pending
      \/ details' \subseteq details /\ UNCHANGED pending
      \/ UNCHANGED details /\ e.do = "enqueue" /\ pending' = Append(pending, e.update)
  BY DEF RunEffect, Enqueue
<1> HIDE DEF e
<1>4. e \in Effect
  BY <1>1 DEF e
<1>5. details' \in SUBSET Room /\ pending' \in Seq(RoomsListUpdate)
  <2>1. /\ e.do = "insert_room_details" => e.room \in Room
        /\ e.do = "enqueue" => e.update \in RoomsListUpdate
    BY <1>4, EffectFields
  <2>2. details \in SUBSET Room
    OBVIOUS
  <2>3. e.do = "enqueue" => Append(pending, e.update) \in Seq(RoomsListUpdate)
    BY ONLY <2>1, pending \in Seq(RoomsListUpdate), AppendProperties
  <2> QED BY ONLY <1>3, <2>1, <2>2, <2>3, pending \in Seq(RoomsListUpdate)
<1> QED BY <1>2, <1>5

(* The end of the diff stream preserves it. *)
LEMMA StreamEndsInv ==
    ASSUME SyncInv, StreamEnds
    PROVE  SyncInv' /\ UNCHANGED pending
BY DEF StreamEnds, AtRest, SyncInv, SyncTypeOK, KnownTracksService, Phase

(* Every step of the sync task preserves its invariant. *)
LEMMA SyncStepInv ==
    ASSUME SyncInv, pending \in Seq(RoomsListUpdate), SyncNext
    PROVE  SyncInv' /\ pending' \in Seq(RoomsListUpdate)
<1>1. CASE OneRoomDiff
  BY <1>1, OneRoomInv
<1>7. CASE Clear
  BY <1>7, ClearInv
<1>8. CASE AppendDiff
  BY <1>8, AppendRoomsInv DEF AppendDiff
<1>9. CASE ResetDiff
  BY <1>9, ResetInv DEF ResetDiff
<1>10. CASE TruncateDiff
  BY <1>10, TruncateInv DEF TruncateDiff
<1>11. CASE Handling
  BY <1>11, RunEffectInv, PopOnResetInv, ResetClearedInv, PopOnTruncateInv, TruncatedInv,
     AddIncomingInv, AllAddedInv DEF Handling
<1>12. CASE StreamEnds
  BY <1>12, StreamEndsInv
<1> QED BY <1>1, <1>7, <1>8, <1>9, <1>10, <1>11, <1>12 DEF SyncNext, OneRoomDiff

----------------------------------------------------------------------------

UiInv == UiTypeOK /\ pending \in Seq(RoomsListUpdate)

(* What the drain pops is an update of the kind it matched. *)
LEMMA PopType ==
    ASSUME pending \in Seq(RoomsListUpdate), NEW op, Pop(op)
    PROVE  /\ Head(pending) \in RoomsListUpdate
           /\ Head(pending).op = op
           /\ pending' \in Seq(RoomsListUpdate)
           /\ UNCHANGED uiPhase
BY HeadTailProperties DEF Pop

(* Taking a room out of a displayed list. *)
LEMMA WithoutFirst ==
    ASSUME NEW d \in [Lists -> Seq(Room)], NEW list \in Lists, NEW r
    PROVE  [d EXCEPT ![list] = RemoveFirst(@, r)] \in [Lists -> Seq(Room)]
<1>1. RemoveFirst(d[list], r) \in Seq(Room)
  BY RemoveFirstType
<1> QED BY <1>1

(* Appending a room to a displayed list. *)
LEMMA WithAppended ==
    ASSUME NEW d \in [Lists -> Seq(Room)], NEW list \in Lists, NEW r \in Room
    PROVE  [d EXCEPT ![list] = Append(@, r)] \in [Lists -> Seq(Room)]
<1>1. Append(d[list], r) \in Seq(Room)
  BY AppendProperties
<1> QED BY <1>1

(* Setting a field of a room that is shown. *)
LEMMA ShownWithField ==
    ASSUME NEW map \in [Room -> Shown \cup {None}], NEW r \in Room, map[r] # None
    PROVE  /\ \A value \in Data : /\ [map[r] EXCEPT !.name = value] \in Shown
                                  /\ [map[r] EXCEPT !.avatar = value] \in Shown
           /\ \A direct \in BOOLEAN : [map[r] EXCEPT !.direct = direct] \in Shown
<1>1. map[r] \in Shown
  OBVIOUS
<1> QED BY <1>1 DEF Shown

(* A joined room is displayed in one of the lists. *)
LEMMA ListOfType ==
    ASSUME NEW direct
    PROVE  ListOf(direct) \in Lists
BY DEF ListOf, Lists

(* AddInvitedRoom keeps the types of the RoomsList. *)
LEMMA AddInvitedRoomInv ==
    ASSUME UiInv, AddInvitedRoom
    PROVE  UiInv'
<1> USE DEF UiInv, UiTypeOK
<1> DEFINE u == Head(pending)
<1>1. u.room \in Room /\ u.info \in RoomInfo /\ pending' \in Seq(RoomsListUpdate) /\ UNCHANGED uiPhase
  BY PopType, UpdateFields DEF AddInvitedRoom
<1>2. /\ invited' = [invited EXCEPT ![u.room] = ShownInfo(u.info)]
      /\ displayed' = IF invited[u.room] # None THEN displayed
                      ELSE [displayed EXCEPT !["invited"] = Append(@, u.room)]
      /\ status' = RoomsCount(joined, invited', maxRooms)
      /\ UNCHANGED <<order, joined, maxRooms, keywords, needsSort>>
  BY DEF AddInvitedRoom
<1> HIDE DEF u
<1>3. invited' \in [Room -> Shown \cup {None}]
  BY <1>1, <1>2, ShownInfoType
<1>4. displayed' \in [Lists -> Seq(Room)]
  BY <1>1, <1>2, WithAppended, "invited" \in Lists DEF Lists
<1>5. status' \in Status
  BY <1>2, RoomsCountType
<1> QED BY <1>1, <1>2, <1>3, <1>4, <1>5

(* AddJoinedRoom keeps them. *)
LEMMA AddJoinedRoomInv ==
    ASSUME UiInv, AddJoinedRoom
    PROVE  UiInv'
<1> USE DEF UiInv, UiTypeOK
<1> DEFINE u == Head(pending)
           shown == IF joined[u.room] # None THEN displayed
                    ELSE [displayed EXCEPT ![ListOf(u.info.direct)] = Append(@, u.room)]
<1>1. u.room \in Room /\ u.info \in RoomInfo /\ pending' \in Seq(RoomsListUpdate) /\ UNCHANGED uiPhase
  BY PopType, UpdateFields DEF AddJoinedRoom
<1>2. /\ joined' = [joined EXCEPT ![u.room] = ShownInfo(u.info)]
      /\ invited' = [invited EXCEPT ![u.room] = None]
      /\ displayed' = IF invited[u.room] = None THEN shown
                      ELSE [shown EXCEPT !["invited"] = RemoveFirst(@, u.room)]
      /\ status' = RoomsCount(joined', invited', maxRooms)
      /\ UNCHANGED <<order, maxRooms, keywords, needsSort>>
  BY DEF AddJoinedRoom
<1> HIDE DEF u
<1>3. joined' \in [Room -> Shown \cup {None}] /\ invited' \in [Room -> Shown \cup {None}]
  BY <1>1, <1>2, ShownInfoType
<1>4. shown \in [Lists -> Seq(Room)]
  BY <1>1, WithAppended, ListOfType
<1> HIDE DEF shown
<1>5. displayed' \in [Lists -> Seq(Room)]
  BY <1>2, <1>4, WithoutFirst, "invited" \in Lists DEF Lists
<1>6. status' \in Status
  BY <1>2, RoomsCountType
<1> QED BY <1>1, <1>2, <1>3, <1>5, <1>6

(* UpdateRoomName keeps them. *)
LEMMA UpdateRoomNameInv ==
    ASSUME UiInv, UpdateRoomName
    PROVE  UiInv'
<1> USE DEF UiInv, UiTypeOK
<1> DEFINE u == Head(pending)
<1>1. u.room \in Room /\ u.value \in Data /\ pending' \in Seq(RoomsListUpdate) /\ UNCHANGED uiPhase
  BY PopType, UpdateFields DEF UpdateRoomName
<1>2. /\ \/ /\ joined[u.room] # None
            /\ joined' = [joined EXCEPT ![u.room].name = u.value]
            /\ UNCHANGED invited
         \/ /\ invited[u.room] # None
            /\ invited' = [invited EXCEPT ![u.room].name = u.value]
            /\ UNCHANGED joined
         \/ UNCHANGED <<joined, invited>>
      /\ UNCHANGED <<order, displayed, status, maxRooms, keywords, needsSort>>
  BY DEF UpdateRoomName
<1> HIDE DEF u
<1>3. joined' \in [Room -> Shown \cup {None}]
  <2>1. joined[u.room] # None => [joined[u.room] EXCEPT !.name = u.value] \in Shown
    BY <1>1, ShownWithField
  <2> QED BY <1>1, <1>2, <2>1
<1>4. invited' \in [Room -> Shown \cup {None}]
  <2>1. invited[u.room] # None => [invited[u.room] EXCEPT !.name = u.value] \in Shown
    BY <1>1, ShownWithField
  <2> QED BY <1>1, <1>2, <2>1
<1> QED BY <1>1, <1>2, <1>3, <1>4

(* UpdateRoomAvatar keeps them. *)
LEMMA UpdateRoomAvatarInv ==
    ASSUME UiInv, UpdateRoomAvatar
    PROVE  UiInv'
<1> USE DEF UiInv, UiTypeOK
<1> DEFINE u == Head(pending)
<1>1. u.room \in Room /\ u.value \in Data /\ pending' \in Seq(RoomsListUpdate) /\ UNCHANGED uiPhase
  BY PopType, UpdateFields DEF UpdateRoomAvatar
<1>2. /\ joined' = IF joined[u.room] = None THEN joined
                   ELSE [joined EXCEPT ![u.room].avatar = u.value]
      /\ UNCHANGED <<order, invited, displayed, status, maxRooms, keywords, needsSort>>
  BY DEF UpdateRoomAvatar
<1> HIDE DEF u
<1>3. joined' \in [Room -> Shown \cup {None}]
  BY <1>1, <1>2 DEF Shown
<1> QED BY <1>1, <1>2, <1>3

(* UpdateIsDirect keeps them. *)
LEMMA UpdateIsDirectInv ==
    ASSUME UiInv, UpdateIsDirect
    PROVE  UiInv'
<1> USE DEF UiInv, UiTypeOK
<1> DEFINE u == Head(pending)
<1>1. u.room \in Room /\ u.direct \in BOOLEAN /\ pending' \in Seq(RoomsListUpdate) /\ UNCHANGED uiPhase
  BY PopType, UpdateFields DEF UpdateIsDirect
<1>2. /\ \/ /\ joined[u.room] # None
            /\ joined' = [joined EXCEPT ![u.room].direct = u.direct]
            /\ displayed' = [displayed EXCEPT ![ListOf(~u.direct)] = RemoveFirst(@, u.room),
                                              ![ListOf(u.direct)] = Append(@, u.room)]
         \/ UNCHANGED <<joined, displayed>>
      /\ UNCHANGED <<order, invited, status, maxRooms, keywords, needsSort>>
  BY DEF UpdateIsDirect
<1> HIDE DEF u
<1>3. joined' \in [Room -> Shown \cup {None}]
  <2>1. joined[u.room] # None => [joined[u.room] EXCEPT !.direct = u.direct] \in Shown
    BY <1>1, ShownWithField
  <2> QED BY <1>1, <1>2, <2>1
<1>4. displayed' \in [Lists -> Seq(Room)]
  <2>1. /\ ListOf(u.direct) \in Lists /\ ListOf(~u.direct) \in Lists
        /\ ListOf(u.direct) # ListOf(~u.direct)
    BY <1>1 DEF ListOf, Lists
  <2>2. /\ RemoveFirst(displayed[ListOf(~u.direct)], u.room) \in Seq(Room)
        /\ Append(displayed[ListOf(u.direct)], u.room) \in Seq(Room)
    BY <1>1, <2>1, RemoveFirstType, AppendProperties
  <2> QED BY <1>2, <2>1, <2>2
<1> QED BY <1>1, <1>2, <1>3, <1>4

(* RemoveRoom keeps them. *)
LEMMA RemoveRoomUpdateInv ==
    ASSUME UiInv, RemoveRoomUpdate
    PROVE  UiInv'
<1> USE DEF UiInv, UiTypeOK
<1> DEFINE r == Head(pending).room
<1>1. r \in Room /\ pending' \in Seq(RoomsListUpdate) /\ UNCHANGED uiPhase
  BY PopType, UpdateFields DEF RemoveRoomUpdate
<1>2. /\ \/ /\ joined' = [joined EXCEPT ![r] = None]
            /\ displayed' = [displayed EXCEPT ![ListOf(joined[r].direct)] = RemoveFirst(@, r)]
            /\ UNCHANGED invited
         \/ /\ invited' = [invited EXCEPT ![r] = None]
            /\ displayed' = [displayed EXCEPT !["invited"] = RemoveFirst(@, r)]
            /\ UNCHANGED joined
         \/ UNCHANGED <<joined, invited, displayed>>
      /\ status' = RoomsCount(joined', invited', maxRooms)
      /\ UNCHANGED <<order, maxRooms, keywords, needsSort>>
  BY DEF RemoveRoomUpdate
<1> HIDE DEF r
<1>3. joined' \in [Room -> Shown \cup {None}] /\ invited' \in [Room -> Shown \cup {None}]
  BY <1>1, <1>2
<1>4. displayed' \in [Lists -> Seq(Room)]
  <2>1. \A list \in Lists : [displayed EXCEPT ![list] = RemoveFirst(@, r)] \in [Lists -> Seq(Room)]
    BY WithoutFirst
  <2>2. "invited" \in Lists /\ ListOf(joined[r].direct) \in Lists
    BY ListOfType DEF Lists
  <2> QED BY <1>2, <2>1, <2>2
<1>5. status' \in Status
  BY <1>2, RoomsCountType
<1> QED BY <1>1, <1>2, <1>3, <1>4, <1>5

(* ClearRooms keeps them. *)
LEMMA ClearRoomsInv ==
    ASSUME UiInv, ClearRooms
    PROVE  UiInv'
<1> USE DEF UiInv, UiTypeOK
<1>1. pending' \in Seq(RoomsListUpdate) /\ UNCHANGED uiPhase
  BY PopType DEF ClearRooms
<1>2. status' \in Status
  BY RoomsCountType DEF ClearRooms
<1>3. displayed' \in [Lists -> Seq(Room)]
  <2>1. <<>> \in Seq(Room)
    BY ONLY EmptySeq
  <2>2. displayed' = [list \in Lists |-> <<>>]
    BY DEF ClearRooms
  <2> QED BY ONLY <2>1, <2>2
<1>4. joined' \in [Room -> Shown \cup {None}] /\ invited' \in [Room -> Shown \cup {None}]
  BY DEF ClearRooms
<1>5. UNCHANGED <<order, maxRooms, keywords, needsSort>>
  BY DEF ClearRooms
<1> QED BY <1>1, <1>2, <1>3, <1>4, <1>5

(* NotLoaded, LoadedRooms and Status keep them. *)
LEMMA StatusInv ==
    ASSUME UiInv, NotLoaded \/ LoadedRooms \/ StatusUpdate
    PROVE  UiInv'
<1> USE DEF UiInv, UiTypeOK
<1>1. CASE NotLoaded
  BY <1>1, PopType DEF NotLoaded, Status, StatusKind
<1>2. CASE LoadedRooms
  <2>1. /\ pending' \in Seq(RoomsListUpdate) /\ UNCHANGED uiPhase
        /\ Head(pending).max \in Nat \cup {None}
    BY <1>2, PopType, UpdateFields DEF LoadedRooms
  <2>2. status' \in Status
    BY <1>2, RoomsCountType DEF LoadedRooms
  <2> QED BY <1>2, <2>1, <2>2 DEF LoadedRooms
<1>3. CASE StatusUpdate
  <2>1. /\ pending' \in Seq(RoomsListUpdate) /\ UNCHANGED uiPhase
        /\ Head(pending).kind \in StatusKind
    BY <1>3, PopType, UpdateFields DEF StatusUpdate
  <2> QED BY <1>3, <2>1 DEF StatusUpdate, Status
<1> QED BY <1>1, <1>2, <1>3

(* RoomOrderUpdate keeps them. *)
LEMMA RoomOrderUpdateInv ==
    ASSUME UiInv, RoomOrderUpdate
    PROVE  UiInv'
<1> USE DEF UiInv, UiTypeOK
<1>1. /\ pending' \in Seq(RoomsListUpdate) /\ UNCHANGED uiPhase
      /\ Head(pending).diff \in VecDiff
  BY PopType, UpdateFields DEF RoomOrderUpdate
<1>2. order' \in Seq(Room)
  BY <1>1, ApplyOrderType DEF RoomOrderUpdate
<1>3. needsSort' \in BOOLEAN
  BY DEF RoomOrderUpdate
<1> QED BY <1>1, <1>2, <1>3 DEF RoomOrderUpdate

(* ApplyFilter keeps them. *)
LEMMA ApplyFilterInv ==
    ASSUME UiInv, ApplyFilter
    PROVE  UiInv'
<1>1. /\ pending' \in Seq(RoomsListUpdate) /\ UNCHANGED uiPhase
      /\ Head(pending).keywords \in Keywords
  BY PopType, UpdateFields DEF ApplyFilter, UiInv
<1> QED BY <1>1 DEF ApplyFilter, UiInv, UiTypeOK

(* A list regenerated from a map is a sequence of rooms. *)
LEMMA RoomSeqsType ==
    ASSUME NEW R \in SUBSET Room, NEW s \in SetToSeqs(R)
    PROVE  s \in Seq(Room)
<1>1. IsFiniteSet(R)
  BY ConstantsType, FS_Subset
<1>2. s \in Seq(R)
  BY <1>1, SetToSeqsType
<1> QED BY <1>2

(* The end of a drain, with update_displayed_rooms or without, keeps them. *)
LEMMA EndDrainInv ==
    ASSUME UiInv, EndDrain
    PROVE  UiInv'
<1> USE DEF UiInv, UiTypeOK
<1>1. /\ uiPhase' = "idle" /\ needsSort' = FALSE
      /\ UNCHANGED <<order, joined, invited, maxRooms, keywords, pending>>
  BY DEF EndDrain
<1>2. CASE UpdateDisplayedRooms
  <2>1. PICK i \in SetToSeqs(Present(invited)),
             d \in SetToSeqs({r \in Present(joined) : joined[r].direct}),
             g \in SetToSeqs({r \in Present(joined) : ~joined[r].direct}) :
          displayed' = [list \in Lists |-> CASE list = "invited" -> i
                                             [] list = "direct" -> d
                                             [] list = "regular" -> g]
    BY <1>2 DEF UpdateDisplayedRooms
  <2>2. i \in Seq(Room) /\ d \in Seq(Room) /\ g \in Seq(Room)
    BY RoomSeqsType DEF Present
  <2>3. displayed' \in [Lists -> Seq(Room)]
    BY <2>1, <2>2 DEF Lists
  <2>4. status' \in Status
    BY <1>2, RoomsCountType DEF UpdateDisplayedRooms
  <2> QED BY <1>1, <2>3, <2>4
<1>3. CASE UNCHANGED <<displayed, status>>
  BY <1>1, <1>3
<1> QED BY <1>2, <1>3 DEF EndDrain

(* Every step of the task that owns the RoomsList keeps its types. *)
LEMMA UiStepInv ==
    ASSUME UiInv, UiNext
    PROVE  UiInv'
<1>1. CASE Wake
  BY <1>1 DEF Wake, UiInv, UiTypeOK
<1> QED BY <1>1, AddInvitedRoomInv, AddJoinedRoomInv, UpdateRoomNameInv, UpdateRoomAvatarInv,
           UpdateIsDirectInv, RemoveRoomUpdateInv, ClearRoomsInv, StatusInv, RoomOrderUpdateInv,
           ApplyFilterInv, EndDrainInv DEF UiNext

----------------------------------------------------------------------------

(* The inductive invariant behind type correctness. *)
IInv == TypeOK /\ KnownTracksService

(* The initial states satisfy the inductive invariant. *)
LEMMA InitInv == Init => IInv
<1> SUFFICES ASSUME Init PROVE IInv
  OBVIOUS
<1>1. pending \in Seq(RoomsListUpdate)
  BY DEF Init, RoomsListUpdate, StatusKind
<1>2. SyncTypeOK /\ KnownTracksService
  BY ConstantsType DEF Init, SyncInit, SyncTypeOK, KnownTracksService, Phase
<1>3. UiTypeOK
  <2>0. UiInit
    BY DEF Init
  <2>1. order \in Seq(Room)
    <3>1. order = <<>>
      BY <2>0 DEF UiInit
    <3> QED BY <3>1
  <2>5. displayed \in [Lists -> Seq(Room)]
    <3>1. <<>> \in Seq(Room)
      OBVIOUS
    <3> QED BY <2>0, <3>1 DEF UiInit
  <2>2. joined \in [Room -> Shown \cup {None}] /\ invited \in [Room -> Shown \cup {None}]
    BY DEF Init, UiInit
  <2>3. status \in Status
    BY DEF Init, UiInit, Status, StatusKind
  <2>4. /\ maxRooms \in Nat \cup {None} /\ uiPhase \in {"idle", "draining"}
        /\ keywords \in Keywords \cup {""}
    <3>1. maxRooms = None /\ uiPhase = "idle" /\ keywords = ""
      BY <2>0 DEF UiInit
    <3> QED BY <3>1
  <2>6. needsSort \in BOOLEAN
    BY <2>0 DEF UiInit
  <2> QED BY <2>1, <2>2, <2>3, <2>4, <2>5, <2>6 DEF UiTypeOK
<1>4. commands \in 0..MaxCommands
  BY ConstantsType DEF Init
<1>5. reported \in BOOLEAN
  BY DEF Init
<1> QED BY <1>1, <1>2, <1>3, <1>4, <1>5 DEF IInv, TypeOK

(* enqueue_rooms_list_update keeps the queue a queue of updates. *)
LEMMA EnqueueType ==
    ASSUME pending \in Seq(RoomsListUpdate), NEW u \in RoomsListUpdate, Enqueue(u)
    PROVE  pending' \in Seq(RoomsListUpdate)
BY AppendProperties DEF Enqueue

(* Steps of other tasks leave the sync task alone. *)
LEMMA FrozenSync ==
    ASSUME SyncInv, UNCHANGED syncVars
    PROVE  SyncInv'
BY DEF SyncInv, SyncTypeOK, KnownTracksService, syncVars

(* Steps of other tasks leave the RoomsList alone. *)
LEMMA FrozenUi ==
    ASSUME UiTypeOK, UNCHANGED uiVars
    PROVE  UiTypeOK'
BY DEF UiTypeOK, uiVars

(* Every step of the pipeline preserves the inductive invariant. *)
LEMMA StepInv == IInv /\ [Next]_vars => IInv'
<1> SUFFICES ASSUME IInv, [Next]_vars PROVE IInv'
  OBVIOUS
<1>1. /\ SyncInv /\ UiTypeOK /\ pending \in Seq(RoomsListUpdate)
      /\ reported \in BOOLEAN /\ commands \in 0..MaxCommands
  BY DEF IInv, TypeOK, SyncInv
<1> SUFFICES /\ SyncInv' /\ UiTypeOK' /\ pending' \in Seq(RoomsListUpdate)
             /\ reported' \in BOOLEAN /\ commands' \in 0..MaxCommands
  BY DEF IInv, TypeOK, SyncInv
<1>2. CASE SyncNext /\ UNCHANGED <<uiVars, reported, commands>>
  BY <1>1, <1>2, SyncStepInv, FrozenUi
<1>3. CASE UiNext /\ UNCHANGED <<syncVars, reported, commands>>
  BY <1>1, <1>3, UiStepInv, FrozenSync DEF UiInv
<1>4. ASSUME NEW k \in Keywords, FilterRoomList(k)
      PROVE  /\ SyncInv' /\ UiTypeOK' /\ pending' \in Seq(RoomsListUpdate)
             /\ reported' \in BOOLEAN /\ commands' \in 0..MaxCommands
  <2>1. [op |-> "ApplyFilter", keywords |-> k] \in RoomsListUpdate
    BY ConstantsType DEF RoomsListUpdate
  <2>2. pending' \in Seq(RoomsListUpdate)
    BY <1>1, <1>4, <2>1, EnqueueType DEF FilterRoomList
  <2> QED BY <1>1, <1>4, <2>2, FrozenSync, FrozenUi, ConstantsType DEF FilterRoomList
<1>5. CASE LoadingStateChanges
  <2>1. /\ [op |-> "NotLoaded"] \in RoomsListUpdate
        /\ \A m \in MaxRooms : [op |-> "LoadedRooms", max |-> m] \in RoomsListUpdate
    BY ConstantsType DEF RoomsListUpdate
  <2>2. pending' \in Seq(RoomsListUpdate)
    BY <1>1, <1>5, <2>1, EnqueueType DEF LoadingStateChanges
  <2> QED BY <1>1, <1>5, <2>2, FrozenSync, FrozenUi, ConstantsType DEF LoadingStateChanges
<1>6. CASE ReportFailure
  <2>1. [op |-> "Status", kind |-> "Error"] \in RoomsListUpdate
    BY DEF RoomsListUpdate, StatusKind
  <2>2. pending' \in Seq(RoomsListUpdate)
    BY <1>1, <1>6, <2>1, EnqueueType DEF ReportFailure
  <2> QED BY <1>1, <1>6, <2>2, FrozenSync, FrozenUi DEF ReportFailure
<1>7. CASE UNCHANGED vars
  BY <1>1, <1>7, FrozenSync, FrozenUi DEF vars
<1> QED BY <1>2, <1>3, <1>4, <1>5, <1>6, <1>7 DEF Next

(* Type correctness of the whole pipeline, for any rooms, infos, diff      *)
(* kinds and bounds: every update that reaches the RoomsList is well-      *)
(* formed, and every index of a diff that the sync loop applies to         *)
(* all_known_rooms is in range (the code indexes the imbl Vector there,    *)
(* which panics when it is not).                                           *)
THEOREM TypeCorrect == Spec => []TypeOK
<1>1. IInv => TypeOK
  BY DEF IInv
<1> QED BY <1>1, InitInv, StepInv, PTL DEF Spec

(***************************************************************************)
(* 3. Joined rooms are backed: a room that the frontend shows as joined    *)
(* has its JoinedRoomDetails unless its removal is on the way. The         *)
(* argument follows an announcement (AddJoinedRoom) and a teardown through *)
(* the effects a handler has yet to perform, the queue, and the joined     *)
(* rooms of the frontend.                                                  *)
(***************************************************************************)

SendsRemoval(effect, r) == effect.do = "enqueue" /\ Removes(effect.update, r)

SendsAnnouncement(effect, r) == effect.do = "enqueue" /\ Announces(effect.update, r)

(* The effect removes the details of the room. *)
TearsDown(effect, r) ==
    \/ effect.do = "clear_all_rooms"
    \/ effect.do = "remove_room_details" /\ effect.room = r

InsertDetails(r) == [do |-> "insert_room_details", room |-> r]

(* A list of effects, with the rooms that have details when it starts:     *)
(* each announcement follows the insertion of the details directly, and    *)
(* each teardown is followed by the enqueueing of a removal.               *)
Orderly(s, rooms) ==
    \A r \in Room, i \in DOMAIN s :
      /\ SendsAnnouncement(s[i], r) =>
           \/ i = 1 /\ r \in rooms
           \/ i > 1 /\ s[i - 1] = InsertDetails(r)
      /\ TearsDown(s[i], r) => \E j \in DOMAIN s : j > i /\ SendsRemoval(s[j], r)

(* The room has details, or its removal comes at the n-th place of the     *)
(* queue or later.                                                         *)
Settled(r, n) ==
    \/ r \in details
    \/ \E j \in DOMAIN pending : j >= n /\ Removes(pending[j], r)
    \/ \E j \in DOMAIN todo : SendsRemoval(todo[j], r)

(* An announced room has details or is removed by a later update. *)
AnnouncedRoomsSettled ==
    \A r \in Room, i \in DOMAIN pending : Announces(pending[i], r) => Settled(r, i + 1)

----------------------------------------------------------------------------

(* Two orderly lists of effects, one after the other, are orderly. *)
LEMMA OrderlyConcat ==
    ASSUME NEW s \in Seq(Effect), NEW t \in Seq(Effect), Orderly(s, {}), Orderly(t, {})
    PROVE  Orderly(s \o t, {})
<1>1. /\ s \o t \in Seq(Effect)
      /\ Len(s) \in Nat /\ Len(t) \in Nat
      /\ DOMAIN s = 1..Len(s) /\ DOMAIN t = 1..Len(t)
      /\ DOMAIN (s \o t) = 1..(Len(s) + Len(t))
      /\ \A i \in 1..Len(s) : (s \o t)[i] = s[i]
      /\ \A i \in 1..Len(t) : (s \o t)[Len(s) + i] = t[i]
  BY ConcatProperties
<1> DEFINE st == s \o t
<1> HIDE DEF st
<1> SUFFICES ASSUME NEW r \in Room, NEW i \in DOMAIN st
             PROVE  /\ SendsAnnouncement(st[i], r) => i > 1 /\ st[i - 1] = InsertDetails(r)
                    /\ TearsDown(st[i], r) => \E j \in DOMAIN st : j > i /\ SendsRemoval(st[j], r)
  BY DEF Orderly, st
<1>2. CASE i \in 1..Len(s)
  <2>1. /\ SendsAnnouncement(s[i], r) => i > 1 /\ s[i - 1] = InsertDetails(r)
        /\ TearsDown(s[i], r) => \E j \in DOMAIN s : j > i /\ SendsRemoval(s[j], r)
    BY <1>1, <1>2 DEF Orderly
  <2>2. st[i] = s[i] /\ (i > 1 => st[i - 1] = s[i - 1])
    BY <1>1, <1>2 DEF st
  <2>3. \A j \in DOMAIN s : j \in DOMAIN st /\ st[j] = s[j]
    BY <1>1 DEF st
  <2> QED BY <2>1, <2>2, <2>3
<1>3. CASE i \notin 1..Len(s)
  <2> DEFINE k == i - Len(s)
  <2>1. k \in 1..Len(t) /\ i = Len(s) + k
    BY <1>1, <1>3 DEF st
  <2> HIDE DEF k
  <2>2. /\ SendsAnnouncement(t[k], r) => k > 1 /\ t[k - 1] = InsertDetails(r)
        /\ TearsDown(t[k], r) => \E j \in DOMAIN t : j > k /\ SendsRemoval(t[j], r)
    BY <1>1, <2>1 DEF Orderly
  <2>3. \A j \in DOMAIN t : Len(s) + j \in DOMAIN st /\ st[Len(s) + j] = t[j]
    BY <1>1 DEF st
  <2>4. st[i] = t[k]
    BY <1>1, <2>1, <2>3
  <2>5. ASSUME SendsAnnouncement(st[i], r)
        PROVE  i > 1 /\ st[i - 1] = InsertDetails(r)
    <3>1. k > 1 /\ t[k - 1] = InsertDetails(r)
      BY <2>2, <2>4, <2>5
    <3>2. k - 1 \in 1..Len(t) /\ i - 1 = Len(s) + (k - 1) /\ i > 1
      BY <1>1, <2>1, <3>1
    <3> QED BY <1>1, <2>3, <3>1, <3>2
  <2>6. ASSUME TearsDown(st[i], r)
        PROVE  \E j \in DOMAIN st : j > i /\ SendsRemoval(st[j], r)
    <3>1. PICK j \in DOMAIN t : j > k /\ SendsRemoval(t[j], r)
      BY <2>2, <2>4, <2>6
    <3>2. Len(s) + j > i
      BY <1>1, <2>1, <3>1
    <3> QED BY <2>3, <3>1, <3>2
  <2> QED BY <2>5, <2>6
<1> QED BY <1>2, <1>3

(* The effects that decide whether a room has details, and those that      *)
(* decide whether the frontend shows it as joined.                         *)
Inserting(r) == {e \in Effect : e = InsertDetails(r)}
Tearing(r) == {e \in Effect : TearsDown(e, r)}
Announcing(r) == {e \in Effect : SendsAnnouncement(e, r)}
Withdrawing(r) == {e \in Effect : SendsRemoval(e, r)}

(* The rooms that have details after a list of effects, given those that   *)
(* had them before; and the rooms that the frontend shows as joined once   *)
(* it has drained what the list enqueues.                                  *)
DetailsAfter(rooms, s) == {r \in Room : Outcome(r \in rooms, s, Inserting(r), Tearing(r))}
ShownAfter(rooms, s) == {r \in Room : Outcome(r \in rooms, s, Announcing(r), Withdrawing(r))}

(* A list of effects does the same to both. *)
Balanced(s) == \A rooms \in SUBSET Room : DetailsAfter(rooms, s) = ShownAfter(rooms, s)

(* What every list of effects of a handler is. *)
Proper(s) == Orderly(s, {}) /\ Balanced(s)

(* Two lists of effects, one after the other. *)
LEMMA AfterConcat ==
    ASSUME NEW s \in Seq(Effect), NEW t \in Seq(Effect), NEW rooms \in SUBSET Room
    PROVE  /\ DetailsAfter(rooms, s \o t) = DetailsAfter(DetailsAfter(rooms, s), t)
           /\ ShownAfter(rooms, s \o t) = ShownAfter(ShownAfter(rooms, s), t)
<1>1. ASSUME NEW r \in Room
      PROVE  r \in DetailsAfter(rooms, s \o t) <=> r \in DetailsAfter(DetailsAfter(rooms, s), t)
  <2> DEFINE Y == DetailsAfter(rooms, s)
  <2>1. r \in Y <=> Outcome(r \in rooms, s, Inserting(r), Tearing(r))
    BY DEF DetailsAfter
  <2> HIDE DEF Y
  <2>2. Outcome(r \in rooms, s \o t, Inserting(r), Tearing(r)) <=> Outcome(r \in Y, t, Inserting(r), Tearing(r))
    BY <2>1, OutcomeOfConcat
  <2> QED BY <2>2 DEF DetailsAfter, Y
<1>2. ASSUME NEW r \in Room
      PROVE  r \in ShownAfter(rooms, s \o t) <=> r \in ShownAfter(ShownAfter(rooms, s), t)
  <2> DEFINE Y == ShownAfter(rooms, s)
  <2>1. r \in Y <=> Outcome(r \in rooms, s, Announcing(r), Withdrawing(r))
    BY DEF ShownAfter
  <2> HIDE DEF Y
  <2>2. Outcome(r \in rooms, s \o t, Announcing(r), Withdrawing(r)) <=> Outcome(r \in Y, t, Announcing(r), Withdrawing(r))
    BY <2>1, OutcomeOfConcat
  <2> QED BY <2>2 DEF ShownAfter, Y
<1>3. /\ DetailsAfter(rooms, s \o t) \subseteq Room
      /\ DetailsAfter(DetailsAfter(rooms, s), t) \subseteq Room
      /\ ShownAfter(rooms, s \o t) \subseteq Room
      /\ ShownAfter(ShownAfter(rooms, s), t) \subseteq Room
  BY DEF DetailsAfter, ShownAfter
<1> QED BY <1>1, <1>2, <1>3

(* Two proper lists of effects, one after the other, are proper. *)
LEMMA ProperConcat ==
    ASSUME NEW s \in Seq(Effect), NEW t \in Seq(Effect), Proper(s), Proper(t)
    PROVE  Proper(s \o t)
<1>1. Orderly(s \o t, {})
  BY OrderlyConcat DEF Proper
<1>2. ASSUME NEW rooms \in SUBSET Room
      PROVE  DetailsAfter(rooms, s \o t) = ShownAfter(rooms, s \o t)
  <2>1. DetailsAfter(rooms, s) \in SUBSET Room /\ DetailsAfter(rooms, s) = ShownAfter(rooms, s)
    BY DEF Proper, Balanced, DetailsAfter
  <2>2. DetailsAfter(DetailsAfter(rooms, s), t) = ShownAfter(DetailsAfter(rooms, s), t)
    BY <2>1 DEF Proper, Balanced
  <2> QED BY <2>1, <2>2, AfterConcat
<1> QED BY <1>1, <1>2 DEF Proper, Balanced

(* No effect is proper. *)
LEMMA ProperEmpty ==
    /\ Proper(<<>>)
    /\ \A rooms \in SUBSET Room : DetailsAfter(rooms, <<>>) = rooms /\ ShownAfter(rooms, <<>>) = rooms
<1>1. \A rooms \in SUBSET Room : DetailsAfter(rooms, <<>>) = rooms /\ ShownAfter(rooms, <<>>) = rooms
  BY OutcomeOfNone DEF DetailsAfter, ShownAfter
<1>2. Orderly(<<>>, {})
  BY DEF Orderly
<1> QED BY <1>1, <1>2 DEF Proper, Balanced

(* The updates that neither add nor remove a joined room. *)
Plain(u) == u.op \notin {"AddJoinedRoom", "RemoveRoom", "ClearRooms"}

(* Enqueueing such updates is proper, and changes no details. *)
LEMMA ProperPlain ==
    ASSUME NEW s, \A e \in ToSet(s) : e.do = "enqueue" /\ Plain(e.update)
    PROVE  /\ Proper(s)
           /\ \A rooms \in SUBSET Room : DetailsAfter(rooms, s) = rooms
<1>1. \A i \in DOMAIN s : s[i].do = "enqueue" /\ Plain(s[i].update)
  BY DEF ToSet
<1>2. Orderly(s, {})
  BY <1>1 DEF Orderly, SendsAnnouncement, Announces, TearsDown, Plain
<1>3. \A r : \A i \in DOMAIN s : /\ s[i] \notin Inserting(r) /\ s[i] \notin Tearing(r)
                                 /\ s[i] \notin Announcing(r) /\ s[i] \notin Withdrawing(r)
  BY <1>1 DEF Inserting, Tearing, Announcing, Withdrawing, InsertDetails, TearsDown,
         SendsAnnouncement, SendsRemoval, Announces, Removes, Plain
<1>4. \A rooms \in SUBSET Room : /\ DetailsAfter(rooms, s) = rooms
                                 /\ ShownAfter(rooms, s) = rooms
  BY <1>3 DEF DetailsAfter, ShownAfter, Outcome
<1> QED BY <1>2, <1>4 DEF Proper, Balanced

LEMMA ProperOne ==
    ASSUME NEW u, Plain(u)
    PROVE  /\ Proper(<<Send(u)>>)
           /\ \A rooms \in SUBSET Room : DetailsAfter(rooms, <<Send(u)>>) = rooms
<1>1. \A e \in ToSet(<<Send(u)>>) : e.do = "enqueue" /\ e.update = u
  BY DEF ToSet, Send
<1> QED BY <1>1, ProperPlain

(* Enqueueing an order diff is one. *)
LEMMA ProperOrder ==
    ASSUME NEW diff
    PROVE  /\ Proper(<<SendOrder(diff)>>)
           /\ \A rooms \in SUBSET Room : DetailsAfter(rooms, <<SendOrder(diff)>>) = rooms
<1>1. Plain([op |-> "RoomOrderUpdate", diff |-> diff])
  BY DEF Plain
<1> QED BY <1>1, ProperOne DEF SendOrder

(* add_new_room inserts the details of a joined room before it enqueues    *)
(* AddJoinedRoom.                                                          *)
LEMMA ProperAddNewRoom ==
    ASSUME NEW new \in Entry
    PROVE  /\ Proper(AddNewRoom(new))
           /\ \A rooms \in SUBSET Room :
                DetailsAfter(rooms, AddNewRoom(new)) \subseteq rooms \cup {new.room}
<1>1. CASE new.info.state = "Joined"
  <2> DEFINE a == InsertDetails(new.room)
             b == Send([op |-> "AddJoinedRoom", room |-> new.room, info |-> new.info])
  <2>1. AddNewRoom(new) = <<a, b>> /\ a \in Effect /\ b \in Effect
    <3>1. new.room \in Room /\ new.info \in RoomInfo
      BY DEF Entry
    <3>2. b \in Effect
      BY <3>1, SendType DEF RoomsListUpdate
    <3> QED BY <1>1, <3>1, <3>2 DEF AddNewRoom, InsertDetails, Effect
  <2>2. Orderly(<<a, b>>, {})
    BY DEF Orderly, Send, SendsAnnouncement, Announces, TearsDown, InsertDetails
  <2>3. \A r : /\ a \in Inserting(r) <=> r = new.room
               /\ a \notin Tearing(r) /\ a \notin Announcing(r) /\ a \notin Withdrawing(r)
               /\ b \in Announcing(r) <=> r = new.room
               /\ b \notin Withdrawing(r) /\ b \notin Inserting(r) /\ b \notin Tearing(r)
    BY <2>1 DEF Inserting, Tearing, Announcing, Withdrawing, Send, InsertDetails, TearsDown,
                SendsAnnouncement, SendsRemoval, Announces, Removes
  <2> HIDE DEF a, b
  <2> DEFINE ab == <<a, b>>
  <2>0. DOMAIN ab = {1, 2} /\ ab[1] = a /\ ab[2] = b
    OBVIOUS
  <2> HIDE DEF ab
  <2>4. ASSUME NEW rooms \in SUBSET Room, NEW r \in Room
        PROVE  /\ r \in DetailsAfter(rooms, ab) <=> r \in rooms \cup {new.room}
               /\ r \in ShownAfter(rooms, ab) <=> r \in rooms \cup {new.room}
    <3>1. /\ r \in DetailsAfter(rooms, ab) <=> Outcome(r \in rooms, ab, Inserting(r), Tearing(r))
          /\ r \in ShownAfter(rooms, ab) <=> Outcome(r \in rooms, ab, Announcing(r), Withdrawing(r))
      BY DEF DetailsAfter, ShownAfter
    <3>2. Outcome(r \in rooms, ab, Inserting(r), Tearing(r)) <=> r \in rooms \cup {new.room}
      <4>1. Outcome(r \in rooms, ab, Inserting(r), Tearing(r))
              <=> ab[2] \in Inserting(r) \/ (ab[2] \notin Tearing(r) /\ (ab[1] \in Inserting(r) \/ (ab[1] \notin Tearing(r) /\ r \in rooms)))
        BY ONLY <2>0, OutcomeOfTwo
      <4>2. /\ ab[1] \in Inserting(r) <=> r = new.room
            /\ ab[2] \notin Tearing(r) /\ ab[2] \notin Inserting(r) /\ ab[1] \notin Tearing(r)
        BY <2>0, <2>3
      <4>3. Outcome(r \in rooms, ab, Inserting(r), Tearing(r)) <=> (r = new.room \/ r \in rooms)
        BY ONLY <4>1, <4>2
      <4>4. (r = new.room \/ r \in rooms) <=> r \in rooms \cup {new.room}
        BY ONLY TRUE
      <4> QED BY ONLY <4>3, <4>4
    <3>3. Outcome(r \in rooms, ab, Announcing(r), Withdrawing(r)) <=> r \in rooms \cup {new.room}
      <4>1. Outcome(r \in rooms, ab, Announcing(r), Withdrawing(r))
              <=> ab[2] \in Announcing(r) \/ (ab[2] \notin Withdrawing(r) /\ (ab[1] \in Announcing(r) \/ (ab[1] \notin Withdrawing(r) /\ r \in rooms)))
        BY ONLY <2>0, OutcomeOfTwo
      <4>2. /\ ab[2] \in Announcing(r) <=> r = new.room
            /\ ab[2] \notin Withdrawing(r) /\ ab[1] \notin Announcing(r) /\ ab[1] \notin Withdrawing(r)
        BY <2>0, <2>3
      <4>3. Outcome(r \in rooms, ab, Announcing(r), Withdrawing(r)) <=> (r = new.room \/ r \in rooms)
        BY ONLY <4>1, <4>2
      <4>4. (r = new.room \/ r \in rooms) <=> r \in rooms \cup {new.room}
        BY ONLY TRUE
      <4> QED BY ONLY <4>3, <4>4
    <3> QED BY <3>1, <3>2, <3>3
  <2>5. \A rooms \in SUBSET Room : /\ DetailsAfter(rooms, ab) \subseteq rooms \cup {new.room}
                                   /\ DetailsAfter(rooms, ab) = ShownAfter(rooms, ab)
    <3>1. \A rooms : DetailsAfter(rooms, ab) \subseteq Room /\ ShownAfter(rooms, ab) \subseteq Room
      BY DEF DetailsAfter, ShownAfter
    <3> QED BY <2>4, <3>1
  <2> QED BY <2>1, <2>2, <2>5 DEF Proper, Balanced, ab
<1>2. CASE new.info.state = "Invited"
  <2> DEFINE u == [op |-> "AddInvitedRoom", room |-> new.room, info |-> new.info]
  <2>1. Plain(u)
    BY DEF Plain
  <2>2. AddNewRoom(new) = <<Send(u)>>
    BY <1>2 DEF AddNewRoom
  <2> HIDE DEF u
  <2> QED BY <2>1, <2>2, ProperOne
<1>3. CASE new.info.state \notin {"Joined", "Invited"}
  BY <1>3, ProperEmpty DEF AddNewRoom
<1> QED BY <1>1, <1>2, <1>3

(* remove_room enqueues RemoveRoom after it has removed the details. *)
LEMMA ProperRemoveRoom ==
    ASSUME NEW room \in Room
    PROVE  /\ Proper(RemoveRoom(room))
           /\ \A rooms \in SUBSET Room : DetailsAfter(rooms, RemoveRoom(room)) = rooms \ {room}
<1> DEFINE a == [do |-> "remove_room_details", room |-> room]
           b == Send([op |-> "RemoveRoom", room |-> room])
<1>1. RemoveRoom(room) = <<a, b>> /\ a \in Effect /\ b \in Effect
  <2>1. b \in Effect
    BY SendType DEF RoomsListUpdate
  <2> QED BY <2>1 DEF RemoveRoom, Effect
<1>2. Orderly(<<a, b>>, {})
  BY DEF Orderly, Send, SendsAnnouncement, Announces, TearsDown, SendsRemoval, Removes
<1>3. \A r : /\ a \in Tearing(r) <=> r = room
             /\ a \notin Inserting(r) /\ a \notin Announcing(r) /\ a \notin Withdrawing(r)
             /\ b \in Withdrawing(r) <=> r = room
             /\ b \notin Announcing(r) /\ b \notin Inserting(r) /\ b \notin Tearing(r)
  BY <1>1 DEF Inserting, Tearing, Announcing, Withdrawing, Send, InsertDetails, TearsDown,
              SendsAnnouncement, SendsRemoval, Announces, Removes
<1> HIDE DEF a, b
<1> DEFINE ab == <<a, b>>
<1>0. DOMAIN ab = {1, 2} /\ ab[1] = a /\ ab[2] = b
  OBVIOUS
<1> HIDE DEF ab
<1>4. ASSUME NEW rooms \in SUBSET Room, NEW r \in Room
      PROVE  /\ r \in DetailsAfter(rooms, ab) <=> r \in rooms \ {room}
             /\ r \in ShownAfter(rooms, ab) <=> r \in rooms \ {room}
  <2>1. /\ r \in DetailsAfter(rooms, ab) <=> Outcome(r \in rooms, ab, Inserting(r), Tearing(r))
        /\ r \in ShownAfter(rooms, ab) <=> Outcome(r \in rooms, ab, Announcing(r), Withdrawing(r))
    BY DEF DetailsAfter, ShownAfter
  <2>2. Outcome(r \in rooms, ab, Inserting(r), Tearing(r)) <=> r \in rooms \ {room}
    <3>1. Outcome(r \in rooms, ab, Inserting(r), Tearing(r))
            <=> ab[2] \in Inserting(r) \/ (ab[2] \notin Tearing(r) /\ (ab[1] \in Inserting(r) \/ (ab[1] \notin Tearing(r) /\ r \in rooms)))
      BY ONLY <1>0, OutcomeOfTwo
    <3>2. /\ ab[1] \in Tearing(r) <=> r = room
          /\ ab[2] \notin Tearing(r) /\ ab[2] \notin Inserting(r) /\ ab[1] \notin Inserting(r)
      BY <1>0, <1>3
    <3>3. Outcome(r \in rooms, ab, Inserting(r), Tearing(r)) <=> (r # room /\ r \in rooms)
      BY ONLY <3>1, <3>2
    <3>4. (r # room /\ r \in rooms) <=> r \in rooms \ {room}
      BY ONLY TRUE
    <3> QED BY ONLY <3>3, <3>4
  <2>3. Outcome(r \in rooms, ab, Announcing(r), Withdrawing(r)) <=> r \in rooms \ {room}
    <3>1. Outcome(r \in rooms, ab, Announcing(r), Withdrawing(r))
            <=> ab[2] \in Announcing(r) \/ (ab[2] \notin Withdrawing(r) /\ (ab[1] \in Announcing(r) \/ (ab[1] \notin Withdrawing(r) /\ r \in rooms)))
      BY ONLY <1>0, OutcomeOfTwo
    <3>2. /\ ab[2] \in Withdrawing(r) <=> r = room
          /\ ab[2] \notin Announcing(r) /\ ab[1] \notin Announcing(r) /\ ab[1] \notin Withdrawing(r)
      BY <1>0, <1>3
    <3>3. Outcome(r \in rooms, ab, Announcing(r), Withdrawing(r)) <=> (r # room /\ r \in rooms)
      BY ONLY <3>1, <3>2
    <3>4. (r # room /\ r \in rooms) <=> r \in rooms \ {room}
      BY ONLY TRUE
    <3> QED BY ONLY <3>3, <3>4
  <2> QED BY <2>1, <2>2, <2>3
<1>5. \A rooms \in SUBSET Room : /\ DetailsAfter(rooms, ab) = rooms \ {room}
                                 /\ ShownAfter(rooms, ab) = rooms \ {room}
  <2>1. \A rooms : DetailsAfter(rooms, ab) \subseteq Room /\ ShownAfter(rooms, ab) \subseteq Room
    BY DEF DetailsAfter, ShownAfter
  <2> QED BY <1>4, <2>1
<1> QED BY <1>1, <1>2, <1>5 DEF Proper, Balanced, ab

(* update_room is proper in each of its cases, also when it removes one     *)
(* room and adds another.                                                  *)
LEMMA ProperUpdateRoom ==
    ASSUME NEW old \in Entry, NEW new \in Entry
    PROVE  /\ Proper(UpdateRoom(old, new))
           /\ \A rooms \in SUBSET Room :
                DetailsAfter(rooms, UpdateRoom(old, new)) \subseteq (rooms \ {old.room}) \cup {new.room}
<1> DEFINE update == UpdateRoom(old, new)
           r == RemoveRoom(old.room)
           a == AddNewRoom(new)
<1>1. /\ a \in Seq(Effect) /\ r \in Seq(Effect)
      /\ Proper(a) /\ Proper(r) /\ Proper(RemoveRoom(new.room)) /\ old.room \in Room /\ new.room \in Room
  BY AddNewRoomType, RemoveRoomType, ProperAddNewRoom, ProperRemoveRoom DEF Entry
<1>2. \A rooms \in SUBSET Room : /\ DetailsAfter(rooms, r) = rooms \ {old.room}
                                 /\ DetailsAfter(rooms, RemoveRoom(new.room)) = rooms \ {new.room}
                                 /\ DetailsAfter(rooms, a) \subseteq rooms \cup {new.room}
  BY <1>1, ProperAddNewRoom, ProperRemoveRoom
<1> HIDE DEF update, r, a
<1>3. CASE update = r \o a
  <2>1. ASSUME NEW rooms \in SUBSET Room
        PROVE  DetailsAfter(rooms, update) \subseteq (rooms \ {old.room}) \cup {new.room}
    <3>1. DetailsAfter(rooms, update) = DetailsAfter(DetailsAfter(rooms, r), a)
      BY <1>1, <1>3, AfterConcat
    <3> QED BY <1>2, <3>1, rooms \ {old.room} \in SUBSET Room
  <2> QED BY <1>1, <1>3, <2>1, ProperConcat DEF update
<1>4. CASE /\ old.room = new.room
           /\ update = RemoveRoom(new.room) \/ update = a
  BY <1>1, <1>2, <1>4 DEF update
<1>5. CASE /\ old.room = new.room
           /\ \A e \in ToSet(update) : SendsAbout(e, DataUpdates, new.room)
  <2>1. \A e \in ToSet(update) : e.do = "enqueue" /\ Plain(e.update)
    BY <1>5 DEF SendsAbout, DataUpdates, Plain
  <2>2. Proper(update) /\ \A rooms \in SUBSET Room : DetailsAfter(rooms, update) = rooms
    BY <2>1, ProperPlain
  <2> QED BY <1>5, <2>2 DEF update
<1> QED BY <1>3, <1>4, <1>5, UpdateRoomCases DEF update, r, a

----------------------------------------------------------------------------

(* A step of the sync task that sets up a proper list of effects and     *)
(* touches nothing that is shared.                                         *)
Starts == todo = <<>> /\ Proper(todo') /\ UNCHANGED <<details, pending>>

(* A handler that only prepares its loop. *)
LEMMA StartsWithNothing ==
    ASSUME todo = <<>>, UNCHANGED <<todo, details, pending>>
    PROVE  Starts
BY ProperEmpty DEF Starts

(* The diffs that concern one room, with their order diffs. *)
LEMMA OneRoomStarts ==
    ASSUME SyncInv, OneRoomDiff
    PROVE  Starts
<1>1. /\ todo = <<>> /\ UNCHANGED <<details, pending>> /\ OneRoom
      /\ \A i \in 1..Len(svc) : known[i] \in Entry /\ known[i].room \in Room
  BY OneRoomDiffDoes
<1> DEFINE Good(s) == s \in Seq(Effect) /\ Proper(s)
<1>2. \A diff \in VecDiff : Good(<<SendOrder(diff)>>)
  BY SendOrderType, ProperOrder
<1>3. /\ \A new \in Entry : Good(AddNewRoom(new))
      /\ \A r \in Room : Good(RemoveRoom(r))
      /\ \A old, new \in Entry : Good(UpdateRoom(old, new))
  BY AddNewRoomType, ProperAddNewRoom, RemoveRoomType, ProperRemoveRoom, UpdateRoomType, ProperUpdateRoom
<1>4. \A s, t : Good(s) /\ Good(t) => Good(s \o t)
  BY ConcatProperties, ProperConcat
<1>5. Good(<<>>)
  BY ProperEmpty
<1> HIDE DEF Good
<1>6. Good(todo')
  BY <1>1, <1>2, <1>3, <1>4, <1>5 DEF OneRoom, Inserted, Removed, Moved, Replaced
<1> QED BY <1>1, <1>6 DEF Starts, Good

(* Clear and Reset enqueue ClearRooms after they have cleared              *)
(* ALL_JOINED_ROOMS.                                                       *)
LEMMA ProperClear ==
    ASSUME NEW s,
           \/ s = << [do |-> "clear_all_rooms"], SendOrder([diff |-> "Clear"]),
                     Send([op |-> "ClearRooms"]) >>
           \/ s = << [do |-> "clear_all_rooms"], Send([op |-> "ClearRooms"]),
                     SendOrder([diff |-> "Clear"]) >>
    PROVE  /\ Proper(s)
           /\ \A rooms \in SUBSET Room : DetailsAfter(rooms, s) = {}
<1> DEFINE a == [do |-> "clear_all_rooms"]
           b == SendOrder([diff |-> "Clear"])
           c == Send([op |-> "ClearRooms"])
<1>1. a \in Effect /\ c \in Effect
  <2>1. [op |-> "ClearRooms"] \in RoomsListUpdate
    BY DEF RoomsListUpdate
  <2> QED BY <2>1, SendType DEF Effect
<1>2. Orderly(s, {})
  BY DEF Orderly, Send, SendOrder, SendsAnnouncement, Announces, TearsDown, SendsRemoval, Removes
<1>3. \A r : /\ a \in Tearing(r) /\ a \notin Inserting(r) /\ a \notin Announcing(r)
             /\ b \notin Inserting(r) /\ b \notin Announcing(r)
             /\ c \in Withdrawing(r) /\ c \notin Inserting(r) /\ c \notin Announcing(r)
  BY <1>1 DEF Inserting, Tearing, Announcing, Withdrawing, Send, SendOrder, InsertDetails, TearsDown,
              SendsAnnouncement, SendsRemoval, Announces, Removes
<1> HIDE DEF a, b, c
<1>4. /\ \A i \in DOMAIN s : s[i] \in {a, b, c}
      /\ \E i \in DOMAIN s : s[i] = a
      /\ \E i \in DOMAIN s : s[i] = c
  <2>1. s = <<a, b, c>> \/ s = <<a, c, b>>
    BY DEF a, b, c
  <2>2. CASE s = <<a, b, c>>
    BY <2>2
  <2>3. CASE s = <<a, c, b>>
    BY <2>3
  <2> QED BY <2>1, <2>2, <2>3
<1>5. ASSUME NEW rooms \in SUBSET Room, NEW r \in Room
      PROVE  r \notin DetailsAfter(rooms, s) /\ r \notin ShownAfter(rooms, s)
  BY <1>3, <1>4 DEF DetailsAfter, ShownAfter, Outcome
<1>6. \A rooms \in SUBSET Room : DetailsAfter(rooms, s) = {} /\ ShownAfter(rooms, s) = {}
  <2>1. \A rooms : DetailsAfter(rooms, s) \subseteq Room /\ ShownAfter(rooms, s) \subseteq Room
    BY DEF DetailsAfter, ShownAfter
  <2> QED BY <1>5, <2>1
<1> QED BY <1>2, <1>6 DEF Proper, Balanced

(* One turn of the popping loops. *)
LEMMA PopAndRemoveStarts ==
    ASSUME SyncInv, known # <<>>, todo = <<>>, PopAndRemove
    PROVE  Starts
<1>1. Last(known) \in Entry
  BY FrontType DEF SyncInv, SyncTypeOK
<1>2. Last(known).room \in Room
  BY <1>1 DEF Entry
<1> QED BY <1>2, ProperRemoveRoom DEF PopAndRemove, Starts

(* One add_new_room future of a batch. *)
LEMMA AddIncomingStarts ==
    ASSUME SyncInv, NEW i \in toAdd, NEW built \in BOOLEAN, AddIncoming(i, built)
    PROVE  Starts
<1>1. incoming[i] \in Entry
  BY DEF SyncInv, SyncTypeOK
<1>2. Proper(AddNewRoom(incoming[i]))
  BY <1>1, ProperAddNewRoom
<1> QED BY <1>2, ProperEmpty DEF AddIncoming, Starts

(* The order diff of a batch. *)
LEMMA AllAddedStarts ==
    ASSUME AllAdded
    PROVE  Starts
BY ProperEmpty, ProperOrder DEF AllAdded, Starts, When

(* Every step of the sync task that is not an effect starts a proper     *)
(* list of effects.                                                        *)
LEMMA SyncStarts ==
    ASSUME SyncInv, SyncNext, ~RunEffect
    PROVE  Starts
<1>1. CASE OneRoomDiff
  BY <1>1, OneRoomStarts
<1>2. CASE Clear
  BY <1>2, ProperClear DEF Clear, TakeDiff, AtRest, Starts
<1>3. CASE AppendDiff
  BY <1>3, StartsWithNothing DEF AppendDiff, AppendRooms, TakeDiff, AtRest
<1>4. CASE ResetDiff
  BY <1>4, StartsWithNothing DEF ResetDiff, Reset, TakeDiff, AtRest
<1>5. CASE TruncateDiff
  BY <1>5, StartsWithNothing DEF TruncateDiff, Truncate, TakeDiff, AtRest
<1>6. CASE PopOnReset
  BY <1>6, PopAndRemoveStarts DEF PopOnReset
<1>7. CASE ResetCleared
  BY <1>7, ProperClear DEF ResetCleared, Starts
<1>8. CASE PopOnTruncate
  <2>1. known # <<>> /\ todo = <<>>
    BY <1>8, SyncLengths DEF PopOnTruncate
  <2> QED BY <1>8, <2>1, PopAndRemoveStarts DEF PopOnTruncate
<1>9. CASE Truncated
  BY <1>9, ProperOrder DEF Truncated, Starts
<1>10. CASE \E i \in toAdd, built \in BOOLEAN : AddIncoming(i, built)
  BY <1>10, AddIncomingStarts
<1>11. CASE AllAdded
  BY <1>11, AllAddedStarts
<1>12. CASE StreamEnds
  BY <1>12, StartsWithNothing DEF StreamEnds, AtRest
<1> QED BY <1>1, <1>2, <1>3, <1>4, <1>5, <1>6, <1>7,
           <1>8, <1>9, <1>10, <1>11, <1>12 DEF OneRoomDiff, SyncNext, Handling

----------------------------------------------------------------------------

(* The types of the two queues, from TypeCorrect. *)
Queues == pending \in Seq(RoomsListUpdate) /\ todo \in Seq(Effect)

(* A room stays settled when another update is enqueued. *)
LEMMA SettledMore ==
    ASSUME Queues, NEW r, NEW n, NEW u \in RoomsListUpdate, Settled(r, n),
           pending' = Append(pending, u), UNCHANGED <<details, todo>>
    PROVE  Settled(r, n)'
BY AppendOf DEF Queues, Settled

(* What an effect does to the details and the queue. *)
LEMMA RunEffectCases ==
    ASSUME Queues, RunEffect
    PROVE  /\ todo # <<>> /\ todo' = Tail(todo) /\ todo[1] \in Effect
           /\ \/ /\ todo[1].do = "insert_room_details"
                 /\ details' = details \cup {todo[1].room}
                 /\ UNCHANGED pending
              \/ /\ todo[1].do \notin {"insert_room_details", "enqueue"}
                 /\ \A r \in details \ details' : TearsDown(todo[1], r)
                 /\ UNCHANGED pending
              \/ /\ todo[1].do = "enqueue"
                 /\ todo[1].update \in RoomsListUpdate
                 /\ pending' = Append(pending, todo[1].update)
                 /\ UNCHANGED details
<1>1. todo # <<>> /\ todo' = Tail(todo)
  BY DEF RunEffect
<1>2. Head(todo) = todo[1] /\ todo[1] \in Effect
  BY <1>1, TailOf DEF Queues
<1>3. todo[1].do = "enqueue" => todo[1].update \in RoomsListUpdate
  BY <1>2, EffectFields
<1> QED BY <1>1, <1>2, <1>3 DEF RunEffect, Enqueue, TearsDown

(* A room stays settled when the sync task performs an effect: a removal   *)
(* still to be enqueued becomes the last update of the queue, and details  *)
(* are torn down only with the removal behind them.                        *)
LEMMA SettledKept ==
    ASSUME Queues, RunEffect, Orderly(todo, details),
           NEW r \in Room, NEW n \in Nat, n <= Len(pending) + 1, Settled(r, n)
    PROVE  Settled(r, n)'
<1>1. todo # <<>> /\ todo' = Tail(todo)
  BY RunEffectCases
<1>2. /\ 1 \in DOMAIN todo /\ DOMAIN todo \subseteq Nat
      /\ \A j \in DOMAIN todo : j > 1 => j - 1 \in DOMAIN todo' /\ todo'[j - 1] = todo[j]
      /\ \A j \in DOMAIN todo : j > 1 \/ j = 1
  <2>1. todo \in Seq(Effect)
    BY DEF Queues
  <2>2. /\ 1 \in DOMAIN todo /\ DOMAIN todo = 1..Len(todo) /\ Len(todo) \in Nat
        /\ \A j \in DOMAIN todo : j > 1 => j - 1 \in DOMAIN todo' /\ todo'[j - 1] = todo[j]
    BY <1>1, <2>1, TailOf
  <2> QED BY <2>2
<1>3. ASSUME NEW j \in DOMAIN todo, j > 1, SendsRemoval(todo[j], r)
      PROVE  Settled(r, n)'
  BY <1>2, <1>3 DEF Settled, SendsRemoval
<1>4. CASE /\ todo[1].do = "insert_room_details"
           /\ details' = details \cup {todo[1].room}
           /\ UNCHANGED pending
  <2>1. ~SendsRemoval(todo[1], r)
    BY <1>4 DEF SendsRemoval
  <2> QED BY <1>2, <1>3, <1>4, <2>1 DEF Settled
<1>5. CASE /\ todo[1].do \notin {"insert_room_details", "enqueue"}
           /\ \A q \in details \ details' : TearsDown(todo[1], q)
           /\ UNCHANGED pending
  <2>1. ~SendsRemoval(todo[1], r)
    BY <1>5 DEF SendsRemoval
  <2>2. TearsDown(todo[1], r) => \E j \in DOMAIN todo : j > 1 /\ SendsRemoval(todo[j], r)
    BY <1>2 DEF Orderly
  <2> QED BY <1>2, <1>3, <1>5, <2>1, <2>2 DEF Settled
<1>6. CASE /\ todo[1].do = "enqueue"
           /\ todo[1].update \in RoomsListUpdate
           /\ pending' = Append(pending, todo[1].update)
           /\ UNCHANGED details
  <2>1. /\ \A j \in DOMAIN pending : j \in DOMAIN pending' /\ pending'[j] = pending[j]
        /\ Len(pending) + 1 \in DOMAIN pending' /\ pending'[Len(pending) + 1] = todo[1].update
    BY <1>6, AppendOf DEF Queues
  <2>2. CASE r \in details
    BY <1>6, <2>2 DEF Settled
  <2>3. CASE \E j \in DOMAIN pending : j >= n /\ Removes(pending[j], r)
    BY <2>1, <2>3 DEF Settled
  <2>4. ASSUME NEW j \in DOMAIN todo, SendsRemoval(todo[j], r)
        PROVE  Settled(r, n)'
    <3>1. CASE j > 1
      BY <1>3, <2>4, <3>1
    <3>2. CASE j = 1
      <4>1. Removes(pending'[Len(pending) + 1], r)
        BY <2>1, <2>4, <3>2 DEF SendsRemoval
      <4> QED BY <2>1, <4>1, Len(pending) + 1 >= n DEF Settled
    <3> QED BY <1>2, <3>1, <3>2
  <2> QED BY <2>2, <2>3, <2>4 DEF Settled
<1> QED BY <1>4, <1>5, <1>6, RunEffectCases

(* What is left of an orderly list after its first effect is orderly,      *)
(* since inserted details are there when the announcement comes first.     *)
LEMMA OrderlyKept ==
    ASSUME Queues, RunEffect, Orderly(todo, details)
    PROVE  Orderly(todo, details)'
<1>1. todo # <<>> /\ todo' = Tail(todo)
  BY RunEffectCases
<1>2. /\ 1 \in DOMAIN todo /\ DOMAIN todo \subseteq Nat
      /\ \A j \in DOMAIN todo : j > 1 => j - 1 \in DOMAIN todo' /\ todo'[j - 1] = todo[j]
      /\ DOMAIN todo' \subseteq Nat \ {0} /\ DOMAIN todo' \subseteq DOMAIN todo
      /\ \A j \in DOMAIN todo' : j + 1 \in DOMAIN todo /\ todo'[j] = todo[j + 1]
  <2>1. todo \in Seq(Effect)
    BY DEF Queues
  <2>2. /\ 1 \in DOMAIN todo /\ DOMAIN todo = 1..Len(todo) /\ Len(todo) \in Nat \ {0}
        /\ DOMAIN todo' = 1..Len(todo) - 1
        /\ \A j \in DOMAIN todo : j > 1 => j - 1 \in DOMAIN todo' /\ todo'[j - 1] = todo[j]
        /\ \A j \in DOMAIN todo' : j + 1 \in DOMAIN todo /\ todo'[j] = todo[j + 1]
    BY <1>1, <2>1, TailOf
  <2> QED BY <2>2
<1> SUFFICES ASSUME NEW r \in Room, NEW i \in DOMAIN todo'
             PROVE  /\ SendsAnnouncement(todo'[i], r) =>
                         \/ i = 1 /\ r \in details'
                         \/ i > 1 /\ todo'[i - 1] = InsertDetails(r)
                    /\ TearsDown(todo'[i], r) =>
                         \E j \in DOMAIN todo' : j > i /\ SendsRemoval(todo'[j], r)
  BY DEF Orderly, SendsAnnouncement, TearsDown, SendsRemoval, InsertDetails, Announces, Removes
<1>3. /\ i + 1 \in DOMAIN todo /\ todo'[i] = todo[i + 1]
      /\ i \in Nat \ {0}
  BY <1>2
<1>4. ASSUME SendsAnnouncement(todo'[i], r)
      PROVE  \/ i = 1 /\ r \in details'
             \/ i > 1 /\ todo'[i - 1] = InsertDetails(r)
  <2>1. todo[(i + 1) - 1] = InsertDetails(r)
    BY <1>3, <1>4 DEF Orderly
  <2>2. (i + 1) - 1 = i
    BY <1>3
  <2>3. todo[i] = InsertDetails(r)
    BY <2>1, <2>2
  <2>4. CASE i = 1
    <3>1. todo[1].do = "insert_room_details" /\ todo[1].room = r
      BY <2>3, <2>4 DEF InsertDetails
    <3>2. r \in details'
      BY <3>1, RunEffectCases
    <3> QED BY <2>4, <3>2
  <2>5. CASE i > 1
    <3>1. i \in DOMAIN todo
      BY <1>2, <1>3
    <3>2. todo'[i - 1] = todo[i]
      BY <1>2, <2>5, <3>1
    <3> QED BY <2>3, <2>5, <3>2
  <2> QED BY <1>3, <2>4, <2>5
<1>5. ASSUME TearsDown(todo'[i], r)
      PROVE  \E j \in DOMAIN todo' : j > i /\ SendsRemoval(todo'[j], r)
  <2>1. PICK j \in DOMAIN todo : j > i + 1 /\ SendsRemoval(todo[j], r)
    BY <1>3, <1>5 DEF Orderly
  <2>2. j \in Nat /\ j - 1 > i /\ j > 1
    BY <1>2, <1>3, <2>1
  <2>3. j - 1 \in DOMAIN todo' /\ todo'[j - 1] = todo[j]
    BY <1>2, <2>2
  <2> QED BY <2>1, <2>2, <2>3
<1> QED BY <1>4, <1>5

----------------------------------------------------------------------------

(* A step of the drain as the invariant sees it. *)
Drained ==
    /\ pending # <<>>
    /\ pending' = Tail(pending)
    /\ \A r \in Room :
         r \in Present(joined') <=> \/ Announces(Head(pending), r)
                                    \/ r \in Present(joined) /\ ~Removes(Head(pending), r)

(* An update that leaves the joined rooms alone is drained. *)
LEMMA PopDrains ==
    ASSUME NEW op, Pop(op), op \notin {"AddJoinedRoom", "RemoveRoom", "ClearRooms"}, UNCHANGED joined
    PROVE  Drained
BY DEF Drained, Pop, Announces, Removes, Present

(* So is one that changes a field of a joined room. *)
LEMMA UpdateDrains ==
    ASSUME joined \in [Room -> Shown \cup {None}],
           NEW op, Pop(op), op \notin {"AddJoinedRoom", "RemoveRoom", "ClearRooms"},
           NEW r \in Room, NEW v \in Shown, joined[r] # None, joined' = [joined EXCEPT ![r] = v]
    PROVE  Drained
<1>1. Present(joined') = Present(joined)
  BY ConstantsType DEF Present
<1> QED BY <1>1 DEF Drained, Pop, Announces, Removes

(* Every step of the drain either leaves queue and joined rooms alone or   *)
(* pops an update and does what it says: only the announced room appears,  *)
(* the removed ones disappear.                                             *)
LEMMA UiStepDrains ==
    ASSUME UiInv, UiNext
    PROVE  Drained \/ UNCHANGED <<joined, pending>>
<1>0. joined \in [Room -> Shown \cup {None}] /\ pending \in Seq(RoomsListUpdate)
  BY DEF UiInv, UiTypeOK
<1> DEFINE u == Head(pending)
<1>1. CASE Wake \/ EndDrain
  BY <1>1 DEF Wake, EndDrain
<1>2. CASE AddInvitedRoom \/ NotLoaded \/ LoadedRooms \/ StatusUpdate \/ RoomOrderUpdate \/ ApplyFilter
  BY <1>2, PopDrains DEF AddInvitedRoom, NotLoaded, LoadedRooms, StatusUpdate, RoomOrderUpdate, ApplyFilter
<1>3. CASE AddJoinedRoom
  <2>1. u.room \in Room /\ u.op = "AddJoinedRoom" /\ ShownInfo(u.info) \in Shown
    BY <1>0, <1>3, PopType, UpdateFields, ShownInfoType DEF AddJoinedRoom
  <2>2. /\ joined' = [joined EXCEPT ![u.room] = ShownInfo(u.info)]
        /\ pending # <<>> /\ pending' = Tail(pending)
    BY <1>3 DEF AddJoinedRoom, Pop
  <2> HIDE DEF u
  <2>3. \A r \in Room : r \in Present(joined') <=> r = u.room \/ r \in Present(joined)
    BY <1>0, <2>1, <2>2, ConstantsType DEF Present
  <2>4. \A r : ~Removes(u, r)
    BY <2>1 DEF Removes
  <2> QED BY <2>1, <2>2, <2>3, <2>4 DEF Drained, Announces, u
<1>4. CASE UpdateRoomName
  <2>1. u.room \in Room /\ u.value \in Data /\ Pop("UpdateRoomName")
    BY <1>0, <1>4, PopType, UpdateFields DEF UpdateRoomName
  <2>2. \/ /\ joined[u.room] # None
           /\ joined' = [joined EXCEPT ![u.room] = [joined[u.room] EXCEPT !.name = u.value]]
        \/ UNCHANGED joined
    BY <1>4 DEF UpdateRoomName
  <2>3. joined[u.room] # None => [joined[u.room] EXCEPT !.name = u.value] \in Shown
    BY <1>0, <2>1, ShownWithField
  <2> HIDE DEF u
  <2> QED BY <1>0, <2>1, <2>2, <2>3, PopDrains, UpdateDrains
<1>5. CASE UpdateRoomAvatar
  <2>1. u.room \in Room /\ u.value \in Data /\ Pop("UpdateRoomAvatar")
    BY <1>0, <1>5, PopType, UpdateFields DEF UpdateRoomAvatar
  <2>2. \/ /\ joined[u.room] # None
           /\ joined' = [joined EXCEPT ![u.room] = [joined[u.room] EXCEPT !.avatar = u.value]]
        \/ UNCHANGED joined
    BY <1>5 DEF UpdateRoomAvatar
  <2>3. joined[u.room] # None => [joined[u.room] EXCEPT !.avatar = u.value] \in Shown
    BY <1>0, <2>1, ShownWithField
  <2> HIDE DEF u
  <2> QED BY <1>0, <2>1, <2>2, <2>3, PopDrains, UpdateDrains
<1>6. CASE UpdateIsDirect
  <2>1. u.room \in Room /\ u.direct \in BOOLEAN /\ Pop("UpdateIsDirect")
    BY <1>0, <1>6, PopType, UpdateFields DEF UpdateIsDirect
  <2>2. \/ /\ joined[u.room] # None
           /\ joined' = [joined EXCEPT ![u.room] = [joined[u.room] EXCEPT !.direct = u.direct]]
        \/ UNCHANGED joined
    BY <1>6 DEF UpdateIsDirect
  <2>3. joined[u.room] # None => [joined[u.room] EXCEPT !.direct = u.direct] \in Shown
    BY <1>0, <2>1, ShownWithField
  <2> HIDE DEF u
  <2> QED BY <1>0, <2>1, <2>2, <2>3, PopDrains, UpdateDrains
<1>7. CASE RemoveRoomUpdate
  <2>1. u.room \in Room /\ u.op = "RemoveRoom"
    BY <1>0, <1>7, PopType, UpdateFields DEF RemoveRoomUpdate
  <2>2. /\ pending # <<>> /\ pending' = Tail(pending)
        /\ \/ joined' = [joined EXCEPT ![u.room] = None]
           \/ joined[u.room] = None /\ UNCHANGED joined
    BY <1>7 DEF RemoveRoomUpdate, Pop
  <2> HIDE DEF u
  <2>3. \A r \in Room : r \in Present(joined') <=> r # u.room /\ r \in Present(joined)
    BY <1>0, <2>1, <2>2 DEF Present
  <2>4. \A r : (Removes(u, r) <=> r = u.room) /\ ~Announces(u, r)
    BY <2>1 DEF Removes, Announces
  <2> QED BY <2>2, <2>3, <2>4 DEF Drained, u
<1>8. CASE ClearRooms
  <2>1. /\ pending # <<>> /\ pending' = Tail(pending) /\ Head(pending).op = "ClearRooms"
        /\ joined' = [r \in Room |-> None]
    BY <1>8 DEF ClearRooms, Pop
  <2>2. Present(joined') = {}
    BY <2>1 DEF Present
  <2> QED BY <2>1, <2>2 DEF Drained, Announces, Removes
<1> QED BY <1>1, <1>2, <1>3, <1>4, <1>5, <1>6, <1>7, <1>8 DEF UiNext

----------------------------------------------------------------------------

(* JoinedRoomHasDetails as a conjunct of the inductive invariant. *)
JoinedSettled == \A r \in Present(joined) : Settled(r, 1)

(* JoinedRoomHasDetails, in terms of Settled. *)
LEMMA JoinedSettledIsBacked ==
    ASSUME Queues
    PROVE  JoinedSettled <=> JoinedRoomHasDetails
<1>1. DOMAIN pending = 1..Len(pending)
  BY DEF Queues
<1>2. ASSUME NEW r
      PROVE  Settled(r, 1) <=> r \in details \/ RemovalPending(r)
  BY <1>1 DEF Settled, RemovalPending, SendsRemoval
<1> QED BY <1>2 DEF JoinedSettled, JoinedRoomHasDetails

(* The inductive invariant behind JoinedRoomsBacked. JoinedRoomHasDetails  *)
(* alone is not inductive: it must be known that what is announced in the  *)
(* queue, or about to be, has its details or a removal behind it, and that *)
(* nothing is torn down without a removal to follow.                       *)
BackingCore == JoinedSettled /\ AnnouncedRoomsSettled /\ Orderly(todo, details)

(* Taking a diff or going on with a loop preserves the invariant. *)
LEMMA StartKeepsBacking ==
    ASSUME BackingCore, Starts, UNCHANGED joined
    PROVE  BackingCore'
<1>1. ASSUME NEW r, NEW n, Settled(r, n)
      PROVE  Settled(r, n)'
  BY <1>1 DEF Settled, Starts
<1>2. JoinedSettled'
  BY <1>1 DEF BackingCore, JoinedSettled
<1>3. AnnouncedRoomsSettled'
  BY <1>1 DEF BackingCore, AnnouncedRoomsSettled, Starts
<1>4. Orderly(todo, details)'
  BY DEF Starts, Proper, Orderly
<1> QED BY <1>2, <1>3, <1>4 DEF BackingCore

(* Performing an effect preserves it. *)
LEMMA EffectKeepsBacking ==
    ASSUME Queues, BackingCore, RunEffect, UNCHANGED joined
    PROVE  BackingCore'
<1>1. Len(pending) \in Nat /\ DOMAIN pending = 1..Len(pending)
  BY DEF Queues
<1>2. ASSUME NEW r \in Room, NEW n \in Nat, n <= Len(pending) + 1, Settled(r, n)
      PROVE  Settled(r, n)'
  BY <1>2, SettledKept DEF BackingCore
<1>3. JoinedSettled'
  <2>1. ASSUME NEW r \in Present(joined)
        PROVE  Settled(r, 1)'
    BY <1>1, <1>2, 1 <= Len(pending) + 1 DEF BackingCore, JoinedSettled, Present
  <2> QED BY <2>1 DEF JoinedSettled
<1>4. Orderly(todo, details)'
  BY OrderlyKept DEF BackingCore
<1>5. ASSUME NEW r \in Room, NEW i \in DOMAIN pending, Announces(pending[i], r)
      PROVE  Settled(r, i + 1)'
  <2>1. Settled(r, i + 1)
    BY <1>5 DEF BackingCore, AnnouncedRoomsSettled
  <2>2. i + 1 \in Nat /\ i + 1 <= Len(pending) + 1
    BY <1>1
  <2> QED BY <1>2, <2>1, <2>2
<1>6. AnnouncedRoomsSettled'
  <2>1. CASE UNCHANGED pending
    BY <1>5, <2>1 DEF AnnouncedRoomsSettled, Announces
  <2>2. CASE /\ todo # <<>>
             /\ todo[1].do = "enqueue"
             /\ todo[1].update \in RoomsListUpdate
             /\ pending' = Append(pending, todo[1].update)
             /\ UNCHANGED details
    <3>1. /\ DOMAIN pending' = 1..Len(pending) + 1
          /\ \A j \in DOMAIN pending : pending'[j] = pending[j]
          /\ pending'[Len(pending) + 1] = todo[1].update
      BY <2>2, AppendOf DEF Queues
    <3>2. ASSUME NEW r \in Room, NEW i \in DOMAIN pending', Announces(pending'[i], r)
          PROVE  Settled(r, i + 1)'
      <4>1. CASE i \in DOMAIN pending
        BY <1>5, <3>1, <3>2, <4>1
      <4>2. CASE i = Len(pending) + 1
        <5>1. 1 \in DOMAIN todo
          BY <2>2, TailOf DEF Queues
        <5>2. SendsAnnouncement(todo[1], r)
          BY <2>2, <3>1, <3>2, <4>2 DEF SendsAnnouncement
        <5>3. r \in details
          BY <5>1, <5>2 DEF BackingCore, Orderly
        <5> QED BY <2>2, <5>3 DEF Settled
      <4> QED BY <1>1, <3>1, <4>1, <4>2
    <3> QED BY <3>2 DEF AnnouncedRoomsSettled, Announces
  <2> QED BY <2>1, <2>2, RunEffectCases
<1> QED BY <1>3, <1>4, <1>6 DEF BackingCore

(* Popping an update preserves it: the announced room is settled by        *)
(* something behind its announcement, a removal that is popped takes the   *)
(* room away.                                                              *)
LEMMA DrainKeepsBacking ==
    ASSUME Queues, BackingCore, Drained, UNCHANGED <<todo, details>>
    PROVE  BackingCore'
<1>1. /\ 1 \in DOMAIN pending /\ Head(pending) = pending[1]
      /\ DOMAIN pending \subseteq Nat \ {0}
      /\ \A j \in DOMAIN pending : j > 1 => j - 1 \in DOMAIN pending' /\ pending'[j - 1] = pending[j]
      /\ DOMAIN pending' \subseteq Nat \ {0}
      /\ \A j \in DOMAIN pending' : j + 1 \in DOMAIN pending /\ pending'[j] = pending[j + 1]
  <2>1. pending \in Seq(RoomsListUpdate) /\ pending # <<>> /\ pending' = Tail(pending)
    BY DEF Queues, Drained
  <2>2. /\ 1 \in DOMAIN pending /\ Head(pending) = pending[1]
        /\ DOMAIN pending = 1..Len(pending) /\ Len(pending) \in Nat \ {0}
        /\ DOMAIN pending' = 1..Len(pending) - 1
        /\ \A j \in DOMAIN pending : j > 1 => j - 1 \in DOMAIN pending' /\ pending'[j - 1] = pending[j]
        /\ \A j \in DOMAIN pending' : j + 1 \in DOMAIN pending /\ pending'[j] = pending[j + 1]
    BY <2>1, TailOf
  <2> QED BY <2>2
<1>2. ASSUME NEW r, NEW n \in Nat \ {0}, Settled(r, n + 1)
      PROVE  Settled(r, n)'
  <2>1. CASE \E j \in DOMAIN pending : j >= n + 1 /\ Removes(pending[j], r)
    <3>1. PICK j \in DOMAIN pending : j >= n + 1 /\ Removes(pending[j], r)
      BY <2>1
    <3>2. j > 1 /\ j - 1 >= n
      BY <1>1, <3>1
    <3>3. j - 1 \in DOMAIN pending' /\ Removes(pending'[j - 1], r)
      BY <1>1, <3>1, <3>2
    <3> QED BY <3>2, <3>3 DEF Settled
  <2> QED BY <1>2, <2>1 DEF Settled
<1>3. ASSUME NEW r \in Room, NEW n \in Nat \ {0}, n > 1, Settled(r, n)
      PROVE  Settled(r, n - 1)'
  BY <1>2, <1>3, n - 1 \in Nat \ {0}, (n - 1) + 1 = n
<1>4. JoinedSettled'
  <2> SUFFICES ASSUME NEW r \in Present(joined') PROVE Settled(r, 1)'
    BY DEF JoinedSettled
  <2>1. r \in Room
    BY DEF Present
  <2>2. CASE Announces(pending[1], r)
    <3>1. Settled(r, 1 + 1)
      BY <1>1, <2>1, <2>2 DEF BackingCore, AnnouncedRoomsSettled
    <3> QED BY <1>2, <3>1
  <2>3. CASE r \in Present(joined) /\ ~Removes(pending[1], r)
    <3>1. Settled(r, 1)
      BY <2>3 DEF BackingCore, JoinedSettled
    <3>2. \A j \in DOMAIN pending : Removes(pending[j], r) => j >= 2
      BY <1>1, <2>3
    <3>3. Settled(r, 1 + 1)
      BY <3>1, <3>2 DEF Settled
    <3> QED BY <1>2, <3>3
  <2> QED BY <1>1, <2>1, <2>2, <2>3 DEF Drained
<1>5. AnnouncedRoomsSettled'
  <2> SUFFICES ASSUME NEW r \in Room, NEW i \in DOMAIN pending', Announces(pending'[i], r)
               PROVE  Settled(r, i + 1)'
    BY DEF AnnouncedRoomsSettled, Announces
  <2>1. i \in Nat \ {0} /\ i + 1 \in DOMAIN pending /\ Announces(pending[i + 1], r)
    BY <1>1
  <2>2. Settled(r, (i + 1) + 1)
    BY <2>1 DEF BackingCore, AnnouncedRoomsSettled
  <2>3. i + 1 \in Nat \ {0}
    BY <2>1
  <2> QED BY <1>2, <2>2, <2>3
<1>6. Orderly(todo, details)'
  BY DEF BackingCore, Orderly
<1> QED BY <1>4, <1>5, <1>6 DEF BackingCore

(* Updates of the other producers preserve it. *)
LEMMA EnqueueKeepsBacking ==
    ASSUME Queues, BackingCore, NEW u \in RoomsListUpdate, u.op # "AddJoinedRoom", Enqueue(u),
           UNCHANGED <<todo, details, joined>>
    PROVE  BackingCore'
<1>1. pending' = Append(pending, u)
  BY DEF Enqueue
<1>2. ASSUME NEW r, NEW n, Settled(r, n)
      PROVE  Settled(r, n)'
  BY <1>1, <1>2, SettledMore
<1>3. JoinedSettled'
  BY <1>2 DEF BackingCore, JoinedSettled
<1>4. /\ DOMAIN pending = 1..Len(pending) /\ Len(pending) \in Nat
      /\ DOMAIN pending' = 1..Len(pending) + 1
      /\ \A j \in DOMAIN pending : pending'[j] = pending[j]
      /\ pending'[Len(pending) + 1] = u
  BY <1>1, AppendOf DEF Queues
<1>5. AnnouncedRoomsSettled'
  <2> SUFFICES ASSUME NEW r \in Room, NEW i \in DOMAIN pending', Announces(pending'[i], r)
               PROVE  Settled(r, i + 1)'
    BY DEF AnnouncedRoomsSettled, Announces
  <2>1. pending'[i] # u
    BY DEF Announces
  <2>2. i \in DOMAIN pending /\ Announces(pending[i], r)
    BY <1>4, <2>1
  <2>3. Settled(r, i + 1)
    BY <2>2 DEF BackingCore, AnnouncedRoomsSettled
  <2> QED BY <1>2, <2>3
<1>6. Orderly(todo, details)'
  BY DEF BackingCore, Orderly
<1> QED BY <1>3, <1>5, <1>6 DEF BackingCore

(* Steps that change neither side preserve it. *)
LEMMA FrozenBacking ==
    ASSUME BackingCore, UNCHANGED <<pending, todo, details, joined>>
    PROVE  BackingCore'
BY DEF BackingCore, JoinedSettled, AnnouncedRoomsSettled, Settled, Orderly, Present

(* It holds initially. *)
LEMMA BackingInit == Init => BackingCore
<1> SUFFICES ASSUME Init PROVE BackingCore
  OBVIOUS
<1>1. todo = <<>> /\ Present(joined) = {}
  BY DEF Init, SyncInit, UiInit, Present
<1>2. \A i \in DOMAIN pending : pending[i].op = "Status"
  BY DEF Init
<1> QED BY <1>1, <1>2 DEF BackingCore, JoinedSettled, AnnouncedRoomsSettled, Announces, Orderly

(* The parts of the inductive invariant of the types. *)
LEMMA InvParts ==
    ASSUME IInv
    PROVE  SyncInv /\ UiInv /\ Queues
BY DEF IInv, TypeOK, SyncInv, UiInv, Queues, SyncTypeOK

(* The updates of the other producers: filters, loading states, statuses.  *)
Foreign(u) == u.op \in {"ApplyFilter", "NotLoaded", "LoadedRooms", "Status"}

(* A step is one of the sync task, one of the RoomsList, or one of another *)
(* producer, which enqueues an update that concerns no single room.        *)
LEMMA StepCases ==
    ASSUME [Next]_vars
    PROVE  \/ SyncNext /\ UNCHANGED uiVars
           \/ UiNext /\ UNCHANGED syncVars
           \/ \E u \in RoomsListUpdate : Foreign(u) /\ Enqueue(u) /\ UNCHANGED <<syncVars, uiVars>>
           \/ UNCHANGED <<syncVars, uiVars, pending>>
<1>1. CASE SyncNext /\ UNCHANGED <<uiVars, reported, commands>>
  BY <1>1
<1>2. CASE UiNext /\ UNCHANGED <<syncVars, reported, commands>>
  BY <1>2
<1>3. ASSUME NEW k \in Keywords, FilterRoomList(k)
      PROVE  \E u \in RoomsListUpdate : Foreign(u) /\ Enqueue(u) /\ UNCHANGED <<syncVars, uiVars>>
  <2> DEFINE u == [op |-> "ApplyFilter", keywords |-> k]
  <2>1. u \in RoomsListUpdate /\ Foreign(u)
    BY DEF RoomsListUpdate, Foreign
  <2>2. Enqueue(u) /\ UNCHANGED <<syncVars, uiVars>>
    BY <1>3 DEF FilterRoomList
  <2> HIDE DEF u
  <2> QED BY <2>1, <2>2
<1>4. CASE LoadingStateChanges
  <2>1. PICK u \in {[op |-> "NotLoaded"]} \cup {[op |-> "LoadedRooms", max |-> m] : m \in MaxRooms} :
          Enqueue(u)
    BY <1>4 DEF LoadingStateChanges
  <2>2. u \in RoomsListUpdate /\ Foreign(u)
    BY <2>1, ConstantsType DEF RoomsListUpdate, Foreign
  <2>3. UNCHANGED <<syncVars, uiVars>>
    BY <1>4 DEF LoadingStateChanges
  <2> QED BY <2>1, <2>2, <2>3
<1>5. CASE ReportFailure
  <2> DEFINE u == [op |-> "Status", kind |-> "Error"]
  <2>1. u \in RoomsListUpdate /\ Foreign(u)
    BY DEF RoomsListUpdate, StatusKind, Foreign
  <2>2. Enqueue(u) /\ UNCHANGED <<syncVars, uiVars>>
    BY <1>5 DEF ReportFailure
  <2> HIDE DEF u
  <2> QED BY <2>1, <2>2
<1>6. CASE UNCHANGED vars
  BY <1>6 DEF vars
<1> QED BY <1>1, <1>2, <1>3, <1>4, <1>5, <1>6 DEF Next

(* Every step of the pipeline preserves it. *)
LEMMA BackingStep == IInv /\ BackingCore /\ [Next]_vars => BackingCore'
<1> SUFFICES ASSUME IInv, BackingCore, [Next]_vars PROVE BackingCore'
  OBVIOUS
<1>1. SyncInv /\ UiInv /\ Queues
  BY InvParts
<1>2. CASE SyncNext /\ UNCHANGED uiVars
  <2>1. UNCHANGED joined
    BY <1>2 DEF uiVars
  <2> QED BY <1>1, <1>2, <2>1, EffectKeepsBacking, SyncStarts, StartKeepsBacking
<1>3. CASE UiNext /\ UNCHANGED syncVars
  <2>1. UNCHANGED <<todo, details>>
    BY <1>3 DEF syncVars
  <2> QED BY <1>1, <1>3, <2>1, UiStepDrains, DrainKeepsBacking, FrozenBacking
<1>4. ASSUME NEW u \in RoomsListUpdate, Foreign(u), Enqueue(u), UNCHANGED <<syncVars, uiVars>>
      PROVE  BackingCore'
  <2>1. u.op # "AddJoinedRoom" /\ UNCHANGED <<todo, details, joined>>
    BY <1>4 DEF Foreign, syncVars, uiVars
  <2> QED BY <1>1, <1>4, <2>1, EnqueueKeepsBacking
<1>5. CASE UNCHANGED <<syncVars, uiVars, pending>>
  BY <1>5, FrozenBacking DEF syncVars, uiVars
<1> QED BY <1>2, <1>3, <1>4, <1>5, StepCases

(* Every room the frontend shows as joined has its JoinedRoomDetails in    *)
(* ALL_JOINED_ROOMS, or its removal is on the way, for any rooms, infos    *)
(* and bounds: the order in which add_new_room, remove_room, Clear and     *)
(* Reset share their effects suffices, whatever the interleaving with the  *)
(* drain.                                                                  *)
THEOREM JoinedRoomsBacked == Spec => []JoinedRoomHasDetails
<1>1. IInv /\ BackingCore => JoinedRoomHasDetails
  BY JoinedSettledIsBacked DEF IInv, TypeOK, SyncTypeOK, Queues, BackingCore
<1> QED BY <1>1, InitInv, StepInv, BackingInit, BackingStep, PTL DEF Spec

(***************************************************************************)
(* 4. The RoomsList by itself: what every drain step keeps of the status,  *)
(* of the queue and of the displayed lists.                                *)
(***************************************************************************)

(* A step of the RoomsList as the status sees it: the status is computed   *)
(* anew, states no number, or neither it nor what it counts changes.       *)
Recounts ==
    \/ status' = RoomsCount(joined', invited', maxRooms')
    \/ status'.rooms = None
    \/ /\ UNCHANGED <<status, maxRooms>>
       /\ Present(joined') = Present(joined)
       /\ Present(invited') = Present(invited)

(* Changing a field of a room that is shown keeps the rooms shown. *)
LEMMA FieldKeepsPresent ==
    ASSUME NEW map \in [Room -> Shown \cup {None}], NEW r \in Room, NEW v \in Shown, map[r] # None
    PROVE  Present([map EXCEPT ![r] = v]) = Present(map)
<1>1. v # None
  BY ConstantsType
<1> QED BY <1>1 DEF Present

(* Every action of the RoomsList that changes its maps or its maximum      *)
(* calls update_status_rooms_count.                                        *)
LEMMA UiStepRecounts ==
    ASSUME UiInv, UiNext
    PROVE  Recounts
<1>0. /\ joined \in [Room -> Shown \cup {None}] /\ invited \in [Room -> Shown \cup {None}]
      /\ pending \in Seq(RoomsListUpdate)
  BY DEF UiInv, UiTypeOK
<1> DEFINE u == Head(pending)
<1>1. CASE Wake \/ RoomOrderUpdate \/ ApplyFilter
  BY <1>1 DEF Wake, RoomOrderUpdate, ApplyFilter, Recounts
<1>2. CASE AddInvitedRoom
  BY <1>2 DEF AddInvitedRoom, Recounts
<1>3. CASE AddJoinedRoom
  BY <1>3 DEF AddJoinedRoom, Recounts
<1>4. CASE UpdateRoomName
  <2>1. u.room \in Room /\ u.value \in Data
    BY <1>0, <1>4, PopType, UpdateFields DEF UpdateRoomName
  <2>2. UNCHANGED <<status, maxRooms>>
    BY <1>4 DEF UpdateRoomName
  <2>3. \/ /\ joined[u.room] # None
           /\ joined' = [joined EXCEPT ![u.room] = [joined[u.room] EXCEPT !.name = u.value]]
           /\ UNCHANGED invited
        \/ /\ invited[u.room] # None
           /\ invited' = [invited EXCEPT ![u.room] = [invited[u.room] EXCEPT !.name = u.value]]
           /\ UNCHANGED joined
        \/ UNCHANGED <<joined, invited>>
    BY <1>4 DEF UpdateRoomName
  <2>4. /\ joined[u.room] # None => [joined[u.room] EXCEPT !.name = u.value] \in Shown
        /\ invited[u.room] # None => [invited[u.room] EXCEPT !.name = u.value] \in Shown
    BY <1>0, <2>1, ShownWithField
  <2> HIDE DEF u
  <2>5. Present(joined') = Present(joined) /\ Present(invited') = Present(invited)
    BY <1>0, <2>1, <2>3, <2>4, FieldKeepsPresent
  <2> QED BY <2>2, <2>5 DEF Recounts
<1>5. CASE UpdateRoomAvatar
  <2>1. u.room \in Room /\ u.value \in Data
    BY <1>0, <1>5, PopType, UpdateFields DEF UpdateRoomAvatar
  <2>2. UNCHANGED <<status, maxRooms, invited>>
    BY <1>5 DEF UpdateRoomAvatar
  <2>3. \/ /\ joined[u.room] # None
           /\ joined' = [joined EXCEPT ![u.room] = [joined[u.room] EXCEPT !.avatar = u.value]]
        \/ UNCHANGED joined
    BY <1>5 DEF UpdateRoomAvatar
  <2>4. joined[u.room] # None => [joined[u.room] EXCEPT !.avatar = u.value] \in Shown
    BY <1>0, <2>1, ShownWithField
  <2> HIDE DEF u
  <2>5. Present(joined') = Present(joined)
    BY <1>0, <2>1, <2>3, <2>4, FieldKeepsPresent
  <2> QED BY <2>2, <2>5 DEF Recounts
<1>6. CASE UpdateIsDirect
  <2>1. u.room \in Room /\ u.direct \in BOOLEAN
    BY <1>0, <1>6, PopType, UpdateFields DEF UpdateIsDirect
  <2>2. UNCHANGED <<status, maxRooms, invited>>
    BY <1>6 DEF UpdateIsDirect
  <2>3. \/ /\ joined[u.room] # None
           /\ joined' = [joined EXCEPT ![u.room] = [joined[u.room] EXCEPT !.direct = u.direct]]
        \/ UNCHANGED joined
    BY <1>6 DEF UpdateIsDirect
  <2>4. joined[u.room] # None => [joined[u.room] EXCEPT !.direct = u.direct] \in Shown
    BY <1>0, <2>1, ShownWithField
  <2> HIDE DEF u
  <2>5. Present(joined') = Present(joined)
    BY <1>0, <2>1, <2>3, <2>4, FieldKeepsPresent
  <2> QED BY <2>2, <2>5 DEF Recounts
<1>7. CASE RemoveRoomUpdate
  BY <1>7 DEF RemoveRoomUpdate, Recounts
<1>8. CASE ClearRooms
  BY <1>8 DEF ClearRooms, Recounts
<1>9. CASE NotLoaded \/ StatusUpdate
  BY <1>9 DEF NotLoaded, StatusUpdate, Recounts
<1>10. CASE LoadedRooms
  BY <1>10 DEF LoadedRooms, Recounts
<1>11. CASE EndDrain
  BY <1>11 DEF EndDrain, UpdateDisplayedRooms, Recounts
<1> QED BY <1>1, <1>2, <1>3, <1>4, <1>5, <1>6, <1>7, <1>8, <1>9, <1>10, <1>11 DEF UiNext

(* The steps of the other tasks leave the RoomsList alone. *)
LEMMA OnlyUiSteps ==
    ASSUME [Next]_vars
    PROVE  UiNext \/ UNCHANGED uiVars
BY DEF Next, FilterRoomList, LoadingStateChanges, ReportFailure, vars

(* A status that states a number of rooms states the current one, for any  *)
(* rooms and any order of updates.                                         *)
THEOREM StatusIsCurrent == Spec => []StatusCountsRooms
<1>1. ASSUME Init
      PROVE  StatusCountsRooms
  <2>1. status.rooms = None
    BY <1>1 DEF Init, UiInit
  <2> QED BY <2>1 DEF StatusCountsRooms
<1>2. ASSUME IInv, StatusCountsRooms, [Next]_vars
      PROVE  StatusCountsRooms'
  <2>1. UiInv
    BY <1>2 DEF IInv, TypeOK, UiInv
  <2>2. CASE UiNext
    <3>1. Recounts
      BY <2>1, <2>2, UiStepRecounts
    <3> QED BY <1>2, <3>1 DEF Recounts, StatusCountsRooms, RoomsCount
  <2>3. CASE UNCHANGED uiVars
    BY <1>2, <2>3 DEF uiVars, StatusCountsRooms, RoomsCount, Present
  <2> QED BY <1>2, <2>2, <2>3, OnlyUiSteps
<1> QED BY <1>1, <1>2, InitInv, StepInv, PTL DEF Spec

----------------------------------------------------------------------------

(* Each step of the drain is, for the queue of updates, one of             *)
(* DrainedQueue's.                                                         *)
LEMMA UiStepOfQueue ==
    ASSUME UiInv, UiNext
    PROVE  [PendingQueue!Next]_(PendingQueue!vars)
<1> USE DEF PendingQueue!Next, PendingQueue!vars
<1>1. CASE Wake
  BY <1>1 DEF Wake, PendingQueue!Wake
<1>2. ASSUME NEW op, Pop(op)
      PROVE  PendingQueue!Take
  <2>1. pending \in Seq(RoomsListUpdate) /\ pending # <<>> /\ pending' = Tail(pending)
    BY <1>2 DEF Pop, UiInv
  <2>2. Len(pending') = Len(pending) - 1 /\ Len(pending) \in Nat /\ Len(pending) > 0
    <3>1. Len(pending') = Len(pending) - 1
      BY <2>1, HeadTailProperties
    <3> QED BY <2>1, <3>1, EmptySeq
  <2> QED BY <1>2, <2>2 DEF Pop, PendingQueue!Take
<1>3. CASE EndDrain
  BY <1>3 DEF EndDrain, PendingQueue!Rest
<1> QED BY <1>1, <1>2, <1>3 DEF UiNext, AddInvitedRoom, AddJoinedRoom, UpdateRoomName,
           UpdateRoomAvatar, UpdateIsDirect, RemoveRoomUpdate, ClearRooms, NotLoaded, LoadedRooms,
           StatusUpdate, RoomOrderUpdate, ApplyFilter

(* The producers push to it. *)
LEMMA EnqueuePushes ==
    ASSUME pending \in Seq(RoomsListUpdate), NEW u \in RoomsListUpdate,
           pending' = Append(pending, u), UNCHANGED uiPhase
    PROVE  PendingQueue!Push
<1>1. Len(pending') = Len(pending) + 1
  BY AppendProperties
<1> QED BY <1>1 DEF PendingQueue!Push

(* The steps of all tasks are steps of DrainedQueue, or stutter. *)
LEMMA QueueStep ==
    ASSUME IInv, [Next]_vars
    PROVE  [PendingQueue!Next]_(PendingQueue!vars)
<1>0. SyncInv /\ UiInv /\ Queues
  BY DEF IInv, TypeOK, SyncInv, UiInv, Queues, SyncTypeOK
<1>1. CASE UiNext
  BY <1>0, <1>1, UiStepOfQueue
<1>2. CASE UNCHANGED <<pending, uiPhase>>
  BY <1>2 DEF PendingQueue!vars
<1>3. ASSUME NEW u \in RoomsListUpdate, pending' = Append(pending, u), UNCHANGED uiPhase
      PROVE  PendingQueue!Push
  BY <1>0, <1>3, EnqueuePushes DEF Queues
<1>4. CASE SyncNext /\ UNCHANGED <<uiVars, reported, commands>>
  <2>1. UNCHANGED uiPhase
    BY <1>4 DEF uiVars
  <2>2. CASE RunEffect
    <3>1. UNCHANGED pending \/ \E u \in RoomsListUpdate : pending' = Append(pending, u)
      BY <1>0, <2>2, RunEffectCases
    <3> QED BY <1>2, <1>3, <2>1, <3>1 DEF PendingQueue!Next
  <2>3. CASE ~RunEffect
    <3>1. UNCHANGED pending
      BY <1>0, <1>4, <2>3, SyncStarts DEF Starts
    <3> QED BY <1>2, <2>1, <3>1
  <2> QED BY <2>2, <2>3
<1>5. ASSUME NEW k \in Keywords, FilterRoomList(k)
      PROVE  PendingQueue!Push
  <2> DEFINE u == [op |-> "ApplyFilter", keywords |-> k]
  <2>1. u \in RoomsListUpdate
    BY DEF RoomsListUpdate
  <2>2. pending' = Append(pending, u) /\ UNCHANGED uiPhase
    BY <1>5 DEF FilterRoomList, Enqueue, uiVars
  <2> QED BY <1>3, <2>1, <2>2
<1>6. CASE LoadingStateChanges
  <2>1. PICK u \in {[op |-> "NotLoaded"]} \cup {[op |-> "LoadedRooms", max |-> m] : m \in MaxRooms} :
          pending' = Append(pending, u)
    BY <1>6 DEF LoadingStateChanges, Enqueue
  <2>2. u \in RoomsListUpdate
    BY <2>1, ConstantsType DEF RoomsListUpdate
  <2>3. UNCHANGED uiPhase
    BY <1>6 DEF LoadingStateChanges, uiVars
  <2> QED BY <1>3, <2>1, <2>2, <2>3 DEF PendingQueue!Next
<1>7. CASE ReportFailure
  <2> DEFINE u == [op |-> "Status", kind |-> "Error"]
  <2>1. u \in RoomsListUpdate
    BY DEF RoomsListUpdate, StatusKind
  <2>2. pending' = Append(pending, u) /\ UNCHANGED uiPhase
    BY <1>7 DEF ReportFailure, Enqueue, uiVars
  <2> QED BY <1>3, <2>1, <2>2 DEF PendingQueue!Next
<1>8. CASE UNCHANGED vars
  BY <1>2, <1>8 DEF vars, uiVars
<1> QED BY <1>1, <1>4, <1>5, <1>6, <1>7, <1>8 DEF Next, PendingQueue!Next

(* The pipeline implements the safety part of DrainedQueue: the RoomsList  *)
(* takes the updates one by one and rests only when none is left.          *)
THEOREM PendingQueueIsImplemented == Spec => PendingQueue!Safety
<1>1. Init => PendingQueue!Init
  BY DEF Init, UiInit, PendingQueue!Init
<1>2. IInv /\ [Next]_vars => [PendingQueue!Next]_(PendingQueue!vars)
  BY QueueStep
<1> QED BY <1>1, <1>2, InitInv, StepInv, PTL DEF Spec, PendingQueue!Safety

(* A list of rooms shows the rooms of a set, each once. *)
ShowsOnce(list, rooms) == ToSet(list) = rooms /\ IsInjective(list)

(* What a step of the RoomsList does to the invites and to their list: it  *)
(* leaves both alone, adds a room at the end, takes one out, clears both,  *)
(* or regenerates the list.                                                *)
InvitesStep ==
    LET list == displayed["invited"]
        rooms == Present(invited)
    IN
      \/ displayed'["invited"] = list /\ Present(invited') = rooms
      \/ \E r \in Room \ rooms : /\ displayed'["invited"] = Append(list, r)
                                 /\ Present(invited') = rooms \cup {r}
      \/ \E r \in Room : /\ displayed'["invited"] = RemoveFirst(list, r)
                         /\ Present(invited') = rooms \ {r}
      \/ displayed'["invited"] = <<>> /\ Present(invited') = {}
      \/ displayed'["invited"] \in SetToSeqs(rooms) /\ Present(invited') = rooms

(* Every such step keeps the list in agreement with the map. *)
LEMMA InvitesStepKeeps ==
    ASSUME UiInv, ShowsOnce(displayed["invited"], Present(invited)), InvitesStep
    PROVE  ShowsOnce(displayed'["invited"], Present(invited'))
<1> DEFINE list == displayed["invited"]
           rooms == Present(invited)
<1>1. list \in Seq(Room) /\ ToSet(list) = rooms /\ IsInjective(list)
  BY DEF UiInv, UiTypeOK, Lists, ShowsOnce
<1>2. rooms \in SUBSET Room /\ IsFiniteSet(rooms)
  BY ConstantsType, FS_Subset DEF Present
<1>3. \/ displayed'["invited"] = list /\ Present(invited') = rooms
      \/ \E r \in Room \ rooms : /\ displayed'["invited"] = Append(list, r)
                                 /\ Present(invited') = rooms \cup {r}
      \/ \E r \in Room : /\ displayed'["invited"] = RemoveFirst(list, r)
                         /\ Present(invited') = rooms \ {r}
      \/ displayed'["invited"] = <<>> /\ Present(invited') = {}
      \/ displayed'["invited"] \in SetToSeqs(rooms) /\ Present(invited') = rooms
  BY DEF InvitesStep
<1> HIDE DEF list, rooms
<1>4. CASE displayed'["invited"] = list /\ Present(invited') = rooms
  BY <1>1, <1>4 DEF ShowsOnce
<1>5. ASSUME NEW r \in Room \ rooms,
             displayed'["invited"] = Append(list, r), Present(invited') = rooms \cup {r}
      PROVE  ShowsOnce(displayed'["invited"], Present(invited'))
  BY <1>1, <1>5, AppendKeeps DEF ShowsOnce
<1>6. ASSUME NEW r \in Room,
             displayed'["invited"] = RemoveFirst(list, r), Present(invited') = rooms \ {r}
      PROVE  ShowsOnce(displayed'["invited"], Present(invited'))
  <2> DEFINE t == RemoveFirst(list, r)
  <2>1. /\ ToSet(t) \subseteq ToSet(list) /\ ToSet(list) \ {r} \subseteq ToSet(t)
        /\ IsInjective(t) /\ r \notin ToSet(t)
    BY ONLY <1>1, RemoveFirstKeeps
  <2> HIDE DEF t
  <2> QED BY <1>1, <1>6, <2>1 DEF ShowsOnce, t
<1>7. CASE displayed'["invited"] = <<>> /\ Present(invited') = {}
  BY <1>7 DEF ShowsOnce, ToSet, IsInjective
<1>8. CASE displayed'["invited"] \in SetToSeqs(rooms) /\ Present(invited') = rooms
  BY <1>2, <1>8, SetToSeqsOf DEF ShowsOnce
<1> QED BY <1>3, <1>4, <1>5, <1>6, <1>7, <1>8

(* Every action of the RoomsList is one of them. *)
LEMMA UiStepInvites ==
    ASSUME UiInv, UiNext
    PROVE  InvitesStep
<1>0. /\ joined \in [Room -> Shown \cup {None}] /\ invited \in [Room -> Shown \cup {None}]
      /\ pending \in Seq(RoomsListUpdate) /\ displayed \in [Lists -> Seq(Room)]
  BY DEF UiInv, UiTypeOK
<1>00. /\ "invited" \in Lists /\ None \notin Shown
       /\ \A direct : ListOf(direct) \in Lists /\ ListOf(direct) # "invited"
  BY ConstantsType DEF Lists, ListOf
<1> DEFINE u == Head(pending)
<1>1. CASE UNCHANGED <<invited, displayed>>
  BY <1>1 DEF InvitesStep
<1>2. CASE AddInvitedRoom
  <2>1. u.room \in Room /\ u.info \in RoomInfo
    BY <1>0, <1>2, PopType, UpdateFields DEF AddInvitedRoom
  <2>2. /\ invited' = [invited EXCEPT ![u.room] = ShownInfo(u.info)]
        /\ displayed' = IF invited[u.room] # None THEN displayed
                        ELSE [displayed EXCEPT !["invited"] = Append(@, u.room)]
    BY <1>2 DEF AddInvitedRoom
  <2>3. ShownInfo(u.info) \in Shown
    BY <2>1, ShownInfoType
  <2> HIDE DEF u
  <2>4. Present(invited') = Present(invited) \cup {u.room}
    BY <1>0, <1>00, <2>1, <2>2, <2>3 DEF Present
  <2>5. CASE invited[u.room] # None
    <3>1. u.room \in Present(invited)
      BY <2>1, <2>5 DEF Present
    <3>2. displayed'["invited"] = displayed["invited"] /\ Present(invited') = Present(invited)
      BY <2>2, <2>4, <2>5, <3>1
    <3> QED BY <3>2 DEF InvitesStep
  <2>6. CASE invited[u.room] = None
    <3>1. u.room \in Room \ Present(invited)
      BY <2>1, <2>6 DEF Present
    <3>2. displayed'["invited"] = Append(displayed["invited"], u.room)
      BY <1>0, <1>00, <2>2, <2>6
    <3> QED BY <2>4, <3>1, <3>2 DEF InvitesStep
  <2> QED BY <2>5, <2>6
<1>3. CASE AddJoinedRoom
  <2> DEFINE shown == IF joined[u.room] # None THEN displayed
                      ELSE [displayed EXCEPT ![ListOf(u.info.direct)] = Append(@, u.room)]
  <2>1. u.room \in Room
    BY <1>0, <1>3, PopType, UpdateFields DEF AddJoinedRoom
  <2>2. /\ invited' = [invited EXCEPT ![u.room] = None]
        /\ displayed' = IF invited[u.room] = None THEN shown
                        ELSE [shown EXCEPT !["invited"] = RemoveFirst(@, u.room)]
    BY <1>3 DEF AddJoinedRoom
  <2> HIDE DEF u
  <2>3. shown["invited"] = displayed["invited"] /\ DOMAIN shown = Lists
    BY <1>0, <1>00
  <2> HIDE DEF shown
  <2>4. Present(invited') = Present(invited) \ {u.room}
    BY <1>0, <2>1, <2>2 DEF Present
  <2>5. CASE invited[u.room] = None
    <3>1. Present(invited') = Present(invited)
      BY <2>4, <2>5 DEF Present
    <3> QED BY <2>2, <2>3, <2>5, <3>1 DEF InvitesStep
  <2>6. CASE invited[u.room] # None
    <3>1. displayed'["invited"] = RemoveFirst(displayed["invited"], u.room)
      BY <1>00, <2>2, <2>3, <2>6
    <3> QED BY <2>1, <2>4, <3>1 DEF InvitesStep
  <2> QED BY <2>5, <2>6
<1>4. CASE UpdateRoomName
  <2>1. u.room \in Room /\ u.value \in Data
    BY <1>0, <1>4, PopType, UpdateFields DEF UpdateRoomName
  <2>2. UNCHANGED displayed
    BY <1>4 DEF UpdateRoomName
  <2>3. \/ /\ invited[u.room] # None
           /\ invited' = [invited EXCEPT ![u.room] = [invited[u.room] EXCEPT !.name = u.value]]
        \/ UNCHANGED invited
    BY <1>4 DEF UpdateRoomName
  <2>4. invited[u.room] # None => [invited[u.room] EXCEPT !.name = u.value] \in Shown
    BY <1>0, <2>1, ShownWithField
  <2> HIDE DEF u
  <2>5. Present(invited') = Present(invited)
    BY <1>0, <2>1, <2>3, <2>4, FieldKeepsPresent
  <2> QED BY <2>2, <2>5 DEF InvitesStep
<1>5. CASE UpdateIsDirect
  <2>1. UNCHANGED invited
    BY <1>5 DEF UpdateIsDirect
  <2>2. \/ displayed' = [displayed EXCEPT ![ListOf(~u.direct)] = RemoveFirst(@, u.room),
                                          ![ListOf(u.direct)] = Append(@, u.room)]
        \/ UNCHANGED displayed
    BY <1>5 DEF UpdateIsDirect
  <2> HIDE DEF u
  <2>3. displayed'["invited"] = displayed["invited"]
    BY <1>0, <1>00, <2>2
  <2> QED BY <2>1, <2>3 DEF InvitesStep
<1>6. CASE RemoveRoomUpdate
  <2> DEFINE r == u.room
  <2>1. r \in Room
    BY <1>0, <1>6, PopType, UpdateFields DEF RemoveRoomUpdate
  <2>2. \/ /\ displayed' = [displayed EXCEPT ![ListOf(joined[r].direct)] = RemoveFirst(@, r)]
           /\ UNCHANGED invited
        \/ /\ invited' = [invited EXCEPT ![r] = None]
           /\ displayed' = [displayed EXCEPT !["invited"] = RemoveFirst(@, r)]
        \/ UNCHANGED <<invited, displayed>>
    BY <1>6 DEF RemoveRoomUpdate
  <2> HIDE DEF r, u
  <2>3. CASE /\ displayed' = [displayed EXCEPT ![ListOf(joined[r].direct)] = RemoveFirst(@, r)]
             /\ UNCHANGED invited
    <3>1. displayed'["invited"] = displayed["invited"]
      BY <1>0, <1>00, <2>3
    <3> QED BY <2>3, <3>1 DEF InvitesStep
  <2>4. CASE /\ invited' = [invited EXCEPT ![r] = None]
             /\ displayed' = [displayed EXCEPT !["invited"] = RemoveFirst(@, r)]
    <3>1. Present(invited') = Present(invited) \ {r}
      BY <1>0, <2>1, <2>4 DEF Present
    <3>2. displayed'["invited"] = RemoveFirst(displayed["invited"], r)
      BY <1>0, <1>00, <2>4
    <3> QED BY <2>1, <3>1, <3>2 DEF InvitesStep
  <2> QED BY <1>1, <2>2, <2>3, <2>4
<1>7. CASE ClearRooms
  <2>1. displayed'["invited"] = <<>> /\ Present(invited') = {}
    BY <1>7, <1>00 DEF ClearRooms, Present
  <2> QED BY <2>1 DEF InvitesStep
<1>8. CASE EndDrain
  <2>1. UNCHANGED invited
    BY <1>8 DEF EndDrain
  <2>2. CASE UpdateDisplayedRooms
    <3>1. displayed'["invited"] \in SetToSeqs(Present(invited))
      BY <2>2, <1>00 DEF UpdateDisplayedRooms
    <3> QED BY <2>1, <3>1 DEF InvitesStep
  <2> QED BY <1>1, <1>8, <2>1, <2>2 DEF EndDrain
<1>9. CASE Wake \/ UpdateRoomAvatar \/ NotLoaded \/ LoadedRooms \/ StatusUpdate \/ RoomOrderUpdate \/ ApplyFilter
  <2>1. UNCHANGED <<invited, displayed>>
    BY <1>9 DEF Wake, UpdateRoomAvatar, NotLoaded, LoadedRooms, StatusUpdate, RoomOrderUpdate, ApplyFilter
  <2> QED BY <1>1, <2>1
<1> QED BY <1>2, <1>3, <1>4, <1>5, <1>6, <1>7, <1>8, <1>9 DEF UiNext

(* Invites are displayed exactly once, for any rooms and updates, also in  *)
(* the middle of a drain.                                                  *)
THEOREM InvitesAreDisplayedOnce == Spec => []InvitesDisplayedOnce
<1> DEFINE Once == ShowsOnce(displayed["invited"], Present(invited))
<1>1. Init => Once
  <2> SUFFICES ASSUME Init PROVE Once
    OBVIOUS
  <2>1. displayed["invited"] = <<>> /\ Present(invited) = {}
    BY DEF Init, UiInit, Lists, Present
  <2> QED BY <2>1 DEF ShowsOnce, ToSet, IsInjective
<1>2. IInv /\ Once /\ [Next]_vars => Once'
  <2> SUFFICES ASSUME IInv, Once, [Next]_vars PROVE Once'
    OBVIOUS
  <2>1. UiInv
    BY DEF IInv, TypeOK, UiInv
  <2>2. CASE UiNext
    BY <2>1, <2>2, UiStepInvites, InvitesStepKeeps DEF ShowsOnce
  <2>3. CASE UNCHANGED uiVars
    BY <2>3 DEF uiVars, Present
  <2> QED BY <2>2, <2>3, OnlyUiSteps
<1>3. IInv /\ Once => InvitesDisplayedOnce
  <2> SUFFICES ASSUME IInv, Once PROVE InvitesDisplayedOnce
    OBVIOUS
  <2>1. displayed["invited"] \in Seq(Room)
    BY DEF IInv, TypeOK, UiTypeOK, Lists
  <2>2. Len(displayed["invited"]) = Cardinality(ToSet(displayed["invited"]))
    BY <2>1, InjectiveLen DEF ShowsOnce
  <2> QED BY <2>2 DEF ShowsOnce, InvitesDisplayedOnce
<1> QED BY <1>1, <1>2, <1>3, InitInv, StepInv, PTL DEF Spec

(* The lists of the joined rooms, and the one that a room belongs to.      *)
JoinedLists == {"direct", "regular"}

Place(map) == [r \in Room |-> IF map[r] = None THEN "none" ELSE ListOf(map[r].direct)]

(* What a step of the RoomsList does to the joined rooms and to their      *)
(* lists: it leaves the lists alone, also when a joined room is announced  *)
(* again,                                                                  *)
KeepsLists == \A l \in JoinedLists : displayed'[l] = displayed[l]

Replaces(r, to) ==
    /\ pending # <<>> /\ Announces(Head(pending), r) /\ Place(joined)[r] # "none"
    /\ Place(joined') = [Place(joined) EXCEPT ![r] = to]

(* it adds a room, moves one, or takes one out,                            *)
Adds(r, to) ==
    /\ Place(joined)[r] = "none"
    /\ displayed'[to] = Append(displayed[to], r)
    /\ \A l \in JoinedLists \ {to} : displayed'[l] = displayed[l]
    /\ Place(joined') = [Place(joined) EXCEPT ![r] = to]

Moves(r, from, to) ==
    /\ Place(joined)[r] = from /\ from # to
    /\ displayed'[from] = RemoveFirst(displayed[from], r)
    /\ displayed'[to] = Append(displayed[to], r)
    /\ Place(joined') = [Place(joined) EXCEPT ![r] = to]

TakesOut(r, from) ==
    /\ Place(joined)[r] = from
    /\ displayed'[from] = RemoveFirst(displayed[from], r)
    /\ \A l \in JoinedLists \ {from} : displayed'[l] = displayed[l]
    /\ Place(joined') = [Place(joined) EXCEPT ![r] = "none"]

(* or it clears or regenerates both lists.                                 *)
Empties ==
    /\ \A l \in JoinedLists : displayed'[l] = <<>>
    /\ \A r \in Room : Place(joined')[r] = "none"

Regenerates ==
    /\ \A l \in JoinedLists : displayed'[l] \in SetToSeqs({r \in Room : Place(joined)[r] = l})
    /\ Place(joined') = Place(joined)

ListsStep ==
    \/ KeepsLists /\ Place(joined') = Place(joined)
    \/ KeepsLists /\ \E r \in Room, to \in JoinedLists : Replaces(r, to)
    \/ \E r \in Room, to \in JoinedLists : Adds(r, to)
    \/ \E r \in Room, from, to \in JoinedLists : Moves(r, from, to)
    \/ \E r \in Room, from \in JoinedLists : TakesOut(r, from)
    \/ Empties
    \/ Regenerates

(* Every action of the RoomsList is one of them. *)
LEMMA UiStepLists ==
    ASSUME UiInv, UiNext
    PROVE  ListsStep
<1>0. /\ joined \in [Room -> Shown \cup {None}]
      /\ pending \in Seq(RoomsListUpdate) /\ displayed \in [Lists -> Seq(Room)]
  BY DEF UiInv, UiTypeOK
<1>00. /\ JoinedLists \subseteq Lists /\ "invited" \in Lists \ JoinedLists /\ None \notin Shown
       /\ \A direct : ListOf(direct) \in JoinedLists
       /\ \A info : ShownInfo(info).direct = info.direct
  BY ConstantsType DEF Lists, JoinedLists, ListOf, ShownInfo
<1> DEFINE u == Head(pending)
<1>1. ASSUME Place(joined') = Place(joined), UNCHANGED displayed
      PROVE  ListsStep
  BY <1>1 DEF ListsStep, KeepsLists
<1>01. ASSUME NEW r \in Room, NEW v \in Shown, joined' = [joined EXCEPT ![r] = v]
       PROVE  Place(joined') = [Place(joined) EXCEPT ![r] = ListOf(v.direct)]
  BY <1>0, <1>00, <1>01 DEF Place
<1>2. CASE AddInvitedRoom
  <2>1. UNCHANGED joined
    BY <1>2 DEF AddInvitedRoom
  <2>2. \A l \in JoinedLists : displayed'[l] = displayed[l]
    BY <1>0, <1>00, <1>2 DEF AddInvitedRoom
  <2> QED BY <2>1, <2>2 DEF ListsStep, KeepsLists, Place
<1>3. CASE AddJoinedRoom
  <2> DEFINE shown == IF joined[u.room] # None THEN displayed
                      ELSE [displayed EXCEPT ![ListOf(u.info.direct)] = Append(@, u.room)]
             to == ListOf(u.info.direct)
  <2>1. u.room \in Room /\ u.info \in RoomInfo /\ ShownInfo(u.info) \in Shown
        /\ Announces(u, u.room) /\ pending # <<>>
    BY <1>0, <1>3, PopType, UpdateFields, ShownInfoType DEF AddJoinedRoom, Announces, Pop
  <2>2. /\ joined' = [joined EXCEPT ![u.room] = ShownInfo(u.info)]
        /\ displayed' = IF invited[u.room] = None THEN shown
                        ELSE [shown EXCEPT !["invited"] = RemoveFirst(@, u.room)]
    BY <1>3 DEF AddJoinedRoom
  <2>3. to \in JoinedLists
    BY <1>00
  <2>4. Place(joined') = [Place(joined) EXCEPT ![u.room] = to]
    BY <1>00, <1>01, <2>1, <2>2
  <2>5. \A l \in JoinedLists : displayed'[l] = shown[l]
    <3>1. shown \in [Lists -> Seq(Room) \cup {Append(displayed[to], u.room)}]
      BY <1>0
    <3> HIDE DEF shown, u
    <3> QED BY <1>00, <2>2, <3>1
  <2>6. Place(joined)[u.room] = "none" <=> joined[u.room] = None
    BY <1>00, <2>1 DEF Place, JoinedLists
  <2>7. CASE joined[u.room] # None
    <3>1. Replaces(u.room, to)
      BY <2>1, <2>4, <2>6, <2>7 DEF Replaces
    <3>2. KeepsLists
      BY <2>5, <2>7 DEF KeepsLists
    <3> HIDE DEF to, shown
    <3> QED BY <2>1, <2>3, <3>1, <3>2 DEF ListsStep
  <2>8. CASE joined[u.room] = None
    <3>1. shown[to] = Append(displayed[to], u.room) /\ \A l \in JoinedLists \ {to} : shown[l] = displayed[l]
      <4>1. shown = [displayed EXCEPT ![to] = Append(@, u.room)]
        BY <2>8
      <4> HIDE DEF shown, to, u
      <4> QED BY <1>0, <1>00, <2>3, <4>1
    <3> HIDE DEF shown, to
    <3>2. Adds(u.room, to)
      BY <2>3, <2>4, <2>5, <2>6, <2>8, <3>1 DEF Adds
    <3> QED BY <2>1, <2>3, <3>2 DEF ListsStep
  <2> QED BY <2>7, <2>8
<1>4. CASE UpdateRoomName \/ UpdateRoomAvatar
  <2>1. UNCHANGED displayed /\ u.room \in Room
    BY <1>0, <1>4, PopType, UpdateFields DEF UpdateRoomName, UpdateRoomAvatar
  <2>2. \/ /\ joined[u.room] # None
           /\ \/ joined' = [joined EXCEPT ![u.room] = [joined[u.room] EXCEPT !.name = u.value]]
              \/ joined' = [joined EXCEPT ![u.room] = [joined[u.room] EXCEPT !.avatar = u.value]]
        \/ UNCHANGED joined
    BY <1>4 DEF UpdateRoomName, UpdateRoomAvatar
  <2>3. u.value \in Data
    BY <1>0, <1>4, PopType, UpdateFields DEF UpdateRoomName, UpdateRoomAvatar
  <2> HIDE DEF u
  <2>4. ASSUME joined[u.room] # None, NEW v \in Shown, joined' = [joined EXCEPT ![u.room] = v],
               v.direct = joined[u.room].direct
        PROVE  Place(joined') = Place(joined)
    BY <1>0, <1>00, <2>1, <2>4 DEF Place
  <2>5. joined[u.room] # None =>
          /\ [joined[u.room] EXCEPT !.name = u.value] \in Shown
          /\ [joined[u.room] EXCEPT !.avatar = u.value] \in Shown
          /\ [joined[u.room] EXCEPT !.name = u.value].direct = joined[u.room].direct
          /\ [joined[u.room] EXCEPT !.avatar = u.value].direct = joined[u.room].direct
    <3>1. joined[u.room] # None => joined[u.room] \in Shown
      BY <1>0, <2>1
    <3>2. joined[u.room] # None =>
            /\ [joined[u.room] EXCEPT !.name = u.value].direct = joined[u.room].direct
            /\ [joined[u.room] EXCEPT !.avatar = u.value].direct = joined[u.room].direct
      BY <3>1 DEF Shown
    <3> QED BY <1>0, <2>1, <2>3, <3>2, ShownWithField
  <2> QED BY <1>1, <2>1, <2>2, <2>4, <2>5 DEF Place
<1>6. CASE UpdateIsDirect
  <2>1. u.room \in Room /\ u.direct \in BOOLEAN
    BY <1>0, <1>6, PopType, UpdateFields DEF UpdateIsDirect
  <2> DEFINE from == ListOf(~u.direct)
             to == ListOf(u.direct)
             v == [joined[u.room] EXCEPT !.direct = u.direct]
  <2>2. \/ UNCHANGED <<joined, displayed>>
        \/ /\ joined[u.room] # None /\ joined[u.room].direct # u.direct
           /\ joined' = [joined EXCEPT ![u.room] = v]
           /\ displayed' = [displayed EXCEPT ![from] = RemoveFirst(@, u.room),
                                             ![to] = Append(@, u.room)]
    BY <1>6 DEF UpdateIsDirect
  <2>3. from \in JoinedLists /\ to \in JoinedLists /\ from # to
    BY <2>1 DEF ListOf, JoinedLists
  <2>4. joined[u.room] # None => v \in Shown /\ v.direct = u.direct /\ joined[u.room].direct \in BOOLEAN
    BY <1>0, <2>1, ShownWithField DEF Shown
  <2> HIDE DEF u
  <2>5. CASE /\ joined[u.room] # None /\ joined[u.room].direct # u.direct
             /\ joined' = [joined EXCEPT ![u.room] = v]
             /\ displayed' = [displayed EXCEPT ![from] = RemoveFirst(@, u.room),
                                               ![to] = Append(@, u.room)]
    <3>1. Place(joined)[u.room] = from
      BY <2>1, <2>4, <2>5 DEF Place, ListOf
    <3>2. Place(joined') = [Place(joined) EXCEPT ![u.room] = to]
      <4> HIDE DEF v
      <4> QED BY <1>01, <2>1, <2>4, <2>5
    <3> HIDE DEF from, to
    <3>3. /\ displayed'[from] = RemoveFirst(displayed[from], u.room)
          /\ displayed'[to] = Append(displayed[to], u.room)
      BY <1>0, <1>00, <2>3, <2>5
    <3>4. Moves(u.room, from, to)
      BY <2>3, <3>1, <3>2, <3>3 DEF Moves
    <3> QED BY <2>1, <2>3, <3>4 DEF ListsStep
  <2> QED BY <1>1, <2>2, <2>5 DEF Place
<1>7. CASE RemoveRoomUpdate
  <2> DEFINE r == u.room
             from == ListOf(joined[r].direct)
  <2>1. r \in Room
    BY <1>0, <1>7, PopType, UpdateFields DEF RemoveRoomUpdate
  <2>2. \/ /\ joined[r] # None
           /\ joined' = [joined EXCEPT ![r] = None]
           /\ displayed' = [displayed EXCEPT ![from] = RemoveFirst(@, r)]
        \/ /\ UNCHANGED joined
           /\ displayed' = [displayed EXCEPT !["invited"] = RemoveFirst(@, r)]
        \/ UNCHANGED <<joined, displayed>>
    BY <1>7 DEF RemoveRoomUpdate
  <2> HIDE DEF r, u
  <2>3. CASE /\ joined[r] # None
             /\ joined' = [joined EXCEPT ![r] = None]
             /\ displayed' = [displayed EXCEPT ![from] = RemoveFirst(@, r)]
    <3>1. Place(joined)[r] = from /\ Place(joined') = [Place(joined) EXCEPT ![r] = "none"]
      BY <1>0, <2>1, <2>3 DEF Place
    <3>2. from \in JoinedLists
      BY <1>00
    <3> HIDE DEF from
    <3>3. /\ displayed'[from] = RemoveFirst(displayed[from], r)
          /\ \A l \in JoinedLists \ {from} : displayed'[l] = displayed[l]
      BY <1>0, <1>00, <2>3, <3>2
    <3>4. TakesOut(r, from)
      BY <3>1, <3>3 DEF TakesOut
    <3> QED BY <2>1, <3>2, <3>4 DEF ListsStep
  <2>4. CASE UNCHANGED joined /\ displayed' = [displayed EXCEPT !["invited"] = RemoveFirst(@, r)]
    <3>1. \A l \in JoinedLists : displayed'[l] = displayed[l]
      BY <1>0, <1>00, <2>4
    <3> QED BY <2>4, <3>1 DEF ListsStep, KeepsLists, Place
  <2> QED BY <1>1, <2>2, <2>3, <2>4 DEF Place
<1>8. CASE ClearRooms
  <2>1. Empties
    BY <1>00, <1>8 DEF ClearRooms, Place, Empties
  <2> QED BY <2>1 DEF ListsStep
<1>9. CASE EndDrain
  <2>1. UNCHANGED joined
    BY <1>9 DEF EndDrain
  <2>2. CASE UpdateDisplayedRooms
    <3> DEFINE direct == {r \in Present(joined) : joined[r].direct}
               regular == {r \in Present(joined) : ~joined[r].direct}
    <3>1. displayed'["direct"] \in SetToSeqs(direct) /\ displayed'["regular"] \in SetToSeqs(regular)
      BY <2>2, <1>00 DEF UpdateDisplayedRooms, JoinedLists
    <3>2. /\ direct = {r \in Room : Place(joined)[r] = "direct"}
          /\ regular = {r \in Room : Place(joined)[r] = "regular"}
      BY DEF Place, Present, ListOf
    <3> HIDE DEF direct, regular
    <3>3. Regenerates
      BY <2>1, <3>1, <3>2 DEF Regenerates, Place, JoinedLists
    <3> QED BY <3>3 DEF ListsStep
  <2> QED BY <1>1, <1>9, <2>1, <2>2 DEF EndDrain, Place
<1>10. CASE Wake \/ NotLoaded \/ LoadedRooms \/ StatusUpdate \/ RoomOrderUpdate \/ ApplyFilter
  <2>1. UNCHANGED <<joined, displayed>>
    BY <1>10 DEF Wake, NotLoaded, LoadedRooms, StatusUpdate, RoomOrderUpdate, ApplyFilter
  <2> QED BY <1>1, <2>1 DEF Place
<1> QED BY <1>2, <1>3, <1>4, <1>6, <1>7, <1>8, <1>9, <1>10 DEF UiNext

(* Every action of the RoomsList keeps the joined rooms visible. *)
LEMMA UiStepVisible ==
    ASSUME UiInv, JoinedRoomsVisible, UiNext
    PROVE  JoinedRoomsVisible'
<1> DEFINE at == Place(joined)
           after == Place(joined')
           Seen(p, d) == \A r \in Room : p[r] # "none" => \E l \in JoinedLists : r \in ToSet(d[l])
<1>1. /\ JoinedRoomsVisible <=> Seen(at, displayed)
      /\ JoinedRoomsVisible' <=> Seen(after, displayed')
  <2>1. \A map : \A r \in Room : Place(map)[r] # "none" <=> r \in Present(map)
    BY DEF Place, Present, ListOf
  <2> HIDE DEF at, after
  <2>2. /\ JoinedRoomsVisible <=> \A r \in Present(joined) : \E l \in JoinedLists : r \in ToSet(displayed[l])
        /\ JoinedRoomsVisible' <=> \A r \in Present(joined') : \E l \in JoinedLists : r \in ToSet(displayed'[l])
    BY DEF JoinedRoomsVisible, JoinedLists
  <2> QED BY <2>1, <2>2 DEF at, after, Present
<1>2. \A l \in JoinedLists : displayed[l] \in Seq(Room)
  BY DEF UiInv, UiTypeOK, JoinedLists, Lists
<1>3. ListsStep
  BY UiStepLists
<1>4. at = [r \in Room |-> at[r]]
  BY DEF Place
<1> HIDE DEF at, after
<1>5. Seen(at, displayed)
  BY <1>1
<1>6. CASE KeepsLists /\ (after = at \/ \E r \in Room, to \in JoinedLists : Replaces(r, to))
  <2>1. \A r \in Room : after[r] # "none" => at[r] # "none"
    BY <1>4, <1>6 DEF Replaces, at, after
  <2> QED BY <1>1, <1>5, <1>6, <2>1 DEF KeepsLists
<1>7. ASSUME NEW r \in Room, NEW to \in JoinedLists, Adds(r, to) \/ \E from \in JoinedLists : Moves(r, from, to)
      PROVE  Seen(after, displayed')
  <2>1. ToSet(displayed'[to]) = ToSet(displayed[to]) \cup {r}
    <3>1. displayed'[to] = Append(displayed[to], r)
      BY <1>7 DEF Adds, Moves
    <3> QED BY <1>2, <3>1, AppendKeeps
  <2>2. \A l \in JoinedLists : ToSet(displayed[l]) \ {r} \subseteq ToSet(displayed'[l])
    <3>1. \A l \in JoinedLists : \/ l = to \/ displayed'[l] = displayed[l]
                                 \/ displayed'[l] = RemoveFirst(displayed[l], r)
      BY <1>7 DEF Adds, Moves, JoinedLists
    <3> QED BY <1>2, <2>1, <3>1, RemoveFirstKeeps
  <2>3. \A q \in Room : q # r => after[q] = at[q]
    BY <1>4, <1>7 DEF Adds, Moves, at, after
  <2> QED BY <1>5, <2>1, <2>2, <2>3
<1>8. ASSUME NEW r \in Room, NEW from \in JoinedLists, TakesOut(r, from)
      PROVE  Seen(after, displayed')
  <2>1. \A l \in JoinedLists : ToSet(displayed[l]) \ {r} \subseteq ToSet(displayed'[l])
    BY <1>2, <1>8, RemoveFirstKeeps DEF TakesOut
  <2>2. after[r] = "none" /\ \A q \in Room : q # r => after[q] = at[q]
    BY <1>4, <1>8 DEF TakesOut, at, after
  <2> QED BY <1>5, <2>1, <2>2
<1>9. CASE Empties
  <2>1. \A r \in Room : after[r] = "none"
    BY <1>9 DEF Empties, after
  <2> QED BY <1>1, <2>1
<1>10. CASE Regenerates
  <2>1. after = at /\ \A l \in JoinedLists : displayed'[l] \in SetToSeqs({r \in Room : at[r] = l})
    BY <1>10 DEF Regenerates, at, after
  <2>2. \A l \in JoinedLists : ToSet(displayed'[l]) = {r \in Room : at[r] = l}
    <3>1. \A l \in JoinedLists : IsFiniteSet({r \in Room : at[r] = l})
      BY ConstantsType, FS_Subset
    <3> QED BY <2>1, <3>1, SetToSeqsOf
  <2>3. \A r \in Room : at[r] # "none" => at[r] \in JoinedLists
    BY DEF at, Place, ListOf, JoinedLists
  <2>4. \A r \in Room : after[r] # "none" => r \in ToSet(displayed'[at[r]]) /\ at[r] \in JoinedLists
    BY <2>1, <2>2, <2>3
  <2> QED BY <1>1, <2>4
<1> HIDE DEF Seen
<1> QED BY <1>1, <1>3, <1>6, <1>7, <1>8, <1>9, <1>10 DEF ListsStep, at, after

(* No joined room disappears from view, for any rooms and any order of     *)
(* updates, filters and drains.                                            *)
THEOREM JoinedRoomsStayVisible == Spec => []JoinedRoomsVisible
<1>1. Init => JoinedRoomsVisible
  <2> SUFFICES ASSUME Init PROVE JoinedRoomsVisible
    OBVIOUS
  <2>1. Present(joined) = {}
    BY DEF Init, UiInit, Present
  <2> QED BY <2>1 DEF JoinedRoomsVisible
<1>2. IInv /\ JoinedRoomsVisible /\ [Next]_vars => JoinedRoomsVisible'
  <2> SUFFICES ASSUME IInv, JoinedRoomsVisible, [Next]_vars PROVE JoinedRoomsVisible'
    OBVIOUS
  <2>1. UiInv
    BY DEF IInv, TypeOK, UiInv
  <2>2. CASE UNCHANGED uiVars
    BY <2>2 DEF uiVars, JoinedRoomsVisible, Present
  <2> QED BY <2>1, <2>2, OnlyUiSteps, UiStepVisible
<1> QED BY <1>1, <1>2, InitInv, StepInv, PTL DEF Spec

(***************************************************************************)
(* 5. The frontend converges to the rooms that have details: what the      *)
(* queue leaves of the joined rooms does not change while a drain takes    *)
(* updates from it, and follows ALL_JOINED_ROOMS handler by handler.       *)
(***************************************************************************)

Showing(r) == {u \in RoomsListUpdate : Announces(u, r)}
Removing(r) == {u \in RoomsListUpdate : Removes(u, r)}

(* The rooms that the frontend shows as joined once it has drained what is *)
(* in the queue.                                                           *)
OnceDrained == {r \in Room : JoinedOnceDrained(r)}

(* What a drained update does to what is shown of a room. *)
LEMMA DrainOnRoom ==
    ASSUME Queues, Drained, NEW r \in Room
    PROVE  r \in Present(joined') <=>
             \/ Head(pending) \in Showing(r)
             \/ r \in Present(joined) /\ Head(pending) \notin Removing(r)
<1>1. Head(pending) \in RoomsListUpdate
  BY TailOf DEF Queues, Drained
<1>2. /\ Head(pending) \in Showing(r) <=> Announces(Head(pending), r)
      /\ Head(pending) \in Removing(r) <=> Removes(Head(pending), r)
  BY <1>1 DEF Showing, Removing
<1>3. \A q \in Room :
        q \in Present(joined') <=> \/ Announces(Head(pending), q)
                                   \/ q \in Present(joined) /\ ~Removes(Head(pending), q)
  BY DEF Drained
<1> QED BY <1>2, <1>3

(* In terms of the outcome of the queue. *)
LEMMA OnceDrainedIsOutcome ==
    ASSUME Queues, NEW r \in Room
    PROVE  r \in OnceDrained <=> Outcome(r \in Present(joined), pending, Showing(r), Removing(r))
<1>1. \A i \in DOMAIN pending : /\ pending[i] \in Showing(r) <=> Announces(pending[i], r)
                                /\ pending[i] \in Removing(r) <=> Removes(pending[i], r)
  BY DEF Queues, Showing, Removing
<1> QED BY <1>1 DEF OnceDrained, JoinedOnceDrained, Outcome

LEMMA OnceDrainedIsOutcomeNext ==
    ASSUME Queues', NEW r \in Room
    PROVE  r \in OnceDrained' <=> Outcome(r \in Present(joined'), pending', Showing(r), Removing(r))
<1>1. \A i \in DOMAIN pending' : /\ pending'[i] \in Showing(r) <=> Announces(pending'[i], r)
                                 /\ pending'[i] \in Removing(r) <=> Removes(pending'[i], r)
  BY DEF Queues, Showing, Removing
<1> QED BY <1>1 DEF OnceDrained, JoinedOnceDrained, Outcome, Announces, Removes, Present

(* No update, and no effect, does both. *)
LEMMA ShowOrRemove ==
    ASSUME NEW r
    PROVE  /\ Showing(r) \cap Removing(r) = {}
           /\ Announcing(r) \cap Withdrawing(r) = {}
           /\ Inserting(r) \cap Tearing(r) = {}
BY DEF Showing, Removing, Announces, Removes, Announcing, Withdrawing, SendsAnnouncement,
       SendsRemoval, Inserting, Tearing, InsertDetails, TearsDown

(* The inductive invariant: once the handler has performed its remaining   *)
(* effects and the frontend has drained the queue, the rooms it shows as   *)
(* joined are those that have details.                                     *)
Converging ==
    /\ details \subseteq Room
    /\ DetailsAfter(details, todo) = ShownAfter(OnceDrained, todo)

(* Between two handlers it is JoinedConvergesToDetails. *)
LEMMA ConvergingConverges ==
    ASSUME Converging
    PROVE  JoinedConvergesToDetails
<1>1. OnceDrained \subseteq Room
  BY DEF OnceDrained
<1> QED BY <1>1, ProperEmpty DEF Converging, JoinedConvergesToDetails, OnceDrained

(* A handler's list of effects is balanced when it starts. *)
LEMMA StartKeepsConverging ==
    ASSUME Converging, Starts, UNCHANGED joined
    PROVE  Converging'
<1>1. OnceDrained \subseteq Room /\ OnceDrained' = OnceDrained
  BY DEF OnceDrained, JoinedOnceDrained, Starts
<1>2. details = OnceDrained
  BY <1>1, ProperEmpty DEF Converging, Starts
<1>3. DetailsAfter(details, todo') = ShownAfter(details, todo')
  BY DEF Converging, Starts, Proper, Balanced
<1> QED BY <1>1, <1>2, <1>3 DEF Converging, Starts

(* What an effect does to a room's details and to what is shown of it. *)
LEMMA EffectOnRoom ==
    ASSUME Queues, RunEffect, UNCHANGED joined, NEW r \in Room
    PROVE  /\ r \in details' <=> Head(todo) \in Inserting(r) \/ (r \in details /\ Head(todo) \notin Tearing(r))
           /\ r \in OnceDrained' <=>
                Head(todo) \in Announcing(r) \/ (r \in OnceDrained /\ Head(todo) \notin Withdrawing(r))
<1> DEFINE e == Head(todo)
<1>1. e \in Effect /\ todo' = Tail(todo) /\ todo' \in Seq(Effect)
  BY TailOf DEF Queues, RunEffect
<1>2. \/ e.do = "insert_room_details" /\ details' = details \cup {e.room} /\ UNCHANGED pending
      \/ e.do = "remove_room_details" /\ details' = details \ {e.room} /\ UNCHANGED pending
      \/ e.do = "clear_all_rooms" /\ details' = {} /\ UNCHANGED pending
      \/ e.do = "enqueue" /\ pending' = Append(pending, e.update) /\ UNCHANGED details
  BY DEF RunEffect, Enqueue
<1>3. /\ e.do = "insert_room_details" /\ e.room = r => e = InsertDetails(r)
      /\ e = InsertDetails(r) => e.do = "insert_room_details" /\ e.room = r
  BY <1>1 DEF Effect, InsertDetails
<1>4. e.do = "enqueue" => e.update \in RoomsListUpdate
  BY <1>1, EffectFields
<1> HIDE DEF e
<1>5. /\ e \in Inserting(r) <=> e.do = "insert_room_details" /\ e.room = r
      /\ e \in Tearing(r) <=> e.do = "clear_all_rooms" \/ (e.do = "remove_room_details" /\ e.room = r)
      /\ e \in Announcing(r) <=> e.do = "enqueue" /\ Announces(e.update, r)
      /\ e \in Withdrawing(r) <=> e.do = "enqueue" /\ Removes(e.update, r)
  BY <1>1, <1>3 DEF Inserting, Tearing, Announcing, Withdrawing, TearsDown, SendsAnnouncement, SendsRemoval
<1>6. r \in details' <=> e \in Inserting(r) \/ (r \in details /\ e \notin Tearing(r))
  BY <1>2, <1>5
<1>7. r \in OnceDrained' <=> e \in Announcing(r) \/ (r \in OnceDrained /\ e \notin Withdrawing(r))
  <2>1. CASE UNCHANGED pending /\ e.do # "enqueue"
    <3>1. OnceDrained' = OnceDrained
      BY <2>1 DEF OnceDrained, JoinedOnceDrained
    <3> QED BY <1>5, <2>1, <3>1
  <2>2. CASE e.do = "enqueue" /\ pending' = Append(pending, e.update)
    <3>1. pending \in Seq(RoomsListUpdate) /\ e.update \in RoomsListUpdate
      BY <1>4, <2>2 DEF Queues
    <3>2. Queues'
      BY <1>1, <2>2, <3>1 DEF Queues
    <3> DEFINE X == Present(joined)
    <3>3. r \in OnceDrained <=> Outcome(r \in X, pending, Showing(r), Removing(r))
      BY OnceDrainedIsOutcome
    <3>4. r \in OnceDrained' <=> Outcome(r \in X, pending', Showing(r), Removing(r))
      BY <3>2, OnceDrainedIsOutcomeNext DEF Present
    <3> HIDE DEF X
    <3>5. Outcome(r \in X, Append(pending, e.update), Showing(r), Removing(r))
            <=> e.update \in Showing(r) \/ (Outcome(r \in X, pending, Showing(r), Removing(r)) /\ e.update \notin Removing(r))
      BY ONLY <3>1, OutcomeOfAppend
    <3>6. /\ e.update \in Showing(r) <=> e \in Announcing(r)
          /\ e.update \in Removing(r) <=> e \in Withdrawing(r)
      BY <1>5, <2>2, <3>1 DEF Showing, Removing
    <3> QED BY <2>2, <3>3, <3>4, <3>5, <3>6
  <2> QED BY <1>2, <2>1, <2>2
<1> QED BY <1>6, <1>7 DEF e

(* The details alone. *)
LEMMA EffectOnDetails ==
    ASSUME Queues, RunEffect, NEW r \in Room
    PROVE  r \in details' <=> Head(todo) \in Inserting(r) \/ (r \in details /\ Head(todo) \notin Tearing(r))
<1> DEFINE e == Head(todo)
<1>1. e \in Effect
  BY TailOf DEF Queues, RunEffect
<1>2. \/ e.do = "insert_room_details" /\ details' = details \cup {e.room}
      \/ e.do = "remove_room_details" /\ details' = details \ {e.room}
      \/ e.do = "clear_all_rooms" /\ details' = {}
      \/ e.do = "enqueue" /\ UNCHANGED details
  BY DEF RunEffect
<1>3. /\ e.do = "insert_room_details" /\ e.room = r => e = InsertDetails(r)
      /\ e = InsertDetails(r) => e.do = "insert_room_details" /\ e.room = r
  BY <1>1 DEF Effect, InsertDetails
<1> HIDE DEF e
<1>4. /\ e \in Inserting(r) <=> e.do = "insert_room_details" /\ e.room = r
      /\ e \in Tearing(r) <=> e.do = "clear_all_rooms" \/ (e.do = "remove_room_details" /\ e.room = r)
  BY <1>1, <1>3 DEF Inserting, Tearing, TearsDown
<1> QED BY <1>2, <1>4 DEF e

(* Performing an effect does not change where both are going. *)
LEMMA EffectKeepsConverging ==
    ASSUME Queues, Converging, RunEffect, UNCHANGED joined
    PROVE  Converging'
<1>1. todo \in Seq(Effect) /\ todo # <<>> /\ todo' = Tail(todo)
  BY DEF Queues, RunEffect
<1>2. ASSUME NEW r \in Room
      PROVE  /\ Outcome(r \in details', todo', Inserting(r), Tearing(r))
                  <=> Outcome(r \in details, todo, Inserting(r), Tearing(r))
             /\ Outcome(r \in OnceDrained', todo', Announcing(r), Withdrawing(r))
                  <=> Outcome(r \in OnceDrained, todo, Announcing(r), Withdrawing(r))
  <2> DEFINE D == details'
             O == OnceDrained'
             P == OnceDrained
  <2>1. /\ r \in D <=> Head(todo) \in Inserting(r) \/ (r \in details /\ Head(todo) \notin Tearing(r))
        /\ r \in O <=> Head(todo) \in Announcing(r) \/ (r \in P /\ Head(todo) \notin Withdrawing(r))
    BY EffectOnRoom
  <2> HIDE DEF D, O, P
  <2>2. Outcome(r \in D, Tail(todo), Inserting(r), Tearing(r))
          <=> Outcome(r \in details, todo, Inserting(r), Tearing(r))
    BY <1>1, <2>1, ShowOrRemove, OutcomeOfTail
  <2>3. Outcome(r \in O, Tail(todo), Announcing(r), Withdrawing(r))
          <=> Outcome(r \in P, todo, Announcing(r), Withdrawing(r))
    BY <1>1, <2>1, ShowOrRemove, OutcomeOfTail
  <2> QED BY <1>1, <2>2, <2>3 DEF D, O, P
<1>3. details' \subseteq Room
  <2>1. Head(todo) \in Effect
    BY <1>1, TailOf
  <2>2. Head(todo).do = "insert_room_details" => Head(todo).room \in Room
    BY <2>1, EffectFields
  <2> QED BY <2>2 DEF RunEffect, Converging
<1>4. DetailsAfter(details', todo') = DetailsAfter(details, todo)
  BY <1>2 DEF DetailsAfter
<1>5. ShownAfter(OnceDrained', todo') = ShownAfter(OnceDrained, todo)
  BY <1>2 DEF ShownAfter
<1>6. Converging' <=> details' \subseteq Room /\ DetailsAfter(details', todo') = ShownAfter(OnceDrained', todo')
  BY DEF Converging, DetailsAfter, ShownAfter, Inserting, Tearing, Announcing, Withdrawing, Outcome
<1> QED BY <1>3, <1>4, <1>5, <1>6 DEF Converging

(* Draining an update does not change where the frontend is going. *)
LEMMA DrainKeepsShown ==
    ASSUME Queues, Drained, UNCHANGED todo
    PROVE  OnceDrained' = OnceDrained
<1>1. pending \in Seq(RoomsListUpdate) /\ pending # <<>> /\ pending' = Tail(pending)
  BY DEF Queues, Drained
<1>2. Queues'
  BY <1>1, TailOf DEF Queues
<1>3. ASSUME NEW r \in Room
      PROVE  r \in OnceDrained' <=> r \in OnceDrained
  <2> DEFINE X == Present(joined)
             Y == Present(joined')
  <2>1. /\ r \in OnceDrained <=> Outcome(r \in X, pending, Showing(r), Removing(r))
        /\ r \in OnceDrained' <=> Outcome(r \in Y, pending', Showing(r), Removing(r))
    BY <1>2, OnceDrainedIsOutcome, OnceDrainedIsOutcomeNext
  <2>2. r \in Y <=> Head(pending) \in Showing(r) \/ (r \in X /\ Head(pending) \notin Removing(r))
    BY DrainOnRoom
  <2> HIDE DEF X, Y
  <2>3. Outcome(r \in Y, Tail(pending), Showing(r), Removing(r))
          <=> Outcome(r \in X, pending, Showing(r), Removing(r))
    BY <1>1, <2>2, ShowOrRemove, OutcomeOfTail
  <2> QED BY <1>1, <2>1, <2>3
<1> QED BY <1>3 DEF OnceDrained

(* Nor does it change with the updates of the other producers. *)
LEMMA EnqueueKeepsShown ==
    ASSUME Queues, NEW u \in RoomsListUpdate, Plain(u), Enqueue(u), UNCHANGED <<todo, joined>>
    PROVE  OnceDrained' = OnceDrained
<1>1. pending \in Seq(RoomsListUpdate) /\ pending' = Append(pending, u)
  BY DEF Queues, Enqueue
<1>2. Queues'
  BY <1>1 DEF Queues
<1>3. ASSUME NEW r \in Room
      PROVE  r \in OnceDrained' <=> r \in OnceDrained
  <2> DEFINE X == Present(joined)
  <2>1. /\ r \in OnceDrained <=> Outcome(r \in X, pending, Showing(r), Removing(r))
        /\ r \in OnceDrained' <=> Outcome(r \in X, pending', Showing(r), Removing(r))
    BY <1>2, OnceDrainedIsOutcome, OnceDrainedIsOutcomeNext DEF Present
  <2> HIDE DEF X
  <2>2. Outcome(r \in X, Append(pending, u), Showing(r), Removing(r))
          <=> u \in Showing(r) \/ (Outcome(r \in X, pending, Showing(r), Removing(r)) /\ u \notin Removing(r))
    BY ONLY <1>1, OutcomeOfAppend
  <2>3. u \notin Showing(r) /\ u \notin Removing(r)
    BY DEF Plain, Showing, Removing, Announces, Removes
  <2> QED BY <1>1, <2>1, <2>2, <2>3
<1> QED BY <1>3 DEF OnceDrained

(* It holds initially: only a status is pending. *)
LEMMA ConvergingInit == Init => Converging
<1> SUFFICES ASSUME Init PROVE Converging
  OBVIOUS
<1>1. details = {} /\ todo = <<>> /\ Present(joined) = {}
  BY DEF Init, SyncInit, UiInit, Present
<1>2. \A i \in DOMAIN pending : pending[i].op = "Status"
  BY DEF Init
<1>3. OnceDrained = {}
  BY <1>1, <1>2 DEF OnceDrained, JoinedOnceDrained, Announces
<1> QED BY <1>1, <1>3, ProperEmpty DEF Converging

(* Every step of the pipeline preserves it. *)
LEMMA ConvergingStep == IInv /\ Converging /\ [Next]_vars => Converging'
<1> SUFFICES ASSUME IInv, Converging, [Next]_vars PROVE Converging'
  OBVIOUS
<1>1. SyncInv /\ UiInv /\ Queues
  BY InvParts
<1>2. CASE SyncNext /\ UNCHANGED uiVars
  <2>1. UNCHANGED joined
    BY <1>2 DEF uiVars
  <2> QED BY <1>1, <1>2, <2>1, EffectKeepsConverging, SyncStarts, StartKeepsConverging
<1>3. CASE UiNext /\ UNCHANGED syncVars
  <2>1. UNCHANGED <<todo, details>>
    BY <1>3 DEF syncVars
  <2>2. CASE UNCHANGED <<joined, pending>>
    BY <2>1, <2>2 DEF Converging, OnceDrained, JoinedOnceDrained
  <2>3. CASE Drained
    BY <1>1, <2>1, <2>3, DrainKeepsShown DEF Converging
  <2> QED BY <1>1, <1>3, <2>2, <2>3, UiStepDrains
<1>4. ASSUME NEW u \in RoomsListUpdate, Foreign(u), Enqueue(u), UNCHANGED <<syncVars, uiVars>>
      PROVE  Converging'
  <2>1. UNCHANGED <<todo, details, joined>> /\ Plain(u)
    BY <1>4 DEF syncVars, uiVars, Foreign, Plain
  <2>2. OnceDrained' = OnceDrained
    BY <1>1, <1>4, <2>1, EnqueueKeepsShown
  <2> QED BY <2>1, <2>2 DEF Converging
<1>5. CASE UNCHANGED <<syncVars, uiVars, pending>>
  BY <1>5 DEF Converging, OnceDrained, JoinedOnceDrained, syncVars, uiVars
<1> QED BY <1>2, <1>3, <1>4, <1>5, StepCases

(* Between two handlers, the frontend is on its way to exactly the rooms   *)
(* in ALL_JOINED_ROOMS, for any rooms, infos and bounds.                   *)
THEOREM JoinedRoomsConverge == Spec => []JoinedConvergesToDetails
<1>1. IInv /\ Converging => JoinedConvergesToDetails
  BY ConvergingConverges
<1> QED BY <1>1, InitInv, StepInv, ConvergingInit, ConvergingStep, PTL DEF Spec

(***************************************************************************)
(* 6. all_known_rooms is the service's vector between two handlers, and the *)
(* prefix of it that the handler has reached within one. So a teardown     *)
(* meets no room that is still listed as joined.                           *)
(***************************************************************************)

(* The ids of a vector of entries, place by place. *)
LEMMA IdsOf ==
    ASSUME NEW s \in Seq(Entry)
    PROVE  /\ Ids(s) \in Seq(Room) /\ Len(Ids(s)) = Len(s) /\ Len(s) \in Nat
           /\ DOMAIN Ids(s) = 1..Len(s)
           /\ \A i \in 1..Len(s) : Ids(s)[i] = s[i].room /\ s[i] \in Entry
<1>1. Len(s) \in Nat /\ DOMAIN s = 1..Len(s) /\ \A i \in 1..Len(s) : s[i] \in Entry
  OBVIOUS
<1>2. Ids(s) \in Seq(Room) /\ Len(Ids(s)) = Len(s)
  BY IdsType
<1>3. DOMAIN Ids(s) = 1..Len(s) /\ \A i \in 1..Len(s) : Ids(s)[i] = s[i].room
  BY <1>1 DEF Ids
<1> QED BY <1>1, <1>2, <1>3

(* They follow an insertion, *)
LEMMA IdsInsertAt ==
    ASSUME NEW s \in Seq(Entry), NEW i \in 1..Len(s) + 1, NEW e \in Entry
    PROVE  Ids(InsertAt(s, i, e)) = InsertAt(Ids(s), i, e.room)
<1> DEFINE t == InsertAt(s, i, e)
           a == Ids(t)
           b == InsertAt(Ids(s), i, e.room)
<1>1. Len(s) \in Nat /\ Ids(s) \in Seq(Room) /\ Len(Ids(s)) = Len(s) /\ e.room \in Room
  BY IdsOf DEF Entry
<1>2. t \in Seq(Entry) /\ Len(t) = Len(s) + 1
  BY InsertAtType
<1>3. \A j \in 1..Len(s) + 1 : t[j] = IF j < i THEN s[j] ELSE IF j = i THEN e ELSE s[j - 1]
  BY InsertAtOf
<1>4. b \in Seq(Room) /\ Len(b) = Len(s) + 1
  BY <1>1, InsertAtType
<1>5. \A j \in 1..Len(s) + 1 : b[j] = IF j < i THEN Ids(s)[j] ELSE IF j = i THEN e.room ELSE Ids(s)[j - 1]
  BY <1>1, InsertAtOf
<1> HIDE DEF t
<1>6. a \in Seq(Room) /\ Len(a) = Len(s) + 1 /\ \A j \in 1..Len(s) + 1 : a[j] = t[j].room
  BY <1>2, IdsOf
<1> HIDE DEF a, b
<1>7. ASSUME NEW j \in 1..Len(s) + 1
      PROVE  a[j] = b[j]
  <2>1. CASE j < i
    <3>1. j \in 1..Len(s)
      BY <1>1, <2>1
    <3>2. t[j] = s[j] /\ b[j] = Ids(s)[j] /\ a[j] = t[j].room
      BY <1>3, <1>5, <1>6, <2>1
    <3> QED BY <3>1, <3>2, IdsOf
  <2>2. CASE j = i
    BY <1>3, <1>5, <1>6, <2>2
  <2>3. CASE j > i
    <3>1. j - 1 \in 1..Len(s) /\ ~(j < i) /\ j # i
      BY <1>1, <2>3
    <3>2. t[j] = s[j - 1] /\ b[j] = Ids(s)[j - 1] /\ a[j] = t[j].room
      BY <1>3, <1>5, <1>6, <3>1
    <3> QED BY <3>1, <3>2, IdsOf
  <2> QED BY <1>1, <2>1, <2>2, <2>3
<1> QED BY <1>4, <1>6, <1>7, SameElements DEF a, b, t

(* a removal, *)
LEMMA IdsRemoveAt ==
    ASSUME NEW s \in Seq(Entry), NEW i \in 1..Len(s)
    PROVE  Ids(RemoveAt(s, i)) = RemoveAt(Ids(s), i)
<1> DEFINE t == RemoveAt(s, i)
           a == Ids(t)
           b == RemoveAt(Ids(s), i)
<1>1. Len(s) \in Nat /\ Ids(s) \in Seq(Room) /\ Len(Ids(s)) = Len(s)
  BY IdsOf
<1>2. t \in Seq(Entry) /\ Len(t) = Len(s) - 1
  BY RemoveAtType
<1>3. \A j \in 1..Len(s) - 1 : t[j] = IF j < i THEN s[j] ELSE s[j + 1]
  BY RemoveAtOf
<1>4. b \in Seq(Room) /\ Len(b) = Len(s) - 1
  BY <1>1, RemoveAtType
<1>5. \A j \in 1..Len(s) - 1 : b[j] = IF j < i THEN Ids(s)[j] ELSE Ids(s)[j + 1]
  BY <1>1, RemoveAtOf
<1> HIDE DEF t
<1>6. a \in Seq(Room) /\ Len(a) = Len(s) - 1 /\ \A j \in 1..Len(s) - 1 : a[j] = t[j].room
  BY <1>2, IdsOf
<1> HIDE DEF a, b
<1>7. ASSUME NEW j \in 1..Len(s) - 1
      PROVE  a[j] = b[j]
  <2>1. j \in 1..Len(s) /\ j + 1 \in 1..Len(s)
    BY <1>1
  <2>2. CASE j < i
    <3>1. t[j] = s[j] /\ b[j] = Ids(s)[j] /\ a[j] = t[j].room
      BY <1>3, <1>5, <1>6, <2>2
    <3> QED BY <2>1, <3>1, IdsOf
  <2>3. CASE ~(j < i)
    <3>1. t[j] = s[j + 1] /\ b[j] = Ids(s)[j + 1] /\ a[j] = t[j].room
      BY <1>3, <1>5, <1>6, <2>3
    <3> QED BY <2>1, <3>1, IdsOf
  <2> QED BY <2>2, <2>3
<1> QED BY <1>4, <1>6, <1>7, SameElements DEF a, b, t

(* an exchange, *)
LEMMA IdsReplaceAt ==
    ASSUME NEW s \in Seq(Entry), NEW i \in 1..Len(s), NEW e \in Entry
    PROVE  Ids(ReplaceAt(s, i, e)) = ReplaceAt(Ids(s), i, e.room)
<1> DEFINE t == ReplaceAt(s, i, e)
           a == Ids(t)
           b == ReplaceAt(Ids(s), i, e.room)
<1>1. Len(s) \in Nat /\ Ids(s) \in Seq(Room) /\ Len(Ids(s)) = Len(s) /\ e.room \in Room
  BY IdsOf DEF Entry
<1>2. t \in Seq(Entry) /\ Len(t) = Len(s) /\ \A j \in 1..Len(s) : t[j] = IF j = i THEN e ELSE s[j]
  BY ReplaceAtType DEF ReplaceAt
<1>3. b \in Seq(Room) /\ Len(b) = Len(s)
      /\ \A j \in 1..Len(s) : b[j] = IF j = i THEN e.room ELSE Ids(s)[j]
  BY <1>1, ReplaceAtType DEF ReplaceAt
<1> HIDE DEF t
<1>4. a \in Seq(Room) /\ Len(a) = Len(s) /\ \A j \in 1..Len(s) : a[j] = t[j].room
  BY <1>2, IdsOf
<1> HIDE DEF a, b
<1>5. ASSUME NEW j \in 1..Len(s)
      PROVE  a[j] = b[j]
  BY <1>2, <1>3, <1>4, IdsOf
<1> QED BY <1>3, <1>4, <1>5, SameElements DEF a, b, t

(* and a concatenation. *)
LEMMA IdsConcat ==
    ASSUME NEW s \in Seq(Entry), NEW t \in Seq(Entry)
    PROVE  Ids(s \o t) = Ids(s) \o Ids(t)
<1> DEFINE st == s \o t
           a == Ids(st)
           b == Ids(s) \o Ids(t)
<1>1. /\ Len(s) \in Nat /\ Len(t) \in Nat
      /\ Ids(s) \in Seq(Room) /\ Len(Ids(s)) = Len(s)
      /\ Ids(t) \in Seq(Room) /\ Len(Ids(t)) = Len(t)
  BY IdsOf
<1>2. /\ st \in Seq(Entry) /\ Len(st) = Len(s) + Len(t)
      /\ \A i \in 1..Len(s) : st[i] = s[i]
      /\ \A i \in 1..Len(t) : st[Len(s) + i] = t[i]
  BY ConcatProperties
<1>3. /\ b \in Seq(Room) /\ Len(b) = Len(s) + Len(t)
      /\ \A i \in 1..Len(s) : b[i] = Ids(s)[i]
      /\ \A i \in 1..Len(t) : b[Len(s) + i] = Ids(t)[i]
  <2>1. Ids(s) \in Seq(Room) /\ Ids(t) \in Seq(Room) /\ Len(Ids(s)) = Len(s) /\ Len(Ids(t)) = Len(t)
    BY <1>1
  <2> HIDE <1>1, <1>2
  <2>2. ASSUME NEW p \in Seq(Room), NEW q \in Seq(Room)
        PROVE  /\ p \o q \in Seq(Room) /\ Len(p \o q) = Len(p) + Len(q)
               /\ \A i \in 1..Len(p) : (p \o q)[i] = p[i]
               /\ \A i \in 1..Len(q) : (p \o q)[Len(p) + i] = q[i]
    BY ConcatProperties
  <2>3. /\ b \in Seq(Room) /\ Len(b) = Len(Ids(s)) + Len(Ids(t))
        /\ \A i \in 1..Len(Ids(s)) : b[i] = Ids(s)[i]
        /\ \A i \in 1..Len(Ids(t)) : b[Len(Ids(s)) + i] = Ids(t)[i]
    BY <2>1, <2>2
  <2> QED BY <2>1, <2>3
<1> HIDE DEF st
<1>4. a \in Seq(Room) /\ Len(a) = Len(s) + Len(t) /\ \A j \in 1..Len(s) + Len(t) : a[j] = st[j].room
  BY <1>2, IdsOf
<1> HIDE DEF a, b
<1>5. ASSUME NEW j \in 1..Len(s) + Len(t)
      PROVE  a[j] = b[j]
  <2>1. CASE j \in 1..Len(s)
    BY <1>2, <1>3, <1>4, <2>1, IdsOf
  <2>2. CASE j \notin 1..Len(s)
    <3> DEFINE k == j - Len(s)
    <3>1. k \in 1..Len(t) /\ j = Len(s) + k
      BY <1>1, <2>2
    <3> HIDE DEF k
    <3>2. a[j] = t[k].room /\ b[j] = Ids(t)[k]
      BY <1>2, <1>3, <1>4, <3>1
    <3> QED BY <3>1, <3>2, IdsOf
  <2> QED BY <2>1, <2>2
<1> QED BY <1>3, <1>4, <1>5, SameElements DEF a, b, st

----------------------------------------------------------------------------

(* The rooms that a list of effects tears down. *)
Torn(s) == {r \in Room : \E i \in DOMAIN s : TearsDown(s[i], r)}

(* Two lists tear down what either does. *)
LEMMA TornConcat ==
    ASSUME NEW s \in Seq(Effect), NEW t \in Seq(Effect)
    PROVE  Torn(s \o t) = Torn(s) \cup Torn(t)
<1> DEFINE st == s \o t
<1>1. ToSet(st) = ToSet(s) \cup ToSet(t)
  BY ConcatKeeps
<1> HIDE DEF st
<1>2. \A r : /\ r \in Torn(st) <=> r \in Room /\ \E e \in ToSet(st) : TearsDown(e, r)
             /\ r \in Torn(s) <=> r \in Room /\ \E e \in ToSet(s) : TearsDown(e, r)
             /\ r \in Torn(t) <=> r \in Room /\ \E e \in ToSet(t) : TearsDown(e, r)
  BY DEF Torn, ToSet
<1>3. \A r : r \in Torn(st) <=> r \in Torn(s) \cup Torn(t)
  BY <1>1, <1>2
<1> QED BY <1>3 DEF st

(* Only remove_room tears a room down: *)
LEMMA TornElements ==
    ASSUME NEW s
    PROVE  /\ (\A e \in ToSet(s) : e.do \in {"insert_room_details", "enqueue"}) => Torn(s) = {}
           /\ \A room : (\A e \in ToSet(s) : e.do = "enqueue" \/ (e.do = "remove_room_details" /\ e.room = room))
                        => Torn(s) \subseteq {room}
<1>1. \A i \in DOMAIN s : s[i] \in ToSet(s)
  BY DEF ToSet
<1> QED BY <1>1 DEF Torn, TearsDown

LEMMA TornOrder ==
    ASSUME NEW diff, NEW condition
    PROVE  Torn(<<SendOrder(diff)>>) = {} /\ Torn(<<>>) = {} /\ Torn(When(condition, SendOrder(diff))) = {}
<1>1. \A s : s \in {<<SendOrder(diff)>>, <<>>} => \A e \in ToSet(s) : e.do \in {"insert_room_details", "enqueue"}
  BY DEF ToSet, SendOrder, Send
<1> QED BY <1>1, TornElements DEF When

LEMMA TornAddNewRoom ==
    ASSUME NEW new
    PROVE  Torn(AddNewRoom(new)) = {}
BY AddNewRoomHas, TornElements DEF SendsAbout

LEMMA TornRemoveRoom ==
    ASSUME NEW room
    PROVE  Torn(RemoveRoom(room)) \subseteq {room}
BY RemoveRoomHas, TornElements DEF SendsAbout

(* update_room tears down the room it replaces, or its own room when the   *)
(* user has left it or is banned.                                          *)
LEMMA TornUpdateRoom ==
    ASSUME NEW old \in Entry, NEW new \in Entry
    PROVE  \/ Torn(UpdateRoom(old, new)) = {}
           \/ /\ Torn(UpdateRoom(old, new)) \subseteq {old.room}
              /\ old.room # new.room \/ new.info.state \in {"Banned", "Left"}
<1>1. Torn(RemoveRoom(old.room) \o AddNewRoom(new)) \subseteq {old.room}
  <2>1. old.room \in Room /\ RemoveRoom(old.room) \in Seq(Effect) /\ AddNewRoom(new) \in Seq(Effect)
    BY AddNewRoomType, RemoveRoomType DEF Entry
  <2> QED BY <2>1, TornConcat, TornAddNewRoom, TornRemoveRoom
<1>2. Torn(RemoveRoom(new.room)) \subseteq {new.room} /\ Torn(AddNewRoom(new)) = {}
  BY TornAddNewRoom, TornRemoveRoom
<1>3. (\A e \in ToSet(UpdateRoom(old, new)) : SendsAbout(e, DataUpdates, new.room)) => Torn(UpdateRoom(old, new)) = {}
  BY TornElements DEF SendsAbout
<1> QED BY <1>1, <1>2, <1>3, UpdateRoomCases

----------------------------------------------------------------------------

(* The rooms that a vector of entries lists as joined. *)
JoinedIn(s) == {r \in Room : \E i \in DOMAIN s : s[i].room = r /\ s[i].info.state = "Joined"}

(* They are among its ids. *)
LEMMA JoinedAreListed ==
    ASSUME NEW s \in Seq(Entry)
    PROVE  JoinedIn(s) \subseteq ToSet(Ids(s))
<1>1. \A i \in DOMAIN s : i \in DOMAIN Ids(s) /\ Ids(s)[i] = s[i].room
  BY IdsOf
<1> QED BY <1>1 DEF JoinedIn, ToSet

(* A room that is listed once, in another state, is not among them. *)
LEMMA ListedOnce ==
    ASSUME NEW s \in Seq(Entry), IsInjective(Ids(s)), NEW i \in 1..Len(s), s[i].info.state # "Joined"
    PROVE  s[i].room \notin JoinedIn(s)
<1>1. DOMAIN s = DOMAIN Ids(s) /\ i \in DOMAIN s /\ \A j \in DOMAIN s : Ids(s)[j] = s[j].room
  BY IdsOf
<1>2. \A j \in DOMAIN s : s[j].room = s[i].room => j = i
  BY <1>1 DEF IsInjective
<1> QED BY <1>2 DEF JoinedIn

(* The rooms that have details once the handler is through belong to the   *)
(* known rooms, or to the rooms already added of those that come in.       *)
Accounted ==
    ToSet(Ids(known)) \cup
    (IF phase = "adding" THEN {incoming[i].room : i \in (DOMAIN incoming) \ toAdd} ELSE {})

(* all_known_rooms follows the vector of the service through the phases of *)
(* a handler; no effect tears down the timeline of a room that it lists as *)
(* joined; the rooms that have details are accounted for.                  *)
KnownInv ==
    /\ IsInjective(svc)
    /\ phase # "failed" =>
         /\ IsInjective(Ids(known))
         /\ phase = "idle" => Ids(known) = svc
         /\ phase = "adding" => Ids(known) \o Ids(incoming) = svc
         /\ phase = "truncating" => \A j \in 1..Len(svc) : Ids(known)[j] = svc[j]
         /\ phase = "resetting" => Ids(incoming) = svc
         /\ Torn(todo) \cap JoinedIn(known) = {}
         /\ DetailsAfter(details, todo) \subseteq Accounted

(* Where a diff is taken. *)
LEMMA KnownAtRest ==
    ASSUME SyncInv, KnownInv, NEW kind, TakeDiff(kind)
    PROVE  /\ phase = "idle" /\ todo = <<>> /\ IsInjective(svc) /\ Ids(known) = svc
           /\ details \subseteq ToSet(svc) /\ details \subseteq Room
           /\ svc \in Seq(Room) /\ known \in Seq(Entry) /\ Len(known) = Len(svc)
           /\ Len(svc) \in Nat /\ ToSet(svc) \subseteq Room
<1>1. phase = "idle" /\ todo = <<>> /\ Len(known) = Len(svc)
  BY TakeDiffType
<1>2. svc \in Seq(Room) /\ known \in Seq(Entry) /\ details \in SUBSET Room /\ Len(svc) \in Nat
  BY DEF SyncInv, SyncTypeOK
<1>3. DetailsAfter(details, <<>>) = details
  BY <1>2, ProperEmpty
<1>4. ToSet(svc) \subseteq Room
  BY <1>2 DEF ToSet
<1> QED BY <1>1, <1>2, <1>3, <1>4 DEF KnownInv, Accounted

(* What a handler has to establish when it leaves the task at rest, up to  *)
(* the effects that remain to be performed,                                *)
LEMMA BackToRest ==
    ASSUME phase' = "idle", IsInjective(svc'), Ids(known') = svc',
           Torn(todo') \cap JoinedIn(known') = {},
           DetailsAfter(details', todo') \subseteq ToSet(svc')
    PROVE  KnownInv'
<1>1. KnownInv' <=>
        /\ IsInjective(svc')
        /\ phase' # "failed" =>
             /\ IsInjective(Ids(known'))
             /\ phase' = "idle" => Ids(known') = svc'
             /\ phase' = "adding" => Ids(known') \o Ids(incoming') = svc'
             /\ phase' = "truncating" => \A j \in 1..Len(svc') : Ids(known')[j] = svc'[j]
             /\ phase' = "resetting" => Ids(incoming') = svc'
             /\ Torn(todo') \cap JoinedIn(known') = {}
             /\ DetailsAfter(details', todo') \subseteq Accounted'
  BY DEF KnownInv
<1>2. Accounted' = ToSet(Ids(known'))
  BY DEF Accounted
<1> QED BY <1>1, <1>2

(* and when it gives up. *)
LEMMA GivenUp ==
    ASSUME phase' = "failed", IsInjective(svc')
    PROVE  KnownInv'
BY DEF KnownInv

(* The entries of a vector are about the rooms that it lists. *)
LEMMA EntriesOf ==
    ASSUME NEW s \in Seq(Entry)
    PROVE  \A e \in ToSet(s) : e \in Entry /\ e.room \in ToSet(Ids(s))
<1>1. \A i \in DOMAIN s : s[i] \in Entry /\ i \in DOMAIN Ids(s) /\ Ids(s)[i] = s[i].room
  BY IdsOf, DomainOf
<1> QED BY <1>1 DEF ToSet

(* A list of effects with nothing but order diffs before or after it *)
Around(s, u) ==
    \/ s = u
    \/ \E d \in VecDiff : s = u \o <<SendOrder(d)>> \/ s = <<SendOrder(d)>> \o u
    \/ \E d, a \in VecDiff : s = <<SendOrder(d)>> \o u \o <<SendOrder(a)>>

(* tears down the same rooms and leads to the same details. *)
LEMMA AroundKeeps ==
    ASSUME NEW u \in Seq(Effect), NEW s, Around(s, u)
    PROVE  /\ s \in Seq(Effect) /\ Torn(s) = Torn(u)
           /\ \A rooms \in SUBSET Room : DetailsAfter(rooms, s) = DetailsAfter(rooms, u)
<1> DEFINE Same(v, w) == /\ v \in Seq(Effect) /\ Torn(v) = Torn(w)
                         /\ \A rooms \in SUBSET Room : DetailsAfter(rooms, v) = DetailsAfter(rooms, w)
<1>1. ASSUME NEW v \in Seq(Effect), NEW diff \in VecDiff
      PROVE  Same(v \o <<SendOrder(diff)>>, v) /\ Same(<<SendOrder(diff)>> \o v, v)
  <2> DEFINE o == <<SendOrder(diff)>>
  <2>1. o \in Seq(Effect) /\ Torn(o) = {} /\ \A rooms \in SUBSET Room : DetailsAfter(rooms, o) = rooms
    BY SendOrderType, TornOrder, ProperOrder
  <2> HIDE DEF o
  <2>2. v \o o \in Seq(Effect) /\ o \o v \in Seq(Effect)
    BY <2>1, ConcatProperties
  <2>3. Torn(v \o o) = Torn(v) \cup Torn(o) /\ Torn(o \o v) = Torn(o) \cup Torn(v)
    BY <2>1, TornConcat
  <2>4. \A rooms \in SUBSET Room : /\ DetailsAfter(rooms, v \o o) = DetailsAfter(DetailsAfter(rooms, v), o)
                                   /\ DetailsAfter(rooms, o \o v) = DetailsAfter(DetailsAfter(rooms, o), v)
                                   /\ DetailsAfter(rooms, v) \in SUBSET Room
    BY <2>1, AfterConcat DEF DetailsAfter
  <2> QED BY <2>1, <2>2, <2>3, <2>4 DEF o
<1>2. Same(u, u) /\ \A v, w, x : Same(v, w) /\ Same(w, x) => Same(v, x)
  OBVIOUS
<1>3. \A v, w : Same(v, w) => v \in Seq(Effect)
  OBVIOUS
<1> HIDE DEF Same
<1>4. Same(s, u)
  <2>1. ASSUME NEW d \in VecDiff, NEW a \in VecDiff
        PROVE  Same(<<SendOrder(d)>> \o u \o <<SendOrder(a)>>, u)
    <3> DEFINE first == <<SendOrder(d)>> \o u
    <3>1. Same(first, u)
      BY <1>1
    <3> HIDE DEF first
    <3>2. Same(first \o <<SendOrder(a)>>, first)
      BY <1>1, <1>3, <3>1
    <3>3. Same(first \o <<SendOrder(a)>>, u)
      BY <1>2, <3>1, <3>2
    <3> QED BY <3>3 DEF first
  <2>2. \A d \in VecDiff : Same(u \o <<SendOrder(d)>>, u) /\ Same(<<SendOrder(d)>> \o u, u)
    BY <1>1
  <2>3. CASE s = u
    BY <1>2, <2>3
  <2>4. CASE \E d \in VecDiff : s = u \o <<SendOrder(d)>> \/ s = <<SendOrder(d)>> \o u
    BY <2>2, <2>4
  <2>5. CASE \E d, a \in VecDiff : s = <<SendOrder(d)>> \o u \o <<SendOrder(a)>>
    BY <2>1, <2>5
  <2> QED BY <2>3, <2>4, <2>5 DEF Around
<1> QED BY <1>4 DEF Same

(* The rooms in R give way to the entries in N, by the effects u. *)
Resettled(u, R, N) ==
    /\ phase' = "idle" /\ u \in Seq(Effect) /\ Around(todo', u)
    /\ svc' \in Seq(Room) /\ known' \in Seq(Entry) /\ Ids(known') = svc' /\ IsInjective(svc')
    /\ ToSet(svc) \ R \subseteq ToSet(svc')
    /\ N \subseteq ToSet(known')
    /\ \A e \in ToSet(known') \ N : e \in ToSet(known) /\ e.room \notin R

GivesUp ==
    /\ phase' = "failed" /\ IsInjective(svc')
    /\ todo' \in {<<>>} \cup {<<SendOrder(diff)>> : diff \in VecDiff} \cup {RemoveRoom(r) : r \in Room}

Added(new) == new.room \notin ToSet(svc) /\ Resettled(AddNewRoom(new), {new.room}, {new})

Dropped(r) == Resettled(RemoveRoom(r), {r}, {})

Updated(old, new) ==
    /\ old \in ToSet(known) /\ old \in Entry
    /\ new.room # old.room => new.room \notin ToSet(svc)
    /\ Resettled(UpdateRoom(old, new), {old.room, new.room}, {new})

(* This is what the diffs that concern one room do, when one entry of      *)
(* all_known_rooms belongs to each room of the service's vector.           *)
LEMMA OneRoomChanges ==
    ASSUME SyncInv, KnownInv, OneRoomDiff
    PROVE  \/ GivesUp
           \/ \E new \in Entry : Added(new)
           \/ \E r \in Room : Dropped(r)
           \/ \E old, new \in Entry : Updated(old, new)
<1> DEFINE Goal == \/ GivesUp
                   \/ \E new \in Entry : Added(new)
                   \/ \E r \in Room : Dropped(r)
                   \/ \E old, new \in Entry : Updated(old, new)
<1>1. /\ OneRoom /\ todo = <<>> /\ svc \in Seq(Room) /\ known \in Seq(Entry)
      /\ Len(known) = Len(svc) /\ Len(svc) \in Nat
      /\ Ids(known) = svc /\ IsInjective(svc)
  BY OneRoomDiffDoes, KnownAtRest
<1>2. \A i \in 1..Len(svc) : /\ known[i] \in Entry /\ known[i].room = svc[i] /\ svc[i] \in Room
                             /\ known[i] \in ToSet(known)
  BY <1>1, IdsOf, DomainOf DEF ToSet
<1>3. \A e \in ToSet(known) : e \in Entry /\ e.room \in ToSet(svc)
  BY <1>1, EntriesOf
<1>4. \A new \in Entry : new.room \in Room /\ AddNewRoom(new) \in Seq(Effect)
  BY AddNewRoomType DEF Entry
<1>5. ASSUME NEW k \in 1..Len(svc) + 1, NEW new \in Entry, new.room \in Absent, Inserted(k, new)
      PROVE  Goal
  <2>1. new.room \in Room /\ new.room \notin ToSet(svc) /\ k \in 1..Len(known) + 1
    BY <1>1, <1>5 DEF Absent
  <2>2. /\ InsertAt(svc, k, new.room) \in Seq(Room) /\ IsInjective(InsertAt(svc, k, new.room))
        /\ ToSet(InsertAt(svc, k, new.room)) = ToSet(svc) \cup {new.room}
    BY <1>1, <2>1, InsertAtType, InsertAtKeeps
  <2>3. /\ InsertAt(known, k, new) \in Seq(Entry) /\ ToSet(InsertAt(known, k, new)) = ToSet(known) \cup {new}
        /\ Ids(InsertAt(known, k, new)) = InsertAt(svc, k, new.room)
    BY <1>1, <2>1, InsertAtType, InsertAtKeeps, IdsInsertAt
  <2>4. CASE phase' = "failed"
    BY <1>1, <1>5, <2>2, <2>4 DEF Inserted, GivesUp
  <2>5. CASE phase' # "failed"
    <3>1. Added(new)
      BY <1>3, <1>4, <1>5, <2>1, <2>2, <2>3, <2>5 DEF Inserted, Added, Resettled, Around
    <3> QED BY <3>1
  <2> QED BY <2>4, <2>5
<1>6. ASSUME NEW i \in 1..Len(svc)
      PROVE  LET left == RemoveAt(svc, i)
                 rest == RemoveAt(known, i)
             IN  /\ left \in Seq(Room) /\ IsInjective(left) /\ Len(left) = Len(svc) - 1
                 /\ ToSet(svc) \ {svc[i]} \subseteq ToSet(left) /\ svc[i] \notin ToSet(left)
                 /\ rest \in Seq(Entry) /\ Len(rest) = Len(svc) - 1 /\ Ids(rest) = left
                 /\ \A e \in ToSet(rest) : e \in ToSet(known) /\ e.room # svc[i]
  <2> DEFINE left == RemoveAt(svc, i)
             rest == RemoveAt(known, i)
  <2>1. /\ left \in Seq(Room) /\ IsInjective(left) /\ Len(left) = Len(svc) - 1
        /\ ToSet(svc) \ {svc[i]} \subseteq ToSet(left) /\ svc[i] \notin ToSet(left)
    BY <1>1, RemoveAtType, RemoveAtKeeps
  <2>2. /\ rest \in Seq(Entry) /\ Len(rest) = Len(svc) - 1 /\ Ids(rest) = left
        /\ ToSet(rest) \subseteq ToSet(known)
    <3>1. i \in 1..Len(known)
      BY <1>1
    <3> QED BY <1>1, <3>1, RemoveAtType, RemoveAtKeeps, IdsRemoveAt
  <2> HIDE DEF left, rest
  <2>3. \A e \in ToSet(rest) : e \in ToSet(known) /\ e.room # svc[i]
    BY <2>1, <2>2, EntriesOf
  <2> QED BY <2>1, <2>2, <2>3 DEF left, rest
<1>7. ASSUME NEW i \in 1..Len(svc), Removed(i)
      PROVE  Goal
  <2>1. svc[i] \in Room /\ RemoveRoom(svc[i]) \in Seq(Effect)
    BY <1>2, RemoveRoomType
  <2>2. Dropped(svc[i])
    BY <1>2, <1>6, <1>7, <2>1 DEF Removed, Dropped, Resettled, Around
  <2> QED BY <2>1, <2>2
<1>8. ASSUME NEW i \in 1..Len(svc), NEW j \in 1..Len(svc), NEW new \in Entry, new.room = svc[i], Moved(i, j, new)
      PROVE  Goal
  <2> DEFINE left == RemoveAt(svc, i)
             rest == RemoveAt(known, i)
             old == known[i]
  <2>1. /\ left \in Seq(Room) /\ IsInjective(left)
        /\ ToSet(svc) \ {new.room} \subseteq ToSet(left) /\ new.room \notin ToSet(left)
        /\ rest \in Seq(Entry) /\ Ids(rest) = left
        /\ \A e \in ToSet(rest) : e \in ToSet(known) /\ e.room # new.room
        /\ j \in 1..Len(left) + 1 /\ j \in 1..Len(rest) + 1
        /\ new.room \in Room /\ old \in Entry /\ old.room = new.room /\ old \in ToSet(known)
    <3>1. /\ left \in Seq(Room) /\ IsInjective(left) /\ Len(left) = Len(svc) - 1
          /\ ToSet(svc) \ {svc[i]} \subseteq ToSet(left) /\ svc[i] \notin ToSet(left)
          /\ rest \in Seq(Entry) /\ Len(rest) = Len(svc) - 1 /\ Ids(rest) = left
          /\ \A e \in ToSet(rest) : e \in ToSet(known) /\ e.room # svc[i]
      BY <1>6
    <3> HIDE DEF left, rest
    <3>2. j \in 1..Len(left) + 1 /\ j \in 1..Len(rest) + 1
      BY <1>1, <3>1
    <3> QED BY <1>2, <1>8, <3>1, <3>2
  <2> HIDE DEF left, rest, old
  <2>2. /\ InsertAt(left, j, new.room) \in Seq(Room) /\ IsInjective(InsertAt(left, j, new.room))
        /\ ToSet(InsertAt(left, j, new.room)) = ToSet(left) \cup {new.room}
    BY <2>1, InsertAtType, InsertAtKeeps
  <2>3. /\ InsertAt(rest, j, new) \in Seq(Entry) /\ ToSet(InsertAt(rest, j, new)) = ToSet(rest) \cup {new}
        /\ Ids(InsertAt(rest, j, new)) = InsertAt(left, j, new.room)
    BY <2>1, InsertAtType, InsertAtKeeps, IdsInsertAt
  <2>4. CASE phase' = "failed"
    BY <1>8, <2>2, <2>4 DEF Moved, GivesUp, left
  <2>5. CASE phase' # "failed"
    <3>1. UpdateRoom(old, new) \in Seq(Effect)
      BY <2>1, UpdateRoomType
    <3>2. Updated(old, new)
      BY <1>8, <2>1, <2>2, <2>3, <2>5, <3>1 DEF Moved, Updated, Resettled, Around, left, rest, old
    <3> QED BY <2>1, <3>2
  <2> QED BY <2>4, <2>5
<1>9. ASSUME NEW i \in 1..Len(svc), NEW new \in Entry, new.room \in Absent \cup {svc[i]}, Replaced(i, new)
      PROVE  Goal
  <2> DEFINE old == known[i]
  <2>1. /\ new.room \in Room /\ old \in Entry /\ old.room = svc[i] /\ old.room \in Room /\ old \in ToSet(known)
        /\ new.room # svc[i] => new.room \notin ToSet(svc)
        /\ i \in 1..Len(known)
    BY <1>1, <1>2, <1>4, <1>9 DEF Absent
  <2>2. /\ ReplaceAt(svc, i, new.room) \in Seq(Room) /\ IsInjective(ReplaceAt(svc, i, new.room))
        /\ ToSet(svc) \ {svc[i]} \subseteq ToSet(ReplaceAt(svc, i, new.room))
    <3> DEFINE r == new.room
    <3>1. svc \in Seq(Room) /\ r \in Room /\ IsInjective(svc) /\ r \notin ToSet(svc) \ {svc[i]}
      BY <1>1, <2>1
    <3> HIDE DEF r
    <3>2. /\ ReplaceAt(svc, i, r) \in Seq(Room) /\ IsInjective(ReplaceAt(svc, i, r))
          /\ ToSet(svc) \ {svc[i]} \subseteq ToSet(ReplaceAt(svc, i, r))
      BY ONLY <3>1, i \in 1..Len(svc), ReplaceAtType, ReplaceAtKeeps
    <3> QED BY <3>2 DEF r
  <2>3. /\ ReplaceAt(known, i, new) \in Seq(Entry) /\ new \in ToSet(ReplaceAt(known, i, new))
        /\ Ids(ReplaceAt(known, i, new)) = ReplaceAt(svc, i, new.room)
    BY <1>1, <2>1, ReplaceAtType, ReplaceAtKeeps, IdsReplaceAt
  <2>4. ASSUME NEW e \in ToSet(ReplaceAt(known, i, new)), e # new
        PROVE  e \in ToSet(known) /\ e.room \notin {svc[i], new.room}
    <3>1. PICK m \in 1..Len(svc) : m # i /\ e = known[m]
      <4>1. PICK m \in DOMAIN ReplaceAt(known, i, new) : e = ReplaceAt(known, i, new)[m]
        BY <2>4 DEF ToSet
      <4> QED BY <1>1, <2>4, <4>1 DEF ReplaceAt
    <3>2. i \in DOMAIN svc /\ m \in DOMAIN svc /\ svc[m] \in ToSet(svc)
      BY <1>1, DomainOf DEF ToSet
    <3>3. svc[m] # svc[i]
      BY <1>1, <3>1, <3>2 DEF IsInjective
    <3>4. e \in ToSet(known) /\ e.room = svc[m]
      BY <1>2, <3>1
    <3> QED BY <2>1, <3>2, <3>3, <3>4
  <2>5. CASE phase' = "failed"
    BY <1>9, <2>1, <2>2, <2>5 DEF Replaced, GivesUp
  <2>6. CASE phase' # "failed"
    <3>1. UpdateRoom(old, new) \in Seq(Effect)
      BY <2>1, UpdateRoomType
    <3> HIDE DEF old
    <3>2. Updated(old, new)
      BY <1>9, <2>1, <2>2, <2>3, <2>4, <2>6, <3>1 DEF Replaced, Updated, Resettled, Around, old
    <3> QED BY <2>1, <3>2
  <2> QED BY <2>5, <2>6
<1> HIDE DEF Goal
<1>10. Goal
  BY <1>1, <1>5, <1>7, <1>8, <1>9 DEF OneRoom
<1> QED BY <1>10 DEF Goal

(* They keep all_known_rooms in step. *)
LEMMA OneRoomKnown ==
    ASSUME SyncInv, KnownInv, OneRoomDiff
    PROVE  KnownInv'
<1>1. UNCHANGED details /\ details \subseteq ToSet(svc) /\ details \in SUBSET Room
  BY OneRoomDiffDoes, KnownAtRest
<1>2. ASSUME NEW u, NEW R, NEW N, Resettled(u, R, N), N \subseteq Entry,
             DetailsAfter(details, u) \subseteq (details \ R) \cup {e.room : e \in N},
             \A r \in Torn(u) : r \in R /\ \A e \in N : e.room = r => e.info.state # "Joined"
      PROVE  KnownInv'
  <2>1. Torn(todo') = Torn(u) /\ DetailsAfter(details, todo') = DetailsAfter(details, u)
    BY <1>1, <1>2, AroundKeeps DEF Resettled
  <2>2. \A e \in ToSet(known') : e.room \in ToSet(svc')
    BY <1>2, EntriesOf DEF Resettled
  <2>3. DetailsAfter(details, todo') \subseteq ToSet(svc')
    BY <1>1, <1>2, <2>1, <2>2 DEF Resettled
  <2>4. \A r \in JoinedIn(known') : \E e \in ToSet(known') : e.room = r /\ e.info.state = "Joined"
    BY DEF JoinedIn, ToSet
  <2>5. Torn(todo') \cap JoinedIn(known') = {}
    BY <1>2, <2>1, <2>4 DEF Resettled
  <2> QED BY <1>1, <1>2, <2>3, <2>5, BackToRest DEF Resettled
<1>3. CASE GivesUp
  BY <1>3, GivenUp DEF GivesUp
<1>4. ASSUME NEW new \in Entry, Added(new)
      PROVE  KnownInv'
  <2>1. DetailsAfter(details, AddNewRoom(new)) \subseteq (details \ {new.room}) \cup {new.room}
    BY <1>1, ProperAddNewRoom
  <2> QED BY <1>2, <1>4, <2>1, TornAddNewRoom DEF Added
<1>5. ASSUME NEW r \in Room, Dropped(r)
      PROVE  KnownInv'
  <2>1. DetailsAfter(details, RemoveRoom(r)) \subseteq details \ {r} /\ Torn(RemoveRoom(r)) \subseteq {r}
    BY <1>1, ProperRemoveRoom, TornRemoveRoom
  <2> QED BY <1>2, <1>5, <2>1 DEF Dropped
<1>6. ASSUME NEW old \in Entry, NEW new \in Entry, Updated(old, new)
      PROVE  KnownInv'
  <2> DEFINE R == {old.room, new.room}
  <2>1. DetailsAfter(details, UpdateRoom(old, new)) \subseteq (details \ R) \cup {new.room}
    BY <1>1, ProperUpdateRoom
  <2>2. \A r \in Torn(UpdateRoom(old, new)) : r \in R /\ (new.room = r => new.info.state # "Joined")
    BY TornUpdateRoom
  <2>3. Resettled(UpdateRoom(old, new), R, {new})
    BY <1>6 DEF Updated
  <2> HIDE DEF R
  <2> QED BY <1>2, <2>1, <2>2, <2>3
<1> QED BY <1>3, <1>4, <1>5, <1>6, OneRoomChanges

(* What the service appends are new rooms, each of them once. *)
LEMMA EntrySeqsOnce ==
    ASSUME NEW rooms \in SUBSET Room, NEW s \in EntrySeqs(rooms)
    PROVE  IsInjective(Ids(s)) /\ ToSet(Ids(s)) \subseteq rooms
<1>1. PICK R \in SUBSET rooms : /\ s \in [1..Cardinality(R) -> [room: R, info: Observable]]
                                /\ ToSet(Ids(s)) = R
  BY DEF EntrySeqs
<1> DEFINE D == 1..Cardinality(R)
           f == Ids(s)
<1>2. IsFiniteSet(R) /\ Cardinality(R) \in Nat
  BY ConstantsType, FS_Subset, FS_CardinalityType
<1>3. IsFiniteSet(D) /\ Cardinality(D) = Cardinality(R)
  <2> DEFINE n == Cardinality(R)
  <2>1. n \in Nat
    BY <1>2
  <2> HIDE DEF n
  <2>2. IsFiniteSet(1..n) /\ Cardinality(1..n) = IF 1 > n THEN 0 ELSE n - 1 + 1
    BY ONLY <2>1, FS_Interval, 1 \in Int, n \in Int
  <2>3. Cardinality(1..n) = n
    BY <2>1, <2>2
  <2> QED BY <2>2, <2>3 DEF n
<1>4. f \in Surjection(D, R)
  <2>1. DOMAIN s = D /\ \A i \in D : s[i].room \in R
    BY <1>1
  <2>2. f = [i \in D |-> s[i].room]
    BY <2>1 DEF Ids
  <2>3. f \in [D -> R]
    BY <2>1, <2>2
  <2>4. \A x \in R : \E i \in D : f[i] = x
    BY <1>1, <2>3 DEF ToSet
  <2> HIDE DEF D, f
  <2> QED BY <2>3, <2>4 DEF Surjection
<1> HIDE DEF D, f
<1>5. f \in Injection(D, R)
  BY <1>3, <1>4, FS_SurjSameCardinalityImpliesInj
<1>6. DOMAIN f = D /\ \A i, j \in D : f[i] = f[j] => i = j
  BY <1>5 DEF Injection, IsInjective
<1>7. IsInjective(f)
  BY <1>6 DEF IsInjective
<1> QED BY <1>1, <1>7 DEF f

(* Clear. *)
LEMMA ClearKnown ==
    ASSUME SyncInv, KnownInv, Clear
    PROVE  KnownInv'
<1>1. phase = "idle" /\ details \subseteq Room
  BY KnownAtRest DEF Clear
<1>2. /\ svc' = <<>> /\ known' = <<>> /\ phase' = "idle" /\ UNCHANGED details
      /\ todo' = << [do |-> "clear_all_rooms"], SendOrder([diff |-> "Clear"]),
                    Send([op |-> "ClearRooms"]) >>
  BY <1>1 DEF Clear
<1>3. DetailsAfter(details, todo') = {}
  BY <1>1, <1>2, ProperClear
<1>4. Ids(known') = svc' /\ IsInjective(svc') /\ JoinedIn(known') = {}
  BY <1>2 DEF Ids, IsInjective, JoinedIn
<1> QED BY <1>2, <1>3, <1>4, BackToRest

(* Taking an Append: none of its rooms is added yet. *)
LEMMA AppendRoomsKnown ==
    ASSUME SyncInv, KnownInv, NEW s \in EntrySeqs(Absent), AppendRooms(s)
    PROVE  KnownInv'
<1>1. /\ phase = "idle" /\ todo = <<>> /\ IsInjective(svc) /\ Ids(known) = svc
      /\ details \subseteq ToSet(svc) /\ details \subseteq Room /\ svc \in Seq(Room)
  BY KnownAtRest DEF AppendRooms
<1>2. Ids(s) \in Seq(Room) /\ IsInjective(Ids(s)) /\ ToSet(Ids(s)) \subseteq Absent
  BY EntrySeqsType, EntrySeqsOnce DEF Absent
<1>3. ToSet(svc) \cap ToSet(Ids(s)) = {}
  BY <1>2 DEF Absent
<1>4. IsInjective(svc \o Ids(s))
  BY <1>1, <1>2, <1>3, ConcatKeeps
<1>5. /\ svc' = svc \o Ids(s) /\ phase' = "adding" /\ incoming' = s /\ toAdd' = DOMAIN s
      /\ UNCHANGED <<known, details, todo>>
  BY DEF AppendRooms
<1>6. Torn(todo) = {} /\ DetailsAfter(details, todo) = details
  BY <1>1, TornOrder, ProperEmpty
<1>7. ToSet(svc) \subseteq Accounted'
  BY <1>1, <1>5 DEF Accounted
<1>8. KnownInv' <=>
        /\ IsInjective(svc')
        /\ IsInjective(Ids(known))
        /\ Ids(known) \o Ids(incoming') = svc'
        /\ Torn(todo) \cap JoinedIn(known) = {}
        /\ DetailsAfter(details, todo) \subseteq Accounted'
  BY <1>5 DEF KnownInv, Torn, JoinedIn, DetailsAfter, Outcome
<1> QED BY <1>1, <1>4, <1>5, <1>6, <1>7, <1>8

(* Taking a Reset: what is known is still to be removed. *)
LEMMA ResetKnown ==
    ASSUME SyncInv, KnownInv, NEW s \in EntrySeqs(Room), Reset(s)
    PROVE  KnownInv'
<1>1. /\ phase = "idle" /\ todo = <<>> /\ IsInjective(svc) /\ Ids(known) = svc
      /\ details \subseteq ToSet(svc) /\ details \subseteq Room
  BY KnownAtRest DEF Reset
<1>2. IsInjective(Ids(s))
  BY EntrySeqsOnce
<1>3. /\ svc' = Ids(s) /\ phase' = "resetting" /\ incoming' = s
      /\ UNCHANGED <<known, details, todo>>
  BY DEF Reset
<1>4. Torn(todo) = {} /\ DetailsAfter(details, todo) = details
  BY <1>1, TornOrder, ProperEmpty
<1>5. Accounted' = ToSet(Ids(known))
  BY <1>3 DEF Accounted
<1>6. KnownInv' <=>
        /\ IsInjective(svc')
        /\ IsInjective(Ids(known))
        /\ Ids(incoming') = svc'
        /\ Torn(todo) \cap JoinedIn(known) = {}
        /\ DetailsAfter(details, todo) \subseteq Accounted'
  BY <1>3 DEF KnownInv, Torn, JoinedIn, DetailsAfter, Outcome
<1> QED BY <1>1, <1>2, <1>3, <1>4, <1>5, <1>6

(* Taking a Truncate: the rooms beyond the length are still known. *)
LEMMA TruncateKnown ==
    ASSUME SyncInv, KnownInv, NEW n \in 0..Len(svc) - 1, Truncate(n)
    PROVE  KnownInv'
<1>1. /\ phase = "idle" /\ todo = <<>> /\ IsInjective(svc) /\ Ids(known) = svc
      /\ details \subseteq ToSet(svc) /\ details \subseteq Room
      /\ svc \in Seq(Room) /\ Len(svc) \in Nat
  BY KnownAtRest DEF Truncate
<1>2. svc' = SubSeq(svc, 1, n) /\ phase' = "truncating" /\ UNCHANGED <<known, details, todo>>
  BY DEF Truncate
<1>3. n \in 0..Len(svc)
  BY <1>1
<1>4. svc' \in Seq(Room) /\ Len(svc') = n /\ \A j \in 1..n : svc'[j] = svc[j]
  BY <1>1, <1>2, <1>3, PrefixOf
<1>5. IsInjective(svc')
  <2>1. DOMAIN svc' \subseteq DOMAIN svc /\ \A j \in DOMAIN svc' : svc'[j] = svc[j]
    BY <1>1, <1>3, <1>4
  <2> QED BY <1>1, <2>1 DEF IsInjective
<1>6. \A j \in 1..Len(svc') : Ids(known)[j] = svc'[j]
  BY <1>1, <1>4
<1>7. Torn(todo) = {} /\ DetailsAfter(details, todo) = details
  BY <1>1, TornOrder, ProperEmpty
<1>8. Accounted' = ToSet(Ids(known))
  BY <1>2 DEF Accounted
<1>9. KnownInv' <=>
        /\ IsInjective(svc')
        /\ IsInjective(Ids(known))
        /\ \A j \in 1..Len(svc') : Ids(known)[j] = svc'[j]
        /\ Torn(todo) \cap JoinedIn(known) = {}
        /\ DetailsAfter(details, todo) \subseteq Accounted'
  BY <1>2 DEF KnownInv, Torn, JoinedIn, DetailsAfter, Outcome
<1> QED BY <1>1, <1>2, <1>5, <1>6, <1>7, <1>8, <1>9

(* One pass of the loops of Reset and Truncate drops the last room.        *)
LEMMA PopAndRemoveKnown ==
    ASSUME SyncInv, KnownInv, known # <<>>, todo = <<>>, phase \in {"resetting", "truncating"}, PopAndRemove
    PROVE  /\ IsInjective(Ids(known'))
           /\ Len(known') = Len(known) - 1
           /\ \A j \in 1..Len(known) - 1 : Ids(known')[j] = Ids(known)[j]
           /\ Torn(todo') \cap JoinedIn(known') = {}
           /\ DetailsAfter(details', todo') \subseteq Accounted'
<1>1. /\ IsInjective(Ids(known)) /\ DetailsAfter(details, <<>>) \subseteq ToSet(Ids(known))
      /\ known \in Seq(Entry) /\ details \subseteq Room
  BY DEF KnownInv, Accounted, SyncInv, SyncTypeOK
<1> DEFINE n == Len(known)
           r == known[n].room
           ids == Ids(known)
<1>2. n \in Nat \ {0} /\ n \in 1..Len(known) /\ n \in 1..Len(ids) /\ ids \in Seq(Room) /\ ids[n] = r
  <2>1. n \in Nat \ {0} /\ n \in 1..Len(known)
    BY <1>1
  <2> QED BY <1>1, <2>1, IdsOf
<1>3. known' = RemoveAt(known, n) /\ todo' = RemoveRoom(r) /\ UNCHANGED <<details, phase>>
  <2>1. Front(known) = RemoveAt(known, n)
    BY <1>1, PopIsRemove
  <2> QED BY <2>1 DEF PopAndRemove, Last
<1>4. r \in Room
  BY <1>1, <1>2, IdsOf
<1>5. known' \in Seq(Entry) /\ Len(known') = n - 1
  BY <1>1, <1>2, <1>3, RemoveAtType
<1> HIDE DEF n
<1>6. Ids(known') = RemoveAt(ids, n)
  BY <1>1, <1>2, <1>3, IdsRemoveAt
<1> HIDE DEF ids, r
<1>7. /\ IsInjective(Ids(known')) /\ r \notin ToSet(Ids(known'))
      /\ ToSet(ids) \ {r} \subseteq ToSet(Ids(known'))
  BY <1>1, <1>2, <1>6, RemoveAtKeeps DEF ids
<1>8. \A j \in 1..n - 1 : Ids(known')[j] = ids[j]
  <2>1. Len(ids) = n
    BY <1>1, IdsOf DEF ids, n
  <2>2. \A j \in 1..Len(ids) - 1 : RemoveAt(ids, n)[j] = IF j < n THEN ids[j] ELSE ids[j + 1]
    BY <1>2, RemoveAtOf
  <2>3. \A j \in 1..n - 1 : j < n
    BY <1>2
  <2> QED BY <1>6, <2>1, <2>2, <2>3
<1>9. Torn(todo') \cap JoinedIn(known') = {}
  <2>1. Torn(todo') \subseteq {r}
    BY <1>3, TornRemoveRoom
  <2>2. JoinedIn(known') \subseteq ToSet(Ids(known'))
    BY <1>5, JoinedAreListed
  <2> QED BY <1>7, <2>1, <2>2
<1>10. DetailsAfter(details', todo') \subseteq Accounted'
  <2>1. DetailsAfter(details', todo') = details \ {r}
    BY <1>1, <1>3, <1>4, ProperRemoveRoom
  <2>2. DetailsAfter(details, <<>>) = details
    BY <1>1, ProperEmpty
  <2>3. Accounted' = ToSet(Ids(known'))
    BY <1>3 DEF Accounted
  <2> QED BY <1>1, <1>7, <2>1, <2>2, <2>3 DEF ids
<1> QED BY <1>5, <1>7, <1>8, <1>9, <1>10 DEF ids, n

LEMMA PopOnResetKnown ==
    ASSUME SyncInv, KnownInv, PopOnReset
    PROVE  KnownInv'
<1>1. /\ IsInjective(Ids(known')) /\ Torn(todo') \cap JoinedIn(known') = {}
      /\ DetailsAfter(details', todo') \subseteq Accounted'
  BY PopAndRemoveKnown DEF PopOnReset
<1>2. phase = "resetting" /\ UNCHANGED <<svc, incoming, phase>>
  BY DEF PopOnReset, PopAndRemove
<1>3. IsInjective(svc) /\ Ids(incoming) = svc
  BY <1>2 DEF KnownInv
<1>4. KnownInv' <=>
        /\ IsInjective(svc)
        /\ IsInjective(Ids(known'))
        /\ Ids(incoming) = svc
        /\ Torn(todo') \cap JoinedIn(known') = {}
        /\ DetailsAfter(details', todo') \subseteq Accounted'
  BY <1>2 DEF KnownInv
<1> QED BY <1>1, <1>3, <1>4

LEMMA PopOnTruncateKnown ==
    ASSUME SyncInv, KnownInv, PopOnTruncate
    PROVE  KnownInv'
<1>1. phase = "truncating" /\ todo = <<>> /\ Len(known) > Len(svc) /\ UNCHANGED <<svc, phase>>
  BY DEF PopOnTruncate, PopAndRemove
<1>2. Len(known) \in Nat /\ Len(svc) \in Nat
  BY SyncLengths
<1>3. known # <<>>
  BY <1>1, <1>2
<1>4. /\ IsInjective(Ids(known')) /\ Torn(todo') \cap JoinedIn(known') = {}
      /\ DetailsAfter(details', todo') \subseteq Accounted'
      /\ \A j \in 1..Len(known) - 1 : Ids(known')[j] = Ids(known)[j]
  BY <1>1, <1>3, PopAndRemoveKnown DEF PopOnTruncate
<1>5. IsInjective(svc) /\ \A j \in 1..Len(svc) : Ids(known)[j] = svc[j]
  BY <1>1 DEF KnownInv
<1>6. \A j \in 1..Len(svc) : Ids(known')[j] = svc[j]
  <2>1. \A j \in 1..Len(svc) : j \in 1..Len(known) - 1
    BY <1>1, <1>2
  <2> QED BY <1>4, <1>5, <2>1
<1>7. KnownInv' <=>
        /\ IsInjective(svc)
        /\ IsInjective(Ids(known'))
        /\ \A j \in 1..Len(svc) : Ids(known')[j] = svc[j]
        /\ Torn(todo') \cap JoinedIn(known') = {}
        /\ DetailsAfter(details', todo') \subseteq Accounted'
  BY <1>1 DEF KnownInv
<1> QED BY <1>4, <1>5, <1>6, <1>7

(* A Reset has removed every known room. *)
LEMMA ResetClearedKnown ==
    ASSUME SyncInv, KnownInv, ResetCleared
    PROVE  KnownInv'
<1>1. /\ phase = "resetting" /\ known = <<>> /\ phase' = "adding"
      /\ todo' = << [do |-> "clear_all_rooms"], Send([op |-> "ClearRooms"]),
                    SendOrder([diff |-> "Clear"]) >>
      /\ UNCHANGED <<svc, known, details, incoming>>
  BY DEF ResetCleared
<1>2. IsInjective(svc) /\ Ids(incoming) = svc /\ details \subseteq Room /\ svc \in Seq(Room)
  BY <1>1 DEF KnownInv, SyncInv, SyncTypeOK
<1>3. DetailsAfter(details, todo') = {}
  BY <1>1, <1>2, ProperClear
<1>4. Ids(known) = <<>> /\ IsInjective(Ids(known)) /\ JoinedIn(known) = {}
  BY <1>1 DEF Ids, IsInjective, JoinedIn
<1>5. Ids(known) \o Ids(incoming) = svc
  BY <1>2, <1>4
<1>6. KnownInv' <=>
        /\ IsInjective(svc)
        /\ IsInjective(Ids(known))
        /\ Ids(known) \o Ids(incoming) = svc
        /\ Torn(todo') \cap JoinedIn(known) = {}
        /\ DetailsAfter(details, todo') \subseteq Accounted'
  BY <1>1 DEF KnownInv, JoinedIn, DetailsAfter, Outcome
<1> QED BY <1>2, <1>3, <1>4, <1>5, <1>6

(* A Truncate has removed the rooms beyond the length. *)
LEMMA TruncatedKnown ==
    ASSUME SyncInv, KnownInv, Truncated
    PROVE  KnownInv'
<1>1. /\ phase = "truncating" /\ todo = <<>> /\ Len(known) <= Len(svc) /\ phase' = "idle"
      /\ todo' = << SendOrder([diff |-> "Truncate", length |-> Len(svc)]) >>
      /\ UNCHANGED <<svc, known, details>>
  BY DEF Truncated
<1>2. /\ svc \in Seq(Room) /\ known \in Seq(Entry) /\ Len(svc) <= Len(known) /\ details \subseteq Room
      /\ Len(svc) \in Nat /\ Len(known) \in Nat
  BY <1>1, SyncLengths DEF SyncInv, SyncTypeOK, KnownTracksService
<1>3. /\ IsInjective(svc) /\ \A j \in 1..Len(svc) : Ids(known)[j] = svc[j]
      /\ DetailsAfter(details, <<>>) \subseteq ToSet(Ids(known))
  BY <1>1 DEF KnownInv, Accounted
<1>4. Ids(known) = svc
  <2>1. Ids(known) \in Seq(Room) /\ Len(Ids(known)) = Len(svc)
    BY <1>1, <1>2, IdsOf
  <2> QED BY <1>2, <1>3, <2>1, SameElements
<1>5. Torn(todo') = {} /\ DetailsAfter(details, todo') = details /\ DetailsAfter(details, <<>>) = details
  BY <1>1, <1>2, TornOrder, ProperOrder, ProperEmpty
<1> QED BY <1>1, <1>3, <1>4, <1>5, BackToRest

(* An added room is accounted for. *)
LEMMA AddIncomingKnown ==
    ASSUME SyncInv, KnownInv, NEW i \in toAdd, NEW built \in BOOLEAN, AddIncoming(i, built)
    PROVE  KnownInv'
<1>1. /\ phase = "adding" /\ todo = <<>> /\ toAdd' = toAdd \ {i}
      /\ UNCHANGED <<svc, known, details, phase, incoming>>
      /\ todo' = <<>> \/ todo' = AddNewRoom(incoming[i])
  BY DEF AddIncoming
<1>2. /\ details \subseteq Room /\ i \in DOMAIN incoming /\ incoming[i] \in Entry
  BY DEF SyncInv, SyncTypeOK
<1> DEFINE new == incoming[i]
<1>3. DetailsAfter(details, <<>>) = details /\ DetailsAfter(details, AddNewRoom(new)) \subseteq details \cup {new.room}
  BY <1>2, ProperEmpty, ProperAddNewRoom
<1>4. Torn(todo') = {}
  BY <1>1, TornOrder, TornAddNewRoom
<1>5. /\ IsInjective(svc) /\ IsInjective(Ids(known)) /\ Ids(known) \o Ids(incoming) = svc
      /\ DetailsAfter(details, <<>>) \subseteq Accounted
  BY <1>1 DEF KnownInv
<1>6. Accounted \cup {new.room} \subseteq Accounted'
  <2>1. Accounted = ToSet(Ids(known)) \cup {incoming[j].room : j \in (DOMAIN incoming) \ toAdd}
    BY <1>1 DEF Accounted
  <2>2. Accounted' = ToSet(Ids(known)) \cup {incoming[j].room : j \in (DOMAIN incoming) \ toAdd'}
    BY <1>1 DEF Accounted
  <2>3. i \in (DOMAIN incoming) \ toAdd'
    BY <1>1, <1>2
  <2> QED BY <1>1, <2>1, <2>2, <2>3
<1>7. DetailsAfter(details, todo') \subseteq Accounted'
  BY <1>1, <1>3, <1>5, <1>6
<1>8. KnownInv' <=>
        /\ IsInjective(svc)
        /\ IsInjective(Ids(known))
        /\ Ids(known) \o Ids(incoming) = svc
        /\ Torn(todo') \cap JoinedIn(known) = {}
        /\ DetailsAfter(details, todo') \subseteq Accounted'
  BY <1>1 DEF KnownInv, JoinedIn, DetailsAfter, Outcome
<1> QED BY <1>4, <1>5, <1>7, <1>8

(* All of them are added: they are known. *)
LEMMA AllAddedKnown ==
    ASSUME SyncInv, KnownInv, AllAdded
    PROVE  KnownInv'
<1> DEFINE condition == incoming # <<>>
           u == [op |-> "RoomOrderUpdate", diff |-> [diff |-> "Append", values |-> Ids(incoming)]]
<1>1. /\ phase = "adding" /\ todo = <<>> /\ toAdd = {} /\ phase' = "idle"
      /\ known' = known \o incoming /\ UNCHANGED <<svc, details>>
      /\ todo' = When(condition, Send(u))
  BY DEF AllAdded, SendOrder
<1>2. known \in Seq(Entry) /\ incoming \in Seq(Entry) /\ details \subseteq Room
  BY DEF SyncInv, SyncTypeOK
<1>3. /\ IsInjective(svc) /\ Ids(known) \o Ids(incoming) = svc
      /\ DetailsAfter(details, <<>>) \subseteq Accounted
  BY <1>1 DEF KnownInv
<1>4. Ids(known') = svc
  BY <1>1, <1>2, <1>3, IdsConcat
<1>5. Torn(todo') = {} /\ DetailsAfter(details, todo') = details /\ DetailsAfter(details, <<>>) = details
  <2>1. Plain(u)
    BY DEF Plain
  <2> HIDE DEF condition, u
  <2>2. Torn(When(condition, Send(u))) = {}
    BY TornOrder DEF SendOrder, u
  <2>3. \A rooms \in SUBSET Room : DetailsAfter(rooms, When(condition, Send(u))) = rooms
    BY <2>1, ProperOne, ProperEmpty DEF When
  <2> QED BY <1>1, <1>2, <2>2, <2>3, ProperEmpty
<1>6. Accounted \subseteq ToSet(svc)
  <2>1. Accounted \subseteq ToSet(Ids(known)) \cup ToSet(Ids(incoming))
    <3>1. \A j \in DOMAIN incoming : j \in DOMAIN Ids(incoming) /\ Ids(incoming)[j] = incoming[j].room
      BY <1>2, IdsOf
    <3>2. \A j \in DOMAIN incoming : incoming[j].room \in ToSet(Ids(incoming))
      BY <3>1 DEF ToSet
    <3> QED BY <1>1, <3>2 DEF Accounted
  <2>2. Ids(known) \in Seq(Room) /\ Ids(incoming) \in Seq(Room)
    BY <1>2, IdsOf
  <2>3. ToSet(svc) = ToSet(Ids(known)) \cup ToSet(Ids(incoming))
    BY <1>3, <2>2, ConcatKeeps
  <2> QED BY <2>1, <2>3
<1> QED BY <1>1, <1>3, <1>4, <1>5, <1>6, BackToRest

(* What an effect leaves of the list tears down no more, and the rooms     *)
(* that have details in the end are the same.                              *)
LEMMA RunEffectKnown ==
    ASSUME SyncInv, Queues, KnownInv, RunEffect
    PROVE  KnownInv'
<1>1. /\ todo \in Seq(Effect) /\ todo # <<>> /\ todo' = Tail(todo)
      /\ UNCHANGED <<svc, known, phase, incoming, toAdd>>
  BY DEF Queues, RunEffect
<1>2. Torn(todo') \subseteq Torn(todo)
  <2>1. \A i \in DOMAIN todo' : i + 1 \in DOMAIN todo /\ todo'[i] = todo[i + 1]
    BY <1>1, TailOf
  <2> QED BY <2>1 DEF Torn
<1>3. DetailsAfter(details', todo') = DetailsAfter(details, todo)
  <2>1. ASSUME NEW r \in Room
        PROVE  Outcome(r \in details', todo', Inserting(r), Tearing(r))
                 <=> Outcome(r \in details, todo, Inserting(r), Tearing(r))
    <3> DEFINE D == details'
    <3>1. r \in D <=> Head(todo) \in Inserting(r) \/ (r \in details /\ Head(todo) \notin Tearing(r))
      BY EffectOnDetails
    <3> HIDE DEF D
    <3>2. Outcome(r \in D, Tail(todo), Inserting(r), Tearing(r))
            <=> Outcome(r \in details, todo, Inserting(r), Tearing(r))
      BY <1>1, <3>1, ShowOrRemove, OutcomeOfTail
    <3> QED BY <1>1, <3>2 DEF D
  <2> QED BY <2>1 DEF DetailsAfter
<1>4. Accounted' = Accounted
  BY <1>1 DEF Accounted
<1>5. KnownInv' <=>
        /\ IsInjective(svc)
        /\ phase # "failed" =>
             /\ IsInjective(Ids(known))
             /\ phase = "idle" => Ids(known) = svc
             /\ phase = "adding" => Ids(known) \o Ids(incoming) = svc
             /\ phase = "truncating" => \A j \in 1..Len(svc) : Ids(known)[j] = svc[j]
             /\ phase = "resetting" => Ids(incoming) = svc
             /\ Torn(todo') \cap JoinedIn(known) = {}
             /\ DetailsAfter(details', todo') \subseteq Accounted'
  BY <1>1 DEF KnownInv, JoinedIn
<1> QED BY <1>2, <1>3, <1>4, <1>5 DEF KnownInv

LEMMA StreamEndsKnown ==
    ASSUME KnownInv, StreamEnds
    PROVE  KnownInv'
BY DEF KnownInv, StreamEnds

(* Every step of the sync task. *)
LEMMA SyncStepKnown ==
    ASSUME SyncInv, Queues, KnownInv, SyncNext
    PROVE  KnownInv'
<1>1. CASE OneRoomDiff
  BY <1>1, OneRoomKnown
<1>2. CASE Clear
  BY <1>2, ClearKnown
<1>3. CASE AppendDiff
  BY <1>3, AppendRoomsKnown DEF AppendDiff
<1>4. CASE ResetDiff
  BY <1>4, ResetKnown DEF ResetDiff
<1>5. CASE TruncateDiff
  BY <1>5, TruncateKnown DEF TruncateDiff
<1>6. CASE Handling
  BY <1>6, RunEffectKnown, PopOnResetKnown, ResetClearedKnown, PopOnTruncateKnown, TruncatedKnown,
     AddIncomingKnown, AllAddedKnown DEF Handling
<1>7. CASE StreamEnds
  BY <1>7, StreamEndsKnown
<1> QED BY <1>1, <1>2, <1>3, <1>4, <1>5, <1>6, <1>7 DEF OneRoomDiff, SyncNext

LEMMA KnownInit == Init => KnownInv
<1> SUFFICES ASSUME Init PROVE KnownInv
  OBVIOUS
<1>1. svc = <<>> /\ known = <<>> /\ details = {} /\ todo = <<>> /\ phase = "idle"
  BY DEF Init, SyncInit
<1>2. Ids(known) = svc /\ IsInjective(svc) /\ JoinedIn(known) = {}
  BY <1>1 DEF Ids, IsInjective, JoinedIn
<1>3. DetailsAfter(details, todo) = {}
  BY <1>1, ProperEmpty
<1> QED BY <1>1, <1>2, <1>3 DEF KnownInv

LEMMA KnownStep == IInv /\ KnownInv /\ [Next]_vars => KnownInv'
<1> SUFFICES ASSUME IInv, KnownInv, [Next]_vars PROVE KnownInv'
  OBVIOUS
<1>1. SyncInv /\ Queues
  BY InvParts
<1>2. CASE UNCHANGED syncVars
  BY <1>2 DEF syncVars, KnownInv, Accounted, Torn, JoinedIn, DetailsAfter, Outcome
<1> QED BY <1>1, <1>2, SyncStepKnown, StepCases

(* When a Reset has removed the last known room, no details are left, as   *)
(* the comment of its handler says.                                        *)
THEOREM ResetEmptiesDetails == Spec => []ResetFindsNoDetails
<1>1. IInv /\ KnownInv => ResetFindsNoDetails
  <2> SUFFICES ASSUME IInv, KnownInv, phase = "resetting", known = <<>>, todo = <<>>
               PROVE  details = {}
    BY DEF ResetFindsNoDetails
  <2>1. details \subseteq Room
    BY DEF IInv, TypeOK, SyncTypeOK
  <2>2. DetailsAfter(details, todo) = details
    BY <2>1, ProperEmpty
  <2>3. Accounted = {}
    BY DEF Accounted, ToSet, Ids
  <2> QED BY <2>2, <2>3 DEF KnownInv
<1> QED BY <1>1, InitInv, StepInv, KnownInit, KnownStep, PTL DEF Spec

(* A room loses its timeline only after it has left the known rooms, or is *)
(* not listed as joined any more (or the sync task has failed).            *)
THEOREM DepartedRoomsAreTornDown == Spec => TeardownOnlyAfterDeparture
<1>1. ASSUME IInv, KnownInv, [Next]_vars, NEW r \in details \ details'
      PROVE  phase = "failed" \/ ~\E i \in DOMAIN known : known[i].room = r /\ known[i].info.state = "Joined"
  <2>1. SyncInv /\ Queues /\ r \in Room
    BY <1>1, InvParts DEF SyncInv, SyncTypeOK
  <2>2. CASE RunEffect
    <3>1. Head(todo) \in Tearing(r)
      BY <1>1, <2>1, <2>2, EffectOnDetails
    <3>2. r \in Torn(todo)
      <4>1. 1 \in DOMAIN todo /\ Head(todo) = todo[1]
        BY <2>1, <2>2, TailOf DEF Queues, RunEffect
      <4> QED BY <2>1, <3>1, <4>1 DEF Torn, Tearing
    <3> QED BY <1>1, <2>1, <3>2 DEF KnownInv, JoinedIn
  <2>3. CASE SyncNext /\ ~RunEffect
    BY <1>1, <2>1, <2>3, SyncStarts DEF Starts
  <2>4. CASE UNCHANGED details
    BY <1>1, <2>4
  <2> QED BY <1>1, <2>2, <2>3, <2>4, StepCases DEF syncVars
<1>2. IInv /\ KnownInv /\ [Next]_vars
        => [\A r \in details \ details' :
              phase = "failed" \/ ~\E i \in DOMAIN known : known[i].room = r /\ known[i].info.state = "Joined"]_vars
  BY <1>1
<1> QED BY <1>2, InitInv, StepInv, KnownInit, KnownStep, PTL DEF Spec, TeardownOnlyAfterDeparture

(***************************************************************************)
(* 7. The order of the rooms: the updates that are pending, and those that *)
(* the handler still has to enqueue, lead from the order the frontend has  *)
(* to the service's vector.                                                *)
(***************************************************************************)

(* What an update does to the order. *)
OrderStep(rooms, u) == IF u.op = "RoomOrderUpdate" THEN ApplyOrder(u.diff, rooms) ELSE rooms

(* The updates us, taken one after the other, lead from one order to       *)
(* another one.                                                            *)
Leads(from, us, to) ==
    \E path \in [0..Len(us) -> Seq(Room)] :
      /\ path[0] = from
      /\ path[Len(us)] = to
      /\ \A k \in 1..Len(us) : path[k] = OrderStep(path[k - 1], us[k])

LEMMA OrderStepType ==
    ASSUME NEW rooms \in Seq(Room), NEW u \in RoomsListUpdate
    PROVE  OrderStep(rooms, u) \in Seq(Room)
BY UpdateFields, ApplyOrderType DEF OrderStep

(* No update leads nowhere else. *)
LEMMA LeadsNowhere ==
    ASSUME NEW a \in Seq(Room), NEW b
    PROVE  Leads(a, <<>>, b) <=> a = b
<1>1. Len(<<>>) = 0 /\ 0..0 = {0} /\ 1..0 = {}
  OBVIOUS
<1>2. ASSUME a = b
      PROVE  Leads(a, <<>>, b)
  <2> DEFINE path == [k \in 0..0 |-> a]
  <2>1. path \in [0..0 -> Seq(Room)] /\ path[0] = a
    BY <1>1
  <2> HIDE DEF path
  <2> QED BY <1>1, <1>2, <2>1 DEF Leads
<1>3. Leads(a, <<>>, b) => a = b
  BY <1>1 DEF Leads
<1> QED BY <1>2, <1>3

(* A single update does its step. *)
LEMMA LeadsOne ==
    ASSUME NEW a \in Seq(Room), NEW u \in RoomsListUpdate
    PROVE  Leads(a, <<u>>, OrderStep(a, u))
<1> DEFINE b == OrderStep(a, u)
           path == [k \in 0..1 |-> IF k = 0 THEN a ELSE b]
<1>1. b \in Seq(Room)
  BY OrderStepType
<1>2. path \in [0..1 -> Seq(Room)] /\ path[0] = a /\ path[1] = b
  BY <1>1
<1>3. Len(<<u>>) = 1 /\ <<u>>[1] = u /\ \A k \in 1..1 : k = 1
  OBVIOUS
<1>4. \A k \in 1..1 : path[k] = OrderStep(path[k - 1], <<u>>[k])
  BY <1>2, <1>3
<1> HIDE DEF path, b
<1> QED BY <1>2, <1>3, <1>4 DEF Leads, b

(* Taking the first of the updates. *)
LEMMA LeadsTail ==
    ASSUME NEW us \in Seq(RoomsListUpdate), us # <<>>, NEW a, NEW b, Leads(a, us, b)
    PROVE  Leads(OrderStep(a, Head(us)), Tail(us), b)
<1>1. PICK path \in [0..Len(us) -> Seq(Room)] :
        /\ path[0] = a
        /\ path[Len(us)] = b
        /\ \A k \in 1..Len(us) : path[k] = OrderStep(path[k - 1], us[k])
  BY DEF Leads
<1> DEFINE n == Len(us) - 1
           rest == Tail(us)
<1>2. /\ n \in Nat /\ Len(us) = n + 1 /\ Head(us) = us[1] /\ Len(rest) = n
      /\ \A k \in 1..n : rest[k] = us[k + 1]
  <2>1. Len(us) \in Nat \ {0} /\ Head(us) = us[1] /\ DOMAIN rest = 1..Len(us) - 1
    BY TailOf
  <2>2. rest \in Seq(RoomsListUpdate) /\ Len(rest) = Len(us) - 1 /\ \A k \in 1..Len(us) - 1 : rest[k] = us[k + 1]
    BY HeadTailProperties
  <2> QED BY <2>1, <2>2
<1> HIDE DEF n, rest
<1> DEFINE path2 == [k \in 0..n |-> path[k + 1]]
<1>3. path2 \in [0..n -> Seq(Room)]
  <2>1. \A k \in 0..n : k + 1 \in 0..Len(us)
    BY <1>2
  <2> QED BY <1>1, <2>1
<1>4. path2[0] = OrderStep(a, Head(us)) /\ path2[n] = b
  <2>1. 0 \in 0..n /\ n \in 0..n /\ 1 \in 1..Len(us) /\ 0 + 1 = 1 /\ 1 - 1 = 0
    BY <1>2
  <2>2. path2[0] = path[1] /\ path2[n] = path[n + 1]
    BY <2>1
  <2>3. path[1] = OrderStep(path[0], us[1])
    BY <1>1, <2>1
  <2> QED BY <1>1, <1>2, <2>2, <2>3
<1>5. \A k \in 1..n : path2[k] = OrderStep(path2[k - 1], rest[k])
  <2> TAKE k \in 1..n
  <2>1. k \in 0..n /\ k - 1 \in 0..n /\ k + 1 \in 1..Len(us) /\ k - 1 + 1 = k /\ k + 1 - 1 = k
    BY <1>2
  <2>2. path2[k] = path[k + 1] /\ path2[k - 1] = path[k]
    BY <2>1
  <2>3. path[k + 1] = OrderStep(path[k], us[k + 1])
    BY <1>1, <2>1
  <2> QED BY <1>2, <2>2, <2>3
<1> HIDE DEF path2
<1> QED BY <1>2, <1>3, <1>4, <1>5 DEF Leads, rest

(* One list of updates after another. *)
LEMMA LeadsConcat ==
    ASSUME NEW s \in Seq(RoomsListUpdate), NEW t \in Seq(RoomsListUpdate),
           NEW a, NEW b, NEW c, Leads(a, s, b), Leads(b, t, c)
    PROVE  Leads(a, s \o t, c)
<1> DEFINE n == Len(s)
           m == Len(t)
           st == s \o t
<1>1. PICK p \in [0..n -> Seq(Room)] :
        p[0] = a /\ p[n] = b /\ \A k \in 1..n : p[k] = OrderStep(p[k - 1], s[k])
  BY DEF Leads
<1>2. PICK q \in [0..m -> Seq(Room)] :
        q[0] = b /\ q[m] = c /\ \A k \in 1..m : q[k] = OrderStep(q[k - 1], t[k])
  BY DEF Leads
<1>3. /\ n \in Nat /\ m \in Nat /\ Len(st) = n + m
      /\ \A i \in 1..n : st[i] = s[i]
      /\ \A i \in 1..m : st[n + i] = t[i]
  BY ConcatOf
<1> HIDE DEF n, m, st
<1> DEFINE path == [k \in 0..n + m |-> IF k <= n THEN p[k] ELSE q[k - n]]
<1>4. path \in [0..n + m -> Seq(Room)]
  <2> SUFFICES ASSUME NEW k \in 0..n + m PROVE (IF k <= n THEN p[k] ELSE q[k - n]) \in Seq(Room)
    OBVIOUS
  <2>1. k <= n => k \in 0..n
    BY <1>3
  <2>2. ~(k <= n) => k - n \in 0..m
    BY <1>3
  <2> QED BY <2>1, <2>2
<1>5. path[0] = a
  BY <1>1, <1>3
<1>6. path[n + m] = c
  <2>1. n + m \in 0..n + m /\ (n + m <= n => m = 0) /\ (m = 0 => n + m = n) /\ n + m - n = m
    BY <1>3
  <2>2. CASE m = 0
    BY <1>1, <1>2, <2>1, <2>2
  <2>3. CASE m # 0
    <3>0. ~(n + m <= n)
      BY <2>1, <2>3
    <3>1. path[n + m] = q[n + m - n]
      BY <1>3, <2>1, <3>0
    <3> HIDE DEF path
    <3> QED BY <1>2, <2>1, <3>1
  <2> QED BY <2>2, <2>3
<1>7. \A k \in 1..n + m : path[k] = OrderStep(path[k - 1], st[k])
  <2> TAKE k \in 1..n + m
  <2>0. k \in 0..n + m /\ k - 1 \in 0..n + m
    BY <1>3
  <2>1. CASE k <= n
    <3>1. k \in 1..n /\ k - 1 <= n
      BY <1>3, <2>1
    <3>2. path[k] = p[k] /\ path[k - 1] = p[k - 1]
      BY <2>0, <2>1, <3>1
    <3> QED BY <1>1, <1>3, <3>1, <3>2
  <2>2. CASE k > n
    <3> DEFINE i == k - n
    <3>1. i \in 1..m /\ k = n + i /\ ~(k <= n) /\ k - 1 - n = i - 1
      BY <1>3, <2>2
    <3>2. path[k] = q[i]
      BY <2>0, <3>1
    <3>3. path[k - 1] = q[i - 1]
      <4>1. CASE i = 1
        <5>1. k - 1 = n /\ n <= n /\ i - 1 = 0
          BY <1>3, <3>1, <4>1
        <5>2. path[k - 1] = p[n]
          BY <2>0, <5>1
        <5> QED BY <1>1, <1>2, <5>1, <5>2
      <4>2. CASE i # 1
        <5>1. ~(k - 1 <= n)
          BY <1>3, <3>1, <4>2
        <5> QED BY <2>0, <3>1, <5>1
      <4> QED BY <4>1, <4>2
    <3> HIDE DEF i
    <3> QED BY <1>2, <1>3, <3>1, <3>2, <3>3
  <2> QED BY <1>3, <2>1, <2>2
<1> HIDE DEF path
<1> QED BY <1>3, <1>4, <1>5, <1>6, <1>7 DEF Leads, st

(* Updates that do not concern the order lead nowhere else. *)
LEMMA LeadsSilently ==
    ASSUME NEW us \in Seq(RoomsListUpdate), NEW a \in Seq(Room),
           \A k \in DOMAIN us : us[k].op # "RoomOrderUpdate"
    PROVE  Leads(a, us, a)
<1>1. Len(us) \in Nat /\ DOMAIN us = 1..Len(us)
  OBVIOUS
<1> DEFINE path == [k \in 0..Len(us) |-> a]
<1>2. /\ path \in [0..Len(us) -> Seq(Room)] /\ path[0] = a /\ path[Len(us)] = a
  BY <1>1
<1>3. \A k \in 1..Len(us) : path[k] = a /\ path[k - 1] = a
  BY <1>1
<1>4. \A k \in 1..Len(us) : path[k] = OrderStep(path[k - 1], us[k])
  BY <1>1, <1>3 DEF OrderStep
<1> HIDE DEF path
<1> QED BY <1>2, <1>4 DEF Leads

(* What a list of effects will have enqueued. *)
Enqueued(s) == [i \in DOMAIN s |-> IF s[i].do = "enqueue" THEN s[i].update ELSE [op |-> "NotLoaded"]]

LEMMA EnqueuedType ==
    ASSUME NEW s \in Seq(Effect)
    PROVE  /\ Enqueued(s) \in Seq(RoomsListUpdate) /\ Len(Enqueued(s)) = Len(s) /\ Len(s) \in Nat
           /\ DOMAIN Enqueued(s) = DOMAIN s /\ DOMAIN s = 1..Len(s)
<1>1. DOMAIN s = 1..Len(s) /\ Len(s) \in Nat /\ \A i \in DOMAIN s : s[i] \in Effect
  OBVIOUS
<1>2. [op |-> "NotLoaded"] \in RoomsListUpdate
  BY DEF RoomsListUpdate
<1>3. \A i \in DOMAIN s : s[i].do = "enqueue" => s[i].update \in RoomsListUpdate
  BY <1>1, EffectFields
<1> DEFINE at(i) == IF s[i].do = "enqueue" THEN s[i].update ELSE [op |-> "NotLoaded"]
<1>4. \A i \in 1..Len(s) : at(i) \in RoomsListUpdate
  BY <1>1, <1>2, <1>3
<1>5. Enqueued(s) = [i \in 1..Len(s) |-> at(i)]
  BY <1>1 DEF Enqueued
<1> HIDE DEF at
<1> QED BY <1>1, <1>4, <1>5

(* It follows concatenation, *)
LEMMA EnqueuedConcat ==
    ASSUME NEW s \in Seq(Effect), NEW t \in Seq(Effect)
    PROVE  Enqueued(s \o t) = Enqueued(s) \o Enqueued(t)
<1> DEFINE st == s \o t
           a == Enqueued(st)
           p == Enqueued(s)
           q == Enqueued(t)
           at(e) == IF e.do = "enqueue" THEN e.update ELSE [op |-> "NotLoaded"]
<1>1. /\ p \in Seq(RoomsListUpdate) /\ q \in Seq(RoomsListUpdate)
      /\ Len(p) = Len(s) /\ Len(q) = Len(t) /\ Len(s) \in Nat /\ Len(t) \in Nat
      /\ \A i \in 1..Len(s) : p[i] = at(s[i])
      /\ \A i \in 1..Len(t) : q[i] = at(t[i])
  BY EnqueuedType DEF Enqueued
<1>2. /\ st \in Seq(Effect) /\ Len(st) = Len(s) + Len(t)
      /\ \A i \in 1..Len(s) : st[i] = s[i]
      /\ \A i \in 1..Len(t) : st[Len(s) + i] = t[i]
  BY ConcatOf
<1> HIDE DEF st
<1>3. /\ a \in Seq(RoomsListUpdate) /\ Len(a) = Len(s) + Len(t)
      /\ \A i \in 1..Len(s) + Len(t) : a[i] = at(st[i])
  <2>1. a \in Seq(RoomsListUpdate) /\ Len(a) = Len(st) /\ DOMAIN st = 1..Len(st)
    BY <1>2, EnqueuedType
  <2> QED BY <1>2, <2>1 DEF Enqueued
<1> HIDE DEF p, q, a, at
<1> DEFINE b == p \o q
<1>4. /\ b \in Seq(RoomsListUpdate) /\ Len(b) = Len(p) + Len(q)
      /\ \A i \in 1..Len(p) : b[i] = p[i]
      /\ \A i \in 1..Len(q) : b[Len(p) + i] = q[i]
  <2>1. p \in Seq(RoomsListUpdate) /\ q \in Seq(RoomsListUpdate)
    BY <1>1
  <2> HIDE <1>1, <1>2, <1>3
  <2>2. ASSUME NEW x \in Seq(RoomsListUpdate), NEW y \in Seq(RoomsListUpdate)
        PROVE  /\ x \o y \in Seq(RoomsListUpdate) /\ Len(x \o y) = Len(x) + Len(y)
               /\ \A i \in 1..Len(x) : (x \o y)[i] = x[i]
               /\ \A i \in 1..Len(y) : (x \o y)[Len(x) + i] = y[i]
    BY ConcatProperties
  <2> QED BY <2>1, <2>2
<1> HIDE DEF b
<1>5. ASSUME NEW j \in 1..Len(s) + Len(t)
      PROVE  a[j] = b[j]
  <2>1. CASE j <= Len(s)
    <3>1. j \in 1..Len(s) /\ j \in 1..Len(p)
      BY <1>1, <2>1
    <3> QED BY <1>1, <1>2, <1>3, <1>4, <3>1
  <2>2. CASE j > Len(s)
    <3> DEFINE k == j - Len(s)
    <3>1. k \in 1..Len(t) /\ k \in 1..Len(q) /\ j = Len(s) + k /\ j = Len(p) + k
      BY <1>1, <2>2
    <3> HIDE DEF k
    <3>2. a[j] = at(t[k])
      BY <1>2, <1>3, <3>1
    <3>3. b[j] = q[k]
      BY <1>4, <3>1
    <3> QED BY <1>1, <3>1, <3>2, <3>3
  <2> QED BY <1>1, <2>1, <2>2
<1>6. a = b
  BY <1>1, <1>3, <1>4, <1>5, SameElements
<1> QED BY <1>6 DEF a, b, p, q, st

(* and a handler that goes on. *)
LEMMA EnqueuedTail ==
    ASSUME NEW s \in Seq(Effect), s # <<>>
    PROVE  /\ Enqueued(s) # <<>> /\ Enqueued(Tail(s)) = Tail(Enqueued(s))
           /\ Head(Enqueued(s)) = IF Head(s).do = "enqueue" THEN Head(s).update ELSE [op |-> "NotLoaded"]
<1> DEFINE us == Enqueued(s)
           at(e) == IF e.do = "enqueue" THEN e.update ELSE [op |-> "NotLoaded"]
           n == Len(s) - 1
<1>1. /\ us \in Seq(RoomsListUpdate) /\ Len(us) = n + 1 /\ n \in Nat
      /\ \A i \in 1..n + 1 : us[i] = at(s[i])
  <2>1. Len(s) \in Nat \ {0} /\ DOMAIN s = 1..Len(s)
    BY TailOf
  <2>2. us \in Seq(RoomsListUpdate) /\ Len(us) = Len(s)
    BY EnqueuedType
  <2>3. \A i \in DOMAIN s : us[i] = at(s[i])
    BY DEF Enqueued
  <2> QED BY <2>1, <2>2, <2>3
<1>2. us # <<>>
  BY <1>1
<1>3. /\ Tail(s) \in Seq(Effect) /\ Len(Tail(s)) = n /\ \A i \in 1..n : Tail(s)[i] = s[i + 1]
      /\ Head(s) = s[1]
  BY HeadTailProperties
<1> HIDE DEF n
<1> DEFINE a == Enqueued(Tail(s))
           b == Tail(us)
<1>4. a \in Seq(RoomsListUpdate) /\ Len(a) = n /\ \A i \in 1..n : a[i] = at(Tail(s)[i])
  <2>1. a \in Seq(RoomsListUpdate) /\ Len(a) = n /\ DOMAIN Tail(s) = 1..n
    BY <1>3, EnqueuedType
  <2> QED BY <2>1 DEF Enqueued
<1> HIDE DEF us
<1>5. b \in Seq(RoomsListUpdate) /\ Len(b) = n /\ (\A i \in 1..n : b[i] = us[i + 1]) /\ Head(us) = us[1]
  <2>1. Len(us) - 1 = n
    BY <1>1
  <2>2. /\ b \in Seq(RoomsListUpdate) /\ Len(b) = Len(us) - 1 /\ Head(us) = us[1]
        /\ \A i \in 1..Len(us) - 1 : b[i] = us[i + 1]
    BY <1>1, <1>2, HeadTailProperties
  <2> QED BY <2>1, <2>2
<1> HIDE DEF a, b, at
<1>6. ASSUME NEW i \in 1..n
      PROVE  a[i] = b[i]
  <2>1. i + 1 \in 1..n + 1
    BY <1>1
  <2> QED BY <1>1, <1>3, <1>4, <1>5, <2>1
<1>7. a = b
  BY <1>1, <1>4, <1>5, <1>6, SameElements
<1>8. Head(us) = at(Head(s))
  BY <1>1, <1>3, <1>5
<1> QED BY <1>2, <1>7, <1>8 DEF a, b, us, at

(* The effects of a handler turn one order into another one. *)
Turns(s, a, b) == Leads(a, Enqueued(s), b)

LEMMA TurnsConcat ==
    ASSUME NEW s \in Seq(Effect), NEW t \in Seq(Effect), NEW a, NEW b, NEW c,
           Turns(s, a, b), Turns(t, b, c)
    PROVE  Turns(s \o t, a, c)
<1> DEFINE p == Enqueued(s)
           q == Enqueued(t)
<1>1. p \in Seq(RoomsListUpdate) /\ q \in Seq(RoomsListUpdate)
  BY EnqueuedType
<1>2. Leads(a, p, b) /\ Leads(b, q, c)
  BY DEF Turns
<1> HIDE DEF p, q
<1>3. Leads(a, p \o q, c)
  BY <1>1, <1>2, LeadsConcat
<1> QED BY <1>3, EnqueuedConcat DEF Turns, p, q

(* An order diff does its own step, *)
LEMMA TurnsOrder ==
    ASSUME NEW diff \in VecDiff, NEW a \in Seq(Room)
    PROVE  Turns(<<SendOrder(diff)>>, a, ApplyOrder(diff, a))
<1> DEFINE u == [op |-> "RoomOrderUpdate", diff |-> diff]
<1>1. u \in RoomsListUpdate
  BY DEF RoomsListUpdate
<1>2. OrderStep(a, u) = ApplyOrder(diff, a)
  BY DEF OrderStep
<1>3. Enqueued(<<SendOrder(diff)>>) = <<u>>
  <2>1. SendOrder(diff).do = "enqueue" /\ SendOrder(diff).update = u
    BY DEF SendOrder, Send
  <2>2. DOMAIN <<SendOrder(diff)>> = {1} /\ <<SendOrder(diff)>>[1] = SendOrder(diff)
    OBVIOUS
  <2>3. Enqueued(<<SendOrder(diff)>>) = [i \in {1} |-> u]
    BY <2>1, <2>2 DEF Enqueued
  <2> HIDE DEF u
  <2>4. <<u>> = [i \in {1} |-> u]
    OBVIOUS
  <2> QED BY <2>3, <2>4
<1> HIDE DEF u
<1>4. Leads(a, <<u>>, OrderStep(a, u))
  BY <1>1, LeadsOne
<1> QED BY <1>2, <1>3, <1>4 DEF Turns

(* and effects without order diffs turn none. *)
SendsOrder(e) == e.do = "enqueue" /\ e.update.op = "RoomOrderUpdate"

Silent(s) == \A e \in ToSet(s) : ~SendsOrder(e)

LEMMA TurnsSilently ==
    ASSUME NEW s \in Seq(Effect), Silent(s), NEW a \in Seq(Room)
    PROVE  Turns(s, a, a)
<1>1. Enqueued(s) \in Seq(RoomsListUpdate) /\ DOMAIN Enqueued(s) = DOMAIN s
  BY EnqueuedType
<1>2. \A i \in DOMAIN s : ~SendsOrder(s[i])
  BY DEF Silent, ToSet
<1>3. \A i \in DOMAIN s : Enqueued(s)[i].op # "RoomOrderUpdate"
  BY <1>2 DEF Enqueued, SendsOrder
<1> QED BY <1>1, <1>3, LeadsSilently DEF Turns

(* The functions of joined_room.rs send none. *)
LEMMA SilentConcat ==
    ASSUME NEW s \in Seq(Effect), NEW t \in Seq(Effect), Silent(s), Silent(t)
    PROVE  Silent(s \o t)
BY ConcatKeeps DEF Silent

LEMMA SilentAddNewRoom ==
    ASSUME NEW new
    PROVE  Silent(AddNewRoom(new))
BY AddNewRoomHas DEF SendsAbout, Silent, SendsOrder

LEMMA SilentRemoveRoom ==
    ASSUME NEW room
    PROVE  Silent(RemoveRoom(room))
BY RemoveRoomHas DEF SendsAbout, Silent, SendsOrder

LEMMA SilentUpdateRoom ==
    ASSUME NEW old \in Entry, NEW new \in Entry
    PROVE  Silent(UpdateRoom(old, new))
<1>1. Silent(RemoveRoom(old.room) \o AddNewRoom(new))
  <2>1. RemoveRoom(old.room) \in Seq(Effect) /\ AddNewRoom(new) \in Seq(Effect)
    BY AddNewRoomType, RemoveRoomType DEF Entry
  <2> QED BY <2>1, SilentConcat, SilentAddNewRoom, SilentRemoveRoom
<1>2. (\A e \in ToSet(UpdateRoom(old, new)) : SendsAbout(e, DataUpdates, new.room)) => Silent(UpdateRoom(old, new))
  BY DEF SendsAbout, DataUpdates, Silent, SendsOrder
<1> QED BY <1>1, <1>2, UpdateRoomCases, SilentRemoveRoom, SilentAddNewRoom

----------------------------------------------------------------------------

(* Where the order is to end up in each phase of a handler: at rest it is  *)
(* all_known_rooms; during a Truncate it still has the rooms that remain,  *)
(* in front; a Reset clears whatever it is.                                *)
Destination(to) ==
    /\ phase \in {"idle", "adding"} => to = Ids(known)
    /\ phase = "truncating" => Len(svc) <= Len(to) /\ \A j \in 1..Len(svc) : to[j] = svc[j]

(* The inductive invariant. *)
OrderInv ==
    phase # "failed" =>
      \E mid \in Seq(Room), to \in Seq(Room) :
        Leads(order, pending, mid) /\ Turns(todo, mid, to) /\ Destination(to)

(* What a handler has to do, given the order that is pending. *)
Arrives(mid) ==
    phase' # "failed" => \E to \in Seq(Room) : Turns(todo', mid, to) /\ Destination(to)'

(* The order that is pending at rest is the service's vector. *)
LEMMA PendingAtRest ==
    ASSUME todo = <<>>, phase # "failed", OrderInv
    PROVE  \E mid \in Seq(Room) : Leads(order, pending, mid) /\ Destination(mid)
<1>1. PICK mid \in Seq(Room), to \in Seq(Room) :
        Leads(order, pending, mid) /\ Turns(todo, mid, to) /\ Destination(to)
  BY DEF OrderInv
<1>2. Enqueued(<<>>) = <<>>
  BY DEF Enqueued
<1>3. mid = to
  BY <1>1, <1>2, LeadsNowhere DEF Turns
<1> QED BY <1>1, <1>3

LEMMA ArrivesKeepsOrder ==
    ASSUME todo = <<>>, phase # "failed", OrderInv, UNCHANGED <<order, pending>>,
           \A mid \in Seq(Room) : Destination(mid) => Arrives(mid)
    PROVE  OrderInv'
<1>1. PICK mid \in Seq(Room) : Leads(order, pending, mid) /\ Destination(mid)
  BY PendingAtRest
<1>2. Arrives(mid)
  BY <1>1
<1>3. OrderInv' <=>
        (phase' # "failed" =>
           \E m \in Seq(Room), to \in Seq(Room) :
             Leads(order, pending, m) /\ Turns(todo', m, to) /\ Destination(to)')
  BY DEF OrderInv, Leads, Turns, Enqueued
<1> QED BY <1>1, <1>2, <1>3 DEF Arrives

(* Where it arrives when the task is at rest again, or adds rooms. *)
LEMMA ArrivesAt ==
    ASSUME NEW mid, NEW to \in Seq(Room), Turns(todo', mid, to), Ids(known') = to,
           phase' \in {"idle", "adding"}
    PROVE  Arrives(mid)
<1>1. Destination(to)'
  BY DEF Destination
<1> QED BY <1>1 DEF Arrives

(* The diffs that concern one room: their order diffs do to the order what *)
(* the service did to its vector.                                          *)
LEMMA OneRoomArrives ==
    ASSUME SyncInv, KnownInv, OneRoomDiff, NEW mid \in Seq(Room), Destination(mid)
    PROVE  Arrives(mid)
<1>1. /\ OneRoom /\ phase = "idle" /\ Ids(known) = svc /\ svc \in Seq(Room)
      /\ \A i \in 1..Len(svc) : known[i] \in Entry /\ known[i].room \in Room
  BY OneRoomDiffDoes, KnownAtRest
<1>2. mid = svc
  BY <1>1 DEF Destination
<1>3. CASE phase' = "failed"
  BY <1>3 DEF Arrives
<1>4. CASE phase' # "failed"
  <2>1. phase' = "idle" /\ svc' \in Seq(Room) /\ Ids(known') = svc'
    BY <1>4, OneRoomChanges DEF GivesUp, Added, Dropped, Updated, Resettled
  <2> DEFINE Turning(v, a, b) == v \in Seq(Effect) /\ Turns(v, a, b)
  <2>2. \A diff \in VecDiff, a \in Seq(Room) : Turning(<<SendOrder(diff)>>, a, ApplyOrder(diff, a))
    BY SendOrderType, TurnsOrder
  <2>3. \A a \in Seq(Room) :
          /\ \A new \in Entry : Turning(AddNewRoom(new), a, a)
          /\ \A r \in Room : Turning(RemoveRoom(r), a, a)
          /\ \A old, new \in Entry : Turning(UpdateRoom(old, new), a, a)
    BY AddNewRoomType, SilentAddNewRoom, RemoveRoomType, SilentRemoveRoom, UpdateRoomType, SilentUpdateRoom,
       TurnsSilently
  <2>4. \A v, w, a, b, c : Turning(v, a, b) /\ Turning(w, b, c) => Turning(v \o w, a, c)
    BY TurnsConcat, ConcatProperties
  <2>5. \A i \in 1..Len(svc) : RemoveAt(svc, i) \in Seq(Room)
    BY <1>1, RemoveAtType
  <2> HIDE DEF Turning
  <2>6. Turning(todo', svc, svc')
    <3>1. ASSUME NEW k, NEW new \in Entry, Inserted(k, new)
          PROVE  Turning(todo', svc, svc')
      BY <1>1, <1>4, <2>2, <2>3, <2>4, <3>1 DEF Inserted
    <3>2. ASSUME NEW i \in 1..Len(svc), Removed(i)
          PROVE  Turning(todo', svc, svc')
      BY <1>1, <2>1, <2>2, <2>3, <2>4, <3>2 DEF Removed
    <3>3. ASSUME NEW i \in 1..Len(svc), NEW j, NEW new \in Entry, Moved(i, j, new)
          PROVE  Turning(todo', svc, svc')
      <4> DEFINE left == RemoveAt(svc, i)
      <4>1. PICK d \in VecDiff, a \in VecDiff :
              /\ ApplyOrder(d, svc) = left /\ ApplyOrder(a, left) = svc'
              /\ todo' = <<SendOrder(d)>> \o UpdateRoom(known[i], new) \o <<SendOrder(a)>>
        BY <1>4, <3>3 DEF Moved
      <4>2. left \in Seq(Room)
        BY <2>5
      <4> HIDE DEF left
      <4>3. /\ Turning(<<SendOrder(d)>>, svc, left) /\ Turning(UpdateRoom(known[i], new), left, left)
            /\ Turning(<<SendOrder(a)>>, left, svc')
        BY <1>1, <2>2, <2>3, <4>1, <4>2
      <4> QED BY <2>4, <4>1, <4>3
    <3>4. ASSUME NEW i \in 1..Len(svc), NEW new \in Entry, Replaced(i, new)
          PROVE  Turning(todo', svc, svc')
      BY <1>1, <1>4, <2>2, <2>3, <2>4, <3>4 DEF Replaced
    <3> QED BY <1>1, <3>1, <3>2, <3>3, <3>4 DEF OneRoom
  <2> QED BY <1>2, <2>1, <2>6, ArrivesAt DEF Turning
<1> QED BY <1>3, <1>4

(* An effect by itself. *)
LEMMA TurnsOne ==
    ASSUME NEW e \in Effect, ~SendsOrder(e), NEW a \in Seq(Room)
    PROVE  <<e>> \in Seq(Effect) /\ Turns(<<e>>, a, a)
<1>1. <<e>> \in Seq(Effect) /\ ToSet(<<e>>) = {e}
  BY DEF ToSet
<1> QED BY <1>1, TurnsSilently DEF Silent

(* Three effects, one after the other. *)
LEMMA TurnsThree ==
    ASSUME NEW x \in Effect, NEW y \in Effect, NEW z \in Effect, NEW a, NEW b, NEW c, NEW d,
           Turns(<<x>>, a, b), Turns(<<y>>, b, c), Turns(<<z>>, c, d)
    PROVE  Turns(<<x, y, z>>, a, d)
<1> DEFINE p == <<x>>
           q == <<y>>
           r == <<z>>
           s == <<x, y, z>>
<1>1. /\ p \in Seq(Effect) /\ q \in Seq(Effect) /\ r \in Seq(Effect)
      /\ Len(p) = 1 /\ Len(q) = 1 /\ Len(r) = 1 /\ p[1] = x /\ q[1] = y /\ r[1] = z
      /\ Turns(p, a, b) /\ Turns(q, b, c) /\ Turns(r, c, d)
  OBVIOUS
<1>2. s \in Seq(Effect) /\ Len(s) = 3 /\ s[1] = x /\ s[2] = y /\ s[3] = z
  OBVIOUS
<1> HIDE DEF p, q, r, s
<1>3. p \o q \in Seq(Effect) /\ Turns(p \o q, a, c)
  BY <1>1, TurnsConcat, ConcatProperties
<1>4. Turns(p \o q \o r, a, d)
  BY <1>1, <1>3, TurnsConcat
<1>0. ASSUME NEW v \in Seq(Effect), NEW w \in Seq(Effect), Len(w) = 1
      PROVE  /\ v \o w \in Seq(Effect) /\ Len(v \o w) = Len(v) + 1 /\ (v \o w)[Len(v) + 1] = w[1]
             /\ \A i \in 1..Len(v) : (v \o w)[i] = v[i]
  <2>1. 1 \in 1..Len(w)
    BY <1>0
  <2> QED BY <1>0, <2>1, ConcatProperties
<1> DEFINE pq == p \o q
           t == pq \o r
<1>5. pq \in Seq(Effect) /\ Len(pq) = 2 /\ pq[1] = x /\ pq[2] = y
  <2>1. 1 \in 1..1 /\ 1 + 1 = 2
    OBVIOUS
  <2>2. /\ pq \in Seq(Effect) /\ Len(pq) = Len(p) + 1 /\ pq[Len(p) + 1] = q[1]
        /\ \A i \in 1..Len(p) : pq[i] = p[i]
    BY <1>0, <1>1
  <2> HIDE DEF pq
  <2> QED BY <1>1, <2>1, <2>2
<1> HIDE DEF pq
<1>6. t \in Seq(Effect) /\ Len(t) = 3 /\ t[1] = x /\ t[2] = y /\ t[3] = z
  <2>1. 1 \in 1..2 /\ 2 \in 1..2 /\ 2 + 1 = 3
    OBVIOUS
  <2>2. /\ t \in Seq(Effect) /\ Len(t) = Len(pq) + 1 /\ t[Len(pq) + 1] = r[1]
        /\ \A i \in 1..Len(pq) : t[i] = pq[i]
    BY <1>0, <1>1, <1>5
  <2> HIDE DEF t
  <2> QED BY <1>1, <1>5, <2>1, <2>2
<1> HIDE DEF t
<1>7. \A i \in 1..Len(t) : t[i] = s[i]
  <2>1. \A i \in 1..3 : i = 1 \/ i = 2 \/ i = 3
    OBVIOUS
  <2> QED BY <1>2, <1>6, <2>1
<1>8. t = s
  BY <1>2, <1>6, <1>7, SameElements
<1> QED BY <1>4, <1>8 DEF s, t, pq

(* Clear and the end of a Reset clear the order. *)
LEMMA ClearingTurns ==
    ASSUME NEW mid \in Seq(Room)
    PROVE  /\ Turns(<< [do |-> "clear_all_rooms"], SendOrder([diff |-> "Clear"]), Send([op |-> "ClearRooms"]) >>,
                    mid, <<>>)
           /\ Turns(<< [do |-> "clear_all_rooms"], Send([op |-> "ClearRooms"]), SendOrder([diff |-> "Clear"]) >>,
                    mid, <<>>)
<1> DEFINE x == [do |-> "clear_all_rooms"]
           y == SendOrder([diff |-> "Clear"])
           u == [op |-> "ClearRooms"]
           z == Send(u)
<1>1. x \in Effect /\ ~SendsOrder(x)
  BY DEF Effect, SendsOrder
<1>2. z \in Effect /\ ~SendsOrder(z)
  <2>1. u \in RoomsListUpdate /\ u.op # "RoomOrderUpdate"
    BY DEF RoomsListUpdate
  <2> HIDE DEF u
  <2>2. Send(u) \in Effect
    BY <2>1, SendType
  <2> QED BY <2>1, <2>2 DEF SendsOrder, Send
<1>3. y \in Effect /\ Turns(<<y>>, mid, <<>>)
  <2>1. [diff |-> "Clear"] \in VecDiff /\ ApplyOrder([diff |-> "Clear"], mid) = <<>>
    BY DEF VecDiff, ApplyOrder
  <2> QED BY <2>1, SendOrderType, TurnsOrder
<1> HIDE DEF x, y, z
<1>4. Turns(<<x>>, mid, mid) /\ Turns(<<z>>, mid, mid)
  BY <1>1, <1>2, TurnsOne
<1>5. Turns(<<z>>, <<>>, <<>>)
  <2>1. <<>> \in Seq(Room)
    OBVIOUS
  <2> QED BY <1>2, <2>1, TurnsOne
<1>6. Turns(<<x, y, z>>, mid, <<>>)
  BY <1>1, <1>2, <1>3, <1>4, <1>5, TurnsThree
<1>7. Turns(<<x, z, y>>, mid, <<>>)
  BY <1>1, <1>2, <1>3, <1>4, TurnsThree
<1> QED BY <1>6, <1>7 DEF x, y, z, u

(* Clear. *)
LEMMA ClearArrives ==
    ASSUME Clear, NEW mid \in Seq(Room)
    PROVE  Arrives(mid)
<1>1. /\ known' = <<>> /\ phase' = "idle"
      /\ todo' = << [do |-> "clear_all_rooms"], SendOrder([diff |-> "Clear"]), Send([op |-> "ClearRooms"]) >>
  BY DEF Clear, TakeDiff, AtRest
<1>2. Turns(todo', mid, <<>>)
  BY <1>1, ClearingTurns
<1>3. Ids(known') = <<>> /\ <<>> \in Seq(Room)
  BY <1>1 DEF Ids
<1> QED BY <1>1, <1>2, <1>3, ArrivesAt

(* The same, when a Reset has removed the known rooms. *)
LEMMA ResetClearedArrives ==
    ASSUME ResetCleared, NEW mid \in Seq(Room)
    PROVE  Arrives(mid)
<1>1. /\ known' = <<>> /\ phase' = "adding"
      /\ todo' = << [do |-> "clear_all_rooms"], Send([op |-> "ClearRooms"]), SendOrder([diff |-> "Clear"]) >>
  BY DEF ResetCleared
<1>2. Turns(todo', mid, <<>>)
  BY <1>1, ClearingTurns
<1>3. Ids(known') = <<>> /\ <<>> \in Seq(Room)
  BY <1>1 DEF Ids
<1> QED BY <1>1, <1>2, <1>3, ArrivesAt

(* A handler with a loop is taken up without an effect. *)
LEMMA LoopArrives ==
    ASSUME SyncInv, KnownInv, todo = <<>>, UNCHANGED todo, NEW mid \in Seq(Room), Destination(mid)',
           phase' # "failed"
    PROVE  Arrives(mid)
<1>1. <<>> \in Seq(Effect) /\ Silent(<<>>)
  BY DEF Silent, ToSet
<1>2. Turns(todo', mid, mid)
  BY <1>1, TurnsSilently
<1> QED BY <1>2 DEF Arrives

LEMMA AppendRoomsArrives ==
    ASSUME SyncInv, KnownInv, NEW s, AppendRooms(s), NEW mid \in Seq(Room), Destination(mid)
    PROVE  Arrives(mid)
<1>1. todo = <<>> /\ phase = "idle" /\ phase' = "adding" /\ UNCHANGED <<known, todo>>
  BY DEF AppendRooms, TakeDiff, AtRest
<1>2. Destination(mid)'
  BY <1>1 DEF Destination
<1> QED BY <1>1, <1>2, LoopArrives

LEMMA ResetArrives ==
    ASSUME SyncInv, KnownInv, NEW s, Reset(s), NEW mid \in Seq(Room)
    PROVE  Arrives(mid)
<1>1. todo = <<>> /\ phase' = "resetting" /\ UNCHANGED todo
  BY DEF Reset, TakeDiff, AtRest
<1>2. Destination(mid)'
  BY <1>1 DEF Destination
<1> QED BY <1>1, <1>2, LoopArrives

LEMMA TruncateArrives ==
    ASSUME SyncInv, KnownInv, NEW n \in 0..Len(svc) - 1, Truncate(n), NEW mid \in Seq(Room), Destination(mid)
    PROVE  Arrives(mid)
<1>1. /\ phase = "idle" /\ Ids(known) = svc /\ svc \in Seq(Room) /\ Len(svc) \in Nat /\ todo = <<>>
      /\ svc' = SubSeq(svc, 1, n) /\ phase' = "truncating" /\ UNCHANGED todo
  BY KnownAtRest DEF Truncate
<1>2. mid = svc
  BY <1>1 DEF Destination
<1>3. n \in 0..Len(svc)
  BY <1>1
<1>4. Len(svc') = n /\ \A j \in 1..n : svc'[j] = svc[j]
  BY <1>1, <1>3, PrefixOf
<1>5. Destination(mid)'
  BY <1>1, <1>2, <1>3, <1>4 DEF Destination
<1> QED BY <1>1, <1>5, LoopArrives

(* The loops of Reset and Truncate enqueue only removals of rooms. *)
LEMMA PopAndRemoveArrives ==
    ASSUME SyncInv, known # <<>>, todo = <<>>, phase \in {"resetting", "truncating"}, PopAndRemove,
           NEW mid \in Seq(Room), Destination(mid)
    PROVE  Arrives(mid)
<1>1. known \in Seq(Entry) /\ Len(known) \in 1..Len(known)
  BY DEF SyncInv, SyncTypeOK
<1>2. known[Len(known)] \in Entry
  BY <1>1
<1> DEFINE q == Last(known).room
<1>3. q \in Room /\ todo' = RemoveRoom(q) /\ UNCHANGED <<svc, phase>>
  BY <1>2 DEF PopAndRemove, Last, Entry
<1> HIDE DEF q
<1>4. Turns(todo', mid, mid)
  BY <1>3, RemoveRoomType, SilentRemoveRoom, TurnsSilently
<1>5. Destination(mid)'
  BY <1>3 DEF Destination
<1> QED BY <1>4, <1>5 DEF Arrives

(* The order diff of a Truncate leaves the rooms that remain. *)
LEMMA TruncatedArrives ==
    ASSUME SyncInv, KnownInv, Truncated, NEW mid \in Seq(Room), Destination(mid)
    PROVE  Arrives(mid)
<1> DEFINE n == Len(svc)
           diff == [diff |-> "Truncate", length |-> n]
<1>1. /\ phase = "truncating" /\ Len(known) <= n /\ phase' = "idle"
      /\ todo' = <<SendOrder(diff)>> /\ UNCHANGED <<svc, known>>
  BY DEF Truncated
<1>2. /\ svc \in Seq(Room) /\ known \in Seq(Entry) /\ n <= Len(known) /\ n \in Nat /\ Len(known) \in Nat
  BY <1>1, SyncLengths DEF SyncInv, SyncTypeOK, KnownTracksService
<1>3. (\A j \in 1..n : Ids(known)[j] = svc[j]) /\ n <= Len(mid) /\ (\A j \in 1..n : mid[j] = svc[j])
  BY <1>1 DEF KnownInv, Destination
<1>4. Ids(known) = svc
  <2>1. Ids(known) \in Seq(Room) /\ Len(Ids(known)) = n
    BY <1>1, <1>2, IdsOf
  <2> QED BY <1>2, <1>3, <2>1, SameElements
<1>5. diff \in VecDiff /\ ApplyOrder(diff, mid) = IF n < Len(mid) THEN SubSeq(mid, 1, n) ELSE mid
  BY <1>2 DEF VecDiff, ApplyOrder
<1>6. ApplyOrder(diff, mid) = svc
  <2>1. CASE n < Len(mid)
    <3> DEFINE p == SubSeq(mid, 1, n)
    <3>1. n \in 0..Len(mid)
      BY <1>2, <2>1
    <3>2. p \in Seq(Room) /\ Len(p) = n /\ \A j \in 1..n : p[j] = mid[j]
      BY <3>1, PrefixOf
    <3> HIDE DEF p
    <3>3. p = svc
      BY <1>2, <1>3, <3>2, SameElements
    <3> QED BY <1>5, <2>1, <3>3 DEF p
  <2>2. CASE ~(n < Len(mid))
    <3>1. Len(mid) \in Nat /\ Len(mid) = n
      BY <1>2, <1>3, <2>2
    <3>2. mid = svc
      BY <1>2, <1>3, <3>1, SameElements
    <3> QED BY <1>5, <2>2, <3>2
  <2> QED BY <2>1, <2>2
<1> HIDE DEF diff
<1>7. Turns(todo', mid, svc)
  BY <1>1, <1>5, <1>6, TurnsOrder
<1> QED BY <1>1, <1>2, <1>4, <1>7, ArrivesAt

(* Adding a room sends no order diff; the Append that follows sends one    *)
(* for all of them.                                                        *)
LEMMA AddIncomingArrives ==
    ASSUME SyncInv, NEW i \in toAdd, NEW built \in BOOLEAN, AddIncoming(i, built),
           NEW mid \in Seq(Room), Destination(mid)
    PROVE  Arrives(mid)
<1>1. /\ phase = "adding" /\ phase' = "adding" /\ UNCHANGED known
      /\ todo' = <<>> \/ todo' = AddNewRoom(incoming[i])
  BY DEF AddIncoming
<1>2. incoming[i] \in Entry
  BY DEF SyncInv, SyncTypeOK
<1>3. todo' \in Seq(Effect) /\ Silent(todo')
  <2>1. Silent(<<>>) /\ <<>> \in Seq(Effect)
    BY DEF Silent, ToSet
  <2>2. Silent(AddNewRoom(incoming[i])) /\ AddNewRoom(incoming[i]) \in Seq(Effect)
    BY <1>2, AddNewRoomType, SilentAddNewRoom
  <2> QED BY <1>1, <2>1, <2>2
<1>4. Turns(todo', mid, mid)
  BY <1>3, TurnsSilently
<1>5. Ids(known') = mid
  BY <1>1 DEF Destination
<1> QED BY <1>1, <1>4, <1>5, ArrivesAt

LEMMA AllAddedArrives ==
    ASSUME SyncInv, KnownInv, AllAdded, NEW mid \in Seq(Room), Destination(mid)
    PROVE  Arrives(mid)
<1> DEFINE diff == [diff |-> "Append", values |-> Ids(incoming)]
<1>1. /\ phase = "adding" /\ phase' = "idle" /\ known' = known \o incoming
      /\ todo' = IF incoming # <<>> THEN <<SendOrder(diff)>> ELSE <<>>
  BY DEF AllAdded, When
<1>2. known \in Seq(Entry) /\ incoming \in Seq(Entry) /\ mid = Ids(known)
  BY <1>1 DEF SyncInv, SyncTypeOK, Destination
<1> DEFINE to == mid \o Ids(incoming)
<1>3. Ids(known') = to /\ to \in Seq(Room) /\ Ids(incoming) \in Seq(Room)
  <2>1. Ids(known) \in Seq(Room) /\ Ids(incoming) \in Seq(Room)
    BY <1>2, IdsOf
  <2>2. Ids(known') = Ids(known) \o Ids(incoming)
    BY <1>1, <1>2, IdsConcat
  <2> QED BY <1>2, <2>1, <2>2, ConcatProperties
<1>4. CASE incoming # <<>>
  <2>1. diff \in VecDiff /\ ApplyOrder(diff, mid) = to
    BY <1>3 DEF VecDiff, ApplyOrder
  <2> HIDE DEF diff, to
  <2>2. Turns(todo', mid, to)
    BY <1>1, <1>4, <2>1, TurnsOrder
  <2> QED BY <1>1, <1>3, <2>2, ArrivesAt
<1>5. CASE incoming = <<>>
  <2>1. todo' = <<>> /\ <<>> \in Seq(Effect) /\ Silent(<<>>)
    BY <1>1, <1>5 DEF Silent, ToSet
  <2>2. Ids(incoming) = <<>>
    BY <1>5 DEF Ids
  <2>3. to = mid
    BY <2>2
  <2>4. Turns(todo', mid, mid)
    BY <2>1, TurnsSilently
  <2> QED BY <1>1, <1>3, <2>3, <2>4, ArrivesAt
<1> QED BY <1>4, <1>5

----------------------------------------------------------------------------

(* An effect that is run moves from what is to be enqueued to what is      *)
(* pending, or concerns no order.                                          *)
LEMMA RunEffectOrder ==
    ASSUME SyncInv, Queues, OrderInv, RunEffect, UNCHANGED order
    PROVE  OrderInv'
<1>1. /\ todo \in Seq(Effect) /\ todo # <<>> /\ todo' = Tail(todo) /\ pending \in Seq(RoomsListUpdate)
      /\ UNCHANGED <<svc, known, phase>>
  BY DEF Queues, RunEffect
<1>2. CASE phase = "failed"
  BY <1>1, <1>2 DEF OrderInv
<1>3. CASE phase # "failed"
  <2>1. PICK mid \in Seq(Room), to \in Seq(Room) :
          Leads(order, pending, mid) /\ Turns(todo, mid, to) /\ Destination(to)
    BY <1>3 DEF OrderInv
  <2> DEFINE us == Enqueued(todo)
             u == Head(us)
             mid2 == OrderStep(mid, u)
  <2>2. /\ us \in Seq(RoomsListUpdate) /\ us # <<>> /\ Enqueued(todo') = Tail(us)
        /\ u = IF Head(todo).do = "enqueue" THEN Head(todo).update ELSE [op |-> "NotLoaded"]
    BY <1>1, EnqueuedType, EnqueuedTail
  <2>3. u \in RoomsListUpdate
    BY <2>2, TailOf
  <2>4. Leads(mid, us, to)
    BY <2>1 DEF Turns
  <2> HIDE DEF us, u
  <2>5. Leads(mid2, Tail(us), to)
    BY <2>2, <2>4, LeadsTail DEF u
  <2>6. mid2 \in Seq(Room)
    BY <2>3, OrderStepType
  <2>7. Turns(todo', mid2, to)
    BY <2>2, <2>5 DEF Turns
  <2>8. Leads(order, pending', mid2)
    <3>1. CASE Head(todo).do = "enqueue"
      <4>1. pending' = Append(pending, u)
        BY <2>2, <3>1 DEF RunEffect, Enqueue
      <4>2. Leads(mid, <<u>>, mid2)
        BY <2>3, LeadsOne
      <4>3. <<u>> \in Seq(RoomsListUpdate)
        BY <2>3
      <4>4. Leads(order, pending \o <<u>>, mid2)
        BY <1>1, <2>1, <4>2, <4>3, LeadsConcat
      <4>5. Append(pending, u) = pending \o <<u>>
        BY <1>1, <2>3, AppendIsConcat
      <4> QED BY <4>1, <4>4, <4>5
    <3>2. CASE Head(todo).do # "enqueue"
      <4>1. pending' = pending
        BY <3>2 DEF RunEffect
      <4>2. mid2 = mid
        BY <2>2, <3>2 DEF OrderStep
      <4> QED BY <2>1, <4>1, <4>2
    <3> QED BY <3>1, <3>2
  <2>9. Destination(to)'
    BY <1>1, <2>1 DEF Destination
  <2> HIDE DEF mid2
  <2>10. PICK m \in Seq(Room) : m = mid2
    BY <2>6
  <2>11. Leads(order, pending, m)'
    BY <2>8, <2>10 DEF Leads
  <2>12. Turns(todo, m, to)'
    BY <2>7, <2>10 DEF Turns, Leads, Enqueued
  <2> QED BY <2>9, <2>11, <2>12 DEF OrderInv
<1> QED BY <1>2, <1>3

(* Every step of the sync task. *)
LEMMA SyncStepOrder ==
    ASSUME SyncInv, Queues, KnownInv, OrderInv, SyncNext, UNCHANGED order
    PROVE  OrderInv'
<1>1. CASE RunEffect
  BY <1>1, RunEffectOrder
<1>2. CASE StreamEnds
  BY <1>2 DEF StreamEnds, OrderInv
<1>3. ASSUME todo = <<>>, phase # "failed", UNCHANGED pending,
             \A mid \in Seq(Room) : Destination(mid) => Arrives(mid)
      PROVE  OrderInv'
  BY <1>3, ArrivesKeepsOrder
<1>4. CASE OneRoomDiff
  <2>1. todo = <<>> /\ phase # "failed" /\ UNCHANGED pending
    BY <1>4, OneRoomDiffDoes
  <2> QED BY <1>3, <1>4, <2>1, OneRoomArrives
<1>5. CASE Clear
  <2>1. todo = <<>> /\ phase # "failed" /\ UNCHANGED pending
    BY <1>5 DEF Clear, TakeDiff, AtRest
  <2> QED BY <1>3, <1>5, <2>1, ClearArrives
<1>6. CASE AppendDiff
  <2>1. PICK s : AppendRooms(s)
    BY <1>6 DEF AppendDiff
  <2>2. todo = <<>> /\ phase # "failed" /\ UNCHANGED pending
    BY <2>1 DEF AppendRooms, TakeDiff, AtRest
  <2> QED BY <1>3, <2>1, <2>2, AppendRoomsArrives
<1>7. CASE ResetDiff
  <2>1. PICK s : Reset(s)
    BY <1>7 DEF ResetDiff
  <2>2. todo = <<>> /\ phase # "failed" /\ UNCHANGED pending
    BY <2>1 DEF Reset, TakeDiff, AtRest
  <2> QED BY <1>3, <2>1, <2>2, ResetArrives
<1>8. CASE TruncateDiff
  <2>1. PICK n \in 0..Len(svc) - 1 : Truncate(n)
    BY <1>8 DEF TruncateDiff
  <2>2. todo = <<>> /\ phase # "failed" /\ UNCHANGED pending
    BY <2>1 DEF Truncate, TakeDiff, AtRest
  <2> QED BY <1>3, <2>1, <2>2, TruncateArrives
<1>9. CASE PopOnReset
  <2>1. todo = <<>> /\ phase = "resetting" /\ known # <<>> /\ PopAndRemove /\ UNCHANGED pending
    BY <1>9 DEF PopOnReset, PopAndRemove
  <2> QED BY <1>3, <2>1, PopAndRemoveArrives
<1>10. CASE ResetCleared
  <2>1. todo = <<>> /\ phase # "failed" /\ UNCHANGED pending
    BY <1>10 DEF ResetCleared
  <2> QED BY <1>3, <1>10, <2>1, ResetClearedArrives
<1>11. CASE PopOnTruncate
  <2>1. todo = <<>> /\ phase = "truncating" /\ Len(known) > Len(svc) /\ PopAndRemove /\ UNCHANGED pending
    BY <1>11 DEF PopOnTruncate, PopAndRemove
  <2>2. known # <<>>
    BY <2>1, SyncLengths
  <2> QED BY <1>3, <2>1, <2>2, PopAndRemoveArrives
<1>12. CASE Truncated
  <2>1. todo = <<>> /\ phase # "failed" /\ UNCHANGED pending
    BY <1>12 DEF Truncated
  <2> QED BY <1>3, <1>12, <2>1, TruncatedArrives
<1>13. CASE \E i \in toAdd, built \in BOOLEAN : AddIncoming(i, built)
  <2>1. PICK i \in toAdd, built \in BOOLEAN : AddIncoming(i, built)
    BY <1>13
  <2>2. todo = <<>> /\ phase # "failed" /\ UNCHANGED pending
    BY <2>1 DEF AddIncoming
  <2>3. \A mid \in Seq(Room) : Destination(mid) => Arrives(mid)
    BY <2>1, AddIncomingArrives
  <2> QED BY <1>3, <2>2, <2>3
<1>14. CASE AllAdded
  <2>1. todo = <<>> /\ phase # "failed" /\ UNCHANGED pending
    BY <1>14 DEF AllAdded
  <2> QED BY <1>3, <1>14, <2>1, AllAddedArrives
<1>15. CASE Handling
  BY <1>1, <1>9, <1>10, <1>11, <1>12, <1>13, <1>14, <1>15 DEF Handling
<1> QED BY <1>2, <1>4, <1>5, <1>6, <1>7, <1>8, <1>15 DEF OneRoomDiff, SyncNext

(* The drain takes the first of the updates that are pending. *)
LEMMA UiStepOrder ==
    ASSUME UiInv, UiNext
    PROVE  \/ UNCHANGED <<order, pending>>
           \/ pending # <<>> /\ pending' = Tail(pending) /\ order' = OrderStep(order, Head(pending))
<1>1. CASE Wake \/ EndDrain
  BY <1>1 DEF Wake, EndDrain
<1>2. CASE RoomOrderUpdate
  BY <1>2 DEF RoomOrderUpdate, Pop, OrderStep
<1>3. ASSUME NEW op, op # "RoomOrderUpdate", Pop(op), UNCHANGED order
      PROVE  pending # <<>> /\ pending' = Tail(pending) /\ order' = OrderStep(order, Head(pending))
  BY <1>3 DEF Pop, OrderStep
<1>4. CASE AddInvitedRoom
  BY <1>3, <1>4 DEF AddInvitedRoom
<1>5. CASE AddJoinedRoom
  BY <1>3, <1>5 DEF AddJoinedRoom
<1>6. CASE UpdateRoomName
  BY <1>3, <1>6 DEF UpdateRoomName
<1>7. CASE UpdateRoomAvatar
  BY <1>3, <1>7 DEF UpdateRoomAvatar
<1>8. CASE UpdateIsDirect
  BY <1>3, <1>8 DEF UpdateIsDirect
<1>9. CASE RemoveRoomUpdate
  BY <1>3, <1>9 DEF RemoveRoomUpdate
<1>10. CASE ClearRooms
  BY <1>3, <1>10 DEF ClearRooms
<1>11. CASE NotLoaded \/ LoadedRooms \/ StatusUpdate
  BY <1>3, <1>11 DEF NotLoaded, LoadedRooms, StatusUpdate
<1>12. CASE ApplyFilter
  BY <1>3, <1>12 DEF ApplyFilter
<1> QED BY <1>1, <1>2, <1>4, <1>5, <1>6, <1>7, <1>8, <1>9, <1>10, <1>11, <1>12 DEF UiNext

(* A step that changes nothing but what is pending and the order keeps the *)
(* invariant if they lead to the same place.                               *)
LEMMA SamePlace ==
    ASSUME OrderInv, UNCHANGED syncVars,
           \A mid \in Seq(Room) : Leads(order, pending, mid) => Leads(order', pending', mid)
    PROVE  OrderInv'
<1>1. UNCHANGED <<phase, todo, svc, known>>
  BY DEF syncVars
<1>2. OrderInv' <=>
        (phase # "failed" =>
           \E mid \in Seq(Room), to \in Seq(Room) :
             Leads(order', pending', mid) /\ Turns(todo, mid, to) /\ Destination(to))
  BY <1>1 DEF OrderInv, Leads, Turns, Enqueued, Destination
<1> QED BY <1>2 DEF OrderInv

LEMMA OrderInvStep == IInv /\ KnownInv /\ OrderInv /\ [Next]_vars => OrderInv'
<1> SUFFICES ASSUME IInv, KnownInv, OrderInv, [Next]_vars PROVE OrderInv'
  OBVIOUS
<1>1. SyncInv /\ UiInv /\ Queues
  BY InvParts
<1>2. CASE SyncNext /\ UNCHANGED uiVars
  BY <1>1, <1>2, SyncStepOrder DEF uiVars
<1>3. CASE UiNext /\ UNCHANGED syncVars
  <2>1. ASSUME NEW mid \in Seq(Room), Leads(order, pending, mid)
        PROVE  Leads(order', pending', mid)
    <3>1. CASE UNCHANGED <<order, pending>>
      BY <2>1, <3>1
    <3>2. CASE pending # <<>> /\ pending' = Tail(pending) /\ order' = OrderStep(order, Head(pending))
      <4>1. pending \in Seq(RoomsListUpdate)
        BY <1>1 DEF Queues
      <4>2. Leads(OrderStep(order, Head(pending)), Tail(pending), mid)
        BY <2>1, <3>2, <4>1, LeadsTail
      <4> QED BY <3>2, <4>2
    <3> QED BY <1>1, <1>3, <3>1, <3>2, UiStepOrder
  <2> QED BY <1>3, <2>1, SamePlace
<1>4. ASSUME NEW u \in RoomsListUpdate, Foreign(u), Enqueue(u), UNCHANGED <<syncVars, uiVars>>
      PROVE  OrderInv'
  <2>1. pending \in Seq(RoomsListUpdate) /\ pending' = pending \o <<u>> /\ UNCHANGED <<order, syncVars>>
    BY <1>1, <1>4, AppendIsConcat DEF Queues, Enqueue, uiVars
  <2>2. ASSUME NEW mid \in Seq(Room), Leads(order, pending, mid)
        PROVE  Leads(order', pending', mid)
    <3>1. OrderStep(mid, u) = mid
      BY <1>4 DEF OrderStep, Foreign
    <3>2. Leads(mid, <<u>>, mid)
      BY <3>1, LeadsOne
    <3>3. <<u>> \in Seq(RoomsListUpdate)
      OBVIOUS
    <3>4. Leads(order, pending \o <<u>>, mid)
      BY <2>1, <2>2, <3>2, <3>3, LeadsConcat
    <3> QED BY <2>1, <3>4
  <2> QED BY <2>1, <2>2, SamePlace
<1>5. CASE UNCHANGED <<syncVars, uiVars, pending>>
  <2>1. UNCHANGED <<order, pending, syncVars>>
    BY <1>5 DEF uiVars
  <2>2. \A mid \in Seq(Room) : Leads(order, pending, mid) => Leads(order', pending', mid)
    BY <2>1
  <2> QED BY <2>1, <2>2, SamePlace
<1> QED BY <1>2, <1>3, <1>4, <1>5, StepCases

LEMMA OrderInvInit == Init => OrderInv
<1> SUFFICES ASSUME Init PROVE OrderInv
  OBVIOUS
<1>1. todo = <<>> /\ known = <<>> /\ phase = "idle" /\ order = <<>>
  BY DEF Init, SyncInit, UiInit
<1> DEFINE u == [op |-> "Status", kind |-> "Loading"]
<1>2. u \in RoomsListUpdate /\ pending = <<u>>
  BY DEF RoomsListUpdate, StatusKind, Init
<1>3. OrderStep(<<>>, u) = <<>> /\ <<>> \in Seq(Room)
  BY DEF OrderStep
<1> HIDE DEF u
<1>4. Leads(order, pending, <<>>)
  BY <1>1, <1>2, <1>3, LeadsOne
<1>5. Turns(todo, <<>>, <<>>)
  <2>1. Silent(<<>>) /\ <<>> \in Seq(Effect)
    BY DEF Silent, ToSet
  <2> QED BY <1>1, <1>3, <2>1, TurnsSilently
<1>6. Destination(<<>>)
  BY <1>1 DEF Destination, Ids
<1> QED BY <1>3, <1>4, <1>5, <1>6 DEF OrderInv

----------------------------------------------------------------------------

(* Max, by its choice, is the largest element. *)
LEMMA MaxOf ==
    ASSUME NEW n \in Nat, NEW X \in SUBSET (1..n), X # {}
    PROVE  Max(X) \in X /\ \A y \in X : y <= Max(X)
<1> DEFINE I == {m \in Nat : \A y \in X : y <= m}
<1>1. n \in I
  OBVIOUS
<1>2. PICK m \in I : \A j \in I : m <= j
  BY <1>1, LeastOf
<1>3. m \in X
  <2> SUFFICES ASSUME m \notin X PROVE FALSE
    OBVIOUS
  <2>1. \A y \in X : y \in Nat \ {0} /\ y <= m /\ y # m
    OBVIOUS
  <2>2. m - 1 \in Nat /\ \A y \in X : y <= m - 1
    <3>1. PICK z \in X : TRUE
      OBVIOUS
    <3>2. m \in Nat /\ z \in Nat \ {0} /\ z <= m
      BY <2>1, <3>1
    <3>3. m - 1 \in Nat
      BY <3>2
    <3> QED BY <2>1, <3>2, <3>3
  <2>3. m - 1 \in I /\ ~(m <= m - 1)
    BY <2>2
  <2> QED BY <1>2, <2>3
<1>4. \A y \in X : m >= y
  OBVIOUS
<1> QED BY <1>3, <1>4 DEF Max

(* FoldLeft of the order updates, as the function that it is defined by.   *)
Folding(f, rooms, us, S) ==
    f = [X \in SUBSET S |-> IF X = {} THEN rooms ELSE OrderStep(f[X \ {Max(X)}], us[Max(X)])]

OrderAfter(rooms, us) ==
    FoldLeft(LAMBDA acc, u : IF u.op = "RoomOrderUpdate" THEN ApplyOrder(u.diff, acc) ELSE acc,
             rooms, us)

LEMMA OrderAfterIsFolding ==
    ASSUME NEW rooms, NEW us
    PROVE  OrderAfter(rooms, us) = (CHOOSE f : Folding(f, rooms, us, DOMAIN us))[DOMAIN us]
BY DEF OrderAfter, FoldLeft, MapThenFoldSet, Folding, OrderStep

(* There is such a function on the subsets of every interval: if it is     *)
(* there for 1..n - 1, it extends to 1..n.                                 *)
LEMMA FoldingExists ==
    ASSUME NEW rooms, NEW us, NEW n \in Nat
    PROVE  \E f : Folding(f, rooms, us, 1..n)
<1> DEFINE Bad == {m \in Nat : ~\E f : Folding(f, rooms, us, 1..m)}
<1> SUFFICES ASSUME Bad # {} PROVE FALSE
  OBVIOUS
<1>1. PICK m \in Bad : \A j \in Bad : m <= j
  <2> HIDE DEF Folding
  <2>1. Bad \subseteq Nat
    OBVIOUS
  <2> HIDE DEF Bad
  <2> QED BY <2>1, LeastOf
<1>2. m # 0
  <2> SUFFICES ASSUME m = 0 PROVE FALSE
    OBVIOUS
  <2>1. 1..m = {}
    OBVIOUS
  <2>2. [X \in SUBSET {} |-> rooms] = [X \in SUBSET {} |->
          IF X = {} THEN rooms
          ELSE OrderStep([Y \in SUBSET {} |-> rooms][X \ {Max(X)}], us[Max(X)])]
    BY \A X \in SUBSET {} : X = {}
  <2>3. Folding([X \in SUBSET {} |-> rooms], rooms, us, 1..m)
    BY <2>1, <2>2 DEF Folding
  <2> QED BY <2>3
<1> DEFINE k == m - 1
<1>3. k \in Nat /\ k \notin Bad /\ m \in Nat /\ m \in 1..m
  BY <1>1, <1>2
<1>4. PICK f : Folding(f, rooms, us, 1..k)
  BY <1>3
<1> DEFINE g == [X \in SUBSET (1..m) |->
                   IF X = {} THEN rooms
                   ELSE IF m \in X THEN OrderStep(f[X \ {m}], us[m]) ELSE f[X]]
<1>5. \A X \in SUBSET (1..k) : f[X] = IF X = {} THEN rooms ELSE OrderStep(f[X \ {Max(X)}], us[Max(X)])
  <2> DEFINE body(X) == IF X = {} THEN rooms ELSE OrderStep(f[X \ {Max(X)}], us[Max(X)])
  <2>1. f = [X \in SUBSET (1..k) |-> body(X)]
    BY <1>4 DEF Folding
  <2> HIDE DEF body
  <2>2. \A X \in SUBSET (1..k) : f[X] = body(X)
    BY ONLY <2>1
  <2> QED BY <2>2 DEF body
<1>6. \A X \in SUBSET (1..m) : m \notin X => X \in SUBSET (1..k)
  BY <1>3
<1>7. \A X \in SUBSET (1..m) : X \ {m} \in SUBSET (1..k)
  BY <1>3
<1> HIDE DEF k, Bad
<1>8. \A Y \in SUBSET (1..k) : Y \in SUBSET (1..m) /\ m \notin Y
  BY <1>3 DEF k
<1>9. \A Y \in SUBSET (1..k) : g[Y] = f[Y]
  <2> TAKE Y \in SUBSET (1..k)
  <2>1. Y \in SUBSET (1..m) /\ m \notin Y
    BY <1>8
  <2>2. g[Y] = IF Y = {} THEN rooms ELSE f[Y]
    BY <2>1
  <2> HIDE DEF g
  <2>3. Y = {} => f[Y] = rooms
    BY <1>5
  <2> QED BY <2>2, <2>3
<1>10. ASSUME NEW X \in SUBSET (1..m)
       PROVE  g[X] = IF X = {} THEN rooms ELSE OrderStep(g[X \ {Max(X)}], us[Max(X)])
  <2>1. CASE X = {}
    BY <2>1
  <2>2. CASE m \in X
    <3>1. g[X] = OrderStep(f[X \ {m}], us[m])
      BY <2>2
    <3> HIDE DEF g
    <3>2. Max(X) = m
      <4>1. Max(X) \in X /\ \A y \in X : y <= Max(X)
        BY <1>3, <2>2, MaxOf
      <4>2. m <= Max(X) /\ Max(X) \in 1..m
        BY <2>2, <4>1
      <4> QED BY <1>3, <4>2
    <3>3. g[X \ {m}] = f[X \ {m}]
      BY <1>7, <1>9
    <3> QED BY <2>2, <3>1, <3>2, <3>3
  <2>3. CASE X # {} /\ m \notin X
    <3>1. X \in SUBSET (1..k)
      BY <1>6, <2>3
    <3>2. g[X] = f[X]
      BY <1>9, <3>1
    <3> HIDE DEF g
    <3>3. f[X] = OrderStep(f[X \ {Max(X)}], us[Max(X)])
      BY <1>5, <2>3, <3>1
    <3>4. X \ {Max(X)} \in SUBSET (1..k)
      BY <3>1
    <3>5. g[X \ {Max(X)}] = f[X \ {Max(X)}]
      BY <1>9, <3>4
    <3> QED BY <2>3, <3>2, <3>3, <3>5
  <2> QED BY <2>1, <2>2, <2>3
<1>11. Folding(g, rooms, us, 1..m)
  <2> DEFINE body(X) == IF X = {} THEN rooms ELSE OrderStep(g[X \ {Max(X)}], us[Max(X)])
  <2>1. g = [X \in SUBSET (1..m) |-> g[X]]
    OBVIOUS
  <2>2. \A X \in SUBSET (1..m) : g[X] = body(X)
    BY <1>10
  <2> HIDE DEF g, body
  <2>3. g = [X \in SUBSET (1..m) |-> body(X)]
    BY ONLY <2>1, <2>2
  <2> QED BY <2>3 DEF Folding, body
<1> HIDE DEF g
<1> QED BY <1>1, <1>11 DEF Bad

(* So FoldLeft takes the updates one after the other, *)
LEMMA FoldingSteps ==
    ASSUME NEW rooms, NEW us, NEW n \in Nat, NEW f, Folding(f, rooms, us, 1..n)
    PROVE  f[1..0] = rooms /\ \A k \in 1..n : f[1..k] = OrderStep(f[1..(k - 1)], us[k])
<1> DEFINE body(X) == IF X = {} THEN rooms ELSE OrderStep(f[X \ {Max(X)}], us[Max(X)])
<1>1. \A X \in SUBSET (1..n) : f[X] = body(X)
  <2>1. f = [X \in SUBSET (1..n) |-> body(X)]
    BY DEF Folding
  <2> HIDE DEF body
  <2> QED BY ONLY <2>1
<1>2. f[1..0] = rooms
  <2>1. 1..0 = {} /\ {} \in SUBSET (1..n)
    OBVIOUS
  <2> QED BY <1>1, <2>1
<1>3. ASSUME NEW k \in 1..n
      PROVE  f[1..k] = OrderStep(f[1..(k - 1)], us[k])
  <2>1. 1..k \in SUBSET (1..n) /\ k \in 1..k /\ (1..k) \ {k} = 1..(k - 1) /\ k \in Nat
    OBVIOUS
  <2>2. Max(1..k) = k
    <3>1. Max(1..k) \in 1..k /\ k <= Max(1..k)
      BY <2>1, MaxOf
    <3> QED BY <3>1
  <2>3. f[1..k] = OrderStep(f[(1..k) \ {Max(1..k)}], us[Max(1..k)])
    BY <1>1, <2>1
  <2> QED BY <2>1, <2>2, <2>3
<1> QED BY <1>2, <1>3

(* and arrives where they lead. *)
LEMMA LeadsToFold ==
    ASSUME NEW us \in Seq(RoomsListUpdate), NEW a, NEW b, Leads(a, us, b)
    PROVE  OrderAfter(a, us) = b
<1> DEFINE n == Len(us)
           f == CHOOSE f : Folding(f, a, us, 1..n)
<1>1. n \in Nat /\ DOMAIN us = 1..n
  OBVIOUS
<1>2. OrderAfter(a, us) = f[1..n]
  BY <1>1, OrderAfterIsFolding
<1>3. Folding(f, a, us, 1..n)
  BY <1>1, FoldingExists
<1> HIDE DEF f
<1>4. f[1..0] = a /\ \A k \in 1..n : f[1..k] = OrderStep(f[1..(k - 1)], us[k])
  BY <1>1, <1>3, FoldingSteps
<1>5. PICK path \in [0..n -> Seq(Room)] :
        path[0] = a /\ path[n] = b /\ \A k \in 1..n : path[k] = OrderStep(path[k - 1], us[k])
  BY DEF Leads
<1> HIDE DEF n
<1>6. \A k \in 0..n : path[k] = f[1..k]
  <2> DEFINE Bad == {k \in 0..n : path[k] # f[1..k]}
  <2> SUFFICES ASSUME Bad # {} PROVE FALSE
    OBVIOUS
  <2>1. PICK k \in Bad : \A j \in Bad : k <= j
    <3>1. Bad \subseteq Nat
      BY <1>1
    <3> HIDE DEF Bad
    <3> QED BY <3>1, LeastOf
  <2>2. k \in 0..n /\ path[k] # f[1..k]
    OBVIOUS
  <2>3. k # 0
    BY <1>4, <1>5, <2>2
  <2>4. k \in 1..n /\ k - 1 \in 0..n /\ ~(k <= k - 1)
    BY <1>1, <2>2, <2>3
  <2>5. k - 1 \notin Bad
    BY <2>1, <2>4
  <2>6. path[k - 1] = f[1..(k - 1)]
    BY <2>4, <2>5
  <2> HIDE DEF Bad
  <2> QED BY <1>4, <1>5, <2>2, <2>4, <2>6
<1>7. n \in 0..n
  BY <1>1
<1> QED BY <1>2, <1>5, <1>6, <1>7

(* Between two diffs, the pending order diffs turn the frontend's order    *)
(* into the service's vector, for any rooms, infos and bounds.             *)
THEOREM OrderIsReplayed == Spec => []OrderConvergesToService
<1>1. IInv /\ KnownInv /\ OrderInv => OrderConvergesToService
  <2> SUFFICES ASSUME IInv, KnownInv, OrderInv, AtRest
               PROVE  Ids(known) = svc /\ OrderAfter(order, pending) = svc
    BY DEF OrderConvergesToService, OrderAfter
  <2>1. SyncInv /\ Queues
    BY InvParts
  <2>2. phase = "idle" /\ todo = <<>> /\ pending \in Seq(RoomsListUpdate)
    BY <2>1 DEF AtRest, Queues
  <2>3. Ids(known) = svc
    BY <2>2 DEF KnownInv
  <2>4. PICK mid \in Seq(Room) : Leads(order, pending, mid) /\ Destination(mid)
    BY <2>2, PendingAtRest
  <2>5. mid = svc
    BY <2>2, <2>3, <2>4 DEF Destination
  <2> QED BY <2>2, <2>3, <2>4, <2>5, LeadsToFold
<1> QED BY <1>1, InitInv, StepInv, KnownInit, KnownStep, OrderInvInit, OrderInvStep, PTL DEF Spec

(***************************************************************************)
(* 8. The data of the rooms: what the frontend shows of a room is what the *)
(* sync task knows of it, up to the updates on their way. A fact is        *)
(* something that is to be true of the frontend in the end: that a room it *)
(* shows as joined has a value in a field, or that a room is an invite.    *)
(***************************************************************************)

Fact == [room: Room, about: {"direct", "name", "avatar", "invite"}, value: BOOLEAN \cup Data \cup {None}]

ValueOf(info, field) ==
    CASE field = "direct" -> info.direct
      [] field = "name" -> info.name
      [] field = "avatar" -> info.avatar

(* The update sets the field that the fact is about, *)
Sets(u, p) ==
    /\ \/ u.op = "AddJoinedRoom" /\ p.about # "invite"
       \/ u.op = "UpdateIsDirect" /\ p.about = "direct"
       \/ u.op = "UpdateRoomName" /\ p.about = "name"
       \/ u.op = "UpdateRoomAvatar" /\ p.about = "avatar"
    /\ u.room = p.room

(* to this value. *)
SetTo(u, p) ==
    CASE u.op = "AddJoinedRoom" -> ValueOf(u.info, p.about)
      [] u.op = "UpdateIsDirect" -> u.direct
      [] OTHER -> u.value

(* The update makes the fact true, or false. *)
Confirms(u, p) ==
    \/ Sets(u, p) /\ SetTo(u, p) = p.value
    \/ p.about = "invite" /\ u.op = "AddInvitedRoom" /\ u.room = p.room

Refutes(u, p) ==
    \/ Sets(u, p) /\ SetTo(u, p) # p.value
    \/ /\ p.about = "invite"
       /\ \/ u.op = "ClearRooms"
          \/ u.op \in {"AddJoinedRoom", "RemoveRoom"} /\ u.room = p.room

Confirming(p) == {u \in RoomsListUpdate : Confirms(u, p)}
Refuting(p) == {u \in RoomsListUpdate : Refutes(u, p)}
SendsConfirming(p) == {e \in Effect : e.do = "enqueue" /\ Confirms(e.update, p)}
SendsRefuting(p) == {e \in Effect : e.do = "enqueue" /\ Refutes(e.update, p)}

(* What is true of the frontend now, *)
Held ==
    {p \in Fact :
       IF p.about = "invite" THEN invited[p.room] # None
       ELSE joined[p.room] # None => ValueOf(joined[p.room], p.about) = p.value}

(* what is true once it has drained the queue, and after a list of effects.*)
FactsDrained == {p \in Fact : Outcome(p \in Held, pending, Confirming(p), Refuting(p))}
FactsAfter(facts, s) == {p \in Fact : Outcome(p \in facts, s, SendsConfirming(p), SendsRefuting(p))}

About(e, field) == [room |-> e.room, about |-> field, value |-> ValueOf(e.info, field)]
InviteOf(e) == [room |-> e.room, about |-> "invite", value |-> None]

(* What an entry of all_known_rooms makes true of a frontend. An avatar    *)
(* that became None is not sent.                                           *)
Due(e) ==
    CASE e.info.state = "Joined" ->
           {About(e, field) : field \in {"direct", "name"}
                                \cup (IF e.info.avatar = None THEN {} ELSE {"avatar"})}
      [] e.info.state = "Invited" -> {InviteOf(e)}
      [] OTHER -> {}

(* It is or will be true of the frontend, unless the timeline of a joined  *)
(* room could not be built, in which case the room is not shown; a room    *)
(* whose state is one of those that mean it is gone loses its details.     *)
FulfilledBy(gone, e, rooms, facts) ==
    /\ Due(e) \subseteq facts \/ (e.info.state = "Joined" /\ e.room \notin rooms)
    /\ e.info.state \in gone => e.room \notin rooms

Fulfilled(gone, e) == FulfilledBy(gone, e, DetailsAfter(details, todo), FactsAfter(FactsDrained, todo))

(* The entries that the handler has dealt with.                            *)
DealtWith == ToSet(known) \cup
    (IF phase = "adding" THEN {incoming[i] : i \in (DOMAIN incoming) \ toAdd} ELSE {})

FactsInv(gone) == phase # "failed" => \A e \in DealtWith : Fulfilled(gone, e)

(* The states in which update_room removes a room; a known room gets into  *)
(* another state that means it is gone only from one of them.              *)
Departed == {"Left", "Banned"}

Departs(gone) ==
    \A e \in ToSet(known), f \in ToSet(known') :
      e.room = f.room /\ f.info.state \in gone \ Departed => e.info.state \in gone

----------------------------------------------------------------------------

(* No update, and no effect, both confirms and refutes a fact. *)
LEMMA ConfirmOrRefute ==
    ASSUME NEW p
    PROVE  /\ Confirming(p) \cap Refuting(p) = {}
           /\ SendsConfirming(p) \cap SendsRefuting(p) = {}
<1>1. ASSUME NEW u, Confirms(u, p)
      PROVE  ~Refutes(u, p)
  <2>1. Sets(u, p) => p.about # "invite"
    BY DEF Sets
  <2> QED BY <1>1, <2>1 DEF Confirms, Refutes
<1> QED BY <1>1 DEF Confirming, Refuting, SendsConfirming, SendsRefuting

(* No effects make nothing true or false. *)
LEMMA FactsNone ==
    ASSUME NEW facts \in SUBSET Fact
    PROVE  FactsAfter(facts, <<>>) = facts
BY OutcomeOfNone DEF FactsAfter

(* Two lists of effects, one after the other. *)
LEMMA FactsConcat ==
    ASSUME NEW s \in Seq(Effect), NEW t \in Seq(Effect), NEW facts \in SUBSET Fact
    PROVE  FactsAfter(facts, s \o t) = FactsAfter(FactsAfter(facts, s), t)
<1>1. ASSUME NEW p \in Fact
      PROVE  p \in FactsAfter(facts, s \o t) <=> p \in FactsAfter(FactsAfter(facts, s), t)
  <2> DEFINE Y == FactsAfter(facts, s)
             C == SendsConfirming(p)
             R == SendsRefuting(p)
  <2>1. p \in Y <=> Outcome(p \in facts, s, C, R)
    BY DEF FactsAfter
  <2> HIDE DEF Y, C, R
  <2>2. Outcome(p \in facts, s \o t, C, R) <=> Outcome(p \in Y, t, C, R)
    BY <2>1, OutcomeOfConcat
  <2> QED BY <2>2 DEF FactsAfter, Y, C, R
<1>2. FactsAfter(facts, s \o t) \subseteq Fact /\ FactsAfter(FactsAfter(facts, s), t) \subseteq Fact
  BY DEF FactsAfter
<1> QED BY <1>1, <1>2

(* An update that is enqueued. *)
LEMMA FactsOne ==
    ASSUME NEW u \in RoomsListUpdate, NEW facts, NEW p \in Fact
    PROVE  p \in FactsAfter(facts, <<Send(u)>>) <=> Confirms(u, p) \/ (p \in facts /\ ~Refutes(u, p))
<1>1. /\ Send(u) \in SendsConfirming(p) <=> Confirms(u, p)
      /\ Send(u) \in SendsRefuting(p) <=> Refutes(u, p)
  <2>1. Send(u) \in Effect /\ Send(u).do = "enqueue" /\ Send(u).update = u
    BY SendType DEF Send
  <2> QED BY <2>1 DEF SendsConfirming, SendsRefuting
<1> DEFINE e == Send(u)
<1> HIDE DEF e
<1>2. Outcome(p \in facts, <<e>>, SendsConfirming(p), SendsRefuting(p))
        <=> e \in SendsConfirming(p) \/ (p \in facts /\ e \notin SendsRefuting(p))
  BY ONLY OutcomeOfOne
<1> QED BY <1>1, <1>2 DEF FactsAfter, e

(* So it is under a condition. *)
LEMMA FactsWhen ==
    ASSUME NEW condition, NEW u, condition => u \in RoomsListUpdate, NEW facts \in SUBSET Fact, NEW p \in Fact
    PROVE  p \in FactsAfter(facts, When(condition, Send(u)))
             <=> IF condition THEN Confirms(u, p) \/ (p \in facts /\ ~Refutes(u, p)) ELSE p \in facts
<1>1. CASE condition
  BY <1>1, FactsOne DEF When
<1>2. CASE ~condition
  BY <1>2, FactsNone DEF When
<1> QED BY <1>1, <1>2

(* What is true stays true if it was true of more before. *)
LEMMA FactsMore ==
    ASSUME NEW facts, NEW more, facts \subseteq more, NEW s
    PROVE  FactsAfter(facts, s) \subseteq FactsAfter(more, s)
BY DEF FactsAfter, Outcome

LEMMA FulfilledByMore ==
    ASSUME NEW gone, NEW facts, NEW more, facts \subseteq more, NEW e, NEW rooms, FulfilledBy(gone, e, rooms, facts)
    PROVE  FulfilledBy(gone, e, rooms, more)
BY DEF FulfilledBy

(* What an entry makes true is about its room. *)
LEMMA DueOf ==
    ASSUME NEW e \in Entry
    PROVE  /\ Due(e) \subseteq Fact
           /\ \A p \in Due(e) : p.room = e.room
           /\ e.info.state = "Joined" =>
                \A p \in Due(e) : /\ p.about \in {"direct", "name", "avatar"}
                                  /\ p.value = ValueOf(e.info, p.about)
                                  /\ p.about = "avatar" => e.info.avatar # None
           /\ e.info.state = "Invited" => Due(e) = {InviteOf(e)}
           /\ e.info.state \notin {"Joined", "Invited"} => Due(e) = {}
<1>1. /\ e.room \in Room /\ e.info.direct \in BOOLEAN /\ e.info.name \in Data
      /\ e.info.avatar \in Data \cup {None}
  BY DEF Entry, RoomInfo
<1>2. \A field \in {"direct", "name", "avatar"} :
        /\ About(e, field) \in Fact /\ About(e, field).room = e.room
        /\ About(e, field).about = field /\ About(e, field).value = ValueOf(e.info, field)
  <2>1. /\ ValueOf(e.info, "direct") = e.info.direct
        /\ ValueOf(e.info, "name") = e.info.name
        /\ ValueOf(e.info, "avatar") = e.info.avatar
    BY DEF ValueOf
  <2> QED BY <1>1, <2>1 DEF About, Fact
<1>3. InviteOf(e) \in Fact /\ InviteOf(e).room = e.room
  BY <1>1 DEF InviteOf, Fact
<1>4. CASE e.info.state = "Joined"
  <2>1. \A p \in Due(e) : \E field \in {"direct", "name", "avatar"} :
          p = About(e, field) /\ (field = "avatar" => e.info.avatar # None)
    BY <1>4 DEF Due
  <2> QED BY <1>2, <1>4, <2>1
<1>5. CASE e.info.state = "Invited"
  BY <1>3, <1>5 DEF Due
<1>6. CASE e.info.state \notin {"Joined", "Invited"}
  BY <1>6 DEF Due
<1> QED BY <1>4, <1>5, <1>6

----------------------------------------------------------------------------

(* The effect concerns only rooms in R, *)
Concerns(e, R) ==
    /\ e.do # "clear_all_rooms"
    /\ e.do \in {"insert_room_details", "remove_room_details"} => e.room \in R
    /\ e.do = "enqueue" => /\ e.update.op # "ClearRooms"
                           /\ e.update.op = "RoomOrderUpdate" \/ e.update.room \in R

(* and so does every effect of the list. *)
Within(s, R) == \A e \in ToSet(s) : Concerns(e, R)

(* Such a list changes nothing of the other rooms: *)
LEMMA WithinKeeps ==
    ASSUME NEW s \in Seq(Effect), NEW R, Within(s, R)
    PROVE  /\ \A rooms : \A r \in Room : r \notin R => (r \in DetailsAfter(rooms, s) <=> r \in rooms)
           /\ \A facts : \A p \in Fact : p.room \notin R => (p \in FactsAfter(facts, s) <=> p \in facts)
<1>1. \A i \in DOMAIN s : s[i] \in Effect /\ Concerns(s[i], R)
  BY DEF Within, ToSet
<1>2. ASSUME NEW r, r \notin R, NEW i \in DOMAIN s
      PROVE  s[i] \notin Inserting(r) /\ s[i] \notin Tearing(r)
  BY <1>1, <1>2 DEF Inserting, Tearing, InsertDetails, TearsDown, Concerns
<1>3. ASSUME NEW p, p.room \notin R, NEW i \in DOMAIN s
      PROVE  s[i] \notin SendsConfirming(p) /\ s[i] \notin SendsRefuting(p)
  BY <1>1, <1>3 DEF SendsConfirming, SendsRefuting, Confirms, Refutes, Sets, Concerns
<1>4. ASSUME NEW rooms, NEW r \in Room, r \notin R
      PROVE  r \in DetailsAfter(rooms, s) <=> r \in rooms
  BY <1>2, <1>4 DEF DetailsAfter, Outcome
<1>5. ASSUME NEW facts, NEW p \in Fact, p.room \notin R
      PROVE  p \in FactsAfter(facts, s) <=> p \in facts
  BY <1>3, <1>5 DEF FactsAfter, Outcome
<1> QED BY <1>4, <1>5

(* their entries stay fulfilled. *)
LEMMA OthersFulfilled ==
    ASSUME NEW gone, NEW s \in Seq(Effect), NEW R, Within(s, R), NEW e \in Entry, e.room \notin R,
           NEW rooms, NEW facts, FulfilledBy(gone, e, rooms, facts)
    PROVE  FulfilledBy(gone, e, DetailsAfter(rooms, s), FactsAfter(facts, s))
<1>1. Due(e) \subseteq Fact /\ \A p \in Due(e) : p.room = e.room
  BY DueOf
<1>2. e.room \in Room
  BY DEF Entry
<1> QED BY <1>1, <1>2, WithinKeeps DEF FulfilledBy

LEMMA WithinConcat ==
    ASSUME NEW s \in Seq(Effect), NEW t \in Seq(Effect), NEW R, Within(s, R), Within(t, R)
    PROVE  Within(s \o t, R)
BY ConcatKeeps DEF Within

LEMMA WithinMore ==
    ASSUME NEW s, NEW R, Within(s, R), NEW Q, R \subseteq Q
    PROVE  Within(s, Q)
BY DEF Within, Concerns

LEMMA WithinNone == \A R : Within(<<>>, R)
BY DEF Within, ToSet

LEMMA WithinOrder ==
    ASSUME NEW diff, NEW R
    PROVE  Within(<<SendOrder(diff)>>, R)
BY DEF Within, ToSet, Concerns, SendOrder, Send

LEMMA WithinAddNewRoom ==
    ASSUME NEW new
    PROVE  Within(AddNewRoom(new), {new.room})
BY AddNewRoomHas DEF SendsAbout, Within, Concerns

LEMMA WithinRemoveRoom ==
    ASSUME NEW room
    PROVE  Within(RemoveRoom(room), {room})
BY RemoveRoomHas DEF SendsAbout, Within, Concerns

LEMMA WithinUpdateRoom ==
    ASSUME NEW old \in Entry, NEW new \in Entry
    PROVE  Within(UpdateRoom(old, new), {old.room, new.room})
<1> DEFINE R == {old.room, new.room}
<1>1. Within(AddNewRoom(new), R) /\ Within(RemoveRoom(old.room), R) /\ Within(RemoveRoom(new.room), R)
  BY AddNewRoomHas, RemoveRoomHas DEF SendsAbout, Within, Concerns
<1>2. Within(RemoveRoom(old.room) \o AddNewRoom(new), R)
  <2>1. RemoveRoom(old.room) \in Seq(Effect) /\ AddNewRoom(new) \in Seq(Effect)
    BY AddNewRoomType, RemoveRoomType DEF Entry
  <2> HIDE DEF R
  <2> QED BY <1>1, <2>1, WithinConcat
<1>3. (\A e \in ToSet(UpdateRoom(old, new)) : SendsAbout(e, DataUpdates, new.room)) => Within(UpdateRoom(old, new), R)
  BY DEF SendsAbout, DataUpdates, Within, Concerns
<1> QED BY <1>1, <1>2, <1>3, UpdateRoomCases

----------------------------------------------------------------------------

(* What add_new_room announces makes the entry of the new room true. *)
LEMMA AddNewRoomFulfils ==
    ASSUME NEW gone, "Joined" \notin gone, NEW new \in Entry, NEW rooms \in SUBSET Room, NEW facts,
           new.info.state \in gone => new.room \notin rooms
    PROVE  FulfilledBy(gone, new, DetailsAfter(rooms, AddNewRoom(new)), FactsAfter(facts, AddNewRoom(new)))
<1> DEFINE after == FactsAfter(facts, AddNewRoom(new))
<1>1. new.room \in Room /\ new.info \in RoomInfo
  BY DEF Entry
<1>2. CASE new.info.state = "Joined"
  <2> DEFINE d == [do |-> "insert_room_details", room |-> new.room]
             u == [op |-> "AddJoinedRoom", room |-> new.room, info |-> new.info]
             s == <<d, Send(u)>>
  <2>1. AddNewRoom(new) = s
    BY <1>2 DEF AddNewRoom
  <2>2. u \in RoomsListUpdate /\ u.op = "AddJoinedRoom" /\ u.room = new.room /\ u.info = new.info
    BY <1>1 DEF RoomsListUpdate
  <2>3. ASSUME NEW p \in Due(new)
        PROVE  p \in FactsAfter(facts, s)
    <3>1. p \in Fact /\ p.room = new.room /\ p.about # "invite" /\ p.value = ValueOf(new.info, p.about)
      BY <1>2, DueOf
    <3> HIDE DEF u
    <3>2. Confirms(u, p)
      BY <2>2, <3>1 DEF Confirms, Sets, SetTo
    <3>3. Send(u) \in SendsConfirming(p)
      BY <2>2, <3>2, SendType DEF SendsConfirming, Send
    <3> DEFINE e == Send(u)
    <3> HIDE DEF d, e
    <3>4. DOMAIN <<d, e>> = {1, 2} /\ <<d, e>>[2] = e
      OBVIOUS
    <3>5. Outcome(p \in facts, <<d, e>>, SendsConfirming(p), SendsRefuting(p))
      BY <3>3, <3>4, OutcomeOfTwo DEF e
    <3> QED BY <3>1, <3>5 DEF FactsAfter, e
  <2> HIDE DEF s
  <2> QED BY <1>2, <2>1, <2>3 DEF FulfilledBy
<1>3. CASE new.info.state = "Invited"
  <2> DEFINE u == [op |-> "AddInvitedRoom", room |-> new.room, info |-> new.info]
             p == InviteOf(new)
  <2>1. AddNewRoom(new) = <<Send(u)>>
    BY <1>3 DEF AddNewRoom
  <2>2. u \in RoomsListUpdate /\ u.op = "AddInvitedRoom" /\ u.room = new.room
    BY <1>1 DEF RoomsListUpdate
  <2>3. Due(new) = {p} /\ p \in Fact /\ p.about = "invite" /\ p.room = new.room
    BY <1>3, DueOf DEF InviteOf
  <2> HIDE DEF u, p
  <2>4. Confirms(u, p)
    BY <2>2, <2>3 DEF Confirms
  <2>5. p \in FactsAfter(facts, <<Send(u)>>)
    BY <2>2, <2>3, <2>4, FactsOne
  <2>6. DetailsAfter(rooms, <<Send(u)>>) = rooms
    BY <2>2, ProperOne DEF Plain
  <2> QED BY <1>3, <2>1, <2>3, <2>5, <2>6 DEF FulfilledBy
<1>4. CASE new.info.state \notin {"Joined", "Invited"}
  <2>1. AddNewRoom(new) = <<>>
    BY <1>4 DEF AddNewRoom
  <2>2. Due(new) = {}
    BY <1>4, DueOf
  <2>3. DetailsAfter(rooms, <<>>) = rooms
    BY ProperEmpty
  <2> QED BY <2>1, <2>2, <2>3 DEF FulfilledBy
<1> QED BY <1>2, <1>3, <1>4

(* The updates of the data of a room keep its entry fulfilled: every field *)
(* that differs is sent, the others are left alone.                        *)
LEMMA DataFulfilled ==
    ASSUME NEW gone, NEW old \in Entry, NEW new \in Entry, old.room = new.room, old.info.state = new.info.state,
           NEW rooms \in SUBSET Room, NEW facts \in SUBSET Fact, FulfilledBy(gone, old, rooms, facts)
    PROVE  FulfilledBy(gone, new, DetailsAfter(rooms, UpdateRoom(old, new)), FactsAfter(facts, UpdateRoom(old, new)))
<1> DEFINE ca == old.info.avatar # new.info.avatar /\ new.info.avatar # None
           cn == old.info.name # new.info.name
           cd == new.info.state = "Joined" /\ old.info.direct # new.info.direct
           ua == [op |-> "UpdateRoomAvatar", room |-> new.room, value |-> new.info.avatar]
           un == [op |-> "UpdateRoomName", room |-> new.room, value |-> new.info.name]
           ud == [op |-> "UpdateIsDirect", room |-> new.room, direct |-> new.info.direct]
           a == When(ca, Send(ua))
           n == When(cn, Send(un))
           d == When(cd, Send(ud))
           s == a \o n \o d
<1>1. /\ new.room \in Room
      /\ new.info.avatar \in Data \cup {None} /\ new.info.name \in Data
      /\ new.info.direct \in BOOLEAN
  BY DEF Entry, RoomInfo
<1>2. (ca => ua \in RoomsListUpdate) /\ un \in RoomsListUpdate /\ ud \in RoomsListUpdate
  BY <1>1 DEF RoomsListUpdate
<1>3. a \in Seq(Effect) /\ n \in Seq(Effect) /\ d \in Seq(Effect)
  BY UpdateDataType
<1>4. UpdateRoom(old, new) = s
  BY DEF UpdateRoom
<1>5. DetailsAfter(rooms, s) \subseteq rooms
  <2>1. \A e \in ToSet(UpdateRoom(old, new)) : e.do = "enqueue" /\ Plain(e.update)
    BY UpdateRoomCases DEF SendsAbout, DataUpdates, Plain
  <2>2. UpdateRoom(old, new) \in Seq(Effect)
    BY UpdateRoomType
  <2> HIDE DEF s
  <2> QED BY <1>4, <2>1, <2>2, ProperPlain
<1> DEFINE f1 == FactsAfter(facts, a)
           f2 == FactsAfter(f1, n)
           f3 == FactsAfter(f2, d)
<1>6. FactsAfter(facts, s) = f3
  <2> HIDE DEF a, n, d
  <2> DEFINE an == a \o n
  <2>1. an \in Seq(Effect)
    BY <1>3, ConcatProperties
  <2>2. FactsAfter(facts, an) = f2
    BY <1>3, FactsConcat
  <2> HIDE DEF an, f2
  <2>3. FactsAfter(facts, an \o d) = FactsAfter(FactsAfter(facts, an), d)
    BY <1>3, <2>1, FactsConcat
  <2> QED BY <2>2, <2>3 DEF an
<1>7. ASSUME NEW p \in Fact
      PROVE  /\ p \in f1 <=> IF ca THEN Confirms(ua, p) \/ (p \in facts /\ ~Refutes(ua, p)) ELSE p \in facts
             /\ p \in f2 <=> IF cn THEN Confirms(un, p) \/ (p \in f1 /\ ~Refutes(un, p)) ELSE p \in f1
             /\ p \in f3 <=> IF cd THEN Confirms(ud, p) \/ (p \in f2 /\ ~Refutes(ud, p)) ELSE p \in f2
  <2>1. f1 \subseteq Fact /\ f2 \subseteq Fact
    BY DEF FactsAfter
  <2> HIDE DEF ca, cn, cd, ua, un, ud, f1, f2
  <2> QED BY <1>2, <2>1, FactsWhen DEF f1, f2
<1> HIDE DEF f1, f2, f3, s, a, n, d
<1>8. ASSUME NEW p \in Fact, p.room = new.room
      PROVE  /\ Confirms(ua, p) <=> p.about = "avatar" /\ new.info.avatar = p.value
             /\ Confirms(un, p) <=> p.about = "name" /\ new.info.name = p.value
             /\ Confirms(ud, p) <=> p.about = "direct" /\ new.info.direct = p.value
             /\ Refutes(ua, p) => p.about = "avatar"
             /\ Refutes(un, p) => p.about = "name"
             /\ Refutes(ud, p) => p.about = "direct"
  BY <1>8 DEF Confirms, Refutes, Sets, SetTo
<1> HIDE DEF ua, un, ud
<1>9. CASE new.info.state = "Joined"
  <2>1. new.room \notin rooms \/ Due(old) \subseteq facts
    BY <1>9 DEF FulfilledBy
  <2>2. ASSUME Due(old) \subseteq facts, NEW p \in Due(new)
        PROVE  p \in f3
    <3>1. /\ p \in Fact /\ p.room = new.room /\ p.about \in {"direct", "name", "avatar"}
          /\ p.value = ValueOf(new.info, p.about)
          /\ p.about = "avatar" => new.info.avatar # None
      BY <1>9, <2>2, DueOf
    <3>2. /\ ValueOf(new.info, "direct") = new.info.direct
          /\ ValueOf(new.info, "name") = new.info.name
          /\ ValueOf(new.info, "avatar") = new.info.avatar
      BY DEF ValueOf
    <3>3. p = [room |-> new.room, about |-> p.about, value |-> ValueOf(new.info, p.about)]
      BY <3>1 DEF Fact
    <3>4. /\ p.about = "direct" /\ old.info.direct = new.info.direct => p \in facts
          /\ p.about = "name" /\ old.info.name = new.info.name => p \in facts
          /\ p.about = "avatar" /\ old.info.avatar = new.info.avatar => p \in facts
      <4>1. /\ About(old, "direct") \in facts /\ About(old, "name") \in facts
            /\ old.info.avatar # None => About(old, "avatar") \in facts
        BY <1>9, <2>2 DEF Due
      <4>2. /\ ValueOf(old.info, "direct") = old.info.direct
            /\ ValueOf(old.info, "name") = old.info.name
            /\ ValueOf(old.info, "avatar") = old.info.avatar
        BY DEF ValueOf
      <4> QED BY <3>1, <3>2, <3>3, <4>1, <4>2 DEF About
    <3>5. CASE p.about = "direct"
      BY <1>7, <1>8, <1>9, <3>1, <3>2, <3>4, <3>5
    <3>6. CASE p.about = "name"
      BY <1>7, <1>8, <1>9, <3>1, <3>2, <3>4, <3>6
    <3>7. CASE p.about = "avatar"
      BY <1>7, <1>8, <1>9, <3>1, <3>2, <3>4, <3>7
    <3> QED BY <3>1, <3>5, <3>6, <3>7
  <2> QED BY <1>4, <1>5, <1>6, <1>9, <2>1, <2>2 DEF FulfilledBy
<1>10. CASE new.info.state = "Invited"
  <2> DEFINE p == InviteOf(new)
  <2>1. Due(new) = {p} /\ Due(old) = {p} /\ p \in Fact /\ p.about = "invite" /\ p.room = new.room
    BY <1>10, DueOf DEF InviteOf
  <2>2. p \in facts
    BY <1>10, <2>1 DEF FulfilledBy
  <2> HIDE DEF p
  <2>3. p \in f3
    BY <1>7, <1>8, <2>1, <2>2
  <2> QED BY <1>4, <1>5, <1>6, <1>10, <2>1, <2>3 DEF FulfilledBy
<1>11. CASE new.info.state \notin {"Joined", "Invited"}
  <2>1. Due(new) = {}
    BY <1>11, DueOf
  <2> QED BY <1>4, <1>5, <2>1 DEF FulfilledBy
<1> QED BY <1>9, <1>10, <1>11

(* update_room makes the new entry true: of the same room, if the old one  *)
(* was, of another room, if that was not there.                            *)
LEMMA UpdateRoomFulfils ==
    ASSUME NEW gone, "Joined" \notin gone, NEW old \in Entry, NEW new \in Entry,
           NEW rooms \in SUBSET Room, NEW facts \in SUBSET Fact,
           FulfilledBy(gone, old, rooms, facts), new.room # old.room => new.room \notin rooms,
           old.room = new.room /\ new.info.state \in gone \ Departed => old.info.state \in gone
    PROVE  FulfilledBy(gone, new, DetailsAfter(rooms, UpdateRoom(old, new)), FactsAfter(facts, UpdateRoom(old, new)))
<1>1. old.room \in Room /\ new.room \in Room
  BY DEF Entry
<1>2. CASE old.room # new.room
  <2> DEFINE s == RemoveRoom(old.room)
             t == AddNewRoom(new)
  <2>1. UpdateRoom(old, new) = s \o t /\ s \in Seq(Effect) /\ t \in Seq(Effect)
    BY <1>1, <1>2, AddNewRoomType, RemoveRoomType DEF UpdateRoom
  <2>2. DetailsAfter(rooms, s) = rooms \ {old.room}
    BY <1>1, ProperRemoveRoom
  <2>3. FulfilledBy(gone, new, DetailsAfter(rooms \ {old.room}, t), FactsAfter(FactsAfter(facts, s), t))
    BY <1>2, rooms \ {old.room} \in SUBSET Room, AddNewRoomFulfils
  <2> HIDE DEF s, t
  <2>4. /\ DetailsAfter(rooms, s \o t) = DetailsAfter(DetailsAfter(rooms, s), t)
        /\ FactsAfter(facts, s \o t) = FactsAfter(FactsAfter(facts, s), t)
    BY <2>1, AfterConcat, FactsConcat
  <2> QED BY <2>1, <2>2, <2>3, <2>4
<1>3. CASE old.room = new.room /\ old.info.state # new.info.state /\ new.info.state \in {"Banned", "Left"}
  <2>1. UpdateRoom(old, new) = RemoveRoom(new.room)
    BY <1>3 DEF UpdateRoom
  <2>2. DetailsAfter(rooms, RemoveRoom(new.room)) = rooms \ {new.room}
    BY <1>1, ProperRemoveRoom
  <2>3. Due(new) = {}
    BY <1>3, DueOf
  <2> QED BY <2>1, <2>2, <2>3 DEF FulfilledBy
<1>4. CASE old.room = new.room /\ old.info.state # new.info.state /\ new.info.state \notin {"Banned", "Left"}
  <2>1. UpdateRoom(old, new) = AddNewRoom(new)
    BY <1>4 DEF UpdateRoom
  <2>2. new.info.state \in gone => new.room \notin rooms
    BY <1>4 DEF Departed, FulfilledBy
  <2> QED BY <2>1, <2>2, AddNewRoomFulfils
<1>5. CASE old.room = new.room /\ old.info.state = new.info.state
  BY <1>5, DataFulfilled
<1> QED BY <1>2, <1>3, <1>4, <1>5

----------------------------------------------------------------------------

(* A step of the drain as the facts see it: they become true and false as  *)
(* the update that it pops says.                                           *)
Tells ==
    /\ pending # <<>> /\ pending' = Tail(pending)
    /\ \A p \in Fact : Confirms(Head(pending), p) \/ (p \in Held /\ ~Refutes(Head(pending), p)) => p \in Held'

(* What is shown of a room when it is added, or one of its fields is set. *)
LEMMA ShownValue ==
    \A info : \A field \in {"direct", "name", "avatar"} : ValueOf(ShownInfo(info), field) = ValueOf(info, field)
BY DEF ValueOf, ShownInfo

LEMMA ShownField ==
    ASSUME NEW shown \in Shown, NEW v, NEW field \in {"direct", "name", "avatar"}
    PROVE  /\ ValueOf([shown EXCEPT !.direct = v], field) = IF field = "direct" THEN v ELSE ValueOf(shown, field)
           /\ ValueOf([shown EXCEPT !.name = v], field) = IF field = "name" THEN v ELSE ValueOf(shown, field)
           /\ ValueOf([shown EXCEPT !.avatar = v], field) = IF field = "avatar" THEN v ELSE ValueOf(shown, field)
BY DEF ValueOf, Shown

(* A fact about a joined room, and one about an invite. *)
LEMMA HeldCases ==
    ASSUME NEW p \in Fact
    PROVE  /\ p.about = "invite" => (p \in Held <=> invited[p.room] # None)
           /\ p.about # "invite" =>
                (p \in Held <=> (joined[p.room] # None => ValueOf(joined[p.room], p.about) = p.value))
           /\ p.about = "invite" => (p \in Held' <=> invited'[p.room] # None)
           /\ p.about # "invite" =>
                (p \in Held' <=> (joined'[p.room] # None => ValueOf(joined'[p.room], p.about) = p.value))
           /\ p.room \in Room
           /\ p.about # "invite" => p.about \in {"direct", "name", "avatar"}
BY DEF Held, Fact

(* Setting a field of a joined room. *)
LEMMA FieldTells ==
    ASSUME joined \in [Room -> Shown \cup {None}], pending \in Seq(RoomsListUpdate), NEW op, Pop(op),
           NEW field, NEW v, NEW x,
           \/ op = "UpdateIsDirect" /\ field = "direct" /\ v = Head(pending).direct
              /\ x = [joined[Head(pending).room] EXCEPT !.direct = v]
           \/ op = "UpdateRoomName" /\ field = "name" /\ v = Head(pending).value
              /\ x = [joined[Head(pending).room] EXCEPT !.name = v]
           \/ op = "UpdateRoomAvatar" /\ field = "avatar" /\ v = Head(pending).value
              /\ x = [joined[Head(pending).room] EXCEPT !.avatar = v],
           \/ joined[Head(pending).room] # None /\ joined' = [joined EXCEPT ![Head(pending).room] = x]
           \/ joined[Head(pending).room] = None /\ UNCHANGED joined
           \/ ValueOf(joined[Head(pending).room], field) = v /\ UNCHANGED joined,
           \A r \in Room : invited[r] # None => invited'[r] # None
    PROVE  Tells
<1> DEFINE u == Head(pending)
<1>1. /\ u \in RoomsListUpdate /\ u.op = op /\ u.room \in Room
      /\ pending # <<>> /\ pending' = Tail(pending)
  <2>1. u \in RoomsListUpdate /\ u.op = op
    BY PopType
  <2> HIDE DEF u
  <2>2. u.room \in Room
    BY <2>1, UpdateFields
  <2> QED BY <2>1, <2>2 DEF Pop, u
<1> HIDE DEF u
<1>2. ASSUME NEW p \in Fact, Confirms(u, p) \/ (p \in Held /\ ~Refutes(u, p))
      PROVE  p \in Held'
  <2>1. CASE p.about = "invite"
    <3>1. ~Confirms(u, p)
      BY <1>1, <2>1 DEF Confirms, Sets
    <3> QED BY <1>2, <2>1, <3>1, HeldCases
  <2>2. CASE p.about # "invite"
    <3>1. /\ Sets(u, p) <=> p.about = field /\ p.room = u.room
          /\ Sets(u, p) => (Confirms(u, p) <=> v = p.value) /\ (Refutes(u, p) <=> v # p.value)
          /\ ~Sets(u, p) => ~Confirms(u, p)
      BY <1>1, <2>2 DEF Sets, SetTo, Confirms, Refutes, u
    <3>2. joined[u.room] # None => ValueOf(x, p.about) = IF p.about = field THEN v ELSE ValueOf(joined[u.room], p.about)
      <4>1. joined[u.room] # None => joined[u.room] \in Shown
        BY <1>1
      <4>2. p.about \in {"direct", "name", "avatar"}
        BY <2>2, HeldCases
      <4>3. \/ field = "direct" /\ x = [joined[u.room] EXCEPT !.direct = v]
            \/ field = "name" /\ x = [joined[u.room] EXCEPT !.name = v]
            \/ field = "avatar" /\ x = [joined[u.room] EXCEPT !.avatar = v]
        BY DEF u
      <4> DEFINE y == joined[u.room]
      <4>4. SUFFICES ASSUME y \in Shown
                     PROVE  ValueOf(x, p.about) = IF p.about = field THEN v ELSE ValueOf(y, p.about)
        BY <4>1
      <4> HIDE DEF y
      <4>5. CASE field = "direct" /\ x = [y EXCEPT !.direct = v]
        <5>1. ValueOf([y EXCEPT !.direct = v], p.about) = IF p.about = "direct" THEN v ELSE ValueOf(y, p.about)
          BY <4>2, <4>4, ShownField
        <5> QED BY <4>5, <5>1
      <4>6. CASE field = "name" /\ x = [y EXCEPT !.name = v]
        <5>1. ValueOf([y EXCEPT !.name = v], p.about) = IF p.about = "name" THEN v ELSE ValueOf(y, p.about)
          BY <4>2, <4>4, ShownField
        <5> QED BY <4>6, <5>1
      <4>7. CASE field = "avatar" /\ x = [y EXCEPT !.avatar = v]
        <5>1. ValueOf([y EXCEPT !.avatar = v], p.about) = IF p.about = "avatar" THEN v ELSE ValueOf(y, p.about)
          BY <4>2, <4>4, ShownField
        <5> QED BY <4>7, <5>1
      <4> QED BY <4>3, <4>5, <4>6, <4>7 DEF y
    <3>3. \/ joined[u.room] # None /\ joined' = [joined EXCEPT ![u.room] = x]
          \/ joined[u.room] = None /\ UNCHANGED joined
          \/ ValueOf(joined[u.room], field) = v /\ UNCHANGED joined
      BY DEF u
    <3>4. p.room \in Room /\ (p.room # u.room => joined'[p.room] = joined[p.room])
      BY <1>1, <3>3, HeldCases
    <3>5. CASE p.room # u.room
      BY <1>2, <2>2, <3>1, <3>4, <3>5, HeldCases
    <3>6. CASE p.room = u.room
      <4>1. p \in Held <=> (joined[u.room] # None => ValueOf(joined[u.room], p.about) = p.value)
        BY <2>2, <3>6, HeldCases
      <4>2. p \in Held' <=> (joined'[u.room] # None => ValueOf(joined'[u.room], p.about) = p.value)
        BY <2>2, <3>6, HeldCases
      <4>3. CASE joined[u.room] # None /\ joined' = [joined EXCEPT ![u.room] = x]
        <5>1. joined'[u.room] = x
          BY <1>1, <4>3
        <5> QED BY <1>2, <3>1, <3>2, <3>6, <4>1, <4>2, <4>3, <5>1
      <4>4. CASE joined[u.room] = None /\ UNCHANGED joined
        BY <4>2, <4>4
      <4>5. CASE ValueOf(joined[u.room], field) = v /\ UNCHANGED joined
        BY <1>2, <3>1, <3>6, <4>1, <4>2, <4>5
      <4> QED BY <3>3, <4>3, <4>4, <4>5
    <3> QED BY <3>5, <3>6
  <2> QED BY <2>1, <2>2
<1> QED BY <1>1, <1>2 DEF Tells, u

(* Every step of the drain is one, or leaves queue and rooms alone. *)
LEMMA UiStepTells ==
    ASSUME UiInv, UiNext
    PROVE  Tells \/ UNCHANGED <<joined, invited, pending>>
<1>0. /\ joined \in [Room -> Shown \cup {None}] /\ invited \in [Room -> Shown \cup {None}]
      /\ pending \in Seq(RoomsListUpdate)
  BY DEF UiInv, UiTypeOK
<1> DEFINE u == Head(pending)
<1>1. CASE Wake \/ EndDrain
  BY <1>1 DEF Wake, EndDrain
<1>2. CASE NotLoaded \/ LoadedRooms \/ StatusUpdate \/ RoomOrderUpdate \/ ApplyFilter
  <2>1. /\ u.op \in {"NotLoaded", "LoadedRooms", "Status", "RoomOrderUpdate", "ApplyFilter"}
        /\ pending # <<>> /\ pending' = Tail(pending) /\ UNCHANGED <<joined, invited>>
    BY <1>2 DEF NotLoaded, LoadedRooms, StatusUpdate, RoomOrderUpdate, ApplyFilter, Pop
  <2>2. \A p : ~Confirms(u, p)
    BY <2>1 DEF Confirms, Sets
  <2>3. Held' = Held
    BY <2>1 DEF Held
  <2> QED BY <2>1, <2>2, <2>3 DEF Tells
<1>3. CASE AddInvitedRoom
  <2>1. /\ u.room \in Room /\ u.op = "AddInvitedRoom" /\ ShownInfo(u.info) # None
    BY <1>0, <1>3, PopType, UpdateFields, ShownInfoType, ConstantsType DEF AddInvitedRoom
  <2>2. /\ pending # <<>> /\ pending' = Tail(pending) /\ UNCHANGED joined
        /\ invited' = [invited EXCEPT ![u.room] = ShownInfo(u.info)]
    BY <1>3 DEF AddInvitedRoom, Pop
  <2> HIDE DEF u
  <2>3. ASSUME NEW p \in Fact, Confirms(u, p) \/ (p \in Held /\ ~Refutes(u, p))
        PROVE  p \in Held'
    <3>1. Confirms(u, p) => p.about = "invite" /\ p.room = u.room
      BY <2>1 DEF Confirms, Sets
    <3>2. invited'[p.room] = IF p.room = u.room THEN ShownInfo(u.info) ELSE invited[p.room]
      BY <1>0, <2>2, HeldCases
    <3> QED BY <2>1, <2>2, <2>3, <3>1, <3>2, HeldCases
  <2> QED BY <2>2, <2>3 DEF Tells, u
<1>4. CASE AddJoinedRoom
  <2>1. /\ u.room \in Room /\ u.op = "AddJoinedRoom" /\ ShownInfo(u.info) # None
    BY <1>0, <1>4, PopType, UpdateFields, ShownInfoType, ConstantsType DEF AddJoinedRoom
  <2>2. /\ pending # <<>> /\ pending' = Tail(pending)
        /\ joined' = [joined EXCEPT ![u.room] = ShownInfo(u.info)]
        /\ invited' = [invited EXCEPT ![u.room] = None]
    BY <1>4 DEF AddJoinedRoom, Pop
  <2> HIDE DEF u
  <2>3. ASSUME NEW p \in Fact, Confirms(u, p) \/ (p \in Held /\ ~Refutes(u, p))
        PROVE  p \in Held'
    <3>1. /\ p.about = "invite" => ~Confirms(u, p) /\ (Refutes(u, p) <=> p.room = u.room)
          /\ p.about # "invite" /\ p.room = u.room => /\ Confirms(u, p) <=> ValueOf(u.info, p.about) = p.value
                                                     /\ Refutes(u, p) <=> ValueOf(u.info, p.about) # p.value
          /\ p.about # "invite" /\ p.room # u.room => ~Confirms(u, p)
      BY <2>1 DEF Confirms, Refutes, Sets, SetTo
    <3>2. /\ invited'[p.room] = IF p.room = u.room THEN None ELSE invited[p.room]
          /\ joined'[p.room] = IF p.room = u.room THEN ShownInfo(u.info) ELSE joined[p.room]
      BY <1>0, <2>2, HeldCases
    <3>3. p.about # "invite" => ValueOf(ShownInfo(u.info), p.about) = ValueOf(u.info, p.about)
      BY HeldCases, ShownValue
    <3>4. CASE p.about = "invite"
      BY <2>3, <3>1, <3>2, <3>4, HeldCases
    <3>5. CASE p.about # "invite" /\ p.room = u.room
      BY <2>1, <2>3, <3>1, <3>2, <3>3, <3>5, HeldCases
    <3>6. CASE p.about # "invite" /\ p.room # u.room
      BY <2>3, <3>1, <3>2, <3>6, HeldCases
    <3> QED BY <3>4, <3>5, <3>6
  <2> QED BY <2>2, <2>3 DEF Tells, u
<1>5. CASE UpdateRoomName
  <2>1. Pop("UpdateRoomName") /\ u.room \in Room
    BY <1>0, <1>5, PopType, UpdateFields DEF UpdateRoomName
  <2>2. \/ /\ joined[u.room] # None
           /\ joined' = [joined EXCEPT ![u.room] = [joined[u.room] EXCEPT !.name = u.value]]
        \/ joined[u.room] = None /\ UNCHANGED joined
    BY <1>5 DEF UpdateRoomName
  <2>3. \A r \in Room : invited[r] # None => invited'[r] # None
    <3>1. \/ UNCHANGED invited
          \/ /\ invited[u.room] # None
             /\ invited' = [invited EXCEPT ![u.room] = [invited[u.room] EXCEPT !.name = u.value]]
      BY <1>5 DEF UpdateRoomName
    <3>2. u.value \in Data
      BY <1>0, <1>5, PopType, UpdateFields DEF UpdateRoomName
    <3>3. invited[u.room] # None => [invited[u.room] EXCEPT !.name = u.value] \in Shown
      BY <1>0, <2>1, <3>2, ShownWithField
    <3> HIDE DEF u
    <3> QED BY <1>0, <2>1, <3>1, <3>3, ConstantsType
  <2> QED BY <1>0, <2>1, <2>2, <2>3, FieldTells
<1>6. CASE UpdateRoomAvatar
  <2>1. Pop("UpdateRoomAvatar") /\ UNCHANGED invited
    BY <1>6 DEF UpdateRoomAvatar
  <2>2. \/ /\ joined[u.room] # None
           /\ joined' = [joined EXCEPT ![u.room] = [joined[u.room] EXCEPT !.avatar = u.value]]
        \/ joined[u.room] = None /\ UNCHANGED joined
    BY <1>6 DEF UpdateRoomAvatar
  <2> QED BY <1>0, <2>1, <2>2, FieldTells
<1>7. CASE UpdateIsDirect
  <2>1. Pop("UpdateIsDirect") /\ UNCHANGED invited
    BY <1>7 DEF UpdateIsDirect
  <2>2. \/ /\ joined[u.room] # None
           /\ joined' = [joined EXCEPT ![u.room] = [joined[u.room] EXCEPT !.direct = u.direct]]
        \/ joined[u.room] = None /\ UNCHANGED joined
        \/ ValueOf(joined[u.room], "direct") = u.direct /\ UNCHANGED joined
    BY <1>7 DEF UpdateIsDirect, ValueOf
  <2> QED BY <1>0, <2>1, <2>2, FieldTells
<1>8. CASE RemoveRoomUpdate
  <2>1. u.room \in Room /\ u.op = "RemoveRoom"
    BY <1>0, <1>8, PopType, UpdateFields DEF RemoveRoomUpdate
  <2>2. /\ pending # <<>> /\ pending' = Tail(pending)
        /\ joined' = [joined EXCEPT ![u.room] = None] \/ UNCHANGED joined
        /\ invited' = [invited EXCEPT ![u.room] = None] \/ UNCHANGED invited
    BY <1>8 DEF RemoveRoomUpdate, Pop
  <2> HIDE DEF u
  <2>3. ASSUME NEW p \in Fact, Confirms(u, p) \/ (p \in Held /\ ~Refutes(u, p))
        PROVE  p \in Held'
    <3>1. ~Confirms(u, p) /\ (p.about = "invite" => (Refutes(u, p) <=> p.room = u.room))
      BY <2>1 DEF Confirms, Refutes, Sets
    <3>2. /\ p.room # u.room => invited'[p.room] = invited[p.room]
          /\ joined'[p.room] \in {None, joined[p.room]}
      BY <1>0, <2>2, HeldCases
    <3> QED BY <2>3, <3>1, <3>2, HeldCases
  <2> QED BY <2>2, <2>3 DEF Tells, u
<1>9. CASE ClearRooms
  <2>1. /\ pending # <<>> /\ pending' = Tail(pending) /\ u.op = "ClearRooms"
        /\ joined' = [r \in Room |-> None]
    BY <1>9 DEF ClearRooms, Pop
  <2>2. ASSUME NEW p \in Fact, Confirms(u, p) \/ (p \in Held /\ ~Refutes(u, p))
        PROVE  p \in Held'
    <3>1. ~Confirms(u, p) /\ (p.about = "invite" => Refutes(u, p))
      BY <2>1 DEF Confirms, Refutes, Sets
    <3>2. joined'[p.room] = None
      BY <2>1, HeldCases
    <3> QED BY <2>2, <3>1, <3>2, HeldCases
  <2> QED BY <2>1, <2>2 DEF Tells
<1> QED BY <1>1, <1>2, <1>3, <1>4, <1>5, <1>6, <1>7, <1>8, <1>9 DEF UiNext

----------------------------------------------------------------------------

(* Facts that are drained are facts. *)
LEMMA DrainedFacts == FactsDrained \subseteq Fact
BY DEF FactsDrained

(* Draining an update makes nothing false that was to be true in the end. *)
LEMMA TellsKeepsFacts ==
    ASSUME Queues, Tells
    PROVE  FactsDrained \subseteq FactsDrained'
<1>1. pending \in Seq(RoomsListUpdate) /\ pending # <<>> /\ pending' = Tail(pending)
  BY DEF Queues, Tells
<1>2. Head(pending) \in RoomsListUpdate
  BY <1>1, TailOf
<1> DEFINE u == Head(pending)
<1>3. ASSUME NEW p \in Fact, Outcome(p \in Held, pending, Confirming(p), Refuting(p))
      PROVE  Outcome(p \in Held', pending', Confirming(p), Refuting(p))
  <2> DEFINE C == Confirming(p)
             R == Refuting(p)
             X == Held
             Y == {q \in Fact : Confirms(u, q) \/ (q \in Held /\ ~Refutes(u, q))}
             Z == Held'
  <2>1. Confirms(u, p) <=> u \in C
    BY <1>2 DEF Confirming
  <2>2. Refutes(u, p) <=> u \in R
    BY <1>2 DEF Refuting
  <2>3. p \in Y <=> Head(pending) \in C \/ (p \in X /\ Head(pending) \notin R)
    BY <2>1, <2>2
  <2>4. p \in Y => p \in Z
    BY DEF Tells
  <2>5. C \cap R = {}
    BY ConfirmOrRefute
  <2>6. Outcome(p \in X, pending, C, R)
    BY <1>3
  <2> HIDE DEF C, R, X, Y, Z
  <2>7. Outcome(p \in Y, Tail(pending), C, R) <=> Outcome(p \in X, pending, C, R)
    BY <1>1, <2>3, <2>5, OutcomeOfTail
  <2>8. Outcome(p \in Y, Tail(pending), C, R) => Outcome(p \in Z, Tail(pending), C, R)
    BY <2>4 DEF Outcome
  <2>9. Outcome(p \in Z, pending', C, R)
    BY <1>1, <2>6, <2>7, <2>8
  <2> QED BY <2>9 DEF C, R, Z
<1>4. FactsDrained' = {p \in Fact : Outcome(p \in Held', pending', Confirming(p), Refuting(p))}
  BY DEF FactsDrained, Outcome
<1> QED BY <1>3, <1>4 DEF FactsDrained

(* What an update that is enqueued makes true and false in the end. *)
LEMMA EnqueueTells ==
    ASSUME Queues, NEW u \in RoomsListUpdate, pending' = Append(pending, u), UNCHANGED <<joined, invited>>,
           NEW p \in Fact
    PROVE  p \in FactsDrained' <=> Confirms(u, p) \/ (p \in FactsDrained /\ ~Refutes(u, p))
<1> DEFINE C == Confirming(p)
           R == Refuting(p)
           X == Held
<1>1. Held' = Held
  BY DEF Held
<1>2. FactsDrained' = {q \in Fact : Outcome(q \in Held', pending', Confirming(q), Refuting(q))}
  BY DEF FactsDrained, Outcome
<1>3. p \in FactsDrained' <=> Outcome(p \in X, Append(pending, u), C, R)
  BY <1>1, <1>2
<1>4. p \in FactsDrained <=> Outcome(p \in X, pending, C, R)
  BY DEF FactsDrained
<1>5. (Confirms(u, p) <=> u \in C) /\ (Refutes(u, p) <=> u \in R)
  BY DEF Confirming, Refuting
<1>6. pending \in Seq(RoomsListUpdate)
  BY DEF Queues
<1> HIDE DEF C, R, X
<1>7. Outcome(p \in X, Append(pending, u), C, R)
        <=> u \in C \/ (Outcome(p \in X, pending, C, R) /\ u \notin R)
  BY ONLY <1>6, u \in RoomsListUpdate, OutcomeOfAppend
<1> QED BY <1>3, <1>4, <1>5, <1>7

(* What is to be true depends on nothing else. *)
LEMMA SameFacts ==
    ASSUME UNCHANGED <<joined, invited, pending>>
    PROVE  FactsDrained' = FactsDrained
BY DEF FactsDrained, Held, Outcome

(* The updates of the other producers change none of it. *)
LEMMA ForeignKeepsFacts ==
    ASSUME Queues, NEW u \in RoomsListUpdate, Foreign(u), Enqueue(u), UNCHANGED <<joined, invited>>
    PROVE  FactsDrained' = FactsDrained
<1>1. \A p : ~Confirms(u, p) /\ ~Refutes(u, p)
  BY DEF Confirms, Refutes, Sets, Foreign
<1>2. \A p \in Fact : p \in FactsDrained' <=> p \in FactsDrained
  BY <1>1, EnqueueTells DEF Enqueue
<1>3. FactsDrained' = {q \in Fact : Outcome(q \in Held', pending', Confirming(q), Refuting(q))}
  BY DEF FactsDrained, Outcome
<1> QED BY <1>2, <1>3 DEF FactsDrained

(* Performing an effect changes neither the facts nor the details that the *)
(* handler leaves behind.                                                  *)
LEMMA EffectKeepsFacts ==
    ASSUME Queues, RunEffect, UNCHANGED <<joined, invited>>
    PROVE  /\ FactsAfter(FactsDrained', todo') = FactsAfter(FactsDrained, todo)
           /\ DetailsAfter(details', todo') = DetailsAfter(details, todo)
<1> DEFINE e == Head(todo)
<1>1. /\ todo \in Seq(Effect) /\ todo # <<>> /\ todo' = Tail(todo) /\ e \in Effect
      /\ \/ e.do # "enqueue" /\ UNCHANGED pending
         \/ e.do = "enqueue" /\ e.update \in RoomsListUpdate /\ pending' = Append(pending, e.update)
  <2>1. todo \in Seq(Effect) /\ todo # <<>> /\ todo' = Tail(todo) /\ Head(todo) = todo[1]
    BY TailOf DEF Queues, RunEffect
  <2> QED BY <2>1, RunEffectCases
<1> HIDE DEF e
<1>2. ASSUME NEW p \in Fact
      PROVE  Outcome(p \in FactsDrained', todo', SendsConfirming(p), SendsRefuting(p))
               <=> Outcome(p \in FactsDrained, todo, SendsConfirming(p), SendsRefuting(p))
  <2> DEFINE C == SendsConfirming(p)
             R == SendsRefuting(p)
             X == FactsDrained
             Y == FactsDrained'
  <2>1. /\ e \in C <=> e.do = "enqueue" /\ Confirms(e.update, p)
        /\ e \in R <=> e.do = "enqueue" /\ Refutes(e.update, p)
    BY <1>1 DEF SendsConfirming, SendsRefuting
  <2>2. p \in Y <=> e \in C \/ (p \in X /\ e \notin R)
    <3>1. CASE e.do # "enqueue" /\ UNCHANGED pending
      BY <2>1, <3>1, SameFacts
    <3>2. CASE e.do = "enqueue" /\ e.update \in RoomsListUpdate /\ pending' = Append(pending, e.update)
      BY <2>1, <3>2, EnqueueTells
    <3> QED BY <1>1, <3>1, <3>2
  <2>3. C \cap R = {}
    BY ConfirmOrRefute
  <2> HIDE DEF C, R, X, Y
  <2>4. Outcome(p \in Y, Tail(todo), C, R) <=> Outcome(p \in X, todo, C, R)
    BY <1>1, <2>2, <2>3, OutcomeOfTail DEF e
  <2> QED BY <1>1, <2>4 DEF C, R, X, Y
<1>3. ASSUME NEW r \in Room
      PROVE  Outcome(r \in details', todo', Inserting(r), Tearing(r))
               <=> Outcome(r \in details, todo, Inserting(r), Tearing(r))
  <2> DEFINE D == details'
  <2>1. r \in D <=> Head(todo) \in Inserting(r) \/ (r \in details /\ Head(todo) \notin Tearing(r))
    BY EffectOnDetails
  <2> HIDE DEF D
  <2>2. Outcome(r \in D, Tail(todo), Inserting(r), Tearing(r))
          <=> Outcome(r \in details, todo, Inserting(r), Tearing(r))
    BY <1>1, <2>1, ShowOrRemove, OutcomeOfTail
  <2> QED BY <1>1, <2>2 DEF D
<1> QED BY <1>2, <1>3 DEF FactsAfter, DetailsAfter

----------------------------------------------------------------------------

LEMMA DealtWithType ==
    ASSUME SyncInv
    PROVE  DealtWith \subseteq Entry
<1>1. known \in Seq(Entry) /\ \A i \in DOMAIN incoming : incoming[i] \in Entry
  BY DEF SyncInv, SyncTypeOK
<1> QED BY <1>1, EntriesOf DEF DealtWith

(* Between two handlers nothing is left to do for the entries. *)
LEMMA FulfilledNow ==
    ASSUME NEW gone, SyncInv, FactsInv(gone), todo = <<>>, phase # "failed", NEW e \in DealtWith
    PROVE  FulfilledBy(gone, e, details, FactsDrained) /\ e \in Entry
<1>1. details \in SUBSET Room
  BY DEF SyncInv, SyncTypeOK
<1>2. DetailsAfter(details, <<>>) = details /\ FactsAfter(FactsDrained, <<>>) = FactsDrained
  BY <1>1, ProperEmpty, DrainedFacts, FactsNone
<1> QED BY <1>2, DealtWithType DEF FactsInv, Fulfilled

(* A handler starts: its effects concern only the rooms in R, and fulfil   *)
(* what is then dealt with of these rooms.                                 *)
LEMMA StartKeepsFacts ==
    ASSUME NEW gone, SyncInv, FactsInv(gone), todo = <<>>, phase # "failed", UNCHANGED <<details, pending, joined, invited>>,
           todo' \in Seq(Effect), NEW R, Within(todo', R),
           \A e \in DealtWith' :
             \/ e \in DealtWith /\ e.room \notin R
             \/ FulfilledBy(gone, e, DetailsAfter(details, todo'), FactsAfter(FactsDrained, todo'))
    PROVE  FactsInv(gone)'
<1>1. FactsDrained' = FactsDrained
  BY SameFacts
<1>2. \A e \in DealtWith' : FulfilledBy(gone, e, DetailsAfter(details, todo'), FactsAfter(FactsDrained, todo'))
  BY FulfilledNow, OthersFulfilled
<1>3. \A e \in DealtWith' : FulfilledBy(gone, e, DetailsAfter(details', todo'), FactsAfter(FactsDrained', todo'))
  BY <1>1, <1>2
<1> QED BY <1>3 DEF FactsInv, Fulfilled

(* A step that leaves nothing more to deal with, and does nothing yet. *)
LEMMA NothingKeepsFacts ==
    ASSUME NEW gone, SyncInv, FactsInv(gone), todo = <<>>, todo' = <<>>, phase # "failed",
           UNCHANGED <<details, pending, joined, invited>>, DealtWith' \subseteq DealtWith
    PROVE  FactsInv(gone)'
<1>1. todo' \in Seq(Effect) /\ Within(todo', {})
  BY WithinNone
<1> QED BY <1>1, StartKeepsFacts

(* One that only sends an order diff. *)
LEMMA OrderKeepsFacts ==
    ASSUME NEW gone, SyncInv, FactsInv(gone), todo = <<>>, phase # "failed", NEW diff \in VecDiff, todo' = <<SendOrder(diff)>>,
           UNCHANGED <<details, pending, joined, invited>>, DealtWith' \subseteq DealtWith
    PROVE  FactsInv(gone)'
<1>1. todo' \in Seq(Effect) /\ Within(todo', {})
  BY SendOrderType, WithinOrder
<1> QED BY <1>1, StartKeepsFacts

(* Order diffs around a list of effects change no facts. *)
LEMMA FactsAround ==
    ASSUME NEW u \in Seq(Effect), NEW s, Around(s, u), NEW R, Within(u, R)
    PROVE  /\ Within(s, R)
           /\ \A facts \in SUBSET Fact : FactsAfter(facts, s) = FactsAfter(facts, u)
<1> DEFINE Same(v, w) == /\ v \in Seq(Effect) /\ Within(v, R)
                         /\ \A facts \in SUBSET Fact : FactsAfter(facts, v) = FactsAfter(facts, w)
<1>1. ASSUME NEW v \in Seq(Effect), Within(v, R), NEW diff \in VecDiff
      PROVE  Same(v \o <<SendOrder(diff)>>, v) /\ Same(<<SendOrder(diff)>> \o v, v)
  <2> DEFINE o == <<SendOrder(diff)>>
  <2>1. o \in Seq(Effect) /\ Within(o, R) /\ Within(o, {})
    BY SendOrderType, WithinOrder
  <2> HIDE DEF o
  <2>2. v \o o \in Seq(Effect) /\ o \o v \in Seq(Effect)
    BY <2>1, ConcatProperties
  <2>3. Within(v \o o, R) /\ Within(o \o v, R)
    BY <1>1, <2>1, WithinConcat
  <2>4. \A facts \in SUBSET Fact : FactsAfter(facts, o) = facts
    <3>1. \A facts \in SUBSET Fact, p \in Fact : p \in FactsAfter(facts, o) <=> p \in facts
      BY <2>1, WithinKeeps
    <3> QED BY <3>1 DEF FactsAfter
  <2>5. \A facts \in SUBSET Fact : /\ FactsAfter(facts, v \o o) = FactsAfter(FactsAfter(facts, v), o)
                                   /\ FactsAfter(facts, o \o v) = FactsAfter(FactsAfter(facts, o), v)
                                   /\ FactsAfter(facts, v) \in SUBSET Fact
    BY <2>1, FactsConcat DEF FactsAfter
  <2> QED BY <2>2, <2>3, <2>4, <2>5 DEF o
<1>2. Same(u, u) /\ \A v, w, x : Same(v, w) /\ Same(w, x) => Same(v, x)
  OBVIOUS
<1>3. \A v, w : Same(v, w) => v \in Seq(Effect) /\ Within(v, R)
  OBVIOUS
<1> HIDE DEF Same
<1>4. Same(s, u)
  <2>1. ASSUME NEW d \in VecDiff, NEW a \in VecDiff
        PROVE  Same(<<SendOrder(d)>> \o u \o <<SendOrder(a)>>, u)
    <3> DEFINE first == <<SendOrder(d)>> \o u
    <3>1. Same(first, u)
      BY <1>1
    <3> HIDE DEF first
    <3>2. Same(first \o <<SendOrder(a)>>, first)
      BY <1>1, <1>3, <3>1
    <3>3. Same(first \o <<SendOrder(a)>>, u)
      BY <1>2, <3>1, <3>2
    <3> QED BY <3>3 DEF first
  <2>2. \A d \in VecDiff : Same(u \o <<SendOrder(d)>>, u) /\ Same(<<SendOrder(d)>> \o u, u)
    BY <1>1
  <2>3. CASE s = u
    BY <1>2, <2>3
  <2>4. CASE \E d \in VecDiff : s = u \o <<SendOrder(d)>> \/ s = <<SendOrder(d)>> \o u
    BY <2>2, <2>4
  <2>5. CASE \E d, a \in VecDiff : s = <<SendOrder(d)>> \o u \o <<SendOrder(a)>>
    BY <2>1, <2>5
  <2> QED BY <2>3, <2>4, <2>5 DEF Around
<1> QED BY <1>4 DEF Same

(* Where a diff is taken. *)
LEMMA FactsAtRest ==
    ASSUME NEW gone, SyncInv, KnownInv, FactsInv(gone), NEW kind, TakeDiff(kind)
    PROVE  /\ DealtWith = ToSet(known)
           /\ \A e \in ToSet(known) : /\ e \in Entry /\ e.room \in ToSet(svc)
                                      /\ FulfilledBy(gone, e, details, FactsDrained)
<1>1. phase = "idle" /\ todo = <<>> /\ Ids(known) = svc /\ known \in Seq(Entry)
  BY KnownAtRest
<1>2. DealtWith = ToSet(known)
  BY <1>1 DEF DealtWith
<1> QED BY <1>1, <1>2, EntriesOf, FulfilledNow

(* The diffs that concern one room. *)
LEMMA OneRoomFacts ==
    ASSUME NEW gone, "Joined" \notin gone, Departs(gone),
           SyncInv, KnownInv, FactsInv(gone), OneRoomDiff, UNCHANGED <<joined, invited>>
    PROVE  FactsInv(gone)'
<1>1. /\ phase = "idle" /\ todo = <<>> /\ UNCHANGED <<details, pending>>
      /\ details \in SUBSET Room /\ details \subseteq ToSet(svc)
  BY OneRoomDiffDoes, KnownAtRest
<1>2. /\ DealtWith = ToSet(known)
      /\ \A e \in ToSet(known) : FulfilledBy(gone, e, details, FactsDrained)
  BY OneRoomDiffDoes, FactsAtRest
<1>3. ASSUME NEW u, NEW R, NEW N, Resettled(u, R, N), Within(u, R),
             \A e \in N : FulfilledBy(gone, e, DetailsAfter(details, u), FactsAfter(FactsDrained, u))
      PROVE  FactsInv(gone)'
  <2>1. DealtWith' = ToSet(known')
    BY <1>3 DEF Resettled, DealtWith
  <2>2. /\ todo' \in Seq(Effect) /\ Within(todo', R)
        /\ DetailsAfter(details, todo') = DetailsAfter(details, u)
        /\ FactsAfter(FactsDrained, todo') = FactsAfter(FactsDrained, u)
    BY <1>1, <1>3, DrainedFacts, AroundKeeps, FactsAround DEF Resettled
  <2> QED BY <1>1, <1>2, <1>3, <2>1, <2>2, StartKeepsFacts DEF Resettled
<1>4. CASE GivesUp
  BY <1>4 DEF GivesUp, FactsInv
<1>5. ASSUME NEW new \in Entry, Added(new)
      PROVE  FactsInv(gone)'
  <2>1. FulfilledBy(gone, new, DetailsAfter(details, AddNewRoom(new)), FactsAfter(FactsDrained, AddNewRoom(new)))
    BY <1>1, <1>5, AddNewRoomFulfils DEF Added
  <2> QED BY <1>3, <1>5, <2>1, WithinAddNewRoom DEF Added
<1>6. ASSUME NEW r \in Room, Dropped(r)
      PROVE  FactsInv(gone)'
  BY <1>3, <1>6, WithinRemoveRoom DEF Dropped
<1>7. ASSUME NEW old \in Entry, NEW new \in Entry, Updated(old, new)
      PROVE  FactsInv(gone)'
  <2>1. FulfilledBy(gone, new, DetailsAfter(details, UpdateRoom(old, new)), FactsAfter(FactsDrained, UpdateRoom(old, new)))
    <3>1. old \in ToSet(known) /\ new \in ToSet(known') /\ (new.room # old.room => new.room \notin ToSet(svc))
      BY <1>7 DEF Updated, Resettled
    <3>2. old.room = new.room /\ new.info.state \in gone \ Departed => old.info.state \in gone
      BY <3>1 DEF Departs
    <3> QED BY <1>1, <1>2, <3>1, <3>2, DrainedFacts, UpdateRoomFulfils
  <2> QED BY <1>3, <1>7, <2>1, WithinUpdateRoom DEF Updated
<1> QED BY <1>4, <1>5, <1>6, <1>7, OneRoomChanges

(* One pass of the loops of Reset and Truncate. *)
LEMMA PopAndRemoveFacts ==
    ASSUME NEW gone, SyncInv, KnownInv, FactsInv(gone), UNCHANGED <<joined, invited>>, known # <<>>, todo = <<>>,
           phase \in {"resetting", "truncating"}, PopAndRemove
    PROVE  FactsInv(gone)'
<1> DEFINE n == Len(known)
           r == known[n].room
           ids == Ids(known)
<1>1. /\ IsInjective(ids) /\ known \in Seq(Entry)
  BY DEF KnownInv, SyncInv, SyncTypeOK
<1>2. n \in 1..Len(known) /\ n \in 1..Len(ids) /\ ids \in Seq(Room) /\ ids[n] = r /\ r \in Room
  <2>1. n \in 1..Len(known)
    BY <1>1
  <2> QED BY <1>1, <2>1, IdsOf
<1>3. known' = RemoveAt(known, n) /\ todo' = RemoveRoom(r) /\ UNCHANGED <<details, phase, pending>>
  <2>1. Front(known) = RemoveAt(known, n)
    BY <1>1, PopIsRemove
  <2> QED BY <2>1 DEF PopAndRemove, Last
<1> HIDE DEF n
<1>4. /\ Ids(known') = RemoveAt(ids, n) /\ known' \in Seq(Entry) /\ ToSet(known') \subseteq ToSet(known)
  BY <1>1, <1>2, <1>3, IdsRemoveAt, RemoveAtType, RemoveAtKeeps
<1> HIDE DEF ids, r
<1>5. r \notin ToSet(Ids(known'))
  BY <1>1, <1>2, <1>4, RemoveAtKeeps
<1>6. \A e \in ToSet(known') : e.room \notin {r}
  BY <1>4, <1>5, EntriesOf
<1>7. DealtWith' = ToSet(known') /\ DealtWith = ToSet(known)
  BY <1>3 DEF DealtWith
<1>8. todo' \in Seq(Effect) /\ Within(todo', {r})
  BY <1>2, <1>3, RemoveRoomType, WithinRemoveRoom
<1> QED BY <1>3, <1>4, <1>6, <1>7, <1>8, StartKeepsFacts

(* What comes in is new: no known room, and none that was added before.    *)
LEMMA IncomingIsNew ==
    ASSUME SyncInv, KnownInv, phase = "adding", todo = <<>>, NEW i \in toAdd
    PROVE  /\ incoming[i] \in Entry /\ incoming[i].room \notin details
           /\ \A e \in DealtWith : e.room # incoming[i].room
<1> DEFINE new == incoming[i]
<1>1. /\ details \in SUBSET Room /\ i \in DOMAIN incoming /\ new \in Entry
      /\ known \in Seq(Entry) /\ incoming \in Seq(Entry)
  BY DEF SyncInv, SyncTypeOK
<1>2. IsInjective(Ids(known) \o Ids(incoming)) /\ details \subseteq Accounted
  <2>1. DetailsAfter(details, <<>>) = details
    BY <1>1, ProperEmpty
  <2> QED BY <2>1 DEF KnownInv
<1> DEFINE a == Ids(known)
           b == Ids(incoming)
<1>3. /\ a \in Seq(Room) /\ b \in Seq(Room)
      /\ \A m \in DOMAIN incoming : m \in DOMAIN b /\ b[m] = incoming[m].room
  BY <1>1, IdsOf, DomainOf
<1>4. \A x, y \in DOMAIN b : b[x] = b[y] => x = y
  <2> HIDE DEF a, b
  <2> SUFFICES ASSUME NEW x \in DOMAIN b, NEW y \in DOMAIN b, b[x] = b[y] PROVE x = y
    OBVIOUS
  <2>1. /\ a \o b \in Seq(Room) /\ Len(a \o b) = Len(a) + Len(b) /\ Len(a) \in Nat /\ Len(b) \in Nat
        /\ \A m \in 1..Len(b) : (a \o b)[Len(a) + m] = b[m]
    BY <1>3, ConcatOf
  <2>2. DOMAIN b = 1..Len(b) /\ DOMAIN (a \o b) = 1..Len(a) + Len(b)
    BY <1>3, <2>1
  <2> DEFINE ab == a \o b
  <2> HIDE DEF ab
  <2>3. /\ Len(a) + x \in DOMAIN ab /\ Len(a) + y \in DOMAIN ab
        /\ ab[Len(a) + x] = b[x] /\ ab[Len(a) + y] = b[y]
    BY <2>1, <2>2 DEF ab
  <2>4. Len(a) + x = Len(a) + y
    BY <1>2, <2>3 DEF IsInjective, a, b, ab
  <2> QED BY <2>1, <2>2, <2>4
<1>5. \A m \in DOMAIN b : b[m] \notin ToSet(a)
  <2> HIDE DEF a, b
  <2> SUFFICES ASSUME NEW m \in DOMAIN b, NEW x \in DOMAIN a, b[m] = a[x] PROVE FALSE
    BY DEF ToSet
  <2>1. /\ a \o b \in Seq(Room) /\ Len(a \o b) = Len(a) + Len(b) /\ Len(a) \in Nat /\ Len(b) \in Nat
        /\ \A l \in 1..Len(b) : (a \o b)[Len(a) + l] = b[l]
        /\ \A l \in 1..Len(a) : (a \o b)[l] = a[l]
    BY <1>3, ConcatOf
  <2>2. DOMAIN a = 1..Len(a) /\ DOMAIN b = 1..Len(b) /\ DOMAIN (a \o b) = 1..Len(a) + Len(b)
    BY <1>3, <2>1
  <2> DEFINE ab == a \o b
  <2> HIDE DEF ab
  <2>3. /\ Len(a) + m \in DOMAIN ab /\ x \in DOMAIN ab
        /\ ab[Len(a) + m] = b[m] /\ ab[x] = a[x]
    BY <2>1, <2>2 DEF ab
  <2>4. Len(a) + m = x
    BY <1>2, <2>3 DEF IsInjective, a, b, ab
  <2> QED BY <2>1, <2>2, <2>4
<1>6. \A e \in DealtWith : e.room # new.room
  <2>1. \A e \in ToSet(known) : e.room \in ToSet(a)
    BY <1>1, EntriesOf
  <2>2. \A m \in (DOMAIN incoming) \ toAdd : incoming[m].room # new.room
    <3> TAKE m \in (DOMAIN incoming) \ toAdd
    <3>1. m \in DOMAIN b /\ i \in DOMAIN b /\ b[m] = incoming[m].room /\ b[i] = new.room /\ m # i
      BY <1>1, <1>3
    <3> HIDE DEF b, new
    <3> QED BY <1>4, <3>1
  <2>3. new.room \notin ToSet(a)
    <3>1. i \in DOMAIN b /\ b[i] = new.room
      BY <1>1, <1>3
    <3> HIDE DEF a, b, new
    <3> QED BY <1>5, <3>1
  <2>4. DealtWith = ToSet(known) \cup {incoming[m] : m \in (DOMAIN incoming) \ toAdd}
    BY DEF DealtWith
  <2> HIDE DEF a, new
  <2> QED BY <2>1, <2>2, <2>3, <2>4
<1>7. new.room \notin details
  <2>1. \A r \in Accounted : \E e \in DealtWith : e.room = r
    <3>1. \A r \in ToSet(a) : \E e \in ToSet(known) : e.room = r
      <4>1. \A m \in DOMAIN a : m \in DOMAIN known /\ a[m] = known[m].room
        BY <1>1, IdsOf, DomainOf
      <4> QED BY <4>1 DEF ToSet
    <3> QED BY <3>1 DEF Accounted, DealtWith
  <2> QED BY <1>2, <1>6, <2>1
<1> QED BY <1>1, <1>6, <1>7

(* add_new_room of a room that has come in; its future may have failed. *)
LEMMA AddIncomingFacts ==
    ASSUME NEW gone, "Joined" \notin gone, SyncInv, KnownInv, FactsInv(gone), UNCHANGED <<joined, invited>>,
           NEW i \in toAdd, NEW built \in BOOLEAN, AddIncoming(i, built)
    PROVE  FactsInv(gone)'
<1> DEFINE new == incoming[i]
<1>1. /\ phase = "adding" /\ todo = <<>> /\ toAdd' = toAdd \ {i}
      /\ UNCHANGED <<known, details, phase, incoming, pending>>
      /\ \/ todo' = <<>> /\ new.info.state = "Joined"
         \/ todo' = AddNewRoom(new)
  BY DEF AddIncoming, AddFails
<1>2. /\ new \in Entry /\ new.room \notin details /\ details \in SUBSET Room /\ i \in DOMAIN incoming
      /\ \A e \in DealtWith : e.room # new.room
  BY <1>1, IncomingIsNew DEF SyncInv, SyncTypeOK
<1>3. DealtWith' \subseteq DealtWith \cup {new}
  BY <1>1, <1>2 DEF DealtWith
<1> HIDE DEF new
<1>4. CASE todo' = <<>> /\ new.info.state = "Joined"
  <2>1. todo' \in Seq(Effect) /\ Within(todo', {})
    BY <1>4, WithinNone
  <2>2. DetailsAfter(details, todo') = details
    BY <1>2, <1>4, ProperEmpty
  <2>3. FulfilledBy(gone, new, DetailsAfter(details, todo'), FactsAfter(FactsDrained, todo'))
    BY <1>2, <1>4, <2>2 DEF FulfilledBy
  <2> QED BY <1>1, <1>3, <2>1, <2>3, StartKeepsFacts
<1>5. CASE todo' = AddNewRoom(new)
  <2>1. todo' \in Seq(Effect) /\ Within(todo', {new.room})
    BY <1>2, <1>5, AddNewRoomType, WithinAddNewRoom
  <2>2. FulfilledBy(gone, new, DetailsAfter(details, todo'), FactsAfter(FactsDrained, todo'))
    BY <1>2, <1>5, AddNewRoomFulfils
  <2> QED BY <1>1, <1>2, <1>3, <2>1, <2>2, StartKeepsFacts
<1> QED BY <1>1, <1>4, <1>5

(* All of them are added. *)
LEMMA AllAddedFacts ==
    ASSUME NEW gone, SyncInv, FactsInv(gone), UNCHANGED <<joined, invited>>, AllAdded
    PROVE  FactsInv(gone)'
<1> DEFINE condition == incoming # <<>>
           diff == [diff |-> "Append", values |-> Ids(incoming)]
<1>1. /\ phase = "adding" /\ todo = <<>> /\ toAdd = {} /\ phase' = "idle"
      /\ known' = known \o incoming /\ UNCHANGED <<details, pending>>
      /\ todo' = When(condition, SendOrder(diff))
  BY DEF AllAdded
<1>2. known \in Seq(Entry) /\ incoming \in Seq(Entry)
  BY DEF SyncInv, SyncTypeOK
<1>3. DealtWith' \subseteq DealtWith
  <2>1. ToSet(known') = ToSet(known) \cup ToSet(incoming)
    BY <1>1, <1>2, ConcatKeeps
  <2> QED BY <1>1, <2>1 DEF DealtWith, ToSet
<1>4. diff \in VecDiff
  <2>1. Ids(incoming) \in Seq(Room)
    BY <1>2, IdsOf
  <2> QED BY <2>1 DEF VecDiff
<1> HIDE DEF condition, diff
<1>5. todo' = <<>> \/ todo' = <<SendOrder(diff)>>
  BY <1>1 DEF When
<1> QED BY <1>1, <1>3, <1>4, <1>5, NothingKeepsFacts, OrderKeepsFacts

(* Every step of the sync task. *)
LEMMA SyncStepFacts ==
    ASSUME NEW gone, "Joined" \notin gone, Departs(gone),
           SyncInv, Queues, KnownInv, FactsInv(gone), SyncNext, UNCHANGED <<joined, invited>>
    PROVE  FactsInv(gone)'
<1>1. CASE OneRoomDiff
  BY <1>1, OneRoomFacts
<1>2. CASE Clear
  <2>1. phase' = "idle" /\ known' = <<>>
    BY <1>2, KnownAtRest DEF Clear
  <2>2. DealtWith' = {}
    BY <2>1 DEF DealtWith, ToSet
  <2> QED BY <2>2 DEF FactsInv
<1>3. CASE AppendDiff \/ ResetDiff \/ TruncateDiff
  <2>1. /\ phase = "idle" /\ todo = <<>> /\ UNCHANGED <<known, details, todo, pending>>
        /\ phase' = "adding" => toAdd' = DOMAIN incoming'
    BY <1>3 DEF AppendDiff, ResetDiff, TruncateDiff, AppendRooms, Reset, Truncate, TakeDiff, AtRest
  <2>2. DealtWith' \subseteq DealtWith
    BY <2>1 DEF DealtWith
  <2> QED BY <2>1, <2>2, NothingKeepsFacts
<1>4. CASE RunEffect
  <2>1. UNCHANGED <<known, phase, incoming, toAdd>>
    BY <1>4 DEF RunEffect
  <2>2. DealtWith' = DealtWith
    BY <2>1 DEF DealtWith
  <2>3. /\ FactsAfter(FactsDrained', todo') = FactsAfter(FactsDrained, todo)
        /\ DetailsAfter(details', todo') = DetailsAfter(details, todo)
    BY <1>4, EffectKeepsFacts
  <2>4. \A e \in DealtWith' : phase' # "failed" =>
          FulfilledBy(gone, e, DetailsAfter(details', todo'), FactsAfter(FactsDrained', todo'))
    BY <2>1, <2>2, <2>3 DEF FactsInv, Fulfilled
  <2> QED BY <2>4 DEF FactsInv, Fulfilled
<1>5. CASE PopOnReset
  BY <1>5, PopAndRemoveFacts DEF PopOnReset
<1>6. CASE PopOnTruncate
  <2>1. Len(known) \in Nat /\ Len(svc) \in Nat
    BY SyncLengths
  <2>2. known # <<>>
    BY <1>6, <2>1 DEF PopOnTruncate
  <2> QED BY <1>6, <2>2, PopAndRemoveFacts DEF PopOnTruncate
<1>7. CASE ResetCleared
  <2>1. known' = <<>> /\ phase' = "adding" /\ toAdd' = DOMAIN incoming'
    BY <1>7 DEF ResetCleared
  <2>2. DealtWith' = {}
    BY <2>1 DEF DealtWith, ToSet
  <2> QED BY <2>2 DEF FactsInv
<1>8. CASE Truncated
  <2> DEFINE diff == [diff |-> "Truncate", length |-> Len(svc)]
  <2>1. /\ phase = "truncating" /\ todo = <<>> /\ phase' = "idle" /\ todo' = <<SendOrder(diff)>>
        /\ UNCHANGED <<known, details, pending>>
    BY <1>8 DEF Truncated
  <2>2. diff \in VecDiff
    BY SyncLengths DEF VecDiff
  <2>3. DealtWith' \subseteq DealtWith
    BY <2>1 DEF DealtWith
  <2> HIDE DEF diff
  <2> QED BY <2>1, <2>2, <2>3, OrderKeepsFacts
<1>9. CASE \E i \in toAdd, built \in BOOLEAN : AddIncoming(i, built)
  BY <1>9, AddIncomingFacts
<1>10. CASE AllAdded
  BY <1>10, AllAddedFacts
<1>11. CASE StreamEnds
  BY <1>11 DEF StreamEnds, FactsInv
<1> QED BY <1>1, <1>2, <1>3, <1>4, <1>5, <1>6, <1>7, <1>8, <1>9,
           <1>10, <1>11 DEF OneRoomDiff, SyncNext, Handling

LEMMA FactsInit == ASSUME NEW gone, Init PROVE FactsInv(gone)
<1>1. DealtWith = {}
  BY DEF Init, SyncInit, DealtWith, ToSet
<1> QED BY <1>1 DEF FactsInv

(* Every step of the pipeline. *)
LEMMA FactsStep ==
    ASSUME NEW gone, "Joined" \notin gone, IInv, KnownInv, FactsInv(gone), [Next]_vars, [Departs(gone)]_vars
    PROVE  FactsInv(gone)'
<1>1. SyncInv /\ UiInv /\ Queues
  BY InvParts
<1>2. CASE SyncNext /\ UNCHANGED uiVars /\ Departs(gone)
  <2>1. UNCHANGED <<joined, invited>>
    BY <1>2 DEF uiVars
  <2> QED BY <1>1, <1>2, <2>1, SyncStepFacts
<1>3. ASSUME UNCHANGED syncVars, FactsDrained \subseteq FactsDrained'
      PROVE  FactsInv(gone)'
  <2>1. UNCHANGED <<todo, details, phase>> /\ DealtWith' = DealtWith
    BY <1>3 DEF syncVars, DealtWith
  <2>2. FactsAfter(FactsDrained, todo) \subseteq FactsAfter(FactsDrained', todo')
    BY <1>3, <2>1, FactsMore
  <2>3. \A e \in DealtWith' : phase' # "failed" =>
          FulfilledBy(gone, e, DetailsAfter(details', todo'), FactsAfter(FactsDrained', todo'))
    BY <2>1, <2>2, FulfilledByMore DEF FactsInv, Fulfilled
  <2> QED BY <2>3 DEF FactsInv, Fulfilled
<1>4. CASE UiNext /\ UNCHANGED syncVars
  BY <1>1, <1>3, <1>4, UiStepTells, TellsKeepsFacts, SameFacts
<1>5. ASSUME NEW u \in RoomsListUpdate, Foreign(u), Enqueue(u), UNCHANGED <<syncVars, uiVars>>
      PROVE  FactsInv(gone)'
  <2>1. UNCHANGED <<joined, invited>>
    BY <1>5 DEF uiVars
  <2> QED BY <1>1, <1>3, <1>5, <2>1, ForeignKeepsFacts
<1>6. CASE UNCHANGED <<syncVars, uiVars, pending>>
  <2>1. UNCHANGED <<joined, invited, pending>>
    BY <1>6 DEF uiVars
  <2> QED BY <1>3, <1>6, <2>1, SameFacts
<1>7. CASE UNCHANGED vars
  BY <1>6, <1>7 DEF vars
<1> QED BY <1>2, <1>4, <1>5, <1>6, <1>7, StepCases

(* When everything has been handled, the frontend shows exactly the known  *)
(* rooms that have a timeline as joined, with their current data (a        *)
(* removed avatar excepted), every invite, and no room that the user has   *)
(* left or is banned from, however the diffs and the drain interleave.     *)
THEOREM FrontendAgreesWithKnown == Spec => []FrontendMatchesKnown
<1> DEFINE Facts == FactsInv(Departed)
<1>1. IInv /\ Converging /\ KnownInv /\ Facts => FrontendMatchesKnown
  <2> SUFFICES ASSUME IInv, Converging, KnownInv, Facts, Quiet
               PROVE  FrontendMatchesKnown
    BY DEF FrontendMatchesKnown
  <2>1. SyncInv /\ UiInv /\ phase = "idle" /\ todo = <<>> /\ pending = <<>>
    BY InvParts DEF Quiet, AtRest
  <2>2. details \in SUBSET Room /\ known \in Seq(Entry) /\ joined \in [Room -> Shown \cup {None}]
    BY <2>1 DEF SyncInv, SyncTypeOK, UiInv, UiTypeOK
  <2>3. Present(joined) = details
    <3>1. \A r \in Room : JoinedOnceDrained(r) <=> r \in Present(joined)
      BY <2>1 DEF JoinedOnceDrained
    <3>2. {r \in Room : JoinedOnceDrained(r)} = details
      BY <2>1, ConvergingConverges DEF JoinedConvergesToDetails
    <3> QED BY <3>1, <3>2 DEF Present
  <2>4. details \subseteq ToSet(Ids(known))
    <3>1. DetailsAfter(details, <<>>) = details
      BY <2>2, ProperEmpty
    <3> QED BY <2>1, <3>1 DEF KnownInv, Accounted
  <2>5. FactsDrained = Held
    <3>1. \A p : Outcome(p \in Held, <<>>, Confirming(p), Refuting(p)) <=> p \in Held
      BY OutcomeOfNone
    <3> QED BY <2>1, <3>1 DEF FactsDrained, Held
  <2>6. ASSUME NEW i \in DOMAIN known
        PROVE  known[i] \in Entry /\ FulfilledBy(Departed, known[i], details, Held)
    <3>1. known[i] \in DealtWith
      BY DEF DealtWith, ToSet
    <3> QED BY <2>1, <2>5, <3>1, FulfilledNow
  <2>7. ASSUME NEW e \in Entry, FulfilledBy(Departed, e, details, Held)
        PROVE  /\ e.info.state = "Joined" /\ e.room \in details =>
                    /\ joined[e.room].direct = e.info.direct
                    /\ joined[e.room].name = e.info.name
                    /\ e.info.avatar # None => joined[e.room].avatar = e.info.avatar
               /\ e.info.state = "Invited" => invited[e.room] # None
               /\ e.info.state \in {"Left", "Banned"} => joined[e.room] = None
    <3>1. CASE e.info.state = "Joined" /\ e.room \in details
      <4>1. Due(e) \subseteq Held /\ joined[e.room] # None
        BY <2>3, <2>7, <3>1 DEF FulfilledBy, Present
      <4>2. \A field \in {"direct", "name", "avatar"} :
              About(e, field) \in Held => ValueOf(joined[e.room], field) = ValueOf(e.info, field)
        BY <4>1 DEF Held, About
      <4>3. /\ About(e, "direct") \in Held /\ About(e, "name") \in Held
            /\ e.info.avatar # None => About(e, "avatar") \in Held
        BY <3>1, <4>1 DEF Due
      <4>4. \A info : /\ ValueOf(info, "direct") = info.direct
                      /\ ValueOf(info, "name") = info.name
                      /\ ValueOf(info, "avatar") = info.avatar
        BY DEF ValueOf
      <4> QED BY <3>1, <4>2, <4>3, <4>4
    <3>2. e.info.state = "Invited" => invited[e.room] # None
      <4>1. e.info.state = "Invited" => InviteOf(e) \in Held
        BY <2>7, DueOf DEF FulfilledBy
      <4>2. InviteOf(e).about = "invite" /\ InviteOf(e).room = e.room
        BY DEF InviteOf
      <4> QED BY <4>1, <4>2, HeldCases DEF Held
    <3>3. e.info.state \in {"Left", "Banned"} => joined[e.room] = None
      BY <2>3, <2>7 DEF FulfilledBy, Departed, Present, Entry
    <3> QED BY <3>1, <3>2, <3>3
  <2> QED BY <2>3, <2>4, <2>6, <2>7 DEF FrontendMatchesKnown
<1>2. Init => Facts
  BY FactsInit
<1>3. IInv /\ KnownInv /\ Facts /\ [Next]_vars => Facts'
  <2>1. "Joined" \notin Departed /\ Departs(Departed)
    BY DEF Departed, Departs
  <2> QED BY <2>1, FactsStep
<1> HIDE DEF Facts
<1> QED BY <1>1, <1>2, <1>3, InitInv, StepInv, ConvergingInit, ConvergingStep, KnownInit, KnownStep, PTL DEF Spec

(***************************************************************************)
(* 9. The lists of joined rooms: a room is announced to the frontend only  *)
(* when it is not shown as joined, so AddJoinedRoom finds it in no list.   *)
(***************************************************************************)

(* Each list has only joined rooms that belong to it, each of them once.   *)
Listed ==
    \A l \in JoinedLists :
      IsInjective(displayed[l]) /\ \A r \in ToSet(displayed[l]) : Place(joined)[r] = l

(* The lists in terms of the types. *)
LEMMA ShownRooms ==
    ASSUME UiInv
    PROVE  \A l \in JoinedLists : displayed[l] \in Seq(Room) /\ ToSet(displayed[l]) \subseteq Room
<1>1. \A l \in JoinedLists : displayed[l] \in Seq(Room)
  BY DEF UiInv, UiTypeOK, JoinedLists, Lists
<1>2. \A s \in Seq(Room) : ToSet(s) \subseteq Room
  BY DEF ToSet
<1> QED BY <1>1, <1>2

(* So it stays unless a room that is shown as joined is announced again:   *)
(* AddJoinedRoom would then leave it in the list it is in.                 *)
LEMMA UiStepListed ==
    ASSUME UiInv, Listed, ListsStep,
           \A r \in Room : pending # <<>> /\ Announces(Head(pending), r) => r \notin Present(joined)
    PROVE  Listed'
<1> DEFINE at == Place(joined)
           after == Place(joined')
<1>1. /\ \A r \in Room : r \in Present(joined) <=> at[r] # "none"
      /\ DOMAIN at = Room /\ "none" \notin JoinedLists
      /\ at = [r \in Room |-> at[r]]
  BY DEF Place, Present, ListOf, JoinedLists
<1>2. \A l \in JoinedLists : displayed[l] \in Seq(Room) /\ ToSet(displayed[l]) \subseteq Room
  BY ShownRooms
<1>3. /\ Listed <=> \A l \in JoinedLists : IsInjective(displayed[l]) /\ \A r \in ToSet(displayed[l]) : at[r] = l
      /\ Listed' <=> \A l \in JoinedLists : IsInjective(displayed'[l]) /\ \A r \in ToSet(displayed'[l]) : after[r] = l
  BY DEF Listed, IsInjective
<1> HIDE DEF at, after
<1>4. CASE KeepsLists /\ after = at
  BY <1>3, <1>4 DEF KeepsLists
<1>5. ~\E r \in Room, to \in JoinedLists : Replaces(r, to)
  BY <1>1 DEF Replaces, at
<1>6. ASSUME NEW r \in Room, NEW l \in JoinedLists, NEW to \in JoinedLists \cup {"none"},
             after = [at EXCEPT ![r] = to],
             \/ l # to /\ at[r] # l /\ displayed'[l] = displayed[l]
             \/ l # to /\ displayed'[l] = RemoveFirst(displayed[l], r)
             \/ l = to /\ at[r] # to /\ displayed'[l] = Append(displayed[l], r)
      PROVE  IsInjective(displayed'[l]) /\ \A q \in ToSet(displayed'[l]) : after[q] = l
  <2> DEFINE d == displayed[l]
             e == displayed'[l]
  <2>1. d \in Seq(Room) /\ IsInjective(d) /\ \A q \in ToSet(d) : q \in Room /\ at[q] = l
    BY <1>2, <1>3
  <2>2. \A q \in Room : after[q] = IF q = r THEN to ELSE at[q]
    BY <1>1, <1>6
  <2> HIDE DEF d
  <2>3. CASE l # to /\ at[r] # l /\ e = d
    BY <2>1, <2>2, <2>3
  <2>4. CASE l # to /\ e = RemoveFirst(d, r)
    BY <2>1, <2>2, <2>4, RemoveFirstKeeps
  <2>5. CASE l = to /\ at[r] # to /\ e = Append(d, r)
    BY <2>1, <2>2, <2>5, AppendKeeps
  <2> QED BY <1>6, <2>3, <2>4, <2>5 DEF d
<1>7. ASSUME NEW r \in Room, NEW to \in JoinedLists, Adds(r, to)
      PROVE  Listed'
  <2>1. after = [at EXCEPT ![r] = to] /\ at[r] = "none" /\ "none" \notin JoinedLists
        /\ displayed'[to] = Append(displayed[to], r)
        /\ \A l \in JoinedLists \ {to} : displayed'[l] = displayed[l]
    BY <1>1, <1>7 DEF Adds, at, after
  <2> QED BY <1>3, <1>6, <2>1
<1>8. ASSUME NEW r \in Room, NEW from \in JoinedLists, NEW to \in JoinedLists, Moves(r, from, to)
      PROVE  Listed'
  <2>1. after = [at EXCEPT ![r] = to] /\ at[r] = from /\ from # to
        /\ displayed'[from] = RemoveFirst(displayed[from], r)
        /\ displayed'[to] = Append(displayed[to], r)
    BY <1>8 DEF Moves, at, after
  <2>2. \A l \in JoinedLists : l = from \/ l = to
    BY <2>1 DEF JoinedLists
  <2> QED BY <1>3, <1>6, <2>1, <2>2
<1>9. ASSUME NEW r \in Room, NEW from \in JoinedLists, TakesOut(r, from)
      PROVE  Listed'
  <2>1. after = [at EXCEPT ![r] = "none"] /\ at[r] = from /\ "none" \notin JoinedLists
        /\ displayed'[from] = RemoveFirst(displayed[from], r)
        /\ \A l \in JoinedLists \ {from} : displayed'[l] = displayed[l]
    BY <1>1, <1>9 DEF TakesOut, at, after
  <2> QED BY <1>3, <1>6, <2>1
<1>10. CASE Empties
  <2>1. IsInjective(<<>>) /\ ToSet(<<>>) = {}
    BY DEF IsInjective, ToSet
  <2> QED BY <1>3, <1>10, <2>1 DEF Empties
<1>11. CASE Regenerates
  <2>1. after = at /\ \A l \in JoinedLists : displayed'[l] \in SetToSeqs({r \in Room : at[r] = l})
    BY <1>11 DEF Regenerates, at, after
  <2>2. \A l \in JoinedLists : /\ IsInjective(displayed'[l])
                               /\ ToSet(displayed'[l]) = {r \in Room : at[r] = l}
    <3>1. \A l \in JoinedLists : IsFiniteSet({r \in Room : at[r] = l})
      BY ConstantsType, FS_Subset
    <3> QED BY <2>1, <3>1, SetToSeqsOf
  <2>3. \A l \in JoinedLists : \A r \in ToSet(displayed'[l]) : at[r] = l
    BY <2>2
  <2> QED BY <1>3, <2>1, <2>2, <2>3
<1> QED BY <1>4, <1>5, <1>7, <1>8, <1>9, <1>10, <1>11 DEF ListsStep, at, after

(* What the lists then show. *)
LEMMA ListedIsSubset ==
    ASSUME UiInv, Listed
    PROVE  DisplayedListsAreSubsets
<1>1. \A l \in JoinedLists : ToSet(displayed[l]) \subseteq Room
  BY ShownRooms
<1>2. \A r \in Room : /\ Place(joined)[r] = "direct" => joined[r] # None /\ joined[r].direct
                      /\ Place(joined)[r] = "regular" => joined[r] # None /\ ~joined[r].direct
  BY DEF Place, ListOf
<1> QED BY <1>1, <1>2 DEF Listed, JoinedLists, DisplayedListsAreSubsets

(* Between two announcements of an element, and before the first if it is  *)
(* there already, it is taken away.                                        *)
PutsOnlyAbsent(before, s, put, take) ==
    \A i \in DOMAIN s :
      s[i] \in put =>
        /\ before => \E k \in DOMAIN s : k < i /\ s[k] \in take
        /\ \A j \in DOMAIN s :
             j < i /\ s[j] \in put => \E k \in DOMAIN s : j < k /\ k < i /\ s[k] \in take

(* What is left when the head is dealt with, *)
LEMMA PutsTail ==
    ASSUME NEW S, NEW s \in Seq(S), s # <<>>, NEW put, NEW take, put \cap take = {},
           NEW r, NEW X, NEW Y, r \in Y <=> Head(s) \in put \/ (r \in X /\ Head(s) \notin take),
           PutsOnlyAbsent(r \in X, s, put, take)
    PROVE  /\ Head(s) \in put => r \notin X
           /\ PutsOnlyAbsent(r \in Y, Tail(s), put, take)
<1> DEFINE t == Tail(s)
<1>1. /\ 1 \in DOMAIN s /\ Head(s) = s[1]
      /\ \A j \in DOMAIN s : j \in Nat /\ j >= 1 /\ (j > 1 => j - 1 \in DOMAIN t /\ t[j - 1] = s[j])
      /\ \A j \in DOMAIN t : j \in Nat /\ j >= 1 /\ j + 1 \in DOMAIN s /\ t[j] = s[j + 1]
  BY TailOf
<1>2. Head(s) \in put => r \notin X
  BY <1>1 DEF PutsOnlyAbsent
<1> HIDE DEF t
<1>3. ASSUME NEW i \in DOMAIN t, t[i] \in put
      PROVE  /\ r \in Y => \E k \in DOMAIN t : k < i /\ t[k] \in take
             /\ \A j \in DOMAIN t :
                  j < i /\ t[j] \in put => \E k \in DOMAIN t : j < k /\ k < i /\ t[k] \in take
  <2>1. i \in Nat /\ i + 1 \in DOMAIN s /\ s[i + 1] \in put
    BY <1>1, <1>3
  <2>2. ASSUME NEW j \in Nat, j < i + 1, NEW k \in DOMAIN s, j < k, k < i + 1, s[k] \in take, k > 1
        PROVE  k - 1 \in DOMAIN t /\ j - 1 < k - 1 /\ k - 1 < i /\ t[k - 1] \in take
    <3>1. k \in Nat /\ k - 1 \in DOMAIN t /\ t[k - 1] = s[k]
      BY <1>1, <2>2
    <3>2. j - 1 < k - 1 /\ k - 1 < i
      BY ONLY <2>1, <2>2, <3>1
    <3> QED BY <2>2, <3>1, <3>2
  <2>3. ASSUME r \in Y
        PROVE  \E k \in DOMAIN t : k < i /\ t[k] \in take
    <3>1. PICK k \in DOMAIN s : k < i + 1 /\ s[k] \in take /\ k > 1
      <4>1. CASE s[1] \in put
        <5>1. 1 \in DOMAIN s /\ 1 < i + 1
          BY <1>1, <1>3
        <5> QED BY <1>1, <2>1, <4>1, <5>1 DEF PutsOnlyAbsent
      <4>2. CASE r \in X /\ s[1] \notin take
        <5>1. PICK k \in DOMAIN s : k < i + 1 /\ s[k] \in take
          BY <2>1, <4>2 DEF PutsOnlyAbsent
        <5>2. k > 1
          BY <1>1, <4>2, <5>1
        <5> QED BY <5>1, <5>2
      <4> QED BY <1>1, <2>3, <4>1, <4>2
    <3> QED BY <2>1, <2>2, <3>1
  <2>4. ASSUME NEW j \in DOMAIN t, j < i, t[j] \in put
        PROVE  \E k \in DOMAIN t : j < k /\ k < i /\ t[k] \in take
    <3>1. j \in Nat /\ j + 1 \in DOMAIN s /\ j + 1 < i + 1 /\ s[j + 1] \in put /\ j >= 1
      BY <1>1, <2>1, <2>4
    <3>2. PICK k \in DOMAIN s : j + 1 < k /\ k < i + 1 /\ s[k] \in take
      BY <2>1, <3>1 DEF PutsOnlyAbsent
    <3>3. k - 1 \in DOMAIN t /\ t[k - 1] \in take /\ k \in Nat
      BY <1>1, <3>1, <3>2
    <3>4. j < k - 1 /\ k - 1 < i
      BY ONLY <2>1, <3>1, <3>2, <3>3
    <3> QED BY <3>3, <3>4
  <2> QED BY <2>3, <2>4
<1> QED BY <1>1, <1>2, <1>3 DEF PutsOnlyAbsent, t

(* and when an element is added. *)
LEMMA PutsAppend ==
    ASSUME NEW S, NEW s \in Seq(S), NEW e \in S, NEW put, NEW take,
           NEW r, NEW X, PutsOnlyAbsent(r \in X, s, put, take),
           e \in put => ~Outcome(r \in X, s, put, take)
    PROVE  PutsOnlyAbsent(r \in X, Append(s, e), put, take)
<1> DEFINE t == Append(s, e)
           n == Len(s) + 1
<1>1. /\ n \in Nat /\ n \in DOMAIN t /\ t[n] = e
      /\ \A j \in DOMAIN s : j \in Nat /\ j < n /\ j \in DOMAIN t /\ t[j] = s[j]
      /\ \A j \in DOMAIN t : j \in DOMAIN s \/ j = n
  BY AppendOf
<1> HIDE DEF t, n
<1>2. ASSUME NEW i \in DOMAIN t, t[i] \in put
      PROVE  /\ r \in X => \E k \in DOMAIN t : k < i /\ t[k] \in take
             /\ \A j \in DOMAIN t :
                  j < i /\ t[j] \in put => \E k \in DOMAIN t : j < k /\ k < i /\ t[k] \in take
  <2>1. CASE i \in DOMAIN s
    BY <1>1, <1>2, <2>1 DEF PutsOnlyAbsent
  <2>2. CASE i = n
    <3>1. ~Outcome(r \in X, s, put, take)
      BY <1>1, <1>2, <2>2
    <3>2. r \in X => \E k \in DOMAIN s : s[k] \in take
      BY <3>1 DEF Outcome
    <3>3. \A j \in DOMAIN s : s[j] \in put => \E k \in DOMAIN s : k > j /\ s[k] \in take
      BY <3>1 DEF Outcome
    <3> QED BY <1>1, <2>2, <3>2, <3>3
  <2> QED BY <1>1, <2>1, <2>2
<1> QED BY <1>2 DEF PutsOnlyAbsent, t

(* A room is announced to the frontend only when it is not shown as joined *)
(* at that point of the queue, and of what the handler still enqueues.     *)
FreshInv ==
    \A r \in Room :
      /\ PutsOnlyAbsent(r \in Present(joined), pending, Showing(r), Removing(r))
      /\ PutsOnlyAbsent(r \in OnceDrained, todo, Announcing(r), Withdrawing(r))

(* Its next state, with the arguments primed one by one. *)
LEMMA FreshNext ==
    FreshInv' <=> \A r \in Room :
      /\ PutsOnlyAbsent(r \in Present(joined'), pending', Showing(r), Removing(r))
      /\ PutsOnlyAbsent(r \in OnceDrained', todo', Announcing(r), Withdrawing(r))
BY DEF FreshInv, PutsOnlyAbsent, Present, Showing, Removing, Announces, Removes, Announcing, Withdrawing,
       SendsAnnouncement, SendsRemoval

(* An effect of a handler. *)
LEMMA EffectKeepsFresh ==
    ASSUME Queues, FreshInv, RunEffect, UNCHANGED joined
    PROVE  FreshInv'
<1> DEFINE e == Head(todo)
<1>1. /\ todo \in Seq(Effect) /\ todo # <<>> /\ todo' = Tail(todo) /\ e \in Effect
      /\ pending \in Seq(RoomsListUpdate)
      /\ \/ UNCHANGED pending
         \/ e.do = "enqueue" /\ pending' = Append(pending, e.update)
  BY TailOf DEF Queues, RunEffect, Enqueue
<1> HIDE DEF e
<1>2. ASSUME NEW r \in Room
      PROVE  /\ PutsOnlyAbsent(r \in OnceDrained', todo', Announcing(r), Withdrawing(r))
             /\ e \in Announcing(r) => r \notin OnceDrained
  <2> DEFINE O == OnceDrained
             P == OnceDrained'
  <2>1. /\ PutsOnlyAbsent(r \in O, todo, Announcing(r), Withdrawing(r))
        /\ r \in P <=> e \in Announcing(r) \/ (r \in O /\ e \notin Withdrawing(r))
    BY EffectOnRoom DEF FreshInv, e
  <2> HIDE DEF O, P
  <2>2. /\ e \in Announcing(r) => ~(r \in O)
        /\ PutsOnlyAbsent(r \in P, Tail(todo), Announcing(r), Withdrawing(r))
    BY <1>1, <2>1, ShowOrRemove, PutsTail DEF e
  <2> QED BY <1>1, <2>2 DEF O, P
<1>3. ASSUME NEW r \in Room
      PROVE  PutsOnlyAbsent(r \in Present(joined), pending', Showing(r), Removing(r))
  <2>1. PutsOnlyAbsent(r \in Present(joined), pending, Showing(r), Removing(r))
    BY DEF FreshInv
  <2>2. CASE e.do = "enqueue" /\ pending' = Append(pending, e.update)
    <3>1. e.update \in RoomsListUpdate
      BY <1>1, <2>2, EffectFields
    <3>2. e.update \in Showing(r) => r \notin OnceDrained
      BY <1>1, <1>2, <2>2 DEF Showing, Announcing, SendsAnnouncement
    <3> DEFINE X == Present(joined)
    <3>3. e.update \in Showing(r) => ~Outcome(r \in X, pending, Showing(r), Removing(r))
      BY <3>2, OnceDrainedIsOutcome
    <3> HIDE DEF X
    <3>4. PutsOnlyAbsent(r \in X, Append(pending, e.update), Showing(r), Removing(r))
      BY <1>1, <2>1, <3>1, <3>3, PutsAppend DEF X
    <3> QED BY <2>2, <3>4 DEF X
  <2> QED BY <1>1, <2>1, <2>2
<1>4. FreshInv' <=> \A r \in Room :
        /\ PutsOnlyAbsent(r \in Present(joined'), pending', Showing(r), Removing(r))
        /\ PutsOnlyAbsent(r \in OnceDrained', todo', Announcing(r), Withdrawing(r))
  BY FreshNext
<1> QED BY <1>2, <1>3, <1>4 DEF Present

(* So the update at the head of the queue announces no joined room. *)
LEMMA FreshHead ==
    ASSUME Queues, FreshInv, pending # <<>>, NEW r \in Room, Announces(Head(pending), r)
    PROVE  r \notin Present(joined)
<1>1. /\ pending \in Seq(RoomsListUpdate) /\ 1 \in DOMAIN pending /\ Head(pending) = pending[1]
      /\ \A k \in DOMAIN pending : k >= 1 /\ pending[k] \in RoomsListUpdate
  BY TailOf DEF Queues
<1>2. PutsOnlyAbsent(r \in Present(joined), pending, Showing(r), Removing(r))
  BY DEF FreshInv
<1>3. pending[1] \in Showing(r)
  BY <1>1 DEF Showing
<1>4. \A k \in DOMAIN pending : ~(k < 1)
  BY <1>1
<1> QED BY <1>1, <1>2, <1>3, <1>4 DEF PutsOnlyAbsent

(* A drained update. *)
LEMMA DrainKeepsFresh ==
    ASSUME Queues, FreshInv, Drained, UNCHANGED todo
    PROVE  FreshInv'
<1> DEFINE u == Head(pending)
<1>1. /\ pending \in Seq(RoomsListUpdate) /\ pending # <<>> /\ pending' = Tail(pending)
      /\ u \in RoomsListUpdate
  BY TailOf DEF Queues, Drained
<1>2. ASSUME NEW r \in Room
      PROVE  PutsOnlyAbsent(r \in Present(joined'), pending', Showing(r), Removing(r))
  <2> DEFINE O == Present(joined)
             P == Present(joined')
  <2>1. /\ PutsOnlyAbsent(r \in O, pending, Showing(r), Removing(r))
        /\ r \in P <=> u \in Showing(r) \/ (r \in O /\ u \notin Removing(r))
    BY DrainOnRoom DEF FreshInv
  <2> HIDE DEF O, P, u
  <2>2. PutsOnlyAbsent(r \in P, Tail(pending), Showing(r), Removing(r))
    BY <1>1, <2>1, ShowOrRemove, PutsTail DEF u
  <2> QED BY <1>1, <2>2 DEF O, P
<1>3. OnceDrained' = OnceDrained
  BY DrainKeepsShown
<1> QED BY <1>2, <1>3, FreshNext DEF FreshInv

(* The updates of the other producers. *)
LEMMA EnqueueKeepsFresh ==
    ASSUME Queues, FreshInv, NEW u \in RoomsListUpdate, Plain(u), Enqueue(u), UNCHANGED <<todo, joined>>
    PROVE  FreshInv'
<1>1. pending \in Seq(RoomsListUpdate) /\ pending' = Append(pending, u)
  BY DEF Queues, Enqueue
<1>2. \A r \in Room : u \notin Showing(r)
  BY DEF Plain, Showing, Announces
<1>3. ASSUME NEW r \in Room
      PROVE  PutsOnlyAbsent(r \in Present(joined), Append(pending, u), Showing(r), Removing(r))
  <2> DEFINE X == Present(joined)
  <2>1. PutsOnlyAbsent(r \in X, pending, Showing(r), Removing(r))
    BY DEF FreshInv
  <2> HIDE DEF X
  <2>2. PutsOnlyAbsent(r \in X, Append(pending, u), Showing(r), Removing(r))
    BY <1>1, <1>2, <2>1, PutsAppend
  <2> QED BY <2>2 DEF X
<1>4. OnceDrained' = OnceDrained
  BY EnqueueKeepsShown
<1> QED BY <1>1, <1>3, <1>4, FreshNext DEF FreshInv, Present

(* The effects announce no room; or each room at most once, and none of    *)
(* these rooms.                                                            *)
Unannouncing(s) == \A e \in ToSet(s) : e.do = "enqueue" => e.update.op # "AddJoinedRoom"

Introduces(s, rooms) ==
    \A r \in Room, i \in DOMAIN s :
      SendsAnnouncement(s[i], r) =>
        r \notin rooms /\ \A j \in DOMAIN s : SendsAnnouncement(s[j], r) => j = i

(* A list that announces nothing will do in every state. *)
LEMMA UnannouncingIntroduces ==
    ASSUME NEW s, NEW rooms, Unannouncing(s)
    PROVE  Introduces(s, rooms)
BY DEF Unannouncing, Introduces, ToSet, SendsAnnouncement, Announces

(* The effects that announce nothing. *)
LEMMA UnannouncingKinds ==
    /\ Unannouncing(<<>>)
    /\ \A diff : Unannouncing(<<SendOrder(diff)>>)
    /\ \A room : Unannouncing(RemoveRoom(room))
    /\ \A new : new.info.state # "Joined" => Unannouncing(AddNewRoom(new))
<1>1. Unannouncing(<<>>)
  BY DEF Unannouncing, ToSet
<1>2. ASSUME NEW diff
      PROVE  Unannouncing(<<SendOrder(diff)>>)
  <2>1. \A e \in ToSet(<<SendOrder(diff)>>) : e.update.op = "RoomOrderUpdate"
    BY DEF ToSet, SendOrder, Send
  <2> QED BY <2>1 DEF Unannouncing
<1>3. ASSUME NEW room
      PROVE  Unannouncing(RemoveRoom(room))
  BY RemoveRoomHas DEF Unannouncing, SendsAbout
<1>4. ASSUME NEW new, new.info.state # "Joined"
      PROVE  Unannouncing(AddNewRoom(new))
  <2> DEFINE v == Send([op |-> "AddInvitedRoom", room |-> new.room, info |-> new.info])
  <2>1. AddNewRoom(new) \in {<<v>>, <<>>} /\ v.update.op = "AddInvitedRoom"
    BY <1>4 DEF AddNewRoom, Send
  <2> HIDE DEF v
  <2>2. \A e \in ToSet(<<v>>) : e = v
    BY DEF ToSet
  <2> QED BY <1>1, <2>1, <2>2 DEF Unannouncing
<1> QED BY <1>1, <1>2, <1>3, <1>4

(* add_new_room announces its room once. *)
LEMMA AddNewRoomIntroduces ==
    ASSUME NEW new \in Entry, NEW rooms, new.info.state = "Joined" => new.room \notin rooms
    PROVE  Introduces(AddNewRoom(new), rooms)
<1> DEFINE d == [do |-> "insert_room_details", room |-> new.room]
           u == Send([op |-> "AddJoinedRoom", room |-> new.room, info |-> new.info])
<1>1. CASE new.info.state # "Joined"
  BY <1>1, UnannouncingKinds, UnannouncingIntroduces
<1>2. CASE new.info.state = "Joined"
  <2>1. AddNewRoom(new) = <<d, u>>
    BY <1>2 DEF AddNewRoom
  <2>2. \A r : ~SendsAnnouncement(d, r) /\ (SendsAnnouncement(u, r) => r = new.room)
    BY DEF SendsAnnouncement, Announces, Send
  <2> HIDE DEF d, u
  <2>3. \A i \in DOMAIN <<d, u>> : <<d, u>>[i] = d \/ (<<d, u>>[i] = u /\ i = 2)
    OBVIOUS
  <2> QED BY <1>2, <2>1, <2>2, <2>3 DEF Introduces
<1> QED BY <1>1, <1>2

(* Only one of two lists may announce something. *)
LEMMA IntroducesConcat ==
    ASSUME NEW s \in Seq(Effect), NEW t \in Seq(Effect), NEW rooms,
           Introduces(s, rooms), Introduces(t, rooms), Unannouncing(s) \/ Unannouncing(t)
    PROVE  Introduces(s \o t, rooms)
<1> DEFINE st == s \o t
           n == Len(s)
<1>1. /\ n \in Nat /\ DOMAIN s = 1..n /\ DOMAIN t = 1..Len(t) /\ Len(t) \in Nat /\ DOMAIN st = 1..n + Len(t)
      /\ \A i \in 1..n : st[i] = s[i]
      /\ \A i \in 1..Len(t) : st[n + i] = t[i]
  BY ConcatOf, DomainOf
<1> HIDE DEF st, n
<1>2. \A i \in DOMAIN st : i \in DOMAIN s \/ (i - n \in DOMAIN t /\ st[i] = t[i - n])
  <2> TAKE i \in DOMAIN st
  <2>1. CASE i \notin DOMAIN s
    <3> DEFINE k == i - n
    <3>1. k \in 1..Len(t) /\ n + k = i
      BY <1>1, <2>1
    <3> HIDE DEF k
    <3>2. st[i] = t[k]
      BY <1>1, <3>1
    <3> QED BY <1>1, <3>1, <3>2 DEF k
  <2> QED BY <2>1
<1>3. \A r : /\ Unannouncing(s) => \A i \in DOMAIN s : ~SendsAnnouncement(s[i], r)
             /\ Unannouncing(t) => \A i \in DOMAIN t : ~SendsAnnouncement(t[i], r)
  BY DEF Unannouncing, ToSet, SendsAnnouncement, Announces
<1>4. ASSUME NEW r \in Room, NEW i \in DOMAIN st, SendsAnnouncement(st[i], r)
      PROVE  r \notin rooms /\ \A j \in DOMAIN st : SendsAnnouncement(st[j], r) => j = i
  <2>1. CASE Unannouncing(t)
    <3>1. \A j \in DOMAIN st : SendsAnnouncement(st[j], r) => j \in DOMAIN s /\ st[j] = s[j]
      BY <1>1, <1>2, <1>3, <2>1
    <3> QED BY <1>4, <3>1 DEF Introduces
  <2>2. CASE Unannouncing(s)
    <3>1. \A j \in DOMAIN st : SendsAnnouncement(st[j], r) => j - n \in DOMAIN t /\ st[j] = t[j - n]
      BY <1>1, <1>2, <1>3, <2>2
    <3>2. r \notin rooms /\ \A j \in DOMAIN st : SendsAnnouncement(st[j], r) => j - n = i - n
      BY <1>4, <3>1 DEF Introduces
    <3> QED BY <1>1, <3>2
  <2> QED BY <2>1, <2>2
<1> QED BY <1>4 DEF Introduces, st

(* update_room announces the new room unless it was joined already. *)
LEMMA UpdateRoomIntroduces ==
    ASSUME NEW old \in Entry, NEW new \in Entry, NEW rooms,
           new.info.state = "Joined" /\ (old.room # new.room \/ old.info.state # "Joined") => new.room \notin rooms
    PROVE  Introduces(UpdateRoom(old, new), rooms)
<1>1. CASE old.room # new.room /\ UpdateRoom(old, new) = RemoveRoom(old.room) \o AddNewRoom(new)
  <2>1. RemoveRoom(old.room) \in Seq(Effect) /\ AddNewRoom(new) \in Seq(Effect)
    BY AddNewRoomType, RemoveRoomType DEF Entry
  <2> QED BY <1>1, <2>1, UnannouncingKinds, UnannouncingIntroduces, AddNewRoomIntroduces, IntroducesConcat
<1>2. CASE old.info.state # new.info.state /\ UpdateRoom(old, new) = AddNewRoom(new)
  BY <1>2, AddNewRoomIntroduces
<1>3. CASE UpdateRoom(old, new) = RemoveRoom(new.room)
  BY <1>3, UnannouncingKinds, UnannouncingIntroduces
<1>4. CASE \A e \in ToSet(UpdateRoom(old, new)) : SendsAbout(e, DataUpdates, new.room)
  <2>1. Unannouncing(UpdateRoom(old, new))
    BY <1>4 DEF Unannouncing, SendsAbout, DataUpdates
  <2> QED BY <2>1, UnannouncingIntroduces
<1> QED BY <1>1, <1>2, <1>3, <1>4, UpdateRoomCases

(* Order diffs announce nothing. *)
LEMMA IntroducesAround ==
    ASSUME NEW u \in Seq(Effect), NEW s, Around(s, u), NEW rooms, Introduces(u, rooms)
    PROVE  Introduces(s, rooms)
<1> DEFINE Good(v) == v \in Seq(Effect) /\ Introduces(v, rooms)
<1>1. \A v : \A diff \in VecDiff : Good(v) => Good(v \o <<SendOrder(diff)>>) /\ Good(<<SendOrder(diff)>> \o v)
  <2> SUFFICES ASSUME NEW v, NEW diff \in VecDiff, Good(v)
               PROVE  Good(v \o <<SendOrder(diff)>>) /\ Good(<<SendOrder(diff)>> \o v)
    OBVIOUS
  <2> DEFINE o == <<SendOrder(diff)>>
  <2>1. o \in Seq(Effect) /\ Unannouncing(o) /\ Introduces(o, rooms)
    BY SendOrderType, UnannouncingKinds, UnannouncingIntroduces
  <2> HIDE DEF o
  <2>2. v \o o \in Seq(Effect) /\ o \o v \in Seq(Effect)
    BY <2>1, ConcatProperties
  <2>3. Introduces(v \o o, rooms) /\ Introduces(o \o v, rooms)
    BY <2>1, IntroducesConcat
  <2> QED BY <2>2, <2>3 DEF o
<1>2. Good(u)
  OBVIOUS
<1> HIDE DEF Good
<1>3. Good(s)
  <2>1. \A d, a \in VecDiff : Good(<<SendOrder(d)>> \o u \o <<SendOrder(a)>>)
    <3> TAKE d, a \in VecDiff
    <3> DEFINE first == <<SendOrder(d)>> \o u
    <3>1. Good(first)
      BY <1>1, <1>2
    <3> HIDE DEF first
    <3>2. Good(first \o <<SendOrder(a)>>)
      BY <1>1, <3>1
    <3> QED BY <3>2 DEF first
  <2>2. CASE s = u
    BY <1>2, <2>2
  <2>3. CASE \E d \in VecDiff : s = u \o <<SendOrder(d)>> \/ s = <<SendOrder(d)>> \o u
    BY <1>1, <1>2, <2>3
  <2> QED BY <2>1, <2>2, <2>3 DEF Around
<1> QED BY <1>3 DEF Good

(* A handler starts. *)
LEMMA StartKeepsFresh ==
    ASSUME FreshInv, Converging, Starts, UNCHANGED joined, todo' \in Seq(Effect), Introduces(todo', details)
    PROVE  FreshInv'
<1>1. OnceDrained \subseteq Room /\ OnceDrained' = OnceDrained
  BY DEF OnceDrained, JoinedOnceDrained, Starts
<1>2. details = OnceDrained
  BY <1>1, ProperEmpty DEF Converging, Starts
<1>3. ASSUME NEW r \in Room
      PROVE  PutsOnlyAbsent(r \in OnceDrained', todo', Announcing(r), Withdrawing(r))
  <2>1. \A i \in DOMAIN todo' : todo'[i] \in Announcing(r) =>
          r \notin details /\ \A j \in DOMAIN todo' : todo'[j] \in Announcing(r) => j = i
    BY DEF Introduces, Announcing
  <2>2. \A i \in DOMAIN todo' : ~(i < i)
    OBVIOUS
  <2> QED BY <1>1, <1>2, <2>1, <2>2 DEF PutsOnlyAbsent
<1> QED BY <1>3, FreshNext DEF FreshInv, Starts, Present

(* The states that are not Joined. *)
NotJoined == RoomState \ {"Joined"}

(* What a handler enqueues first announces no room that has details. *)
LEMMA OneRoomIntroduces ==
    ASSUME SyncInv, KnownInv, FactsInv(NotJoined), OneRoomDiff
    PROVE  Introduces(todo', details)
<1>1. /\ details \subseteq ToSet(svc)
      /\ \A e \in ToSet(known) : /\ e \in Entry /\ e.info.state \in RoomState
                                 /\ e.room \in ToSet(svc)
                                 /\ e.info.state \in NotJoined => e.room \notin details
  <2>1. /\ details \subseteq ToSet(svc)
        /\ \A e \in ToSet(known) : /\ e \in Entry /\ e.room \in ToSet(svc)
                                   /\ FulfilledBy(NotJoined, e, details, FactsDrained)
    BY OneRoomDiffDoes, KnownAtRest, FactsAtRest
  <2>2. \A e \in Entry : e.info.state \in RoomState
    BY DEF Entry, RoomInfo
  <2> QED BY <2>1, <2>2 DEF FulfilledBy
<1>2. CASE GivesUp
  BY <1>2, UnannouncingKinds, UnannouncingIntroduces DEF GivesUp
<1>3. ASSUME NEW new \in Entry, Added(new)
      PROVE  Introduces(todo', details)
  <2>1. Introduces(AddNewRoom(new), details)
    BY <1>1, <1>3, AddNewRoomIntroduces DEF Added
  <2> QED BY <1>3, <2>1, IntroducesAround DEF Added, Resettled
<1>4. ASSUME NEW r \in Room, Dropped(r)
      PROVE  Introduces(todo', details)
  BY <1>4, UnannouncingKinds, UnannouncingIntroduces, IntroducesAround DEF Dropped, Resettled
<1>5. ASSUME NEW old \in Entry, NEW new \in Entry, Updated(old, new)
      PROVE  Introduces(todo', details)
  <2>1. /\ old.room # new.room => new.room \notin details
        /\ old.info.state # "Joined" => old.room \notin details
    BY <1>1, <1>5 DEF Updated, NotJoined
  <2>2. Introduces(UpdateRoom(old, new), details)
    BY <2>1, UpdateRoomIntroduces
  <2> QED BY <1>5, <2>2, IntroducesAround DEF Updated, Resettled
<1> QED BY <1>2, <1>3, <1>4, <1>5, OneRoomChanges

(* The other handlers announce a room at most when they add what comes in. *)
LEMMA SyncStepIntroduces ==
    ASSUME SyncInv, KnownInv, FactsInv(NotJoined), SyncNext, ~RunEffect
    PROVE  Introduces(todo', details)
<1>1. CASE OneRoomDiff
  BY <1>1, OneRoomIntroduces
<1>2. CASE \E i \in toAdd, built \in BOOLEAN : AddIncoming(i, built)
  <2> PICK i \in toAdd, built \in BOOLEAN : AddIncoming(i, built)
    BY <1>2
  <2>1. todo' = <<>> \/ todo' = AddNewRoom(incoming[i])
    BY DEF AddIncoming
  <2>2. incoming[i] \in Entry /\ incoming[i].room \notin details
    BY IncomingIsNew DEF AddIncoming
  <2>3. Introduces(AddNewRoom(incoming[i]), details)
    BY <2>2, AddNewRoomIntroduces
  <2> QED BY <2>1, <2>3, UnannouncingKinds, UnannouncingIntroduces
<1>3. CASE Clear \/ ResetCleared
  <2>1. \A i \in DOMAIN todo' : ~(todo'[i].do = "enqueue" /\ todo'[i].update.op = "AddJoinedRoom")
    <3> DEFINE a == [do |-> "clear_all_rooms"]
               b == SendOrder([diff |-> "Clear"])
               c == Send([op |-> "ClearRooms"])
    <3>1. \A e \in {a, b, c} : ~(e.do = "enqueue" /\ e.update.op = "AddJoinedRoom")
      BY DEF Send, SendOrder
    <3>2. todo' = <<a, b, c>> \/ todo' = <<a, c, b>>
      BY <1>3 DEF Clear, ResetCleared
    <3> HIDE DEF a, b, c
    <3>3. \A i \in DOMAIN todo' : todo'[i] \in {a, b, c}
      BY <3>2
    <3> QED BY <3>1, <3>3
  <2> QED BY <2>1 DEF Introduces, SendsAnnouncement, Announces
<1>4. CASE PopOnReset \/ PopOnTruncate
  BY <1>4, UnannouncingKinds, UnannouncingIntroduces DEF PopOnReset, PopOnTruncate, PopAndRemove
<1>5. CASE Truncated
  BY <1>5, UnannouncingKinds, UnannouncingIntroduces DEF Truncated
<1>6. CASE AllAdded
  BY <1>6, UnannouncingKinds, UnannouncingIntroduces DEF AllAdded, When
<1>7. CASE AppendDiff \/ ResetDiff \/ TruncateDiff \/ StreamEnds
  <2>1. todo' = <<>>
    BY <1>7 DEF AppendDiff, AppendRooms, ResetDiff, Reset, TruncateDiff, Truncate, TakeDiff, AtRest, StreamEnds
  <2> QED BY <2>1, UnannouncingKinds, UnannouncingIntroduces
<1> QED BY <1>1, <1>2, <1>3, <1>4, <1>5, <1>6, <1>7 DEF OneRoomDiff, SyncNext, Handling

(* Every step of the sync task. *)
LEMMA SyncStepFresh ==
    ASSUME SyncInv, Queues, KnownInv, FactsInv(NotJoined), Converging, FreshInv, SyncNext, UNCHANGED joined
    PROVE  FreshInv'
<1>1. CASE RunEffect
  BY <1>1, EffectKeepsFresh
<1>2. CASE ~RunEffect
  <2>1. Starts /\ Introduces(todo', details)
    BY <1>2, SyncStarts, SyncStepIntroduces
  <2>2. todo' \in Seq(Effect)
    BY SyncStepInv DEF SyncInv, SyncTypeOK, Queues
  <2> QED BY <2>1, <2>2, StartKeepsFresh
<1> QED BY <1>1, <1>2

(* A known room that the user leaves, or is banned from, is seen in that   *)
(* state before it is seen invited or knocked at.                          *)
LeavesSeen ==
    \A e \in ToSet(known), f \in ToSet(known') :
      e.room = f.room /\ e.info.state = "Joined" => f.info.state \notin {"Invited", "Knocked"}

(* Then a known room gets into another state than Joined by departing. *)
LEMMA LeavesSeenDeparts ==
    ASSUME IInv, [Next]_vars, [LeavesSeen]_vars
    PROVE  [Departs(NotJoined)]_vars
<1>1. known \in Seq(Entry) /\ known' \in Seq(Entry)
  BY StepInv, InvParts DEF IInv, TypeOK, SyncTypeOK
<1>2. \A s \in Seq(Entry) : \A e \in ToSet(s) : e.info.state \in RoomState
  BY EntriesOf DEF Entry, RoomInfo
<1> QED BY <1>1, <1>2 DEF LeavesSeen, Departs, Departed, NotJoined, RoomState

(* The two invariants hold initially, *)
LEMMA FreshInit == Init => FreshInv /\ Listed
<1> SUFFICES ASSUME Init PROVE FreshInv /\ Listed
  OBVIOUS
<1>1. FreshInv
  <2>1. todo = <<>> /\ \A i \in DOMAIN pending : pending[i].op = "Status"
    BY DEF Init, SyncInit
  <2> QED BY <2>1 DEF FreshInv, PutsOnlyAbsent, Showing, Announces
<1>2. Listed
  <2>1. \A l \in JoinedLists : displayed[l] = <<>>
    BY DEF Init, UiInit, JoinedLists, Lists
  <2> QED BY <2>1 DEF Listed, IsInjective, ToSet
<1> QED BY <1>1, <1>2

(* and every step of the pipeline preserves the one *)
LEMMA FreshStep ==
    IInv /\ KnownInv /\ FactsInv(NotJoined) /\ Converging /\ FreshInv /\ [Next]_vars => FreshInv'
<1> SUFFICES ASSUME IInv, KnownInv, FactsInv(NotJoined), Converging, FreshInv, [Next]_vars PROVE FreshInv'
  OBVIOUS
<1>1. SyncInv /\ UiInv /\ Queues
  BY InvParts
<1>2. CASE SyncNext /\ UNCHANGED uiVars
  BY <1>1, <1>2, SyncStepFresh DEF uiVars
<1>3. ASSUME UNCHANGED <<joined, pending, todo>>
      PROVE  FreshInv'
  BY <1>3 DEF FreshInv, OnceDrained, JoinedOnceDrained, Present
<1>4. CASE UiNext /\ UNCHANGED syncVars
  <2>1. UNCHANGED todo
    BY <1>4 DEF syncVars
  <2> QED BY <1>1, <1>3, <1>4, <2>1, UiStepDrains, DrainKeepsFresh
<1>5. ASSUME NEW u \in RoomsListUpdate, Foreign(u), Enqueue(u), UNCHANGED <<syncVars, uiVars>>
      PROVE  FreshInv'
  <2>1. UNCHANGED <<todo, joined>> /\ Plain(u)
    BY <1>5 DEF syncVars, uiVars, Foreign, Plain
  <2> QED BY <1>1, <1>5, <2>1, EnqueueKeepsFresh
<1>6. CASE UNCHANGED <<syncVars, uiVars, pending>>
  BY <1>3, <1>6 DEF syncVars, uiVars
<1> QED BY <1>2, <1>4, <1>5, <1>6, StepCases

(* and the other. *)
LEMMA ListedStep == IInv /\ FreshInv /\ Listed /\ [Next]_vars => Listed'
<1> SUFFICES ASSUME IInv, FreshInv, Listed, [Next]_vars PROVE Listed'
  OBVIOUS
<1>1. UiInv /\ Queues
  BY InvParts
<1>2. CASE UiNext
  BY <1>1, <1>2, UiStepLists, UiStepListed, FreshHead
<1>3. CASE UNCHANGED uiVars
  BY <1>3 DEF uiVars, Listed, Place
<1> QED BY <1>2, <1>3, OnlyUiSteps

(* The lists of direct and regular rooms that the frontend displays hold   *)
(* joined rooms only, each in the list of its is_direct and there once,    *)
(* for any rooms, infos and bounds and any interleaving of the diffs with  *)
(* the drain, as long as no sync coalesces a leave with the invite or the  *)
(* knock that follows it.                                                  *)
THEOREM DisplayedRoomsAreJoined == Spec /\ [][LeavesSeen]_vars => []DisplayedListsAreSubsets
<1> DEFINE Facts == FactsInv(NotJoined)
<1>1. Init => Facts
  BY FactsInit
<1>2. IInv /\ KnownInv /\ Facts /\ [Next]_vars /\ [LeavesSeen]_vars => Facts'
  BY LeavesSeenDeparts, FactsStep DEF NotJoined
<1>3. IInv /\ KnownInv /\ Facts /\ Converging /\ FreshInv /\ [Next]_vars => FreshInv'
  BY FreshStep
<1>4. IInv /\ Listed => DisplayedListsAreSubsets
  BY InvParts, ListedIsSubset
<1> HIDE DEF Facts
<1> QED BY <1>1, <1>2, <1>3, <1>4, InitInv, StepInv, KnownInit, KnownStep, ConvergingInit, ConvergingStep,
           FreshInit, ListedStep, PTL DEF Spec

============================================================================
