------------------------- MODULE TimelineFeedProofs -------------------------
(***************************************************************************)
(* Theorems about the feed of a timeline, for any items, paginations and   *)
(* bounds. In order:                                                       *)
(*   1. numbers, sequences and what a fold over a sequence computes;       *)
(*   2. a diff, applied by the subscriber, does what the SDK did;          *)
(*   3. type correctness together with the replay of the diffs;            *)
(*   4. the newest list that was sent is the subscriber's copy;            *)
(*   5. a screen hears of its updates, and a loading room loads again.     *)
(***************************************************************************)
EXTENDS TimelineFeed, SequenceTheorems, WellFoundedInduction, TLAPS

(***************************************************************************)
(* 1. Numbers, sequences and folds.                                        *)
(***************************************************************************)

(* A set of numbers that is not empty has a least element. *)
LEMMA LeastOf ==
    ASSUME NEW I, I \subseteq Nat, I # {}
    PROVE  \E n \in I : \A j \in I : n <= j
<1> DEFINE R == OpToRel(<, Nat)
<1>1. PICK n \in I : \A j \in I : <<j, n>> \notin R
  <2> HIDE DEF R
  <2>1. IsWellFoundedOn(R, Nat)
    BY NatLessThanWellFounded DEF R
  <2> QED BY <2>1, WFMin
<1>2. ASSUME NEW j \in I, j < n PROVE FALSE
  <2>1. R = {ss \in Nat \X Nat : ss[1] < ss[2]}
    BY DEF OpToRel
  <2>2. <<j, n>> \in Nat \X Nat
    OBVIOUS
  <2>3. <<j, n>> \in {ss \in Nat \X Nat : ss[1] < ss[2]}
    BY ONLY <1>2, <2>2
  <2> HIDE DEF R
  <2> QED BY <1>1, <2>1, <2>3
<1> QED BY <1>2

(* Max, by its choice, is the largest element. *)
LEMMA MaxOf ==
    ASSUME NEW n \in Nat, NEW X \in SUBSET (1..n), X # {}
    PROVE  Max(X) \in X /\ \A y \in X : y <= Max(X)
<1> DEFINE I == {m \in Nat : \A y \in X : y <= m}
<1>1. n \in I
  OBVIOUS
<1>2. PICK m \in I : \A j \in I : m <= j
  BY <1>1, LeastOf
<1>3. m \in X
  <2> SUFFICES ASSUME m \notin X PROVE FALSE
    OBVIOUS
  <2>1. \A y \in X : y \in Nat \ {0} /\ y <= m /\ y # m
    OBVIOUS
  <2>2. m - 1 \in Nat /\ \A y \in X : y <= m - 1
    <3>1. PICK z \in X : TRUE
      OBVIOUS
    <3>2. m \in Nat /\ z \in Nat \ {0} /\ z <= m
      BY <2>1, <3>1
    <3>3. m - 1 \in Nat
      BY <3>2
    <3> QED BY <2>1, <3>2, <3>3
  <2>3. m - 1 \in I /\ ~(m <= m - 1)
    BY <2>2
  <2> QED BY <1>2, <2>3
<1>4. \A y \in X : m >= y
  OBVIOUS
<1> QED BY <1>3, <1>4 DEF Max

(* The elements of a sequence and of its tail (pop_front). *)
LEMMA TailOf ==
    ASSUME NEW S, NEW s \in Seq(S), s # <<>>
    PROVE  /\ 1 \in DOMAIN s /\ Head(s) = s[1]
           /\ DOMAIN s = 1..Len(s) /\ Len(s) \in Nat \ {0}
           /\ DOMAIN Tail(s) = 1..Len(s) - 1
           /\ \A j \in DOMAIN s : j > 1 => j - 1 \in DOMAIN Tail(s) /\ Tail(s)[j - 1] = s[j]
           /\ \A j \in DOMAIN Tail(s) : j + 1 \in DOMAIN s /\ Tail(s)[j] = s[j + 1]
<1>1. Len(s) \in Nat /\ DOMAIN s = 1..Len(s) /\ Len(s) # 0
  BY EmptySeq
<1>2. /\ Tail(s) \in Seq(S) /\ Len(Tail(s)) = Len(s) - 1 /\ Head(s) = s[1]
      /\ \A i \in 1..Len(s) - 1 : Tail(s)[i] = s[i + 1]
  BY <1>1, HeadTailProperties
<1>3. DOMAIN Tail(s) = 1..Len(s) - 1
  BY <1>2
<1>4. \A j \in 1..Len(s) : j > 1 => j - 1 \in 1..Len(s) - 1 /\ (j - 1) + 1 = j
  BY <1>1
<1> QED BY <1>1, <1>2, <1>3, <1>4

(* The elements of a sequence with one more at its end (push_back). *)
LEMMA AppendOf ==
    ASSUME NEW S, NEW s \in Seq(S), NEW e \in S
    PROVE  /\ Len(s) \in Nat
           /\ DOMAIN s = 1..Len(s)
           /\ DOMAIN Append(s, e) = 1..Len(s) + 1
           /\ \A j \in DOMAIN s : j \in DOMAIN Append(s, e) /\ Append(s, e)[j] = s[j]
           /\ Len(s) + 1 \in DOMAIN Append(s, e) /\ Append(s, e)[Len(s) + 1] = e
<1>1. /\ Append(s, e) \in Seq(S) /\ Len(Append(s, e)) = Len(s) + 1
      /\ \A i \in 1..Len(s) : Append(s, e)[i] = s[i]
      /\ Append(s, e)[Len(s) + 1] = e
  BY AppendProperties
<1>2. Len(s) \in Nat /\ DOMAIN s = 1..Len(s) /\ DOMAIN Append(s, e) = 1..Len(s) + 1
  BY <1>1
<1> QED BY <1>1, <1>2

(* The timelines are the sequences of items up to the bound.               *)
LEMMA ItemsOf ==
    ASSUME NEW x
    PROVE  x \in Items <=> x \in Seq(Item) /\ Len(x) <= MaxLength
<1>1. MaxLength \in Nat
  BY FeedAssumption
<1>2. Items = UNION {[1..m -> Item] : m \in 0..MaxLength}
  BY DEF Items, BoundedSeq, SeqOf
<1>3. ASSUME x \in Items PROVE x \in Seq(Item) /\ Len(x) <= MaxLength
  <2>1. PICK m \in 0..MaxLength : x \in [1..m -> Item]
    BY <1>2, <1>3
  <2>2. m \in Nat /\ m <= MaxLength
    BY <1>1
  <2> QED BY <2>1, <2>2
<1>4. ASSUME x \in Seq(Item), Len(x) <= MaxLength PROVE x \in Items
  <2>1. Len(x) \in 0..MaxLength /\ x \in [1..Len(x) -> Item]
    BY <1>1, <1>4
  <2> QED BY <1>2, <2>1
<1> QED BY <1>3, <1>4

(* FoldLeft over diffs, as the function that it is defined by: batched,    *)
(* with the flags of a batch, or the items alone.                          *)
Step(batched, acc, d) == IF batched THEN TakeDiff(acc, d) ELSE Apply(acc, d)

Folding(f, batched, base, ds, S) ==
    f = [X \in SUBSET S |->
            IF X = {} THEN base ELSE Step(batched, f[X \ {Max(X)}], ds[Max(X)])]

LEMMA ApplyIsFolding ==
    ASSUME NEW base, NEW ds
    PROVE  FoldLeft(Apply, base, ds)
             = (CHOOSE f : Folding(f, FALSE, base, ds, DOMAIN ds))[DOMAIN ds]
BY DEF FoldLeft, MapThenFoldSet, Folding, Step

LEMMA BatchIsFolding ==
    Batch = (CHOOSE f : Folding(f, TRUE,
                [items |-> timeline_items, clear_cache |-> FALSE, first |-> NoChange],
                stream, DOMAIN stream))[DOMAIN stream]
BY DEF Batch, FoldLeft, MapThenFoldSet, Folding, Step

(* There is such a function on the subsets of every interval: if it is     *)
(* there for 1..n - 1, it extends to 1..n.                                 *)
LEMMA FoldingExists ==
    ASSUME NEW batched, NEW base, NEW ds, NEW n \in Nat
    PROVE  \E f : Folding(f, batched, base, ds, 1..n)
<1> DEFINE Bad == {m \in Nat : ~\E f : Folding(f, batched, base, ds, 1..m)}
<1> SUFFICES ASSUME Bad # {} PROVE FALSE
  OBVIOUS
<1>1. PICK m \in Bad : \A j \in Bad : m <= j
  <2> HIDE DEF Folding
  <2>1. Bad \subseteq Nat
    OBVIOUS
  <2> HIDE DEF Bad
  <2> QED BY <2>1, LeastOf
<1>2. m # 0
  <2> SUFFICES ASSUME m = 0 PROVE FALSE
    OBVIOUS
  <2>1. 1..m = {}
    OBVIOUS
  <2>2. [X \in SUBSET {} |-> base] = [X \in SUBSET {} |->
          IF X = {} THEN base
          ELSE Step(batched, [Y \in SUBSET {} |-> base][X \ {Max(X)}], ds[Max(X)])]
    BY \A X \in SUBSET {} : X = {}
  <2>3. Folding([X \in SUBSET {} |-> base], batched, base, ds, 1..m)
    BY <2>1, <2>2 DEF Folding
  <2> QED BY <2>3
<1> DEFINE k == m - 1
<1>3. k \in Nat /\ k \notin Bad /\ m \in Nat /\ m \in 1..m
  BY <1>1, <1>2
<1>4. PICK f : Folding(f, batched, base, ds, 1..k)
  BY <1>3
<1> DEFINE g == [X \in SUBSET (1..m) |->
                   IF X = {} THEN base
                   ELSE IF m \in X THEN Step(batched, f[X \ {m}], ds[m]) ELSE f[X]]
<1>5. \A X \in SUBSET (1..k) : f[X] = IF X = {} THEN base ELSE Step(batched, f[X \ {Max(X)}], ds[Max(X)])
  <2> DEFINE body(X) == IF X = {} THEN base ELSE Step(batched, f[X \ {Max(X)}], ds[Max(X)])
  <2>1. f = [X \in SUBSET (1..k) |-> body(X)]
    BY <1>4 DEF Folding
  <2> HIDE DEF body
  <2>2. \A X \in SUBSET (1..k) : f[X] = body(X)
    BY ONLY <2>1
  <2> QED BY <2>2 DEF body
<1>6. \A X \in SUBSET (1..m) : m \notin X => X \in SUBSET (1..k)
  BY <1>3
<1>7. \A X \in SUBSET (1..m) : X \ {m} \in SUBSET (1..k)
  BY <1>3
<1> HIDE DEF k, Bad
<1>8. \A Y \in SUBSET (1..k) : Y \in SUBSET (1..m) /\ m \notin Y
  BY <1>3 DEF k
<1>9. \A Y \in SUBSET (1..k) : g[Y] = f[Y]
  <2> TAKE Y \in SUBSET (1..k)
  <2>1. Y \in SUBSET (1..m) /\ m \notin Y
    BY <1>8
  <2>2. g[Y] = IF Y = {} THEN base ELSE f[Y]
    BY <2>1
  <2> HIDE DEF g
  <2>3. Y = {} => f[Y] = base
    BY <1>5
  <2> QED BY <2>2, <2>3
<1>10. ASSUME NEW X \in SUBSET (1..m)
       PROVE  g[X] = IF X = {} THEN base ELSE Step(batched, g[X \ {Max(X)}], ds[Max(X)])
  <2>1. CASE X = {}
    BY <2>1
  <2>2. CASE m \in X
    <3>1. g[X] = Step(batched, f[X \ {m}], ds[m])
      BY <2>2
    <3> HIDE DEF g
    <3>2. Max(X) = m
      <4>1. Max(X) \in X /\ \A y \in X : y <= Max(X)
        BY <1>3, <2>2, MaxOf
      <4>2. m <= Max(X) /\ Max(X) \in 1..m
        BY <2>2, <4>1
      <4> QED BY <1>3, <4>2
    <3>3. g[X \ {m}] = f[X \ {m}]
      BY <1>7, <1>9
    <3> QED BY <2>2, <3>1, <3>2, <3>3
  <2>3. CASE X # {} /\ m \notin X
    <3>1. X \in SUBSET (1..k)
      BY <1>6, <2>3
    <3>2. g[X] = f[X]
      BY <1>9, <3>1
    <3> HIDE DEF g
    <3>3. f[X] = Step(batched, f[X \ {Max(X)}], ds[Max(X)])
      BY <1>5, <2>3, <3>1
    <3>4. X \ {Max(X)} \in SUBSET (1..k)
      BY <3>1
    <3>5. g[X \ {Max(X)}] = f[X \ {Max(X)}]
      BY <1>9, <3>4
    <3> QED BY <2>3, <3>2, <3>3, <3>5
  <2> QED BY <2>1, <2>2, <2>3
<1>11. Folding(g, batched, base, ds, 1..m)
  <2> DEFINE body(X) == IF X = {} THEN base ELSE Step(batched, g[X \ {Max(X)}], ds[Max(X)])
  <2>1. g = [X \in SUBSET (1..m) |-> g[X]]
    OBVIOUS
  <2>2. \A X \in SUBSET (1..m) : g[X] = body(X)
    BY <1>10
  <2> HIDE DEF g, body
  <2>3. g = [X \in SUBSET (1..m) |-> body(X)]
    BY ONLY <2>1, <2>2
  <2> QED BY <2>3 DEF Folding, body
<1> HIDE DEF g
<1> QED BY <1>1, <1>11 DEF Bad

(* So FoldLeft takes the diffs one after the other, *)
LEMMA FoldingSteps ==
    ASSUME NEW batched, NEW base, NEW ds, NEW n \in Nat, NEW f, Folding(f, batched, base, ds, 1..n)
    PROVE  f[1..0] = base /\ \A k \in 1..n : f[1..k] = Step(batched, f[1..(k - 1)], ds[k])
<1> DEFINE body(X) == IF X = {} THEN base ELSE Step(batched, f[X \ {Max(X)}], ds[Max(X)])
<1>1. \A X \in SUBSET (1..n) : f[X] = body(X)
  <2>1. f = [X \in SUBSET (1..n) |-> body(X)]
    BY DEF Folding
  <2> HIDE DEF body
  <2> QED BY ONLY <2>1
<1>2. f[1..0] = base
  <2>1. 1..0 = {} /\ {} \in SUBSET (1..n)
    OBVIOUS
  <2> QED BY <1>1, <2>1
<1>3. ASSUME NEW k \in 1..n
      PROVE  f[1..k] = Step(batched, f[1..(k - 1)], ds[k])
  <2>1. 1..k \in SUBSET (1..n) /\ k \in 1..k /\ (1..k) \ {k} = 1..(k - 1) /\ k \in Nat
    OBVIOUS
  <2>2. Max(1..k) = k
    <3>1. Max(1..k) \in 1..k /\ k <= Max(1..k)
      BY <2>1, MaxOf
    <3> QED BY <3>1
  <2>3. f[1..k] = Step(batched, f[(1..k) \ {Max(1..k)}], ds[Max(1..k)])
    BY <1>1, <2>1
  <2> QED BY <2>1, <2>2, <2>3
<1> QED BY <1>2, <1>3

(***************************************************************************)
(* 2. A diff does to the subscriber's vector what the SDK did to its own.  *)
(***************************************************************************)

Change ==
    [op : {"Append", "PushFront", "PushBack", "Reset", "Insert", "Set", "PopFront", "PopBack",
           "Clear", "Remove", "Truncate"},
     index : Nat, values : Seq(Item)]

(* The parts that the operations on a vector put together.                 *)
LEMMA PartsOf ==
    ASSUME NEW s \in Seq(Item)
    PROVE  /\ <<>> \in Seq(Item) /\ Len(s) \in Nat
           /\ SubSeq(s, 1, 0) = <<>> /\ SubSeq(s, 1, Len(s)) = s
           /\ \A m \in Nat \ {0}, n \in Nat : n <= Len(s) => SubSeq(s, m, n) \in Seq(Item)
           /\ <<>> \o s = s /\ s \o <<>> = s
           /\ \A t \in Seq(Item) : s \o t \in Seq(Item) /\ t \o s \in Seq(Item)
<1>1. SubSeq(s, 1, 0) = <<>>
  BY SubSeqEmpty, 1 \in Int, 0 \in Int, 0 < 1
<1>2. SubSeq(s, 1, Len(s)) = s
  BY SubSeqFull
<1>3. ASSUME NEW m \in Nat \ {0}, NEW n \in Nat, n <= Len(s)
      PROVE  SubSeq(s, m, n) \in Seq(Item)
  <2>1. m \in Int /\ n \in Int /\ \A i \in m..n : s[i] \in Item
    BY <1>3
  <2> QED BY ONLY <2>1, SubSeqProperties
<1>4. \A t \in Seq(Item) : s \o t \in Seq(Item) /\ t \o s \in Seq(Item)
  BY ConcatProperties
<1>5. <<>> \o s = s /\ s \o <<>> = s
  BY ConcatEmptySeq
<1> QED BY <1>1, <1>2, <1>3, <1>4, <1>5

(* The diffs of a vector, by the forms they are made in.                   *)
LEMMA DiffForms ==
    ASSUME NEW s, NEW d
    PROVE  d \in Diffs(s) <=>
             \/ \E i \in Item : d = Diff("Reset", 0, <<i>>)
             \/ \E op \in {"Append", "PushFront", "PushBack"}, i \in Item \ ToSet(s) :
                    d = Diff(op, 0, <<i>>)
             \/ \E k \in 0 .. Len(s), i \in Item \ ToSet(s) : d = Diff("Insert", k, <<i>>)
             \/ \E k \in 0 .. Len(s) - 1, i \in Item \ ToSet(s) : d = Diff("Set", k, <<i>>)
             \/ \E k \in 0 .. Len(s) - 1 : d = Diff("Set", k, <<s[k + 1]>>)
             \/ \E op \in IF Len(s) = 0 THEN {} ELSE {"PopFront", "PopBack", "Clear"} :
                    d = Diff(op, 0, <<>>)
             \/ \E k \in 0 .. Len(s) - 1 : d = Diff("Remove", k, <<>>)
             \/ \E k \in 0 .. Len(s) - 1 : d = Diff("Truncate", k, <<>>)
<1> DEFINE R == {Diff("Reset", 0, <<i>>) : i \in Item}
           A == {Diff(op, 0, <<i>>) : op \in {"Append", "PushFront", "PushBack"}, i \in Item \ ToSet(s)}
           B == {Diff("Insert", k, <<i>>) : k \in 0 .. Len(s), i \in Item \ ToSet(s)}
           C == {Diff("Set", k, <<i>>) : k \in 0 .. Len(s) - 1, i \in Item \ ToSet(s)}
           G == {Diff("Set", k, <<s[k + 1]>>) : k \in 0 .. Len(s) - 1}
           D == {Diff(op, 0, <<>>) : op \in IF Len(s) = 0 THEN {} ELSE {"PopFront", "PopBack", "Clear"}}
           E == {Diff("Remove", k, <<>>) : k \in 0 .. Len(s) - 1}
           F == {Diff("Truncate", k, <<>>) : k \in 0 .. Len(s) - 1}
<1>1. Diffs(s) = UNION {R, A, B, C, G, D, E, F}
  BY DEF Diffs
<1>2. d \in Diffs(s) <=> \/ d \in R \/ d \in A \/ d \in B \/ d \in C
                        \/ d \in G \/ d \in D \/ d \in E \/ d \in F
  <2> HIDE DEF R, A, B, C, G, D, E, F
  <2> QED BY <1>1
<1>3. /\ d \in R <=> \E i \in Item : d = Diff("Reset", 0, <<i>>)
      /\ d \in A <=> \E op \in {"Append", "PushFront", "PushBack"}, i \in Item \ ToSet(s) :
                      d = Diff(op, 0, <<i>>)
      /\ d \in B <=> \E k \in 0 .. Len(s), i \in Item \ ToSet(s) : d = Diff("Insert", k, <<i>>)
      /\ d \in C <=> \E k \in 0 .. Len(s) - 1, i \in Item \ ToSet(s) : d = Diff("Set", k, <<i>>)
  OBVIOUS
<1>4. /\ d \in G <=> \E k \in 0 .. Len(s) - 1 : d = Diff("Set", k, <<s[k + 1]>>)
      /\ d \in D <=> \E op \in IF Len(s) = 0 THEN {} ELSE {"PopFront", "PopBack", "Clear"} :
                      d = Diff(op, 0, <<>>)
      /\ d \in E <=> \E k \in 0 .. Len(s) - 1 : d = Diff("Remove", k, <<>>)
      /\ d \in F <=> \E k \in 0 .. Len(s) - 1 : d = Diff("Truncate", k, <<>>)
  OBVIOUS
<1> HIDE DEF R, A, B, C, G, D, E, F
<1> QED BY <1>2, <1>3, <1>4

(* A diff of a vector, by its operation.                                   *)
LEMMA DiffsOf ==
    ASSUME NEW s \in Seq(Item), NEW d \in Diffs(s)
    PROVE  /\ d \in Change
           /\ \/ /\ d.op \in {"Append", "PushFront", "PushBack", "Reset"} /\ d.index = 0
                 /\ \E i \in Item : d.values = <<i>>
              \/ /\ d.op = "Insert" /\ d.index \in 0 .. Len(s)
                 /\ \E i \in Item : d.values = <<i>>
              \/ /\ d.op = "Set" /\ d.index \in 0 .. Len(s) - 1
                 /\ \E i \in Item : d.values = <<i>>
              \/ /\ d.op \in {"PopFront", "PopBack", "Clear"} /\ d.index = 0 /\ d.values = <<>>
                 /\ s # <<>>
              \/ /\ d.op \in {"Remove", "Truncate"} /\ d.index \in 0 .. Len(s) - 1
                 /\ d.values = <<>>
<1>0. Len(s) \in Nat /\ <<>> \in Seq(Item) /\ \A i \in Item : <<i>> \in Seq(Item)
  BY PartsOf
<1>1. CASE \/ \E i \in Item : d = Diff("Reset", 0, <<i>>)
           \/ \E op \in {"Append", "PushFront", "PushBack"}, i \in Item \ ToSet(s) :
                  d = Diff(op, 0, <<i>>)
  <2>1. \E op \in {"Append", "PushFront", "PushBack", "Reset"}, i \in Item : d = Diff(op, 0, <<i>>)
    BY <1>1
  <2> QED BY <1>0, <2>1 DEF Diff, Change
<1>2. CASE \E k \in 0 .. Len(s), i \in Item \ ToSet(s) : d = Diff("Insert", k, <<i>>)
  <2>1. \E k \in 0 .. Len(s), i \in Item : d = Diff("Insert", k, <<i>>)
    BY <1>2
  <2> QED BY <1>0, <2>1 DEF Diff, Change
<1>3. CASE \/ \E k \in 0 .. Len(s) - 1, i \in Item \ ToSet(s) : d = Diff("Set", k, <<i>>)
           \/ \E k \in 0 .. Len(s) - 1 : d = Diff("Set", k, <<s[k + 1]>>)
  <2>1. \A k \in 0 .. Len(s) - 1 : s[k + 1] \in Item
    <3> TAKE k \in 0 .. Len(s) - 1
    <3>1. k + 1 \in 1 .. Len(s)
      BY <1>0
    <3> QED BY <3>1, ElementOfSeq
  <2>2. \E k \in 0 .. Len(s) - 1, i \in Item : d = Diff("Set", k, <<i>>)
    BY <1>3, <2>1
  <2> QED BY <1>0, <2>2 DEF Diff, Change
<1>4. CASE \E op \in IF Len(s) = 0 THEN {} ELSE {"PopFront", "PopBack", "Clear"} :
            d = Diff(op, 0, <<>>)
  <2>1. Len(s) # 0 /\ \E op \in {"PopFront", "PopBack", "Clear"} : d = Diff(op, 0, <<>>)
    BY <1>4
  <2>2. s # <<>>
    BY <2>1, EmptySeq
  <2> QED BY <1>0, <2>1, <2>2 DEF Diff, Change
<1>5. CASE \E k \in 0 .. Len(s) - 1 : d = Diff("Remove", k, <<>>)
  BY <1>0, <1>5 DEF Diff, Change
<1>6. CASE \E k \in 0 .. Len(s) - 1 : d = Diff("Truncate", k, <<>>)
  BY <1>0, <1>6 DEF Diff, Change
<1> QED BY <1>1, <1>2, <1>3, <1>4, <1>5, <1>6, DiffForms

LEMMA ApplyAgrees ==
    ASSUME NEW s \in Seq(Item), NEW d \in Diffs(s)
    PROVE  /\ d \in Change
           /\ Apply(s, d) = VectorApply(s, d)
           /\ VectorApply(s, d) \in Seq(Item)
<1>0. /\ <<>> \in Seq(Item) /\ Len(s) \in Nat
      /\ SubSeq(s, 1, 0) = <<>> /\ SubSeq(s, 1, Len(s)) = s
      /\ \A m \in Nat \ {0}, n \in Nat : n <= Len(s) => SubSeq(s, m, n) \in Seq(Item)
      /\ <<>> \o s = s /\ s \o <<>> = s
  BY PartsOf
<1>1. d \in Change /\ d.values \in Seq(Item) /\ d.index \in Nat
  BY DiffsOf DEF Change
<1>2. \A t, u \in Seq(Item) : t \o u \in Seq(Item)
  BY PartsOf
<1>3. <<>> \o d.values = d.values /\ d.values \o <<>> = d.values
  BY <1>1, PartsOf
<1>4. \A t \in Seq(Item) : <<>> \o t = t /\ t \o <<>> = t
  BY PartsOf
<1>5. CASE d.op \in {"Append", "PushBack"}
  BY <1>1, <1>2, <1>5 DEF Apply, VectorApply
<1>6. CASE d.op \in {"Clear", "Reset"}
  <2>1. d.index = 0
    BY <1>6, DiffsOf
  <2>2. VectorApply(s, d) = SubSeq(s, 1, 0) \o d.values /\ Apply(s, d) = d.values
    BY <1>6, <2>1 DEF Apply, VectorApply
  <2> QED BY <1>0, <1>1, <1>3, <2>2
<1>7. CASE d.op = "PushFront"
  <2>1. d.index = 0
    BY <1>7, DiffsOf
  <2>2. /\ VectorApply(s, d) = SubSeq(s, 1, 0) \o d.values \o SubSeq(s, 1, Len(s))
        /\ Apply(s, d) = d.values \o s
    <3>1. d.index + 1 = 1
      BY <2>1
    <3>2. VectorApply(s, d)
            = SubSeq(s, 1, d.index) \o d.values \o SubSeq(s, d.index + 1, Len(s))
      BY <1>7 DEF VectorApply
    <3>3. Apply(s, d) = d.values \o s
      BY <1>7 DEF Apply
    <3> QED BY <2>1, <3>1, <3>2, <3>3
  <2>3. VectorApply(s, d) = d.values \o s
    BY <1>0, <1>3, <2>2
  <2> QED BY <1>1, <1>2, <2>2, <2>3
<1>8. CASE d.op = "PopFront"
  <2>1. d.index = 0 /\ s # <<>>
    BY <1>8, DiffsOf
  <2>2. VectorApply(s, d) = SubSeq(s, 1, 0) \o SubSeq(s, 2, Len(s)) /\ Apply(s, d) = Tail(s)
    <3>1. d.index + 2 = 2
      BY <2>1
    <3>2. VectorApply(s, d) = SubSeq(s, 1, d.index) \o SubSeq(s, d.index + 2, Len(s))
      BY <1>8 DEF VectorApply
    <3>3. Apply(s, d) = Tail(s)
      BY <1>8 DEF Apply
    <3> QED BY <2>1, <3>1, <3>2, <3>3
  <2>3. Tail(s) = SubSeq(s, 2, Len(s)) /\ Tail(s) \in Seq(Item)
    BY <2>1, TailIsSubSeq, HeadTailProperties
  <2> QED BY <1>0, <1>1, <1>4, <2>2, <2>3
<1>9. CASE d.op = "PopBack"
  <2>1. s # <<>>
    BY <1>9, DiffsOf
  <2>2. Len(s) - 1 \in Nat /\ Len(s) - 1 <= Len(s)
    BY <2>1, EmptySeq
  <2>3. VectorApply(s, d) = SubSeq(s, 1, Len(s) - 1) /\ Apply(s, d) = SubSeq(s, 1, Len(s) - 1)
    BY <1>9 DEF Apply, VectorApply, Front
  <2> QED BY <1>0, <1>1, <2>2, <2>3
<1>10. CASE d.op = "Insert"
  <2>1. d.index \in 0 .. Len(s) /\ \E i \in Item : d.values = <<i>>
    BY <1>10, DiffsOf
  <2>2. (d.index + 1) - 1 = d.index /\ d.index + 1 \in Nat \ {0} /\ d.index <= Len(s)
    BY <1>0, <2>1
  <2>3. /\ VectorApply(s, d)
             = SubSeq(s, 1, d.index) \o d.values \o SubSeq(s, d.index + 1, Len(s))
        /\ Apply(s, d) = InsertAt(s, d.index + 1, d.values[1])
    BY <1>10 DEF Apply, VectorApply
  <2>4. d.values = <<d.values[1]>>
    BY <2>1
  <2>5. Apply(s, d) = VectorApply(s, d)
    <3>1. InsertAt(s, d.index + 1, d.values[1])
            = SubSeq(s, 1, (d.index + 1) - 1) \o <<d.values[1]>> \o SubSeq(s, d.index + 1, Len(s))
      BY DEF InsertAt
    <3>2. SubSeq(s, 1, (d.index + 1) - 1) = SubSeq(s, 1, d.index)
      BY <2>2
    <3> QED BY ONLY <2>3, <2>4, <3>1, <3>2
  <2>6. SubSeq(s, 1, d.index) \in Seq(Item) /\ SubSeq(s, d.index + 1, Len(s)) \in Seq(Item)
    BY <1>0, <1>1, <2>2
  <2>7. SubSeq(s, 1, d.index) \o d.values \in Seq(Item)
    BY <1>1, <1>2, <2>6
  <2> QED BY <1>1, <1>2, <2>3, <2>5, <2>6, <2>7
<1>11. CASE d.op = "Set"
  <2>1. d.index \in 0 .. Len(s) - 1 /\ d.values[1] \in Item
    BY <1>11, DiffsOf
  <2>2. /\ VectorApply(s, d) = [s EXCEPT ![d.index + 1] = d.values[1]]
        /\ Apply(s, d) = VectorApply(s, d)
    BY <1>11 DEF Apply, VectorApply, ReplaceAt
  <2>3. d.index + 1 \in 1..Len(s)
    BY <1>0, <2>1
  <2>4. [s EXCEPT ![d.index + 1] = d.values[1]] \in Seq(Item)
    BY <2>1, <2>3
  <2> QED BY <1>1, <2>2, <2>4
<1>12. CASE d.op = "Remove"
  <2>1. d.index \in 0 .. Len(s) - 1
    BY <1>12, DiffsOf
  <2>2. /\ (d.index + 1) - 1 = d.index /\ (d.index + 1) + 1 = d.index + 2
        /\ d.index + 2 \in Nat \ {0} /\ d.index <= Len(s)
    BY <1>0, <2>1
  <2>3. /\ VectorApply(s, d) = SubSeq(s, 1, d.index) \o SubSeq(s, d.index + 2, Len(s))
        /\ Apply(s, d) = RemoveAt(s, d.index + 1)
    BY <1>12 DEF Apply, VectorApply
  <2>4. Apply(s, d) = VectorApply(s, d)
    <3>1. RemoveAt(s, d.index + 1)
            = SubSeq(s, 1, (d.index + 1) - 1) \o SubSeq(s, (d.index + 1) + 1, Len(s))
      BY DEF RemoveAt
    <3>2. /\ SubSeq(s, 1, (d.index + 1) - 1) = SubSeq(s, 1, d.index)
          /\ SubSeq(s, (d.index + 1) + 1, Len(s)) = SubSeq(s, d.index + 2, Len(s))
      BY <2>2
    <3> QED BY ONLY <2>3, <3>1, <3>2
  <2>5. SubSeq(s, 1, d.index) \in Seq(Item) /\ SubSeq(s, d.index + 2, Len(s)) \in Seq(Item)
    BY <1>0, <1>1, <2>2
  <2> QED BY <1>1, <1>2, <2>3, <2>4, <2>5
<1>13. CASE d.op = "Truncate"
  <2>1. d.index \in 0 .. Len(s) - 1 /\ d.values = <<>>
    BY <1>13, DiffsOf
  <2>2. d.index <= Len(s)
    BY <1>0, <2>1
  <2>3. VectorApply(s, d) = SubSeq(s, 1, d.index) \o <<>> /\ Apply(s, d) = SubSeq(s, 1, d.index)
    BY <1>13, <2>1 DEF Apply, VectorApply
  <2>4. SubSeq(s, 1, d.index) \in Seq(Item)
    BY <1>0, <1>1, <2>2
  <2> QED BY <1>1, <1>4, <2>3, <2>4
<1> QED BY <1>1, <1>5, <1>6, <1>7, <1>8, <1>9, <1>10, <1>11, <1>12, <1>13 DEF Change

(* The diffs of a pagination are diffs.                                    *)
LEMMA OlderDiffsAreDiffs ==
    ASSUME sdkItems \in Seq(Item)
    PROVE  OlderDiffs \subseteq Diffs(sdkItems)
<1> SUFFICES ASSUME NEW d \in OlderDiffs PROVE d \in Diffs(sdkItems)
  OBVIOUS
<1> DEFINE new == Item \ ToSet(sdkItems)
<1>1. CASE \E i \in new : d = Diff("PushFront", 0, <<i>>)
  BY <1>1, DiffForms
<1>2. CASE \E i \in IF sdkItems # <<>> /\ Head(sdkItems) \in Virtual THEN new ELSE {} :
              d = Diff("Insert", 1, <<i>>)
  <2>1. sdkItems # <<>> /\ \E i \in new : d = Diff("Insert", 1, <<i>>)
    BY <1>2
  <2>2. Len(sdkItems) \in Nat \ {0}
    BY <2>1, EmptySeq
  <2>3. 1 \in 0 .. Len(sdkItems)
    BY <2>2
  <2> QED BY <2>1, <2>3, DiffForms
<1> QED BY <1>1, <1>2 DEF OlderDiffs

(***************************************************************************)
(* 3. Types, and the replay: the diffs the subscriber has not seen lead    *)
(* from its copy to the SDK's timeline, each one a diff of the timeline it *)
(* was made on.                                                            *)
(***************************************************************************)

Leads(a, ds, b) ==
    \E path \in [0 .. Len(ds) -> Items] :
        /\ path[0] = a /\ path[Len(ds)] = b
        /\ \A k \in 1 .. Len(ds) :
            /\ ds[k] \in Diffs(path[k - 1])
            /\ path[k] = Apply(path[k - 1], ds[k])

LEMMA LeadsNowhere ==
    ASSUME NEW a \in Items
    PROVE  Leads(a, <<>>, a)
<1> DEFINE path == [k \in 0..0 |-> a]
<1>1. Len(<<>>) = 0 /\ 1..0 = {} /\ 0 \in 0..0
  OBVIOUS
<1>2. path \in [0..0 -> Items] /\ path[0] = a
  OBVIOUS
<1> QED BY <1>1, <1>2 DEF Leads

LEMMA LeadsOn ==
    ASSUME NEW a, NEW ds \in Seq(Change), NEW b, Leads(a, ds, b), NEW d \in Diffs(b),
           VectorApply(b, d) \in Items
    PROVE  Append(ds, d) \in Seq(Change) /\ Leads(a, Append(ds, d), VectorApply(b, d))
<1> DEFINE n == Len(ds)
           c == VectorApply(b, d)
<1>1. PICK path \in [0..n -> Items] :
        /\ path[0] = a /\ path[n] = b
        /\ \A k \in 1..n : ds[k] \in Diffs(path[k - 1]) /\ path[k] = Apply(path[k - 1], ds[k])
  BY DEF Leads
<1>2. n \in Nat /\ n \in 0..n
  OBVIOUS
<1>3. b \in Seq(Item)
  BY <1>1, <1>2, ItemsOf
<1>4. d \in Change /\ c = Apply(b, d)
  BY <1>3, ApplyAgrees
<1>5. /\ Append(ds, d) \in Seq(Change) /\ Len(Append(ds, d)) = n + 1
      /\ \A k \in 1..n : Append(ds, d)[k] = ds[k]
      /\ Append(ds, d)[n + 1] = d
  BY <1>4, AppendProperties
<1> DEFINE longer == [k \in 0..n + 1 |-> IF k = n + 1 THEN c ELSE path[k]]
<1>6. longer \in [0..n + 1 -> Items] /\ longer[n + 1] = c /\ \A k \in 0..n : longer[k] = path[k]
  <2>1. \A k \in 0..n + 1 : k = n + 1 \/ k \in 0..n
    BY <1>2
  <2>2. \A k \in 0..n : k # n + 1 /\ k \in 0..n + 1
    BY <1>2
  <2>3. n + 1 \in 0..n + 1
    BY <1>2
  <2> HIDE DEF c, n
  <2> QED BY <2>1, <2>2, <2>3, VectorApply(b, d) \in Items DEF c
<1>7. ASSUME NEW k \in 1..n + 1
      PROVE  /\ Append(ds, d)[k] \in Diffs(longer[k - 1])
             /\ longer[k] = Apply(longer[k - 1], Append(ds, d)[k])
  <2>1. CASE k = n + 1
    <3>1. k - 1 = n
      BY <1>2, <2>1
    <3>2. longer[k - 1] = b /\ longer[k] = c /\ Append(ds, d)[k] = d
      BY <1>1, <1>2, <1>5, <1>6, <2>1, <3>1
    <3> HIDE DEF longer, c
    <3> QED BY <1>4, <3>2
  <2>2. CASE k # n + 1
    <3>1. k \in 1..n /\ k - 1 \in 0..n /\ k \in 0..n
      BY <1>2, <2>2
    <3>2. longer[k - 1] = path[k - 1] /\ longer[k] = path[k] /\ Append(ds, d)[k] = ds[k]
      BY <1>5, <1>6, <3>1
    <3> HIDE DEF longer
    <3> QED BY <1>1, <3>1, <3>2
  <2> QED BY <2>1, <2>2
<1>8. longer[0] = a
  BY <1>1, <1>2, <1>6
<1> HIDE DEF longer, c, n
<1> QED BY <1>5, <1>6, <1>7, <1>8 DEF Leads, c

(* Where they lead, the fold arrives: without a batch, *)
LEMMA LeadsToFold ==
    ASSUME NEW ds \in Seq(Change), NEW a, NEW b, Leads(a, ds, b)
    PROVE  FoldLeft(Apply, a, ds) = b
<1> DEFINE n == Len(ds)
           f == CHOOSE f : Folding(f, FALSE, a, ds, 1..n)
<1>1. n \in Nat /\ DOMAIN ds = 1..n
  OBVIOUS
<1>2. FoldLeft(Apply, a, ds) = f[1..n]
  BY <1>1, ApplyIsFolding
<1>3. Folding(f, FALSE, a, ds, 1..n)
  BY <1>1, FoldingExists
<1> HIDE DEF f
<1>4. f[1..0] = a /\ \A k \in 1..n : f[1..k] = Step(FALSE, f[1..(k - 1)], ds[k])
  <2> DEFINE batched == FALSE
  <2>1. Folding(f, batched, a, ds, 1..n)
    BY <1>3
  <2> HIDE DEF batched
  <2>2. f[1..0] = a /\ \A k \in 1..n : f[1..k] = Step(batched, f[1..(k - 1)], ds[k])
    BY <1>1, <2>1, FoldingSteps
  <2> QED BY <2>2 DEF batched
<1>5. PICK path \in [0..n -> Items] :
        path[0] = a /\ path[n] = b /\ \A k \in 1..n : path[k] = Apply(path[k - 1], ds[k])
  BY DEF Leads
<1> HIDE DEF n
<1>6. \A k \in 0..n : path[k] = f[1..k]
  <2> DEFINE Bad == {k \in 0..n : path[k] # f[1..k]}
  <2> SUFFICES ASSUME Bad # {} PROVE FALSE
    OBVIOUS
  <2>1. PICK k \in Bad : \A j \in Bad : k <= j
    <3>1. Bad \subseteq Nat
      BY <1>1
    <3> HIDE DEF Bad
    <3> QED BY <3>1, LeastOf
  <2>2. k \in 0..n /\ path[k] # f[1..k]
    OBVIOUS
  <2>3. k # 0
    BY <1>4, <1>5, <2>2
  <2>4. k \in 1..n /\ k - 1 \in 0..n /\ ~(k <= k - 1)
    BY <1>1, <2>2, <2>3
  <2>5. path[k - 1] = f[1..(k - 1)]
    BY <2>1, <2>4
  <2>6. f[1..k] = Apply(f[1..(k - 1)], ds[k])
    BY <1>4, <2>4 DEF Step
  <2> HIDE DEF Bad
  <2> QED BY <1>5, <2>2, <2>4, <2>5, <2>6
<1>7. n \in 0..n
  BY <1>1
<1> QED BY <1>2, <1>5, <1>6, <1>7

(* and in the batch that the subscriber sends. *)
LEMMA BatchReplays ==
    ASSUME stream \in Seq(Change), Leads(timeline_items, stream, sdkItems)
    PROVE  Batch.items = sdkItems
<1> DEFINE n == Len(stream)
           base == [items |-> timeline_items, clear_cache |-> FALSE, first |-> NoChange]
           f == CHOOSE f : Folding(f, TRUE, base, stream, 1..n)
<1>1. n \in Nat /\ DOMAIN stream = 1..n
  OBVIOUS
<1>2. Batch = f[1..n]
  BY <1>1, BatchIsFolding
<1>3. Folding(f, TRUE, base, stream, 1..n)
  <2> HIDE DEF base
  <2> QED BY <1>1, FoldingExists
<1> HIDE DEF f
<1>4. f[1..0] = base /\ \A k \in 1..n : f[1..k] = Step(TRUE, f[1..(k - 1)], stream[k])
  <2> DEFINE batched == TRUE
  <2>1. Folding(f, batched, base, stream, 1..n)
    BY <1>3
  <2> HIDE DEF batched, base
  <2>2. f[1..0] = base /\ \A k \in 1..n : f[1..k] = Step(batched, f[1..(k - 1)], stream[k])
    BY <1>1, <2>1, FoldingSteps
  <2> QED BY <2>2 DEF batched
<1>5. PICK path \in [0..n -> Items] :
        /\ path[0] = timeline_items /\ path[n] = sdkItems
        /\ \A k \in 1..n : path[k] = Apply(path[k - 1], stream[k])
  BY DEF Leads
<1>6. f[1..0].items = timeline_items
  BY <1>4
<1> HIDE DEF n
<1>7. \A k \in 0..n : path[k] = f[1..k].items
  <2> DEFINE Bad == {k \in 0..n : path[k] # f[1..k].items}
  <2> SUFFICES ASSUME Bad # {} PROVE FALSE
    OBVIOUS
  <2>1. PICK k \in Bad : \A j \in Bad : k <= j
    <3>1. Bad \subseteq Nat
      BY <1>1
    <3> HIDE DEF Bad
    <3> QED BY <3>1, LeastOf
  <2>2. k \in 0..n /\ path[k] # f[1..k].items
    OBVIOUS
  <2>3. k # 0
    BY <1>5, <1>6, <2>2
  <2>4. k \in 1..n /\ k - 1 \in 0..n /\ ~(k <= k - 1)
    BY <1>1, <2>2, <2>3
  <2>5. path[k - 1] = f[1..(k - 1)].items
    BY <2>1, <2>4
  <2>6. f[1..k] = TakeDiff(f[1..(k - 1)], stream[k])
    BY <1>4, <2>4 DEF Step
  <2>7. f[1..k].items = Apply(f[1..(k - 1)].items, stream[k])
    BY <2>6 DEF TakeDiff
  <2> HIDE DEF Bad
  <2> QED BY <1>5, <2>2, <2>4, <2>5, <2>7
<1>8. n \in 0..n
  BY <1>1
<1> QED BY <1>2, <1>5, <1>7, <1>8

Replays ==
    /\ stream \in Seq(Change)
    /\ subscriber # "running" => stream = <<>>
    /\ subscriber = "running" => Leads(timeline_items, stream, sdkItems)

FeedInv == TypeOK /\ Replays

(* What is sent is an update, and what an update carries has its type.     *)
LEMMA Sent ==
    /\ \A x \in Items : [kind |-> "FirstUpdate", items |-> x] \in Update
    /\ \A x \in Items, c \in BOOLEAN :
            [kind |-> "NewItems", items |-> x, clear_cache |-> c] \in Update
    /\ \A k \in {"PaginationRunning", "PaginationError", "RoomMembersSynced"} :
            [kind |-> k] \in Update
    /\ \A b \in BOOLEAN : [kind |-> "PaginationIdle", fully_paginated |-> b] \in Update
BY DEF Update

LEMMA Received ==
    ASSUME NEW u \in Update
    PROVE  /\ u.kind \in {"FirstUpdate", "NewItems"} => u.items \in Items
           /\ u.kind = "NewItems" => u.clear_cache \in BOOLEAN
           /\ u.kind = "PaginationIdle" => u.fully_paginated \in BOOLEAN
<1>1. CASE u \in [kind : {"FirstUpdate"}, items : Items]
  BY <1>1
<1>2. CASE u \in [kind : {"NewItems"}, items : Items, clear_cache : BOOLEAN]
  BY <1>2
<1>3. CASE u \in [kind : {"PaginationRunning", "PaginationError", "RoomMembersSynced"}]
  BY <1>3
<1>4. CASE u \in [kind : {"PaginationIdle"}, fully_paginated : BOOLEAN]
  BY <1>4
<1> QED BY <1>1, <1>2, <1>3, <1>4 DEF Update

(* A channel takes an update, and a receiver the oldest one.               *)
LEMMA ChannelTypes ==
    ASSUME NEW c \in Seq(Update)
    PROVE  /\ \A u \in Update : Append(c, u) \in Seq(Update)
           /\ c # <<>> => Head(c) \in Update /\ Tail(c) \in Seq(Update)
BY AppendProperties, HeadTailProperties

LEMMA ReplaysFrame ==
    ASSUME FeedInv, UNCHANGED <<sdkItems, stream, subscriber, timeline_items>>
    PROVE  Replays'
BY DEF FeedInv, Replays

(* The SDK applies a diff of its timeline.                                 *)
LEMMA SdkAppliesReplays ==
    ASSUME FeedInv, MayChange, NEW d \in Diffs(sdkItems), SdkApplies(d),
           UNCHANGED <<subscriber, timeline_items, channel>>
    PROVE  sdkItems' \in Items /\ Len(stream') <= MaxDiffs /\ Replays'
<1> DEFINE items == VectorApply(sdkItems, d)
<1>1. /\ sdkItems \in Seq(Item) /\ stream \in Seq(Change) /\ channel \in Seq(Update)
      /\ MaxDiffs \in Nat /\ Len(stream) <= MaxDiffs
  BY ItemsOf, FeedAssumption DEF FeedInv, TypeOK, Replays
<1>2. items \in Seq(Item)
  BY <1>1, ApplyAgrees
<1>3. Len(items) <= MaxLength /\ sdkItems' = items
  BY DEF SdkApplies
<1>4. items \in Items
  <2> HIDE DEF items
  <2> QED BY <1>2, <1>3, ItemsOf
<1>5. CASE subscriber # "running"
  BY <1>1, <1>3, <1>4, <1>5 DEF SdkApplies, FeedInv, Replays
<1>6. CASE subscriber = "running"
  <2>1. stream' = Append(stream, d) /\ Len(stream) + Len(channel) < MaxDiffs
    BY <1>6 DEF SdkApplies, MayChange
  <2>2. Leads(timeline_items, stream, sdkItems)
    BY <1>6 DEF FeedInv, Replays
  <2>3. stream' \in Seq(Change) /\ Leads(timeline_items, stream', items)
    <3> HIDE DEF Leads
    <3> QED BY <1>1, <1>4, <2>1, <2>2, LeadsOn
  <2>4. Len(stream') = Len(stream) + 1 /\ Len(stream) \in Nat /\ Len(channel) \in Nat
    <3>1. d \in Change
      BY <1>1, ApplyAgrees
    <3> QED BY <1>1, <2>1, <3>1, AppendProperties
  <2>5. Len(stream') <= MaxDiffs
    BY <1>1, <2>1, <2>4
  <2>6. Leads(timeline_items', stream', sdkItems') /\ subscriber' = "running"
    BY <1>3, <1>6, <2>3
  <2> QED BY <1>3, <1>4, <2>3, <2>5, <2>6 DEF Replays
<1> QED BY <1>1, <1>5, <1>6

LEMMA FeedInvInit == Init => FeedInv
<1> SUFFICES ASSUME Init PROVE FeedInv
  OBVIOUS
<1>1. <<>> \in Items /\ \A i \in Item : <<i>> \in Items
  <2>1. MaxLength \in Nat \ {0}
    BY FeedAssumption
  <2>2. <<>> \in Seq(Item) /\ Len(<<>>) = 0
    BY EmptySeq
  <2>3. \A i \in Item : <<i>> \in Seq(Item) /\ Len(<<i>>) = 1
    OBVIOUS
  <2>4. <<>> \in Items
    <3>1. Len(<<>>) <= MaxLength
      BY <2>1, <2>2
    <3> QED BY <2>2, <3>1, ItemsOf
  <2>5. ASSUME NEW i \in Item PROVE <<i>> \in Items
    <3> DEFINE s == <<i>>
    <3>1. s \in Seq(Item) /\ Len(s) <= MaxLength
      BY <2>1, <2>3
    <3> HIDE DEF s
    <3>2. s \in Items
      BY <3>1, ItemsOf
    <3> QED BY <3>2 DEF s
  <2> QED BY <2>4, <2>5
<1>2. <<>> \in Seq(Change) /\ <<>> \in Seq(Update) /\ Len(<<>>) = 0
  BY EmptySeq
<1>3. Replays
  BY <1>2 DEF Init, Replays
<1>4. TypeOK
  <2>1. sdkItems \in Items /\ timeline_items \in Items
    BY <1>1 DEF Init
  <2>2. requests \in 0 .. MaxRequests /\ Len(stream) <= MaxDiffs
    BY <1>2, FeedAssumption DEF Init
  <2>3. channel \in Seq(Update) /\ tl \in [items : Items, fully_paginated : BOOLEAN]
    BY <1>1, <1>2 DEF Init
  <2>4. task \in [Pagination -> {"none", "spawned", "paginating", "start", "more", "failed"}]
    BY DEF Init
  <2> QED BY <2>1, <2>2, <2>3, <2>4 DEF Init, TypeOK
<1> QED BY <1>3, <1>4 DEF FeedInv

LEMMA FeedInvStep == FeedInv /\ [Next]_vars => FeedInv'
<1> SUFFICES ASSUME FeedInv, [Next]_vars PROVE FeedInv'
  OBVIOUS
<1>1. /\ TypeOK /\ Replays /\ MaxDiffs \in Nat /\ MaxRequests \in Nat
      /\ sdkItems \in Items /\ timeline_items \in Items
      /\ stream \in Seq(Change) /\ channel \in Seq(Update)
  BY FeedAssumption DEF FeedInv, TypeOK, Replays
<1>2. CASE SdkChanges
  <2>1. PICK d \in Diffs(sdkItems) :
          d.op # "PushFront" /\ SdkApplies(d) /\ atStart' = (atStart /\ ~LosesStart(d))
    BY <1>2 DEF SdkChanges
  <2>2. UNCHANGED <<subscriber, timeline_items, channel, signalled, requestVars, screenVars>>
    BY <1>2 DEF SdkChanges
  <2>3. sdkItems' \in Items /\ Len(stream') <= MaxDiffs /\ Replays'
    <3>1. MayChange /\ UNCHANGED <<subscriber, timeline_items, channel>>
      BY <1>2, <2>2 DEF SdkChanges
    <3> QED BY <2>1, <3>1, SdkAppliesReplays
  <2>4. atStart' \in BOOLEAN
    BY <1>1, <2>1 DEF TypeOK, LosesStart
  <2> QED BY <1>1, <2>2, <2>3, <2>4 DEF FeedInv, TypeOK, requestVars, screenVars
<1>3. CASE Subscribe
  <2>1. /\ subscriber' = "running" /\ timeline_items' = sdkItems
        /\ channel' = Append(channel, [kind |-> "FirstUpdate", items |-> sdkItems])
        /\ UNCHANGED <<sdkVars, signalled, requestVars, screenVars>> /\ subscriber = "spawned"
    BY <1>3 DEF Subscribe
  <2>2. stream' = <<>> /\ sdkItems' = sdkItems
    BY <1>1, <2>1 DEF Replays, sdkVars
  <2>3. Leads(timeline_items', stream', sdkItems')
    BY <1>1, <2>1, <2>2, LeadsNowhere
  <2>4. Replays'
    BY <1>1, <2>1, <2>2, <2>3 DEF Replays
  <2>5. channel' \in Seq(Update)
    BY <1>1, <2>1, Sent, ChannelTypes
  <2> QED BY <1>1, <2>1, <2>4, <2>5 DEF FeedInv, TypeOK, sdkVars, requestVars, screenVars
<1>4. CASE NewItems
  <2>0. Batch.items = sdkItems
    BY <1>1, <1>4, BatchReplays DEF Replays, NewItems
  <2>1. PICK clear \in BOOLEAN :
          /\ subscriber = "running" /\ stream' = <<>> /\ timeline_items' = sdkItems
          /\ channel' = Append(channel, [kind |-> "NewItems", items |-> sdkItems, clear_cache |-> clear])
          /\ Signal /\ UNCHANGED <<sdkItems, atStart, subscriber, requestVars, screenVars>>
    <3> DEFINE batch == Batch
               clear == batch.clear_cache \/ BehindVirtual(batch)
    <3>1. /\ subscriber = "running" /\ stream' = <<>> /\ timeline_items' = batch.items
          /\ channel' = Append(channel, [kind |-> "NewItems", items |-> batch.items, clear_cache |-> clear])
          /\ Signal /\ UNCHANGED <<sdkItems, atStart, subscriber, requestVars, screenVars>>
      BY <1>4 DEF NewItems
    <3>2. batch.items = sdkItems /\ clear \in BOOLEAN
      BY <2>0
    <3> HIDE DEF batch, clear
    <3> QED BY <3>1, <3>2
  <2>2. Leads(timeline_items', stream', sdkItems')
    BY <1>1, <2>1, LeadsNowhere
  <2>3. Replays'
    BY <1>1, <2>1, <2>2, EmptySeq DEF Replays
  <2>4. channel' \in Seq(Update)
    BY <1>1, <2>1, Sent, ChannelTypes
  <2>5. Len(stream') <= MaxDiffs
    BY <1>1, <2>1, EmptySeq
  <2> QED BY <1>1, <2>1, <2>3, <2>4, <2>5 DEF FeedInv, TypeOK, Signal, Shown, requestVars, screenVars
<1>5. ASSUME NEW p \in Pagination, SpawnPagination(p) PROVE FeedInv'
  <2>1. Replays'
    BY <1>5, ReplaysFrame DEF SpawnPagination, sdkVars
  <2> QED BY <1>1, <1>5, <2>1 DEF FeedInv, TypeOK, SpawnPagination, sdkVars, screenVars
<1>6. ASSUME NEW p \in Pagination, RunPagination(p) PROVE FeedInv'
  <2>1. Replays'
    BY <1>6, ReplaysFrame DEF RunPagination, sdkVars
  <2>2. channel' \in Seq(Update)
    BY <1>1, <1>6, Sent, ChannelTypes DEF RunPagination, Send
  <2> QED BY <1>1, <1>6, <2>1, <2>2
          DEF FeedInv, TypeOK, RunPagination, Send, Signal, Shown, sdkVars, screenVars
<1>7. ASSUME NEW p \in Pagination, Paginated(p) PROVE FeedInv'
  <2>1. UNCHANGED <<subscriber, timeline_items, channel, signalled, requests, membersAsked, screenVars>>
    BY <1>7 DEF Paginated
  <2>2. task' \in [Pagination -> {"none", "spawned", "paginating", "start", "more", "failed"}]
    BY <1>1, <1>7 DEF Paginated, TypeOK
  <2>3. atStart' \in BOOLEAN
    BY <1>1, <1>7 DEF Paginated, TypeOK, sdkVars
  <2>4. sdkItems' \in Items /\ Len(stream') <= MaxDiffs /\ Replays'
    <3>1. CASE UNCHANGED <<sdkItems, stream>>
      BY <1>1, <2>1, <3>1, ReplaysFrame DEF TypeOK
    <3>2. CASE MayChange /\ \E d \in OlderDiffs : SdkApplies(d)
      <4>1. PICK d \in OlderDiffs : MayChange /\ SdkApplies(d)
        BY <3>2
      <4>2. d \in Diffs(sdkItems)
        BY <1>1, <4>1, ItemsOf, OlderDiffsAreDiffs
      <4>3. UNCHANGED <<subscriber, timeline_items, channel>>
        BY <2>1
      <4> QED BY <4>1, <4>2, <4>3, SdkAppliesReplays
    <3>3. UNCHANGED <<sdkItems, stream>> \/ (MayChange /\ \E d \in OlderDiffs : SdkApplies(d))
      BY <1>7 DEF Paginated, SdkGrows, sdkVars
    <3> QED BY <3>1, <3>2, <3>3
  <2> QED BY <1>1, <2>1, <2>2, <2>3, <2>4 DEF FeedInv, TypeOK, screenVars
<1>8. ASSUME NEW p \in Pagination, EndPagination(p) PROVE FeedInv'
  <2>1. Replays'
    BY <1>8, ReplaysFrame DEF EndPagination, sdkVars
  <2>2. channel' \in Seq(Update)
    <3> DEFINE u == IF task[p] = "failed" THEN [kind |-> "PaginationError"]
                    ELSE [kind |-> "PaginationIdle", fully_paginated |-> task[p] = "start"]
    <3>1. u \in Update
      BY Sent
    <3>2. channel' = Append(channel, u)
      BY <1>8 DEF EndPagination, Send
    <3> HIDE DEF u
    <3> QED BY <1>1, <3>1, <3>2, ChannelTypes
  <2> QED BY <1>1, <1>8, <2>1, <2>2
          DEF FeedInv, TypeOK, EndPagination, Send, Signal, Shown, sdkVars, screenVars
<1>9. CASE SyncMembers
  <2>1. Replays'
    BY <1>9, ReplaysFrame DEF SyncMembers, sdkVars
  <2>2. channel' \in Seq(Update)
    BY <1>1, <1>9, Sent, ChannelTypes DEF SyncMembers, Send
  <2>3. signalled' \in BOOLEAN /\ membersAsked' \in BOOLEAN
    <3>1. signalled' = Shown /\ membersAsked' = FALSE
      BY <1>9 DEF SyncMembers, Send, Signal
    <3>2. Shown \in BOOLEAN
      BY DEF Shown
    <3> QED BY <3>1, <3>2
  <2>4. UNCHANGED <<sdkVars, subscriber, timeline_items, requests, task, screenVars>>
    BY <1>9 DEF SyncMembers
  <2> QED BY <1>1, <2>1, <2>2, <2>3, <2>4 DEF FeedInv, TypeOK, sdkVars, screenVars
<1>10. CASE UserScrolls
  <2>1. Replays'
    BY <1>10, ReplaysFrame DEF UserScrolls, sdkVars
  <2> QED BY <1>1, <1>10, <2>1 DEF FeedInv, TypeOK, UserScrolls, sdkVars, screenVars
<1>11. CASE ShowFirst
  <2>1. Replays'
    BY <1>11, ReplaysFrame DEF ShowFirst, sdkVars
  <2> QED BY <1>1, <1>11, <2>1 DEF FeedInv, TypeOK, ShowFirst, sdkVars
<1>12. CASE ShowAgain
  <2>1. Replays'
    BY <1>12, ReplaysFrame DEF ShowAgain, sdkVars
  <2> QED BY <1>1, <1>12, <2>1 DEF FeedInv, TypeOK, ShowAgain, sdkVars
<1>13. CASE Hide
  <2>1. Replays'
    BY <1>13, ReplaysFrame DEF Hide, sdkVars
  <2> QED BY <1>1, <1>13, <2>1 DEF FeedInv, TypeOK, Hide, sdkVars, requestVars
<1>14. CASE ScreenRecv
  <2>1. Replays'
    BY <1>14, ReplaysFrame DEF ScreenRecv, sdkVars
  <2> QED BY <1>1, <1>14, <2>1 DEF FeedInv, TypeOK, ScreenRecv, sdkVars, requestVars
<1>15. CASE ScreenTakes
  <2>1. /\ screen = "processing" /\ channel # <<>> /\ channel' = Tail(channel)
        /\ FirstUpdate \/ ItemsUpdate \/ PaginationUpdate \/ MembersUpdate
        /\ UNCHANGED <<sdkVars, subscriber, timeline_items, signalled, requestVars, screen>>
    BY <1>15 DEF ScreenTakes
  <2>2. Replays'
    BY <2>1, ReplaysFrame DEF sdkVars
  <2>3. Head(channel) \in Update /\ channel' \in Seq(Update)
    BY <1>1, <2>1, ChannelTypes
  <2>4. /\ tl' \in [items : Items, fully_paginated : BOOLEAN]
        /\ is_loaded' \in {"new", "running", "loaded"} /\ continues' \in BOOLEAN
    <3>0. /\ tl \in [items : Items, fully_paginated : BOOLEAN]
          /\ is_loaded \in {"new", "running", "loaded"} /\ continues \in BOOLEAN
      BY <1>1 DEF TypeOK
    <3>1. CASE FirstUpdate
      BY <2>3, <3>0, <3>1, Received DEF FirstUpdate
    <3>2. CASE ItemsUpdate
      <4>1. Head(channel).items \in Items /\ Head(channel).clear_cache \in BOOLEAN
        BY <2>3, <3>2, Received DEF ItemsUpdate
      <4> QED BY <3>0, <3>2, <4>1 DEF ItemsUpdate
    <3>3. CASE PaginationUpdate
      <4>1. Head(channel).kind = "PaginationIdle" => Head(channel).fully_paginated \in BOOLEAN
        BY <2>3, Received
      <4> QED BY <3>0, <3>3, <4>1 DEF PaginationUpdate
    <3>4. CASE MembersUpdate
      BY <3>0, <3>4 DEF MembersUpdate
    <3> QED BY <2>1, <3>1, <3>2, <3>3, <3>4
  <2> QED BY <1>1, <2>1, <2>2, <2>3, <2>4 DEF FeedInv, TypeOK, sdkVars, requestVars
<1>16. CASE ScreenRests
  <2>1. Replays'
    BY <1>16, ReplaysFrame DEF ScreenRests, sdkVars
  <2>2. requests' \in 0 .. MaxRequests
    BY <1>1, <1>16 DEF TypeOK, ScreenRests
  <2>3. /\ screen' = "waiting" /\ continues' = FALSE
        /\ UNCHANGED <<sdkVars, subscriber, timeline_items, channel, signalled, membersAsked,
                      task, is_loaded, tl>>
    BY <1>16 DEF ScreenRests
  <2> QED BY <1>1, <2>1, <2>2, <2>3 DEF FeedInv, TypeOK, sdkVars
<1>17. CASE UNCHANGED vars
  <2>1. Replays'
    BY <1>17, ReplaysFrame DEF vars, sdkVars
  <2> QED BY <1>1, <1>17, <2>1 DEF FeedInv, TypeOK, vars, sdkVars, requestVars, screenVars
<1>18. CASE RoomLeaves
  <2>1. <<>> \in Items /\ <<>> \in Seq(Change) /\ Len(<<>>) = 0
    <3>1. <<>> \in Seq(Item) /\ <<>> \in Seq(Change) /\ Len(<<>>) = 0
      BY EmptySeq
    <3>2. Len(<<>>) <= MaxLength
      BY <3>1, FeedAssumption
    <3> QED BY <3>1, <3>2, ItemsOf
  <2>2. Replays'
    BY <1>18, <2>1 DEF RoomLeaves, Replays
  <2> QED BY <1>1, <1>18, <2>1, <2>2 DEF FeedInv, TypeOK, RoomLeaves, requestVars, screenVars
<1>19. CASE SkipPagination
  <2>1. Replays'
    BY <1>19, ReplaysFrame DEF SkipPagination, sdkVars
  <2>2. requests' \in 0 .. MaxRequests
    BY <1>1, <1>19 DEF SkipPagination, TypeOK
  <2> QED BY <1>1, <1>19, <2>1, <2>2 DEF FeedInv, TypeOK, SkipPagination, sdkVars, screenVars
<1>20. CASE SkipMembers
  <2>1. Replays'
    BY <1>20, ReplaysFrame DEF SkipMembers, sdkVars
  <2> QED BY <1>1, <1>20, <2>1 DEF FeedInv, TypeOK, SkipMembers, sdkVars, screenVars
<1> QED BY <1>2, <1>3, <1>4, <1>5, <1>6, <1>7, <1>8, <1>9, <1>10, <1>11, <1>12, <1>13, <1>14,
           <1>15, <1>16, <1>17, <1>18, <1>19, <1>20 DEF Next, PaginationNext, ScreenNext

(* Types hold, for any items, paginations and bounds; in particular what   *)
(* the subscriber computes from the diffs is a timeline.                   *)
THEOREM FeedTypeCorrect == Spec => []TypeOK
<1>1. FeedInv => TypeOK
  BY DEF FeedInv
<1> QED BY FeedInvInit, FeedInvStep, <1>1, PTL DEF Spec

(***************************************************************************)
(* 4. The newest list that was sent, in the channel or else on display, is *)
(* the subscriber's copy.                                                  *)
(***************************************************************************)

IsList(u) == u.kind \in {"FirstUpdate", "NewItems"}

NewestIs(c, shown, copy) ==
    \/ (\A i \in DOMAIN c : ~IsList(c[i])) /\ copy = shown
    \/ \E i \in DOMAIN c :
        IsList(c[i]) /\ copy = c[i].items /\ \A j \in DOMAIN c : IsList(c[j]) => j <= i

NewestInv == subscriber = "running" => NewestIs(channel, tl.items, timeline_items)

LEMMA NewestAfterList ==
    ASSUME NEW c \in Seq(Update), NEW u \in Update, IsList(u), NEW shown
    PROVE  NewestIs(Append(c, u), shown, u.items)
<1>1. /\ Len(c) \in Nat /\ DOMAIN Append(c, u) = 1..Len(c) + 1
      /\ Len(c) + 1 \in DOMAIN Append(c, u) /\ Append(c, u)[Len(c) + 1] = u
  BY AppendOf
<1>2. \A j \in DOMAIN Append(c, u) : j <= Len(c) + 1
  BY <1>1
<1> QED BY <1>1, <1>2 DEF NewestIs

LEMMA NewestAfterOther ==
    ASSUME NEW c \in Seq(Update), NEW u \in Update, ~IsList(u), NEW shown, NEW copy,
           NewestIs(c, shown, copy)
    PROVE  NewestIs(Append(c, u), shown, copy)
<1>1. /\ Len(c) \in Nat /\ DOMAIN c = 1..Len(c) /\ DOMAIN Append(c, u) = 1..Len(c) + 1
      /\ \A j \in DOMAIN c : j \in DOMAIN Append(c, u) /\ Append(c, u)[j] = c[j]
      /\ Append(c, u)[Len(c) + 1] = u
  BY AppendOf
<1>2. \A j \in DOMAIN Append(c, u) : IsList(Append(c, u)[j]) => j \in DOMAIN c /\ IsList(c[j])
  <2> TAKE j \in DOMAIN Append(c, u)
  <2>1. j \in DOMAIN c \/ j = Len(c) + 1
    BY <1>1
  <2> QED BY <1>1, <2>1
<1> QED BY <1>1, <1>2 DEF NewestIs

(* Taking a list off the channel displays it; taking anything else leaves  *)
(* what is displayed.                                                      *)
LEMMA NewestAfterTaking ==
    ASSUME NEW c \in Seq(Update), c # <<>>, NEW shown, NEW copy, NewestIs(c, shown, copy)
    PROVE  NewestIs(Tail(c), IF IsList(Head(c)) THEN Head(c).items ELSE shown, copy)
<1> DEFINE display == IF IsList(Head(c)) THEN Head(c).items ELSE shown
<1>1. /\ 1 \in DOMAIN c /\ Head(c) = c[1]
      /\ DOMAIN c = 1..Len(c) /\ Len(c) \in Nat \ {0}
      /\ DOMAIN Tail(c) = 1..Len(c) - 1
      /\ \A j \in DOMAIN c : j > 1 => j - 1 \in DOMAIN Tail(c) /\ Tail(c)[j - 1] = c[j]
      /\ \A j \in DOMAIN Tail(c) : j + 1 \in DOMAIN c /\ Tail(c)[j] = c[j + 1]
  BY TailOf
<1>2. \A j \in DOMAIN Tail(c) : j \in Nat \ {0}
  BY <1>1
<1>3. CASE (\A i \in DOMAIN c : ~IsList(c[i])) /\ copy = shown
  <2>1. ~IsList(Head(c)) /\ \A j \in DOMAIN Tail(c) : ~IsList(Tail(c)[j])
    BY <1>1, <1>3
  <2> QED BY <1>3, <2>1 DEF NewestIs
<1>4. ASSUME NEW i \in DOMAIN c, IsList(c[i]), copy = c[i].items,
             \A j \in DOMAIN c : IsList(c[j]) => j <= i
      PROVE  NewestIs(Tail(c), display, copy)
  <2>1. CASE i = 1
    <3>1. \A j \in DOMAIN Tail(c) : ~IsList(Tail(c)[j])
      <4> TAKE j \in DOMAIN Tail(c)
      <4>1. j + 1 \in DOMAIN c /\ Tail(c)[j] = c[j + 1] /\ ~(j + 1 <= 1)
        BY <1>1, <1>2
      <4> QED BY <1>4, <2>1, <4>1
    <3>2. copy = display
      BY <1>1, <1>4, <2>1
    <3> HIDE DEF display
    <3> QED BY <3>1, <3>2 DEF NewestIs
  <2>2. CASE i # 1
    <3>1. i > 1 /\ i \in Nat
      BY <1>1, <2>2
    <3>2. i - 1 \in DOMAIN Tail(c) /\ Tail(c)[i - 1] = c[i]
      BY <1>1, <3>1
    <3>3. \A j \in DOMAIN Tail(c) : IsList(Tail(c)[j]) => j <= i - 1
      <4> TAKE j \in DOMAIN Tail(c)
      <4>1. j + 1 \in DOMAIN c /\ Tail(c)[j] = c[j + 1] /\ j \in Nat
        BY <1>1, <1>2
      <4>2. IsList(Tail(c)[j]) => j + 1 <= i
        BY <1>4, <4>1
      <4> QED BY <3>1, <4>1, <4>2
    <3> HIDE DEF display
    <3> QED BY <1>4, <3>2, <3>3 DEF NewestIs
  <2> QED BY <2>1, <2>2
<1> QED BY <1>3, <1>4 DEF NewestIs

LEMMA NewestFrame ==
    ASSUME NewestInv, UNCHANGED <<channel, tl, timeline_items, subscriber>>
    PROVE  NewestInv'
BY DEF NewestInv

LEMMA NewestAfterSend ==
    ASSUME FeedInv, NewestInv, NEW u \in Update, ~IsList(u), channel' = Append(channel, u),
           UNCHANGED <<tl, timeline_items, subscriber>>
    PROVE  NewestInv'
<1>1. channel \in Seq(Update)
  BY DEF FeedInv, TypeOK
<1> QED BY <1>1, NewestAfterOther DEF NewestInv

LEMMA NewestStep == FeedInv /\ NewestInv /\ [Next]_vars => NewestInv'
<1> SUFFICES ASSUME FeedInv, NewestInv, [Next]_vars PROVE NewestInv'
  OBVIOUS
<1>1. /\ channel \in Seq(Update) /\ sdkItems \in Items
      /\ tl \in [items : Items, fully_paginated : BOOLEAN]
  BY DEF FeedInv, TypeOK
<1>2. CASE SdkChanges
  BY <1>2, NewestFrame DEF SdkChanges, screenVars
<1>3. CASE Subscribe
  <2> DEFINE u == [kind |-> "FirstUpdate", items |-> sdkItems]
  <2>1. u \in Update /\ IsList(u) /\ u.items = sdkItems
    BY <1>1, Sent DEF IsList
  <2>2. channel' = Append(channel, u) /\ timeline_items' = sdkItems
    BY <1>3 DEF Subscribe
  <2> HIDE DEF u
  <2>3. NewestIs(channel', tl'.items, timeline_items')
    BY <1>1, <2>1, <2>2, NewestAfterList
  <2> QED BY <2>3 DEF NewestInv
<1>4. CASE NewItems
  <2> DEFINE batch == Batch
             clear == batch.clear_cache \/ BehindVirtual(batch)
             u == [kind |-> "NewItems", items |-> batch.items, clear_cache |-> clear]
  <2>1. channel' = Append(channel, u) /\ timeline_items' = batch.items
    BY <1>4 DEF NewItems
  <2>2. batch.items \in Items /\ clear \in BOOLEAN
    BY <1>1, <1>4, BatchReplays DEF FeedInv, Replays, NewItems
  <2> HIDE DEF batch, clear
  <2>3. u \in Update /\ IsList(u) /\ u.items = batch.items
    BY <2>2, Sent DEF IsList
  <2> HIDE DEF u
  <2>4. NewestIs(channel', tl'.items, timeline_items')
    BY <1>1, <2>1, <2>3, NewestAfterList
  <2> QED BY <2>4 DEF NewestInv
<1>5. ASSUME NEW p \in Pagination, SpawnPagination(p) PROVE NewestInv'
  BY <1>5, NewestFrame DEF SpawnPagination, screenVars
<1>6. ASSUME NEW p \in Pagination, RunPagination(p) PROVE NewestInv'
  <2> DEFINE u == [kind |-> "PaginationRunning"]
  <2>1. u \in Update /\ ~IsList(u)
    BY Sent DEF IsList
  <2>2. channel' = Append(channel, u) /\ UNCHANGED <<tl, timeline_items, subscriber>>
    BY <1>6 DEF RunPagination, Send, screenVars
  <2> HIDE DEF u
  <2> QED BY <2>1, <2>2, NewestAfterSend
<1>7. ASSUME NEW p \in Pagination, Paginated(p) PROVE NewestInv'
  <2>1. UNCHANGED <<channel, tl, timeline_items, subscriber>>
    BY <1>7 DEF Paginated, screenVars
  <2> QED BY <2>1, NewestFrame
<1>8. ASSUME NEW p \in Pagination, EndPagination(p) PROVE NewestInv'
  <2> DEFINE u == IF task[p] = "failed" THEN [kind |-> "PaginationError"]
                  ELSE [kind |-> "PaginationIdle", fully_paginated |-> task[p] = "start"]
  <2>1. u \in Update /\ ~IsList(u)
    BY Sent DEF IsList
  <2>2. channel' = Append(channel, u) /\ UNCHANGED <<tl, timeline_items, subscriber>>
    BY <1>8 DEF EndPagination, Send, screenVars
  <2> HIDE DEF u
  <2> QED BY <2>1, <2>2, NewestAfterSend
<1>9. CASE SyncMembers
  <2> DEFINE u == [kind |-> "RoomMembersSynced"]
  <2>1. u \in Update /\ ~IsList(u)
    BY Sent DEF IsList
  <2>2. channel' = Append(channel, u) /\ UNCHANGED <<tl, timeline_items, subscriber>>
    BY <1>9 DEF SyncMembers, Send, screenVars
  <2> HIDE DEF u
  <2> QED BY <2>1, <2>2, NewestAfterSend
<1>10. CASE UserScrolls
  BY <1>10, NewestFrame DEF UserScrolls, screenVars
<1>11. CASE ShowFirst
  BY <1>11, NewestFrame DEF ShowFirst
<1>12. CASE ShowAgain
  BY <1>12, NewestFrame DEF ShowAgain
<1>13. CASE Hide
  BY <1>13, NewestFrame DEF Hide
<1>14. CASE ScreenRecv
  BY <1>14, NewestFrame DEF ScreenRecv
<1>15. CASE ScreenTakes
  <2>1. /\ channel # <<>> /\ channel' = Tail(channel)
        /\ FirstUpdate \/ ItemsUpdate \/ PaginationUpdate \/ MembersUpdate
        /\ timeline_items' = timeline_items /\ subscriber' = subscriber
    BY <1>15 DEF ScreenTakes
  <2>2. tl'.items = IF IsList(Head(channel)) THEN Head(channel).items ELSE tl.items
    <3>1. CASE FirstUpdate
      BY <3>1 DEF FirstUpdate, IsList
    <3>2. CASE ItemsUpdate
      BY <3>2 DEF ItemsUpdate, IsList
    <3>3. CASE PaginationUpdate
      BY <1>1, <3>3 DEF PaginationUpdate, IsList
    <3>4. CASE MembersUpdate
      BY <3>4 DEF MembersUpdate, IsList
    <3> QED BY <2>1, <3>1, <3>2, <3>3, <3>4
  <2>3. NewestIs(channel, tl.items, timeline_items)
          => NewestIs(channel', tl'.items, timeline_items')
    BY <1>1, <2>1, <2>2, NewestAfterTaking
  <2> QED BY <2>1, <2>3 DEF NewestInv
<1>16. CASE ScreenRests
  BY <1>16, NewestFrame DEF ScreenRests
<1>17. CASE UNCHANGED vars
  BY <1>17, NewestFrame DEF vars, screenVars
<1>18. CASE RoomLeaves
  BY <1>18 DEF RoomLeaves, NewestInv
<1>19. CASE SkipPagination
  BY <1>19, NewestFrame DEF SkipPagination, screenVars
<1>20. CASE SkipMembers
  BY <1>20, NewestFrame DEF SkipMembers, screenVars
<1> QED BY <1>2, <1>3, <1>4, <1>5, <1>6, <1>7, <1>8, <1>9, <1>10, <1>11, <1>12, <1>13, <1>14,
           <1>15, <1>16, <1>17, <1>18, <1>19, <1>20 DEF Next, PaginationNext, ScreenNext

(* Nothing the subscriber sends is wrong or lost: the unseen diffs, folded *)
(* over its copy, make the SDK's timeline, and the newest list in the      *)
(* channel, or else on display, is its copy.                               *)
THEOREM ListsAreReplayed == Spec => []ListsReplay
<1>1. FeedInv /\ NewestInv => ListsReplay
  <2> SUFFICES ASSUME FeedInv, NewestInv, subscriber = "running" PROVE
          /\ FoldLeft(Apply, timeline_items, stream) = sdkItems
          /\ LET lists == {i \in DOMAIN channel : channel[i].kind \in {"FirstUpdate", "NewItems"}} IN
             \/ lists = {} /\ timeline_items = tl.items
             \/ \E i \in lists : timeline_items = channel[i].items /\ \A j \in lists : j <= i
    BY DEF ListsReplay
  <2>1. FoldLeft(Apply, timeline_items, stream) = sdkItems
    BY LeadsToFold DEF FeedInv, Replays
  <2>2. NewestIs(channel, tl.items, timeline_items)
    BY DEF NewestInv
  <2> QED BY <2>1, <2>2 DEF NewestIs, IsList
<1>2. Init => NewestInv
  BY DEF Init, NewestInv
<1> QED BY FeedInvInit, FeedInvStep, NewestStep, <1>1, <1>2, PTL DEF Spec

(***************************************************************************)
(* 5. The screen: it hears of the updates in its channel, and a room that  *)
(* is loading is going to be loaded again.                                 *)
(***************************************************************************)

(* Appending an update to a channel keeps what is there, and the update is *)
(* the last one.                                                           *)
LEMMA AfterSend ==
    ASSUME NEW c \in Seq(Update), NEW u \in Update
    PROVE  /\ \A i \in DOMAIN c : i \in DOMAIN Append(c, u) /\ Append(c, u)[i] = c[i]
           /\ \A i \in DOMAIN Append(c, u) :
                \/ i \in DOMAIN c /\ Append(c, u)[i] = c[i]
                \/ i = Len(c) + 1 /\ Append(c, u)[i] = u
           /\ Len(c) + 1 \in DOMAIN Append(c, u) /\ Append(c, u)[Len(c) + 1] = u
           /\ \A i \in DOMAIN c : Len(c) + 1 > i
<1>1. /\ Len(c) \in Nat /\ DOMAIN c = 1..Len(c) /\ DOMAIN Append(c, u) = 1..Len(c) + 1
      /\ \A j \in DOMAIN c : j \in DOMAIN Append(c, u) /\ Append(c, u)[j] = c[j]
      /\ Len(c) + 1 \in DOMAIN Append(c, u) /\ Append(c, u)[Len(c) + 1] = u
  BY AppendOf
<1>2. \A i \in DOMAIN c : Len(c) + 1 > i
  BY <1>1
<1>3. \A i \in DOMAIN Append(c, u) : i \in DOMAIN c \/ i = Len(c) + 1
  BY <1>1
<1>4. ASSUME NEW i \in DOMAIN Append(c, u)
      PROVE  \/ i \in DOMAIN c /\ Append(c, u)[i] = c[i]
             \/ i = Len(c) + 1 /\ Append(c, u)[i] = u
  BY <1>1, <1>3
<1> QED BY ONLY <1>1, <1>2, <1>4

(* As long as the room is there, no update but the FirstUpdate waits       *)
(* unheard in front of a screen at rest: every other one is sent with a    *)
(* signal, a screen that comes back asks for its members, a request that   *)
(* is answered as the room is there, and one that rests has emptied its    *)
(* channel.                                                                *)
THEOREM UpdatesAreHeard == Spec => []ScreenHears
<1>1. Init => ScreenHears
  BY DEF Init, ScreenHears
<1>2. FeedInv /\ ScreenHears /\ [Next]_vars => ScreenHears'
  <2> SUFFICES ASSUME FeedInv, ScreenHears, [Next]_vars PROVE ScreenHears'
    OBVIOUS
  <2>0. channel \in Seq(Update) /\ sdkItems \in Items
    BY DEF FeedInv, TypeOK
  <2>1. CASE SdkChanges
    BY <2>1 DEF ScreenHears, RoomIsThere, SdkChanges, screenVars, requestVars
  <2>2. CASE Subscribe
    <3> DEFINE u == [kind |-> "FirstUpdate", items |-> sdkItems]
    <3>1. u \in Update /\ u.kind = "FirstUpdate"
      BY <2>0, Sent
    <3>2. channel' = Append(channel, u) /\ UNCHANGED <<screen, signalled, membersAsked>> /\ RoomIsThere
      BY <2>2 DEF Subscribe, RoomIsThere, screenVars, requestVars
    <3> HIDE DEF u
    <3>3. \A i \in DOMAIN channel' :
            channel'[i].kind # "FirstUpdate" => i \in DOMAIN channel /\ channel[i] = channel'[i]
      BY <2>0, <3>1, <3>2, AfterSend
    <3> QED BY <3>2, <3>3 DEF ScreenHears, RoomIsThere
  <2>3. CASE NewItems
    BY <2>3 DEF ScreenHears, RoomIsThere, NewItems, Signal, Shown, screenVars
  <2>4. CASE \E p \in Pagination : SpawnPagination(p) \/ Paginated(p)
    BY <2>4 DEF ScreenHears, RoomIsThere, SpawnPagination, Paginated, screenVars
  <2>5. CASE \E p \in Pagination : RunPagination(p) \/ EndPagination(p)
    BY <2>5 DEF ScreenHears, RoomIsThere, RunPagination, EndPagination, Send, Signal, Shown, screenVars
  <2>6. CASE SyncMembers
    BY <2>6 DEF ScreenHears, RoomIsThere, SyncMembers, Send, Signal, Shown, screenVars
  <2>7. CASE UserScrolls \/ ShowFirst \/ ShowAgain \/ Hide
    BY <2>7 DEF ScreenHears, RoomIsThere, UserScrolls, ShowFirst, ShowAgain, Hide, screenVars
  <2>8. CASE ScreenRecv \/ ScreenTakes
    BY <2>8 DEF ScreenHears, RoomIsThere, ScreenRecv, ScreenTakes
  <2>9. CASE ScreenRests
    BY <2>9 DEF ScreenHears, RoomIsThere, ScreenRests
  <2>10. CASE UNCHANGED vars
    BY <2>10 DEF ScreenHears, RoomIsThere, vars, screenVars, requestVars
  <2>11. CASE RoomLeaves \/ SkipMembers
    BY <2>11 DEF ScreenHears, RoomLeaves, SkipMembers, RoomIsThere
  <2>12. CASE SkipPagination
    BY <2>12 DEF ScreenHears, SkipPagination, RoomIsThere, screenVars
  <2> QED BY <2>1, <2>2, <2>3, <2>4, <2>5, <2>6, <2>7, <2>8, <2>9, <2>10, <2>11, <2>12
          DEF Next, PaginationNext, ScreenNext
<1> QED BY FeedInvInit, FeedInvStep, <1>1, <1>2, PTL DEF Spec

(* What is going to send an update that loads a room, if it is there.      *)
UnderWay ==
    \/ ~RoomIsThere
    \/ \E p \in Pagination : task[p] \in {"paginating", "start", "failed"}
    \/ subscriber = "spawned"
    \/ stream # <<>>

(* Every PaginationRunning, in the channel or last applied by the screen,  *)
(* is followed by an update that loads the room, or one is under way, as   *)
(* long as the room is there.                                              *)
LoadingInv ==
    /\ screen = "new" => is_loaded = "new"
    /\ is_loaded = "running" /\ Shown => UnderWay \/ \E j \in DOMAIN channel : Loads(channel[j])
    /\ \A i \in DOMAIN channel : channel[i].kind = "PaginationRunning" =>
        UnderWay \/ \E j \in DOMAIN channel : j > i /\ Loads(channel[j])

(* It stays so while nothing is sent or taken,                             *)
LEMMA LoadingFrame ==
    ASSUME LoadingInv, UnderWay => UnderWay', channel' = channel,
           screen' = "new" => screen = "new", UNCHANGED is_loaded, Shown' => Shown \/ is_loaded = "new"
    PROVE  LoadingInv'
<1>1. screen' = "new" => is_loaded' = "new"
  BY DEF LoadingInv
<1>2. is_loaded' = "running" /\ Shown' => UnderWay' \/ \E j \in DOMAIN channel' : Loads(channel'[j])
  BY DEF LoadingInv
<1>3. \A i \in DOMAIN channel' : channel'[i].kind = "PaginationRunning" =>
        UnderWay' \/ \E j \in DOMAIN channel' : j > i /\ Loads(channel'[j])
  BY DEF LoadingInv
<1> QED BY <1>1, <1>2, <1>3 DEF LoadingInv

(* when an update that loads the room is sent, or anything else,           *)
LEMMA LoadingSend ==
    ASSUME LoadingInv, channel \in Seq(Update), NEW u \in Update, channel' = Append(channel, u),
           \/ Loads(u)
           \/ UnderWay => UnderWay',
           u.kind = "PaginationRunning" => UnderWay',
           UNCHANGED <<screen, is_loaded>>
    PROVE  LoadingInv'
<1> DEFINE n == Len(channel) + 1
<1>1. /\ \A i \in DOMAIN channel : i \in DOMAIN channel' /\ channel'[i] = channel[i]
      /\ \A i \in DOMAIN channel' :
            (i \in DOMAIN channel /\ channel'[i] = channel[i]) \/ (i = n /\ channel'[i] = u)
      /\ n \in DOMAIN channel' /\ channel'[n] = u
      /\ \A i \in DOMAIN channel : n > i
  BY AfterSend
<1> HIDE DEF n
<1>2. screen' = "new" => is_loaded' = "new"
  BY DEF LoadingInv
<1>3. ASSUME is_loaded' = "running", Shown'
      PROVE  UnderWay' \/ \E j \in DOMAIN channel' : Loads(channel'[j])
  <2>1. UnderWay \/ \E j \in DOMAIN channel : Loads(channel[j])
    BY <1>3 DEF LoadingInv, Shown
  <2> QED BY <1>1, <2>1
<1>4. ASSUME NEW i \in DOMAIN channel', channel'[i].kind = "PaginationRunning"
      PROVE  UnderWay' \/ \E j \in DOMAIN channel' : j > i /\ Loads(channel'[j])
  <2>1. CASE i = n /\ channel'[i] = u
    BY <1>4, <2>1
  <2>2. CASE i \in DOMAIN channel /\ channel'[i] = channel[i]
    <3>1. UnderWay \/ \E j \in DOMAIN channel : j > i /\ Loads(channel[j])
      BY <1>4, <2>2 DEF LoadingInv
    <3> QED BY <1>1, <2>2, <3>1
  <2> QED BY <1>1, <2>1, <2>2
<1> QED BY <1>2, <1>3, <1>4 DEF LoadingInv

(* and when one is taken: what loads the room and is taken has loaded it.  *)
LEMMA LoadingTakes ==
    ASSUME FeedInv, LoadingInv, ScreenTakes
    PROVE  LoadingInv'
<1>0. /\ channel \in Seq(Update) /\ channel # <<>> /\ channel' = Tail(channel)
      /\ screen = "processing" /\ screen' = screen /\ Shown
      /\ FirstUpdate \/ ItemsUpdate \/ PaginationUpdate \/ MembersUpdate
  BY DEF FeedInv, TypeOK, ScreenTakes, Shown
<1>1. /\ 1 \in DOMAIN channel /\ Head(channel) = channel[1]
      /\ DOMAIN channel = 1..Len(channel) /\ Len(channel) \in Nat \ {0}
      /\ DOMAIN channel' = 1..Len(channel) - 1
      /\ \A j \in DOMAIN channel : j > 1 => j - 1 \in DOMAIN channel' /\ channel'[j - 1] = channel[j]
      /\ \A j \in DOMAIN channel' : j + 1 \in DOMAIN channel /\ channel'[j] = channel[j + 1]
  BY <1>0, TailOf
<1>2. UnderWay' <=> UnderWay
  BY DEF ScreenTakes, UnderWay, RoomIsThere, sdkVars, requestVars
<1>3. \A j \in DOMAIN channel : j > 1 /\ Loads(channel[j])
        => j - 1 \in DOMAIN channel' /\ Loads(channel'[j - 1])
  BY <1>1
<1>4. ASSUME is_loaded' = "running"
      PROVE  UnderWay' \/ \E j \in DOMAIN channel' : Loads(channel'[j])
  <2>1. \/ channel[1].kind = "PaginationRunning"
        \/ is_loaded = "running" /\ ~Loads(channel[1])
    <3>1. ~FirstUpdate /\ ~ItemsUpdate
      BY <1>4 DEF FirstUpdate, ItemsUpdate
    <3>2. CASE PaginationUpdate
      BY <1>1, <1>4, <3>2 DEF PaginationUpdate, Loads
    <3>3. CASE MembersUpdate
      BY <1>1, <1>4, <3>3 DEF MembersUpdate, Loads
    <3> QED BY <1>0, <3>1, <3>2, <3>3
  <2>2. UnderWay \/ \E j \in DOMAIN channel : j > 1 /\ Loads(channel[j])
    <3>1. CASE channel[1].kind = "PaginationRunning"
      BY <1>1, <3>1 DEF LoadingInv
    <3>2. CASE is_loaded = "running" /\ ~Loads(channel[1])
      <4>1. UnderWay \/ \E j \in DOMAIN channel : Loads(channel[j])
        BY <1>0, <3>2 DEF LoadingInv
      <4>2. \A j \in DOMAIN channel : j = 1 \/ j > 1
        BY <1>1
      <4> QED BY <3>2, <4>1, <4>2
    <3> QED BY <2>1, <3>1, <3>2
  <2> QED BY <1>2, <1>3, <2>2
<1>5. ASSUME NEW i \in DOMAIN channel', channel'[i].kind = "PaginationRunning"
      PROVE  UnderWay' \/ \E j \in DOMAIN channel' : j > i /\ Loads(channel'[j])
  <2>1. i + 1 \in DOMAIN channel /\ channel[i + 1].kind = "PaginationRunning" /\ i \in Nat \ {0}
    BY <1>1, <1>5
  <2>2. UnderWay \/ \E j \in DOMAIN channel : j > i + 1 /\ Loads(channel[j])
    BY <2>1 DEF LoadingInv
  <2>3. \A j \in DOMAIN channel : j > i + 1 => j > 1 /\ j - 1 > i
    BY <1>1, <2>1
  <2> QED BY <1>2, <1>3, <2>2, <2>3
<1> QED BY <1>0, <1>4, <1>5 DEF LoadingInv

LEMMA LoadingStep == FeedInv /\ LoadingInv /\ [Next]_vars => LoadingInv'
<1> SUFFICES ASSUME FeedInv, LoadingInv, [Next]_vars PROVE LoadingInv'
  OBVIOUS
<1>0. /\ channel \in Seq(Update) /\ stream \in Seq(Change) /\ sdkItems \in Items
      /\ task \in [Pagination -> {"none", "spawned", "paginating", "start", "more", "failed"}]
      /\ subscriber \in {"spawned", "running", "aborted"}
  BY DEF FeedInv, TypeOK, Replays
<1>1. ASSUME NEW d, d \in Change, SdkApplies(d), UNCHANGED subscriber PROVE UnderWay'
  <2>1. CASE subscriber # "running"
    BY <1>0, <1>1, <2>1 DEF UnderWay, RoomIsThere
  <2>2. CASE subscriber = "running"
    <3>1. stream' = Append(stream, d)
      BY <1>1, <2>2 DEF SdkApplies
    <3>2. stream' # <<>>
      <4>1. stream' \in Seq(Change) /\ Len(stream') = Len(stream) + 1 /\ Len(stream) \in Nat
        BY <1>0, <1>1, <3>1, AppendProperties
      <4>2. Len(<<>>) = 0
        BY EmptySeq
      <4> QED BY <4>1, <4>2
    <3> QED BY <3>2 DEF UnderWay
  <2> QED BY <2>1, <2>2
<1>2. CASE SdkChanges
  <2>1. PICK d \in Diffs(sdkItems) : SdkApplies(d)
    BY <1>2 DEF SdkChanges
  <2>2. d \in Change
    BY <1>0, <2>1, ItemsOf, ApplyAgrees
  <2>3. UnderWay'
    BY <1>1, <1>2, <2>1, <2>2 DEF SdkChanges
  <2> QED BY <1>2, <2>3, LoadingFrame DEF SdkChanges, screenVars, Shown
<1>3. CASE Subscribe
  <2> DEFINE u == [kind |-> "FirstUpdate", items |-> sdkItems]
  <2>1. u \in Update /\ Loads(u) /\ u.kind # "PaginationRunning"
    BY <1>0, Sent DEF Loads
  <2>2. channel' = Append(channel, u) /\ UNCHANGED <<screen, is_loaded>>
    BY <1>3 DEF Subscribe, screenVars
  <2> HIDE DEF u
  <2> QED BY <1>0, <2>1, <2>2, LoadingSend
<1>4. CASE NewItems
  <2> DEFINE batch == Batch
             clear == batch.clear_cache \/ BehindVirtual(batch)
             u == [kind |-> "NewItems", items |-> batch.items, clear_cache |-> clear]
  <2>1. channel' = Append(channel, u) /\ UNCHANGED <<screen, is_loaded>>
    BY <1>4 DEF NewItems, screenVars
  <2>2. batch.items \in Items /\ clear \in BOOLEAN
    BY <1>0, <1>4, BatchReplays DEF FeedInv, Replays, NewItems
  <2> HIDE DEF batch, clear
  <2>3. u \in Update /\ Loads(u) /\ u.kind # "PaginationRunning"
    BY <2>2, Sent DEF Loads
  <2> HIDE DEF u
  <2> QED BY <1>0, <2>1, <2>3, LoadingSend
<1>5. ASSUME NEW p \in Pagination, SpawnPagination(p) PROVE LoadingInv'
  <2>1. UnderWay => UnderWay'
    BY <1>0, <1>5 DEF SpawnPagination, UnderWay, RoomIsThere, sdkVars
  <2> QED BY <1>5, <2>1, LoadingFrame DEF SpawnPagination, screenVars, Shown
<1>6. ASSUME NEW p \in Pagination, RunPagination(p) PROVE LoadingInv'
  <2> DEFINE u == [kind |-> "PaginationRunning"]
  <2>1. u \in Update
    BY Sent
  <2>2. channel' = Append(channel, u) /\ UNCHANGED <<screen, is_loaded>>
    BY <1>6 DEF RunPagination, Send, screenVars
  <2>3. UnderWay'
    BY <1>0, <1>6 DEF RunPagination, UnderWay, RoomIsThere
  <2> HIDE DEF u
  <2> QED BY <1>0, <2>1, <2>2, <2>3, LoadingSend
<1>7. ASSUME NEW p \in Pagination, Paginated(p) PROVE LoadingInv'
  <2>1. UnderWay'
    <3>1. CASE task' = [task EXCEPT ![p] = "start"] \/ task' = [task EXCEPT ![p] = "failed"]
      BY <1>0, <3>1 DEF UnderWay
    <3>2. CASE RoomIsThere /\ SdkGrows
      <4>1. PICK d \in OlderDiffs : SdkApplies(d)
        BY <3>2 DEF SdkGrows
      <4>2. sdkItems \in Seq(Item) /\ d \in Diffs(sdkItems)
        BY <1>0, <4>1, ItemsOf, OlderDiffsAreDiffs
      <4>3. d \in Change
        BY <4>2, ApplyAgrees
      <4> QED BY <1>1, <1>7, <4>1, <4>3 DEF Paginated
    <3>3. CASE ~RoomIsThere
      BY <1>7, <3>3 DEF Paginated, UnderWay, RoomIsThere
    <3> QED BY <1>7, <3>1, <3>2, <3>3 DEF Paginated
  <2>2. UNCHANGED <<channel, screen, is_loaded>>
    BY <1>7 DEF Paginated, screenVars
  <2> QED BY <2>1, <2>2, LoadingFrame DEF Shown
<1>8. ASSUME NEW p \in Pagination, EndPagination(p) PROVE LoadingInv'
  <2> DEFINE u == IF task[p] = "failed" THEN [kind |-> "PaginationError"]
                  ELSE [kind |-> "PaginationIdle", fully_paginated |-> task[p] = "start"]
  <2>1. u \in Update /\ u.kind # "PaginationRunning"
    BY Sent
  <2>2. channel' = Append(channel, u) /\ UNCHANGED <<screen, is_loaded>>
    BY <1>8 DEF EndPagination, Send, screenVars
  <2>3. Loads(u) \/ (UnderWay => UnderWay')
    <3>1. CASE task[p] \in {"start", "failed"}
      BY <3>1 DEF Loads
    <3>2. CASE task[p] = "more"
      BY <1>0, <1>8, <3>2 DEF EndPagination, UnderWay, RoomIsThere, sdkVars
    <3> QED BY <1>8, <3>1, <3>2 DEF EndPagination
  <2> HIDE DEF u
  <2> QED BY <1>0, <2>1, <2>2, <2>3, LoadingSend
<1>9. CASE SyncMembers
  <2> DEFINE u == [kind |-> "RoomMembersSynced"]
  <2>1. u \in Update /\ u.kind # "PaginationRunning"
    BY Sent
  <2>2. channel' = Append(channel, u) /\ UNCHANGED <<screen, is_loaded>>
    BY <1>9 DEF SyncMembers, Send, screenVars
  <2>3. UnderWay => UnderWay'
    BY <1>9 DEF SyncMembers, UnderWay, RoomIsThere, sdkVars
  <2> HIDE DEF u
  <2> QED BY <1>0, <2>1, <2>2, <2>3, LoadingSend
<1>10. CASE UserScrolls
  BY <1>10, LoadingFrame DEF UserScrolls, UnderWay, RoomIsThere, sdkVars, screenVars, Shown
<1>11. CASE ShowFirst
  <2>1. is_loaded = "new"
    BY <1>11 DEF ShowFirst, LoadingInv
  <2> QED BY <1>11, <2>1, LoadingFrame DEF ShowFirst, UnderWay, RoomIsThere, sdkVars
<1>12. CASE ShowAgain
  <2>1. (UnderWay' <=> UnderWay) /\ channel' = channel /\ screen' = "waiting" /\ is_loaded' = "new"
    BY <1>12 DEF ShowAgain, UnderWay, RoomIsThere, sdkVars
  <2> QED BY <2>1 DEF LoadingInv
<1>13. CASE Hide
  BY <1>13, LoadingFrame DEF Hide, UnderWay, RoomIsThere, sdkVars, requestVars, Shown
<1>14. CASE ScreenRecv
  BY <1>14, LoadingFrame DEF ScreenRecv, UnderWay, RoomIsThere, sdkVars, requestVars, Shown
<1>15. CASE ScreenTakes
  BY <1>15, LoadingTakes
<1>16. CASE ScreenRests
  BY <1>16, LoadingFrame DEF ScreenRests, UnderWay, RoomIsThere, sdkVars, Shown
<1>17. CASE UNCHANGED vars
  BY <1>17, LoadingFrame DEF vars, UnderWay, RoomIsThere, sdkVars, requestVars, screenVars, Shown
<1>18. CASE RoomLeaves
  <2>1. UnderWay'
    BY <1>18 DEF RoomLeaves, UnderWay, RoomIsThere
  <2> QED BY <1>18, <2>1, LoadingFrame DEF RoomLeaves, screenVars, Shown
<1>19. CASE SkipPagination
  BY <1>19, LoadingFrame DEF SkipPagination, UnderWay, RoomIsThere, sdkVars, screenVars, Shown
<1>20. CASE SkipMembers
  BY <1>20, LoadingFrame DEF SkipMembers, UnderWay, RoomIsThere, sdkVars, screenVars, Shown
<1> QED BY <1>2, <1>3, <1>4, <1>5, <1>6, <1>7, <1>8, <1>9, <1>10, <1>11, <1>12, <1>13, <1>14,
           <1>15, <1>16, <1>17, <1>18, <1>19, <1>20 DEF Next, PaginationNext, ScreenNext

(* A displayed room that a pagination has set to loading is going to be    *)
(* loaded again, as long as it is there.                                   *)
THEOREM LoadingIsEnded == Spec => []LoadingEnds
<1>1. LoadingInv => LoadingEnds
  BY DEF LoadingInv, LoadingEnds, UnderWay
<1>2. Init => LoadingInv
  BY DEF Init, LoadingInv, Shown
<1> QED BY FeedInvInit, FeedInvStep, LoadingStep, <1>1, <1>2, PTL DEF Spec

=============================================================================
