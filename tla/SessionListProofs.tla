-------------------------- MODULE SessionListProofs --------------------------
(***************************************************************************)
(* Proofs about the session list.                                          *)
(*                                                                         *)
(* A key, a look at a channel or a command changes a list in one of few    *)
(* ways: one row more, one less, the groups or the statuses of some.  The  *)
(* first part says what the operators on lists do, the second what each    *)
(* action comes to in those terms (Kinds), and the rest takes one          *)
(* invariant after the other through the kinds.  Base holds also while     *)
(* commands rewrite the files the view works on; the others are the view's *)
(* promises when it is alone.                                              *)
(***************************************************************************)
EXTENDS SessionList, Integers, FiniteSetTheorems, SequenceTheorems, TLAPS

LEMMA ListFacts ==
  ASSUME NEW S, NEW list \in Seq(S)
  PROVE  /\ Len(list) \in Nat /\ DOMAIN list = 1..Len(list)
         /\ list = [i \in 1..Len(list) |-> list[i]]
         /\ \A i \in DOMAIN list : list[i] \in S
OBVIOUS

LEMMA IsList ==
  ASSUME NEW S, NEW list, NEW n \in Nat, DOMAIN list = 1..n, list = [i \in 1..n |-> list[i]],
         \A i \in 1..n : list[i] \in S
  PROVE  list \in Seq(S) /\ Len(list) = n
<1>1. list \in [1..n -> S]
    OBVIOUS
<1> QED BY <1>1

LEMMA IdsType == ASSUME NEW list \in Seq(RowType) PROVE Ids(list) \subseteq Id
<1>1. \A i \in DOMAIN list : list[i].id \in Id
  <2>1. \A i \in DOMAIN list : list[i] \in RowType
      BY ListFacts
  <2> QED BY <2>1 DEF RowType
<1> QED BY <1>1 DEF Ids

LEMMA AppendFacts ==
  ASSUME NEW S, NEW list \in Seq(S), NEW x \in S
  PROVE  /\ Append(list, x) \in Seq(S) /\ Len(Append(list, x)) = Len(list) + 1
         /\ DOMAIN Append(list, x) = 1..(Len(list) + 1)
         /\ \A i \in DOMAIN list : Append(list, x)[i] = list[i]
         /\ Append(list, x)[Len(list) + 1] = x
OBVIOUS

LEMMA TailFacts ==
  ASSUME NEW S, NEW list \in Seq(S), list # <<>>
  PROVE  /\ Tail(list) \in Seq(S) /\ Len(Tail(list)) = Len(list) - 1 /\ Len(list) > 0
         /\ 1 \in DOMAIN list /\ Head(list) = list[1]
         /\ DOMAIN Tail(list) = 1..(Len(list) - 1)
         /\ \A i \in DOMAIN Tail(list) : Tail(list)[i] = list[i + 1]
OBVIOUS

-----------------------------------------------------------------------------
(* What a recursive function of the model returns is proved by climbing     *)
(* from 0 to the last number: a set of numbers that has 0 and with each     *)
(* number below m the next one has m.                                       *)

LEMMA Climb ==
  ASSUME NEW m \in Nat, NEW T, T \subseteq 0..m, 0 \in T,
         \A n \in 0..(m - 1) : n \in T => n + 1 \in T
  PROVE  m \in T
<1> SUFFICES ASSUME m \notin T PROVE FALSE
    OBVIOUS
<1>1. IsFiniteSet(T)
  <2>1. IsFiniteSet(0..m)
      BY FS_Interval
  <2>2. T \in SUBSET (0..m)
      OBVIOUS
  <2> QED BY <2>1, <2>2, FS_Subset
<1>2. /\ IsFiniteSet(T \ {0}) /\ Cardinality(T \ {0}) = Cardinality(T) - 1
      /\ Cardinality(T) \in Nat
    BY <1>1, FS_RemoveElement, FS_CardinalityType
<1>3. PICK f : f = [n \in T |-> n + 1]
    OBVIOUS
<1>4. f \in [T -> T \ {0}]
    BY <1>3
<1>5. \A x, y \in T : x # y => f[x] # f[y]
    BY <1>3
<1>6. Cardinality(T \ {0}) < Cardinality(T)
    BY <1>2
<1>7. \E x, y \in T : x # y /\ f[x] = f[y]
    BY <1>1, <1>2, <1>4, <1>6, FS_PigeonHole
<1> QED BY <1>5, <1>7

\* A recursive function exists when each value gives the next: g[n] is what is
\* done at the n-th step.
Recursive(f, m, x0, g) == f = [n \in 0..m |-> IF n = 0 THEN x0 ELSE g[n][f[n - 1]]]

LEMMA RecursiveExists ==
  ASSUME NEW m \in Nat, NEW X, NEW x0 \in X, NEW g,
         \A n \in 1..m, x \in X : g[n][x] \in X
  PROVE  \E f : Recursive(f, m, x0, g) /\ \A n \in 0..m : f[n] \in X
<1> DEFINE Up(k) == \E f : Recursive(f, k, x0, g) /\ \A n \in 0..k : f[n] \in X
           T == {k \in 0..m : Up(k)}
<1>1. 0 \in T
  <2>1. PICK f : f = [n \in 0..0 |-> x0]
      OBVIOUS
  <2>2. Recursive(f, 0, x0, g) /\ \A n \in 0..0 : f[n] \in X
      BY <2>1 DEF Recursive
  <2> QED BY <2>2
<1>2. ASSUME NEW k \in 0..(m - 1), k \in T
      PROVE  k + 1 \in T
  <2>1. PICK f : Recursive(f, k, x0, g) /\ \A n \in 0..k : f[n] \in X
      BY <1>2
  <2>2. PICK h : h = [n \in 0..(k + 1) |-> IF n \in 0..k THEN f[n] ELSE g[n][f[n - 1]]]
      OBVIOUS
  <2>3. ASSUME NEW n \in 0..(k + 1)
        PROVE  h[n] = (IF n = 0 THEN x0 ELSE g[n][h[n - 1]]) /\ h[n] \in X
    <3>1. n # 0 => h[n - 1] = f[n - 1] /\ f[n - 1] \in X
        BY <2>1, <2>2
    <3>2. h[n] = IF n = 0 THEN x0 ELSE g[n][f[n - 1]]
        BY <2>1, <2>2 DEF Recursive
    <3> QED BY <3>1, <3>2
  <2>4. h = [n \in 0..(k + 1) |-> IF n = 0 THEN x0 ELSE g[n][h[n - 1]]]
      BY <2>2, <2>3
  <2>5. Up(k + 1)
      BY <2>3, <2>4 DEF Recursive
  <2> QED BY <2>5
<1>3. m \in T
  <2> HIDE DEF T
  <2>1. T \subseteq 0..m
      BY DEF T
  <2> QED BY <1>1, <1>2, <2>1, Climb
<1> QED BY <1>3

-----------------------------------------------------------------------------
(* The operators on lists.                                                  *)

\* No id twice.
Unique(list) == \A i, j \in DOMAIN list : list[i].id = list[j].id => i = j

\* What of the first n rows the filter has kept.
Kept(x, list, S, n) ==
  /\ \A j \in DOMAIN x : \E i \in 1..n : x[j] = list[i] /\ list[i].id \in S
  /\ \A i \in 1..n : list[i].id \in S => \E j \in DOMAIN x : x[j] = list[i]
  /\ Unique(list) => Unique(x)

LEMMA KeptGrows ==
  ASSUME NEW list \in Seq(RowType), NEW S, NEW n \in 0..(Len(list) - 1),
         NEW x \in Seq(RowType), Kept(x, list, S, n),
         NEW y, y = IF list[n + 1].id \in S THEN Append(x, list[n + 1]) ELSE x
  PROVE  y \in Seq(RowType) /\ Kept(y, list, S, n + 1)
<1>0. n + 1 \in DOMAIN list /\ list[n + 1] \in RowType /\ Len(list) \in Nat
    BY ListFacts
<1>1. CASE list[n + 1].id \notin S
  <2>1. y = x
      BY <1>1
  <2> QED BY <1>1, <2>1 DEF Kept
<1>2. CASE list[n + 1].id \in S
  <2>1. /\ y \in Seq(RowType) /\ DOMAIN y = 1..(Len(x) + 1) /\ DOMAIN x = 1..Len(x)
        /\ Len(x) \in Nat
        /\ \A i \in DOMAIN x : y[i] = x[i]
        /\ y[Len(x) + 1] = list[n + 1]
      BY <1>0, <1>2, AppendFacts, ListFacts
  <2>2. \A j \in DOMAIN y : \E i \in 1..(n + 1) : y[j] = list[i] /\ list[i].id \in S
    <3> SUFFICES ASSUME NEW j \in DOMAIN y
                 PROVE  \E i \in 1..(n + 1) : y[j] = list[i] /\ list[i].id \in S
        OBVIOUS
    <3>1. CASE j \in DOMAIN x
      <4>1. PICK i \in 1..n : x[j] = list[i] /\ list[i].id \in S
          BY <3>1 DEF Kept
      <4> QED BY <2>1, <3>1, <4>1
    <3>2. CASE j = Len(x) + 1
        BY <1>2, <2>1, <3>2
    <3> QED BY <2>1, <3>1, <3>2
  <2>3. \A i \in 1..(n + 1) : list[i].id \in S => \E j \in DOMAIN y : y[j] = list[i]
    <3> SUFFICES ASSUME NEW i \in 1..(n + 1), list[i].id \in S
                 PROVE  \E j \in DOMAIN y : y[j] = list[i]
        OBVIOUS
    <3>1. CASE i \in 1..n
      <4>1. PICK j \in DOMAIN x : x[j] = list[i]
          BY <3>1 DEF Kept
      <4>2. j \in DOMAIN y /\ y[j] = x[j]
          BY <2>1
      <4> QED BY <4>1, <4>2
    <3>2. CASE i = n + 1
        BY <2>1, <3>2
    <3> QED BY <3>1, <3>2
  <2>4. ASSUME Unique(list)
        PROVE  Unique(y)
    <3>1. \A j \in DOMAIN x : x[j].id # list[n + 1].id
      <4> SUFFICES ASSUME NEW j \in DOMAIN x, x[j].id = list[n + 1].id
                   PROVE  FALSE
          OBVIOUS
      <4>1. PICK i \in 1..n : x[j] = list[i]
          BY DEF Kept
      <4>2. i \in DOMAIN list /\ list[i].id = list[n + 1].id
          BY <1>0, <4>1, ListFacts
      <4> QED BY <1>0, <2>4, <4>1, <4>2 DEF Unique
    <3>2. Unique(x)
        BY <2>4 DEF Kept
    <3> QED BY <2>1, <3>1, <3>2 DEF Unique
  <2> QED BY <2>1, <2>2, <2>3, <2>4 DEF Kept
<1> QED BY <1>1, <1>2

\* The equation that the function in Those solves.
ThoseUpTo(f, list, S) ==
  f = [n \in 0..Len(list) |->
         IF n = 0 THEN <<>>
         ELSE IF list[n].id \in S THEN Append(f[n - 1], list[n]) ELSE f[n - 1]]

LEMMA ThoseDefined ==
  ASSUME NEW list \in Seq(RowType), NEW S
  PROVE  \E f : ThoseUpTo(f, list, S)
<1>1. PICK g : g = [n \in 1..Len(list) |-> [x \in Seq(RowType) |->
                      IF list[n].id \in S THEN Append(x, list[n]) ELSE x]]
    OBVIOUS
<1>2. \A n \in 1..Len(list), x \in Seq(RowType) : g[n][x] \in Seq(RowType)
    BY <1>1, ListFacts
<1>3. <<>> \in Seq(RowType) /\ Len(list) \in Nat
    BY ListFacts
<1>4. PICK f : /\ Recursive(f, Len(list), <<>>, g)
               /\ \A n \in 0..Len(list) : f[n] \in Seq(RowType)
    BY <1>2, <1>3, RecursiveExists
<1>5. ASSUME NEW n \in 0..Len(list)
      PROVE  (IF n = 0 THEN <<>> ELSE g[n][f[n - 1]])
               = IF n = 0 THEN <<>>
                 ELSE IF list[n].id \in S THEN Append(f[n - 1], list[n]) ELSE f[n - 1]
  <2>1. n # 0 => n \in 1..Len(list) /\ f[n - 1] \in Seq(RowType)
      BY <1>3, <1>4
  <2> QED BY <1>1, <2>1
<1>6. f = [n \in 0..Len(list) |->
             IF n = 0 THEN <<>>
             ELSE IF list[n].id \in S THEN Append(f[n - 1], list[n]) ELSE f[n - 1]]
    BY <1>4, <1>5 DEF Recursive
<1> QED BY <1>6 DEF ThoseUpTo

LEMMA ThoseFacts ==
  ASSUME NEW list \in Seq(RowType), NEW S
  PROVE  Those(list, S) \in Seq(RowType) /\ Kept(Those(list, S), list, S, Len(list))
<1>1. PICK f : f = CHOOSE g : ThoseUpTo(g, list, S)
    OBVIOUS
<1>2. Those(list, S) = f[Len(list)]
    BY <1>1 DEF Those, ThoseUpTo
<1>3. ThoseUpTo(f, list, S)
    BY <1>1, ThoseDefined
<1>4. Len(list) \in Nat
    BY ListFacts
<1> DEFINE T == {n \in 0..Len(list) : f[n] \in Seq(RowType) /\ Kept(f[n], list, S, n)}
<1>5. 0 \in T
  <2>1. f[0] = <<>>
      BY <1>3, <1>4 DEF ThoseUpTo
  <2>2. Kept(<<>>, list, S, 0)
      BY DEF Kept, Unique
  <2>3. 0 \in 0..Len(list) /\ <<>> \in Seq(RowType)
      BY <1>4
  <2> QED BY <2>1, <2>2, <2>3
<1>6. ASSUME NEW n \in 0..(Len(list) - 1), n \in T
      PROVE  n + 1 \in T
  <2>1. f[n + 1] = IF list[n + 1].id \in S THEN Append(f[n], list[n + 1]) ELSE f[n]
    <3>1. n + 1 \in 0..Len(list) /\ n + 1 # 0 /\ (n + 1) - 1 = n
        BY <1>4
    <3> QED BY <1>3, <3>1 DEF ThoseUpTo
  <2>2. f[n + 1] \in Seq(RowType) /\ Kept(f[n + 1], list, S, n + 1)
      BY <1>6, <2>1, KeptGrows
  <2> QED BY <1>4, <2>2
<1>7. Len(list) \in T
  <2> HIDE DEF T
  <2>1. T \subseteq 0..Len(list)
      BY DEF T
  <2> QED BY <1>4, <1>5, <1>6, <2>1, Climb
<1> QED BY <1>2, <1>7

\* Those are the rows whose ids are in the set.
LEMMA ThoseRows ==
  ASSUME NEW list \in Seq(RowType), NEW S
  PROVE  /\ Those(list, S) \in Seq(RowType)
         /\ Ids(Those(list, S)) = Ids(list) \cap S
         /\ \A j \in DOMAIN Those(list, S) : \E i \in DOMAIN list : Those(list, S)[j] = list[i]
         /\ Unique(list) => Unique(Those(list, S))
<1> DEFINE x == Those(list, S)
<1>1. x \in Seq(RowType) /\ Kept(x, list, S, Len(list)) /\ DOMAIN list = 1..Len(list)
    BY ThoseFacts, ListFacts
<1> HIDE DEF x
<1>2. \A j \in DOMAIN x : \E i \in DOMAIN list : x[j] = list[i] /\ list[i].id \in S
    BY <1>1 DEF Kept
<1>3. \A i \in DOMAIN list : list[i].id \in S => \E j \in DOMAIN x : x[j] = list[i]
    BY <1>1 DEF Kept
<1>4. Ids(x) = Ids(list) \cap S
    BY <1>2, <1>3 DEF Ids
<1> QED BY <1>1, <1>2, <1>4 DEF x, Kept

\* The items of the flattened list.
ListedUpTo(f, list, group) ==
  f = [n \in 0..Len(list) |->
         IF n = 0 THEN <<>>
         ELSE IF list[n].group = group THEN Append(f[n - 1], SessionItem(list[n].id))
         ELSE f[n - 1]]

LEMMA SessionItems ==
  ASSUME NEW id \in Id
  PROVE  SessionItem(id) \in Items
BY DEF SessionItem, Item, Items

LEMMA ListedType ==
  ASSUME NEW list \in Seq(RowType), NEW group
  PROVE  Listed(list, group) \in Seq(Items)
<1>0. /\ Len(list) \in Nat /\ <<>> \in Seq(Items)
      /\ \A n \in 1..Len(list) : SessionItem(list[n].id) \in Items
  <2>1. \A n \in 1..Len(list) : list[n] \in RowType
      BY ListFacts
  <2>2. \A n \in 1..Len(list) : list[n].id \in Id
      BY <2>1 DEF RowType
  <2> QED BY <2>2, ListFacts, SessionItems
<1>1. PICK g : g = [n \in 1..Len(list) |-> [x \in Seq(Items) |->
                      IF list[n].group = group THEN Append(x, SessionItem(list[n].id)) ELSE x]]
    OBVIOUS
<1>2. \A n \in 1..Len(list), x \in Seq(Items) : g[n][x] \in Seq(Items)
  <2> SUFFICES ASSUME NEW n \in 1..Len(list), NEW x \in Seq(Items)
               PROVE  g[n][x] \in Seq(Items)
      OBVIOUS
  <2>1. Append(x, SessionItem(list[n].id)) \in Seq(Items)
      BY <1>0, AppendFacts
  <2> QED BY <1>1, <2>1
<1>3. \E f : ListedUpTo(f, list, group)
  <2>1. PICK f : /\ Recursive(f, Len(list), <<>>, g)
                 /\ \A n \in 0..Len(list) : f[n] \in Seq(Items)
      BY <1>0, <1>2, RecursiveExists
  <2>2. ASSUME NEW n \in 0..Len(list)
        PROVE  (IF n = 0 THEN <<>> ELSE g[n][f[n - 1]])
                 = IF n = 0 THEN <<>>
                   ELSE IF list[n].group = group
                        THEN Append(f[n - 1], SessionItem(list[n].id)) ELSE f[n - 1]
    <3>1. n # 0 => n \in 1..Len(list) /\ f[n - 1] \in Seq(Items)
        BY <1>0, <2>1
    <3> QED BY <1>1, <3>1
  <2>3. f = [n \in 0..Len(list) |->
               IF n = 0 THEN <<>>
               ELSE IF list[n].group = group
                    THEN Append(f[n - 1], SessionItem(list[n].id)) ELSE f[n - 1]]
      BY <2>1, <2>2 DEF Recursive
  <2> QED BY <2>3 DEF ListedUpTo
<1>4. PICK f : f = CHOOSE h : ListedUpTo(h, list, group)
    OBVIOUS
<1>5. Listed(list, group) = f[Len(list)]
    BY <1>4 DEF Listed, ListedUpTo
<1>6. ListedUpTo(f, list, group)
    BY <1>3, <1>4
<1> DEFINE T == {n \in 0..Len(list) : f[n] \in Seq(Items)}
<1>7. 0 \in T
  <2>1. f[0] = <<>> /\ 0 \in 0..Len(list)
      BY <1>0, <1>6 DEF ListedUpTo
  <2> QED BY <1>0, <2>1
<1>8. ASSUME NEW n \in 0..(Len(list) - 1), n \in T
      PROVE  n + 1 \in T
  <2>1. /\ n + 1 \in 0..Len(list) /\ n + 1 # 0 /\ (n + 1) - 1 = n /\ n + 1 \in 1..Len(list)
        /\ f[n] \in Seq(Items)
      BY <1>0, <1>8
  <2>2. f[n + 1] = IF list[n + 1].group = group
                   THEN Append(f[n], SessionItem(list[n + 1].id)) ELSE f[n]
      BY <1>6, <2>1 DEF ListedUpTo
  <2>3. Append(f[n], SessionItem(list[n + 1].id)) \in Seq(Items)
      BY <1>0, <2>1, AppendFacts
  <2> QED BY <2>1, <2>2, <2>3
<1>9. Len(list) \in T
  <2> HIDE DEF T
  <2>1. T \subseteq 0..Len(list)
      BY DEF T
  <2> QED BY <1>0, <1>7, <1>8, <2>1, Climb
<1> QED BY <1>5, <1>9

FlatUpTo(f, list, tree) ==
  f = [n \in 0..Len(GroupOrder) |->
         IF n = 0 THEN Listed(list, NoGroup)
         ELSE IF GroupOrder[n] \notin tree THEN f[n - 1]
         ELSE f[n - 1] \o <<GroupItem(GroupOrder[n])>> \o Listed(list, GroupOrder[n])]

LEMMA FlatStepType ==
  ASSUME NEW list \in Seq(RowType), NEW n \in 1..Len(GroupOrder), NEW x \in Seq(Items)
  PROVE  x \o <<GroupItem(GroupOrder[n])>> \o Listed(list, GroupOrder[n]) \in Seq(Items)
<1>1. GroupOrder[n] \in Group
    BY GroupAssumption, ListFacts
<1>2. GroupItem(GroupOrder[n]) \in Items
    BY <1>1 DEF GroupItem, Item, Items
<1>3. <<GroupItem(GroupOrder[n])>> \in Seq(Items)
    BY <1>2
<1>4. Listed(list, GroupOrder[n]) \in Seq(Items)
    BY ListedType
<1> QED BY <1>3, <1>4

LEMMA FlatType ==
  ASSUME NEW list \in Seq(RowType), NEW tree
  PROVE  Flat(list, tree) \in Seq(Items)
<1>0. Len(GroupOrder) \in Nat /\ Listed(list, NoGroup) \in Seq(Items)
    BY GroupAssumption, ListFacts, ListedType
<1>1. PICK g : g = [n \in 1..Len(GroupOrder) |-> [x \in Seq(Items) |->
                      IF GroupOrder[n] \notin tree THEN x
                      ELSE x \o <<GroupItem(GroupOrder[n])>> \o Listed(list, GroupOrder[n])]]
    OBVIOUS
<1>2. \A n \in 1..Len(GroupOrder), x \in Seq(Items) : g[n][x] \in Seq(Items)
  <2> SUFFICES ASSUME NEW n \in 1..Len(GroupOrder), NEW x \in Seq(Items)
               PROVE  g[n][x] \in Seq(Items)
      OBVIOUS
  <2>1. x \o <<GroupItem(GroupOrder[n])>> \o Listed(list, GroupOrder[n]) \in Seq(Items)
      BY FlatStepType
  <2> QED BY <1>1, <2>1
<1>3. \E f : FlatUpTo(f, list, tree)
  <2>1. PICK f : /\ Recursive(f, Len(GroupOrder), Listed(list, NoGroup), g)
                 /\ \A n \in 0..Len(GroupOrder) : f[n] \in Seq(Items)
      BY <1>0, <1>2, RecursiveExists
  <2>2. ASSUME NEW n \in 0..Len(GroupOrder)
        PROVE  (IF n = 0 THEN Listed(list, NoGroup) ELSE g[n][f[n - 1]])
                 = IF n = 0 THEN Listed(list, NoGroup)
                   ELSE IF GroupOrder[n] \notin tree THEN f[n - 1]
                   ELSE f[n - 1] \o <<GroupItem(GroupOrder[n])>> \o Listed(list, GroupOrder[n])
    <3>1. n # 0 => n \in 1..Len(GroupOrder) /\ f[n - 1] \in Seq(Items)
        BY <1>0, <2>1
    <3> QED BY <1>1, <3>1
  <2>3. f = [n \in 0..Len(GroupOrder) |->
               IF n = 0 THEN Listed(list, NoGroup)
               ELSE IF GroupOrder[n] \notin tree THEN f[n - 1]
               ELSE f[n - 1] \o <<GroupItem(GroupOrder[n])>> \o Listed(list, GroupOrder[n])]
      BY <2>1, <2>2 DEF Recursive
  <2> QED BY <2>3 DEF FlatUpTo
<1>4. PICK f : f = CHOOSE h : FlatUpTo(h, list, tree)
    OBVIOUS
<1>5. Flat(list, tree) = f[Len(GroupOrder)]
    BY <1>4 DEF Flat, FlatUpTo
<1>6. FlatUpTo(f, list, tree)
    BY <1>3, <1>4
<1> DEFINE T == {n \in 0..Len(GroupOrder) : f[n] \in Seq(Items)}
<1>7. 0 \in T
  <2>1. f[0] = Listed(list, NoGroup) /\ 0 \in 0..Len(GroupOrder)
      BY <1>0, <1>6 DEF FlatUpTo
  <2> QED BY <1>0, <2>1
<1>8. ASSUME NEW n \in 0..(Len(GroupOrder) - 1), n \in T
      PROVE  n + 1 \in T
  <2>1. /\ n + 1 \in 0..Len(GroupOrder) /\ n + 1 # 0 /\ (n + 1) - 1 = n
        /\ n + 1 \in 1..Len(GroupOrder) /\ f[n] \in Seq(Items)
      BY <1>0, <1>8
  <2>2. f[n + 1] = IF GroupOrder[n + 1] \notin tree THEN f[n]
                   ELSE f[n] \o <<GroupItem(GroupOrder[n + 1])>>
                             \o Listed(list, GroupOrder[n + 1])
      BY <1>6, <2>1 DEF FlatUpTo
  <2>3. f[n] \o <<GroupItem(GroupOrder[n + 1])>> \o Listed(list, GroupOrder[n + 1])
          \in Seq(Items)
      BY <2>1, FlatStepType
  <2> QED BY <2>1, <2>2, <2>3
<1>9. Len(GroupOrder) \in T
  <2> HIDE DEF T
  <2>1. T \subseteq 0..Len(GroupOrder)
      BY DEF T
  <2> QED BY <1>0, <1>7, <1>8, <2>1, Climb
<1> QED BY <1>5, <1>9

\* What update_selected finds is an item, wherever the cursor is.
LEMMA AtType ==
  ASSUME NEW items \in Seq(Items), NEW c \in Nat \ {0}, NEW before \in Items
  PROVE  /\ At(items, c, before) \in Items
         /\ Clamp(c, items) \in Nat \ {0}
<1>1. Len(items) \in Nat /\ (items # <<>> => Len(items) # 0)
      /\ \A i \in DOMAIN items : items[i] \in Items
    BY ListFacts
<1> QED BY <1>1 DEF At, Clamp

\* Ids of a list made longer or shorter; requests and results are such lists.
LEMMA AppendIds ==
  ASSUME NEW S, NEW list \in Seq(S), NEW x \in S
  PROVE  /\ Ids(Append(list, x)) = Ids(list) \cup {x.id}
         /\ Unique(list) /\ x.id \notin Ids(list) => Unique(Append(list, x))
<1>1. PICK y : y = Append(list, x)
    OBVIOUS
<1>2. /\ DOMAIN y = 1..(Len(list) + 1) /\ DOMAIN list = 1..Len(list) /\ Len(list) \in Nat
      /\ \A i \in DOMAIN list : y[i] = list[i]
      /\ y[Len(list) + 1] = x
    BY <1>1, AppendFacts, ListFacts
<1>3. Ids(y) = Ids(list) \cup {x.id}
  <2>1. DOMAIN y = DOMAIN list \cup {Len(list) + 1}
      BY <1>2
  <2> QED BY <1>2, <2>1 DEF Ids
<1>4. ASSUME Unique(list), x.id \notin Ids(list)
      PROVE  Unique(y)
    BY <1>2, <1>4 DEF Unique, Ids
<1> QED BY <1>1, <1>3, <1>4

LEMMA JoinIds ==
  ASSUME NEW S, NEW a \in Seq(S), NEW b \in Seq(S)
  PROVE  a \o b \in Seq(S) /\ Ids(a \o b) = Ids(a) \cup Ids(b)
<1>1. PICK y : y = a \o b
    OBVIOUS
<1>2. /\ DOMAIN y = 1..(Len(a) + Len(b)) /\ Len(a) \in Nat /\ Len(b) \in Nat
      /\ DOMAIN a = 1..Len(a) /\ DOMAIN b = 1..Len(b)
      /\ \A i \in 1..Len(a) : y[i] = a[i]
      /\ \A i \in 1..Len(b) : y[Len(a) + i] = b[i]
    BY <1>1, ListFacts
<1>3. Ids(y) \subseteq Ids(a) \cup Ids(b)
  <2> SUFFICES ASSUME NEW i \in DOMAIN y
               PROVE  y[i].id \in Ids(a) \cup Ids(b)
      BY DEF Ids
  <2>1. CASE i \in 1..Len(a)
      BY <1>2, <2>1 DEF Ids
  <2>2. CASE i \notin 1..Len(a)
    <3>1. i - Len(a) \in DOMAIN b /\ i = Len(a) + (i - Len(a))
        BY <1>2, <2>2
    <3>2. y[i] = b[i - Len(a)]
        BY <1>2, <3>1
    <3> QED BY <3>1, <3>2 DEF Ids
  <2> QED BY <2>1, <2>2
<1>4. Ids(a) \subseteq Ids(y)
    BY <1>2 DEF Ids
<1>5. Ids(b) \subseteq Ids(y)
  <2> SUFFICES ASSUME NEW i \in DOMAIN b
               PROVE  b[i].id \in Ids(y)
      BY DEF Ids
  <2>1. Len(a) + i \in DOMAIN y /\ y[Len(a) + i] = b[i]
      BY <1>2
  <2> QED BY <2>1 DEF Ids
<1>6. a \o b \in Seq(S)
    OBVIOUS
<1> QED BY <1>1, <1>3, <1>4, <1>5, <1>6

LEMMA TailIds ==
  ASSUME NEW S, NEW list \in Seq(S), list # <<>>
  PROVE  /\ Head(list) \in S /\ Tail(list) \in Seq(S)
         /\ Ids(list) = {Head(list).id} \cup Ids(Tail(list))
         /\ Unique(list) => Unique(Tail(list)) /\ Head(list).id \notin Ids(Tail(list))
         /\ \A i \in DOMAIN Tail(list) : i + 1 \in DOMAIN list /\ Tail(list)[i] = list[i + 1]
         /\ 1 \in DOMAIN list /\ Head(list) = list[1]
<1>1. PICK y : y = Tail(list)
    OBVIOUS
<1>2. /\ DOMAIN list = 1..Len(list) /\ Len(list) \in Nat /\ Len(list) > 0
      /\ DOMAIN y = 1..(Len(list) - 1) /\ Head(list) = list[1] /\ y \in Seq(S)
      /\ \A i \in DOMAIN y : y[i] = list[i + 1]
      /\ \A i \in DOMAIN list : list[i] \in S
    BY <1>1, TailFacts, ListFacts
<1>3. Ids(list) = {list[1].id} \cup Ids(y)
  <2>1. \A i \in DOMAIN list : i # 1 => i - 1 \in DOMAIN y /\ y[i - 1] = list[i]
    <3>1. ASSUME NEW i \in DOMAIN list, i # 1
          PROVE  i - 1 \in DOMAIN y /\ y[i - 1] = list[i]
      <4>1. i - 1 \in DOMAIN y /\ (i - 1) + 1 = i
          BY <1>2, <3>1
      <4>2. y[i - 1] = list[(i - 1) + 1]
          BY <1>2, <4>1
      <4> QED BY <4>1, <4>2
    <3> QED BY <3>1
  <2>2. Ids(list) \subseteq {list[1].id} \cup Ids(y)
      BY <2>1 DEF Ids
  <2>3. 1 \in DOMAIN list /\ \A i \in DOMAIN y : i + 1 \in DOMAIN list
      BY <1>2
  <2>4. {list[1].id} \cup Ids(y) \subseteq Ids(list)
      BY <1>2, <2>3 DEF Ids
  <2> QED BY <2>2, <2>4
<1>4. ASSUME Unique(list)
      PROVE  Unique(y) /\ list[1].id \notin Ids(y)
  <2>1. \A i \in DOMAIN y : i \in Nat /\ i + 1 \in DOMAIN list /\ i + 1 # 1
      BY <1>2
  <2>2. 1 \in DOMAIN list
      BY <1>2
  <2>3. Unique(y)
    <3> SUFFICES ASSUME NEW i \in DOMAIN y, NEW j \in DOMAIN y, y[i].id = y[j].id
                 PROVE  i = j
        BY DEF Unique
    <3>1. i + 1 = j + 1
        BY <1>2, <1>4, <2>1 DEF Unique
    <3> QED BY <2>1, <3>1
  <2>4. \A i \in DOMAIN y : y[i].id # list[1].id
      BY <1>2, <1>4, <2>1, <2>2 DEF Unique
  <2> QED BY <2>3, <2>4 DEF Ids
<1>5. 1 \in DOMAIN list /\ \A i \in DOMAIN y : i + 1 \in DOMAIN list
    BY <1>2
<1> QED BY <1>1, <1>2, <1>3, <1>4, <1>5

LEMMA SameIds ==
  ASSUME NEW a, NEW b, DOMAIN a = DOMAIN b, \A i \in DOMAIN a : a[i].id = b[i].id
  PROVE  Ids(a) = Ids(b) /\ (Unique(a) <=> Unique(b))
BY DEF Ids, Unique

\* The row with an id.
LEMMA RowOfFacts ==
  ASSUME NEW list \in Seq(RowType), NEW id \in Ids(list)
  PROVE  \E i \in DOMAIN list : RowOf(list, id) = list[i] /\ list[i].id = id
<1>1. \E r \in ToSet(list) : r.id = id
    BY DEF Ids, ToSet
<1>2. RowOf(list, id) \in ToSet(list) /\ RowOf(list, id).id = id
    BY <1>1 DEF RowOf
<1> QED BY <1>2 DEF ToSet

LEMMA RowOfUnique ==
  ASSUME NEW list \in Seq(RowType), Unique(list), NEW i \in DOMAIN list
  PROVE  RowOf(list, list[i].id) = list[i] /\ list[i].id \in Ids(list)
<1>1. list[i].id \in Ids(list)
    BY DEF Ids
<1>2. PICK j \in DOMAIN list : RowOf(list, list[i].id) = list[j] /\ list[j].id = list[i].id
    BY <1>1, RowOfFacts
<1> QED BY <1>1, <1>2 DEF Unique

\* The ids of a group are those of its rows.
LEMMA InFacts ==
  ASSUME NEW list \in Seq(RowType), NEW g
  PROVE  /\ In(list, g) \subseteq Ids(list)
         /\ Unique(list) =>
              \A i \in DOMAIN list : list[i].id \in In(list, g) <=> list[i].group = g
<1>1. ASSUME Unique(list), NEW i \in DOMAIN list
      PROVE  list[i].id \in In(list, g) <=> list[i].group = g
    BY <1>1, RowOfUnique DEF In
<1> QED BY <1>1 DEF In

LEMMA SetStatusFacts ==
  ASSUME NEW list \in Seq(RowType), NEW S, NEW status \in {"idle", "deleting", "error"}
  PROVE  /\ SetStatus(list, S, status) \in Seq(RowType)
         /\ DOMAIN SetStatus(list, S, status) = DOMAIN list
         /\ \A i \in DOMAIN list :
              /\ SetStatus(list, S, status)[i].id = list[i].id
              /\ SetStatus(list, S, status)[i].group = list[i].group
              /\ SetStatus(list, S, status)[i].status
                   = IF list[i].id \in S THEN status ELSE list[i].status
<1>1. PICK y : y = SetStatus(list, S, status)
    OBVIOUS
<1>2. Len(list) \in Nat /\ DOMAIN list = 1..Len(list) /\ \A i \in DOMAIN list : list[i] \in RowType
    BY ListFacts
<1>3. y = [i \in DOMAIN list |-> IF list[i].id \in S
                                 THEN [list[i] EXCEPT !.status = status] ELSE list[i]]
    BY <1>1 DEF SetStatus
<1>4. ASSUME NEW i \in DOMAIN list
      PROVE  /\ y[i] \in RowType /\ y[i].id = list[i].id /\ y[i].group = list[i].group
             /\ y[i].status = IF list[i].id \in S THEN status ELSE list[i].status
  <2>1. list[i] \in RowType
      BY <1>2
  <2> QED BY <1>3, <2>1 DEF RowType
<1>5. DOMAIN y = 1..Len(list) /\ y = [i \in 1..Len(list) |-> y[i]]
    BY <1>2, <1>3
<1>6. y \in Seq(RowType)
    BY <1>2, <1>4, <1>5, IsList
<1> QED BY <1>1, <1>2, <1>4, <1>5, <1>6

LEMMA SetGroupFacts ==
  ASSUME NEW list \in Seq(RowType), NEW S, NEW group \in Place
  PROVE  /\ SetGroup(list, S, group) \in Seq(RowType)
         /\ DOMAIN SetGroup(list, S, group) = DOMAIN list
         /\ \A i \in DOMAIN list :
              /\ SetGroup(list, S, group)[i].id = list[i].id
              /\ SetGroup(list, S, group)[i].status = list[i].status
              /\ SetGroup(list, S, group)[i].group
                   = IF list[i].id \in S THEN group ELSE list[i].group
<1>1. PICK y : y = SetGroup(list, S, group)
    OBVIOUS
<1>2. Len(list) \in Nat /\ DOMAIN list = 1..Len(list) /\ \A i \in DOMAIN list : list[i] \in RowType
    BY ListFacts
<1>3. y = [i \in DOMAIN list |-> IF list[i].id \in S
                                 THEN [list[i] EXCEPT !.group = group] ELSE list[i]]
    BY <1>1 DEF SetGroup
<1>4. ASSUME NEW i \in DOMAIN list
      PROVE  /\ y[i] \in RowType /\ y[i].id = list[i].id /\ y[i].status = list[i].status
             /\ y[i].group = IF list[i].id \in S THEN group ELSE list[i].group
  <2>1. list[i] \in RowType
      BY <1>2
  <2> QED BY <1>3, <2>1 DEF RowType
<1>5. DOMAIN y = 1..Len(list) /\ y = [i \in 1..Len(list) |-> y[i]]
    BY <1>2, <1>3
<1>6. y \in Seq(RowType)
    BY <1>2, <1>4, <1>5, IsList
<1> QED BY <1>1, <1>2, <1>4, <1>5, <1>6

LEMMA KnownAsFacts ==
  ASSUME NEW mine \in Seq(RowType), NEW list \in Seq(RowType)
  PROVE  /\ KnownAs(mine, list) \in Seq(RowType)
         /\ DOMAIN KnownAs(mine, list) = DOMAIN list
         /\ \A i \in DOMAIN list :
              /\ KnownAs(mine, list)[i].id = list[i].id
              /\ KnownAs(mine, list)[i].group = list[i].group
              /\ KnownAs(mine, list)[i].status
                   = IF list[i].id \in Ids(mine) THEN RowOf(mine, list[i].id).status
                     ELSE list[i].status
<1>1. PICK y : y = KnownAs(mine, list)
    OBVIOUS
<1>2. Len(list) \in Nat /\ DOMAIN list = 1..Len(list) /\ \A i \in DOMAIN list : list[i] \in RowType
    BY ListFacts
<1>3. y = [i \in DOMAIN list |->
             IF list[i].id \in Ids(mine)
             THEN [list[i] EXCEPT !.status = RowOf(mine, list[i].id).status] ELSE list[i]]
    BY <1>1 DEF KnownAs
<1>4. ASSUME NEW i \in DOMAIN list
      PROVE  /\ y[i] \in RowType /\ y[i].id = list[i].id /\ y[i].group = list[i].group
             /\ y[i].status = IF list[i].id \in Ids(mine) THEN RowOf(mine, list[i].id).status
                              ELSE list[i].status
  <2>1. list[i] \in RowType
      BY <1>2
  <2>2. list[i].id \in Ids(mine) =>
          RowOf(mine, list[i].id).status \in {"idle", "deleting", "error"}
    <3> SUFFICES ASSUME list[i].id \in Ids(mine)
                 PROVE  RowOf(mine, list[i].id).status \in {"idle", "deleting", "error"}
        OBVIOUS
    <3>1. PICK j \in DOMAIN mine : RowOf(mine, list[i].id) = mine[j]
        BY RowOfFacts
    <3>2. mine[j] \in RowType
        BY ListFacts
    <3> QED BY <3>1, <3>2 DEF RowType
  <2> QED BY <1>3, <2>1, <2>2 DEF RowType
<1>5. DOMAIN y = 1..Len(list) /\ y = [i \in 1..Len(list) |-> y[i]]
    BY <1>2, <1>3
<1>6. y \in Seq(RowType)
    BY <1>2, <1>4, <1>5, IsList
<1> QED BY <1>1, <1>2, <1>4, <1>5, <1>6

\* A list that the view saved comes back as it was.
LEMMA KnownAsSelf ==
  ASSUME NEW list \in Seq(RowType), Unique(list)
  PROVE  KnownAs(list, list) = list
<1>1. ASSUME NEW i \in DOMAIN list
      PROVE  (IF list[i].id \in Ids(list)
              THEN [list[i] EXCEPT !.status = RowOf(list, list[i].id).status] ELSE list[i])
               = list[i]
  <2>1. RowOf(list, list[i].id) = list[i]
      BY RowOfUnique
  <2>2. list[i] \in RowType
      BY ListFacts
  <2> QED BY <2>1, <2>2 DEF RowType
<1>2. KnownAs(list, list) = [i \in DOMAIN list |-> list[i]]
    BY <1>1 DEF KnownAs
<1> QED BY <1>2, ListFacts

\* The groups of the tree.
LEMMA TreeFacts ==
  ASSUME NEW list \in Seq(RowType), NEW known
  PROVE  /\ known \ {NoGroup} \subseteq Group => TreeOf(list, known) \subseteq Group
         /\ TreeOf(list, TreeOf(list, known)) = TreeOf(list, known)
         /\ \A i \in DOMAIN list : list[i].group \in TreeOf(list, known) \cup {NoGroup}
<1>1. \A i \in DOMAIN list : list[i] \in RowType
    BY ListFacts
<1>2. \A i \in DOMAIN list : list[i].group \in Group \cup {NoGroup}
    BY <1>1 DEF RowType, Place
<1> QED BY <1>2 DEF TreeOf

LEMMA SameTree ==
  ASSUME NEW a, NEW b, NEW known, DOMAIN a = DOMAIN b, \A i \in DOMAIN a : a[i].group = b[i].group
  PROVE  TreeOf(a, known) = TreeOf(b, known)
BY DEF TreeOf

\* As many ids as rows.
LEMMA UniqueCount ==
  ASSUME NEW list \in Seq(RowType), Unique(list)
  PROVE  Cardinality(Ids(list)) = Len(list)
<1>1. DOMAIN list = 1..Len(list) /\ Len(list) \in Nat
    BY ListFacts
<1>2. PICK f : f = [i \in 1..Len(list) |-> list[i].id]
    OBVIOUS
<1>3. f \in Bijection(1..Len(list), Ids(list))
    BY <1>1, <1>2 DEF Bijection, Injection, Surjection, IsInjective, Ids, Unique
<1>4. IsFiniteSet(1..Len(list)) /\ Cardinality(1..Len(list)) = Len(list)
    BY <1>1, FS_Interval
<1>5. ExistsBijection(1..Len(list), Ids(list))
    BY <1>3 DEF ExistsBijection
<1> QED BY <1>4, <1>5, FS_Bijection

-----------------------------------------------------------------------------
(* The invariant that holds whatever runs at the same time: shapes, and that *)
(* an id is in one place.                                                    *)

File == [rows : Seq(RowType), groups : SUBSET Group]
Dialog == [kind : {"none", "new", "loading", "delete", "group", "deleteGroup", "rename"},
           on : Items]
Shapes ==
  /\ file \in File /\ rows \in Seq(RowType) /\ groups \subseteq Group
  /\ cli = <<>> \/ \E f \in File : cli = <<f>>
  /\ building \in Seq(Request) /\ built \in Seq(Result)
  /\ removing \in Seq(Request) /\ removed \in Seq(Result)
  /\ moved \subseteq Id /\ adrift \subseteq Id /\ inherited \subseteq Id
  /\ resources \subseteq Id /\ next \in 1..(MaxSessions + 1) /\ up \in BOOLEAN
Screen ==
  /\ cursor \in Nat \ {0} /\ selected \in Items /\ dialog \in Dialog
  /\ pending \in BOOLEAN /\ cancelled \in BOOLEAN

\* The rows a command has loaded; the ids of sessions that have or had a row,
\* and of those that are being made.
CliRows == IF cli = <<>> THEN <<>> ELSE cli[1].rows
Known == Ids(file.rows) \cup Ids(rows) \cup Ids(CliRows) \cup Ids(removing) \cup Ids(removed)
Making == Ids(building) \cup Ids(built)

Once ==
  /\ Unique(file.rows) /\ Unique(rows) /\ Unique(CliRows)
  /\ Unique(building) /\ Unique(built)
Fresh == \A id \in Known \cup Making \cup resources : id < next
Apart == Known \cap Making = {} /\ Ids(building) \cap Ids(built) = {}

Base == Shapes /\ Screen /\ Once /\ Fresh /\ Apart

-----------------------------------------------------------------------------
(* What the steps do to the lists.                                          *)

\* No row says deleting that did not before.
Likewise(list, mine) ==
  \A i \in DOMAIN list : list[i].status = "deleting" =>
    \E j \in DOMAIN mine : mine[j].id = list[i].id /\ mine[j].status = "deleting"

\* The view's list was changed, saved and read back: ids of more came, ids of
\* gone went, and no row says deleting that did not.
Reshaped(more, gone) ==
  /\ rows' \in Seq(RowType) /\ Unique(rows')
  /\ Ids(rows') = (Ids(rows) \ gone) \cup more
  /\ Likewise(rows', rows)
  /\ groups' \subseteq Group /\ TreeOf(rows', groups') \subseteq Group
  /\ file' = [rows |-> rows', groups |-> TreeOf(rows', groups')]
  /\ UNCHANGED <<up, inherited, cli>>

\* The items the view computes.
LEMMA ReloadScreen ==
  ASSUME Screen, NEW f \in File, NEW mine \in Seq(RowType), NEW target, NEW before \in Items,
         ReloadedOn(f, mine, target, before)
  PROVE  cursor' \in Nat \ {0} /\ selected' \in Items
<1>1. f.rows \in Seq(RowType)
    BY DEF File
<1>2. PICK list : list = KnownAs(mine, f.rows)
    OBVIOUS
<1>3. PICK items : items = Flat(list, TreeOf(list, f.groups))
    OBVIOUS
<1>4. items \in Seq(Items)
    BY <1>1, <1>2, <1>3, KnownAsFacts, FlatType
<1>5. /\ cursor' = IF target \in ToSet(items)
                   THEN CHOOSE i \in DOMAIN items : items[i] = target
                   ELSE Clamp(cursor, items)
      /\ selected' = At(items, cursor', before)
    BY <1>2, <1>3 DEF ReloadedOn
<1>6. cursor' \in Nat \ {0}
  <2>1. CASE target \in ToSet(items)
    <3>1. \E i \in DOMAIN items : items[i] = target
        BY <2>1 DEF ToSet
    <3>2. cursor' \in DOMAIN items
        BY <1>5, <2>1, <3>1
    <3> QED BY <1>4, <3>2, ListFacts
  <2>2. CASE target \notin ToSet(items)
      BY <1>4, <1>5, <2>2, AtType DEF Screen
  <2> QED BY <2>1, <2>2
<1> QED BY <1>4, <1>5, <1>6, AtType

\* SaveAndReload, with what stays selected when the cursor is past the end.
SavedAndRead(list, tree, target, before) ==
  file' = Saved(list, tree) /\ ReloadedOn(Saved(list, tree), list, target, before)

LEMMA SaveReload ==
  ASSUME Screen, NEW list \in Seq(RowType), Unique(list), NEW tree, tree \subseteq Group,
         NEW target, NEW before \in Items, SavedAndRead(list, tree, target, before)
  PROVE  /\ file' = [rows |-> list, groups |-> tree]
         /\ rows' = list /\ groups' = tree
         /\ UNCHANGED <<up, inherited>>
         /\ cursor' \in Nat \ {0} /\ selected' \in Items
<1>1. Saved(list, tree) \in File /\ Saved(list, tree).rows = list
      /\ Saved(list, tree).groups = tree
    BY DEF Saved, File
<1>2. /\ file' = Saved(list, tree)
      /\ ReloadedOn(Saved(list, tree), list, target, before)
      /\ rows' = KnownAs(list, list) /\ groups' = tree
      /\ UNCHANGED <<up, inherited>>
    BY <1>1 DEF SavedAndRead, ReloadedOn
<1>3. rows' = list
    BY <1>2, KnownAsSelf
<1>4. cursor' \in Nat \ {0} /\ selected' \in Items
    BY <1>1, <1>2, ReloadScreen
<1> QED BY <1>2, <1>3, <1>4 DEF Saved

\* A list with the groups it is saved with: what the actions below compute.
LEMMA SavedShape ==
  ASSUME Screen, UNCHANGED cli,
         NEW list \in Seq(RowType), Unique(list), NEW tree, tree \subseteq Group,
         TreeOf(list, tree) = tree, NEW target, NEW before \in Items,
         SavedAndRead(list, tree, target, before),
         NEW more, NEW gone, Ids(list) = (Ids(rows) \ gone) \cup more,
         Likewise(list, rows)
  PROVE  Reshaped(more, gone) /\ cursor' \in Nat \ {0} /\ selected' \in Items
<1>1. /\ file' = [rows |-> list, groups |-> tree] /\ rows' = list /\ groups' = tree
      /\ UNCHANGED <<up, inherited>> /\ cursor' \in Nat \ {0} /\ selected' \in Items
    BY SaveReload
<1> QED BY <1>1 DEF Reshaped

\* The groups of a list with the groups the view knows.
LEMMA ViewTree ==
  ASSUME groups \subseteq Group, NEW list \in Seq(RowType)
  PROVE  /\ TreeOf(list, groups) \subseteq Group
         /\ TreeOf(list, TreeOf(list, groups)) = TreeOf(list, groups)
BY TreeFacts

\* A list with one more row, which says idle.
Added(mine, id, g) == Append(mine, Row(id, g, "idle"))

LEMMA AddedRow ==
  ASSUME NEW mine \in Seq(RowType), Unique(mine), NEW id \in Id, id \notin Ids(mine),
         NEW g \in Place
  PROVE  /\ Added(mine, id, g) \in Seq(RowType) /\ Unique(Added(mine, id, g))
         /\ Ids(Added(mine, id, g)) = Ids(mine) \cup {id}
         /\ Likewise(Added(mine, id, g), mine)
<1>0. PICK list : list = Added(mine, id, g)
    OBVIOUS
<1>1. PICK r : r = Row(id, g, "idle")
    OBVIOUS
<1>2. r \in RowType /\ r.id = id /\ r.status = "idle"
    BY <1>1 DEF Row, RowType
<1>3. /\ list \in Seq(RowType) /\ Unique(list) /\ Ids(list) = Ids(mine) \cup {id}
    BY <1>0, <1>1, <1>2, AppendIds, AppendFacts DEF Added
<1>4. /\ DOMAIN list = 1..(Len(mine) + 1) /\ DOMAIN mine = 1..Len(mine) /\ Len(mine) \in Nat
      /\ \A i \in DOMAIN mine : list[i] = mine[i]
      /\ list[Len(mine) + 1] = r
    BY <1>0, <1>1, <1>2, AppendFacts, ListFacts DEF Added
<1>5. ASSUME NEW i \in DOMAIN list, list[i].status = "deleting"
      PROVE  i \in DOMAIN mine /\ list[i] = mine[i]
    BY <1>2, <1>4, <1>5
<1> QED BY <1>0, <1>3, <1>5 DEF Likewise

\* A list whose groups changed.
LEMMA RegroupedRows ==
  ASSUME NEW mine \in Seq(RowType), Unique(mine), NEW S, NEW g \in Place,
         NEW list, list = SetGroup(mine, S, g)
  PROVE  /\ list \in Seq(RowType) /\ Unique(list) /\ Ids(list) = Ids(mine)
         /\ Likewise(list, mine)
<1>1. /\ list \in Seq(RowType) /\ DOMAIN list = DOMAIN mine
      /\ \A i \in DOMAIN mine : list[i].id = mine[i].id /\ list[i].status = mine[i].status
    BY SetGroupFacts
<1> QED BY <1>1, SameIds DEF Likewise

\* A list without the row of an id.
LEMMA RemovedRow ==
  ASSUME NEW mine \in Seq(RowType), Unique(mine), NEW id,
         NEW list, list = Without(mine, id)
  PROVE  /\ list \in Seq(RowType) /\ Unique(list) /\ Ids(list) = Ids(mine) \ {id}
         /\ Likewise(list, mine)
<1>1. PICK S : S = Ids(mine) \ {id}
    OBVIOUS
<1>2. /\ list \in Seq(RowType) /\ Unique(list) /\ Ids(list) = Ids(mine) \cap S
      /\ \A i \in DOMAIN list : \E j \in DOMAIN mine : list[i] = mine[j]
  <2>1. list = Those(mine, S)
      BY <1>1 DEF Without
  <2> QED BY <2>1, ThoseRows
<1> QED BY <1>1, <1>2 DEF Likewise

LEMMA CreateNowEffect ==
  ASSUME Base, NEW g \in Place, CreateNow(g)
  PROVE  /\ Reshaped({next}, {}) /\ cursor' \in Nat \ {0} /\ selected' \in Items
         /\ next <= MaxSessions /\ next' = next + 1 /\ resources' = resources \cup {next}
         /\ UNCHANGED <<building, built, removing, removed, moved, adrift>>
<1>1. PICK list : list = Added(rows, next, g)
    OBVIOUS
<1>2. next \in Id /\ next \notin Ids(rows)
    BY BoundAssumption DEF CreateNow, Base, Shapes, Fresh, Known, Id
<1>3. /\ list \in Seq(RowType) /\ Unique(list) /\ Ids(list) = Ids(rows) \cup {next}
      /\ Likewise(list, rows)
  <2>1. rows \in Seq(RowType) /\ Unique(rows)
      BY DEF Base, Shapes, Once
  <2> QED BY <1>1, <1>2, <2>1, AddedRow
<1>4. SavedAndRead(list, TreeOf(list, groups), SessionItem(next), selected) /\ UNCHANGED cli
    BY <1>1 DEF CreateNow, Added, SaveAndReload, SavedAndRead
<1>5. Reshaped({next}, {}) /\ cursor' \in Nat \ {0} /\ selected' \in Items
    BY <1>3, <1>4, ViewTree, SavedShape DEF Base, Shapes, Screen
<1> QED BY <1>5 DEF CreateNow, making, deleting

LEMMA ApplyCreatedEffect ==
  ASSUME Base, ApplyCreated
  PROVE  /\ Reshaped({Head(built).id}, {}) /\ cursor' \in Nat \ {0} /\ selected' \in Items
         /\ built # <<>> /\ built' = Tail(built) /\ Head(built).ok
         /\ UNCHANGED <<building, removing, removed, resources, moved, adrift, next>>
<1>1. PICK b : b = Head(built)
    OBVIOUS
<1>2. PICK list : list = Added(rows, b.id, b.group)
    OBVIOUS
<1>3. b \in Result /\ b.id \in Ids(built)
    BY <1>1, TailIds DEF ApplyCreated, Base, Shapes
<1>4. b.id \in Id /\ b.group \in Place /\ b.id \notin Ids(rows)
    BY <1>3 DEF Result, Base, Apart, Known, Making
<1>5. /\ list \in Seq(RowType) /\ Unique(list) /\ Ids(list) = Ids(rows) \cup {b.id}
      /\ Likewise(list, rows)
  <2>1. rows \in Seq(RowType) /\ Unique(rows)
      BY DEF Base, Shapes, Once
  <2> QED BY <1>2, <1>4, <2>1, AddedRow
<1>6. SavedAndRead(list, TreeOf(list, groups), SessionItem(b.id), selected) /\ UNCHANGED cli
    BY <1>1, <1>2 DEF ApplyCreated, Added, SaveAndReload, SavedAndRead
<1>7. Reshaped({b.id}, {}) /\ cursor' \in Nat \ {0} /\ selected' \in Items
    BY <1>5, <1>6, ViewTree, SavedShape DEF Base, Shapes, Screen
<1> QED BY <1>1, <1>7 DEF ApplyCreated, deleting, world

LEMMA ApplyRemovedEffect ==
  ASSUME Base, ApplyRemoved
  PROVE  /\ Reshaped({}, {Head(removed).id}) /\ cursor' \in Nat \ {0} /\ selected' \in Items
         /\ removed # <<>> /\ removed' = Tail(removed) /\ Head(removed).ok
         /\ UNCHANGED <<building, built, removing, resources, moved, adrift, next>>
<1>1. PICK list : list = Without(rows, Head(removed).id)
    OBVIOUS
<1>2. /\ list \in Seq(RowType) /\ Unique(list) /\ Ids(list) = Ids(rows) \ {Head(removed).id}
      /\ Likewise(list, rows)
    BY <1>1, RemovedRow DEF Base, Shapes, Once
<1>3. PICK g : g = Head(removed).group
    OBVIOUS
<1>4. PICK tree : tree = IF In(list, g) = {} THEN TreeOf(list, groups) \ {g}
                         ELSE TreeOf(list, groups)
    OBVIOUS
<1>5. SavedAndRead(list, tree, Nothing, selected) /\ UNCHANGED cli
    BY <1>1, <1>3, <1>4 DEF ApplyRemoved, SaveAndReload, SavedAndRead
<1>6. tree \subseteq Group /\ TreeOf(list, tree) = tree
  <2>1. TreeOf(list, groups) \subseteq Group
      BY <1>2, ViewTree DEF Base, Shapes
  <2>2. TreeOf(list, TreeOf(list, groups)) = TreeOf(list, groups)
      BY <1>2, TreeFacts
  <2>3. ASSUME In(list, g) = {}
        PROVE  TreeOf(list, TreeOf(list, groups) \ {g}) = TreeOf(list, groups) \ {g}
    <3>1. \A i \in DOMAIN list : list[i].group # g
        BY <1>2, <2>3, InFacts
    <3>2. \A i \in DOMAIN list : list[i].group \in TreeOf(list, groups) \cup {NoGroup}
        BY <1>2, TreeFacts
    <3>3. NoGroup \notin TreeOf(list, groups)
        BY DEF TreeOf
    <3>4. \A i \in DOMAIN list : list[i].group \in (TreeOf(list, groups) \ {g}) \cup {NoGroup}
        BY <3>1, <3>2
    <3> QED BY <3>3, <3>4 DEF TreeOf
  <2> QED BY <1>4, <2>1, <2>2, <2>3
<1>7. Reshaped({}, {Head(removed).id}) /\ cursor' \in Nat \ {0} /\ selected' \in Items
  <2>1. Ids(list) = (Ids(rows) \ {Head(removed).id}) \cup {} /\ Screen
      BY <1>2 DEF Base
  <2>2. selected \in Items
      BY <2>1 DEF Screen
  <2> QED BY <1>2, <1>5, <1>6, <2>1, <2>2, SavedShape
<1> QED BY <1>7 DEF ApplyRemoved, making, world

\* What is selected is a session, a group or nothing.
LEMMA SelectedOf ==
  ASSUME Screen
  PROVE  /\ selected.kind = "session" => selected.of \in Id
         /\ selected.kind = "group" => selected.of \in Group
BY DEF Screen, Items, Nothing, Item

LEMMA NothingIsItem == Nothing \in Items
BY DEF Items

\* What no step of the files, the queues and the world changes.
Still == UNCHANGED <<file, rows, groups, cli, up, inherited, building, built, removing, removed,
                     resources, moved, adrift, next>>

LEMMA SubmitGroupEffect ==
  ASSUME Base, SubmitGroup
  PROVE  /\ Reshaped({}, {}) \/ UNCHANGED <<file, rows, groups, up, inherited, cli>>
         /\ cursor' \in Nat \ {0} /\ selected' \in Items
         /\ UNCHANGED <<building, built, removing, removed, resources, moved, adrift, next>>
<1>0. UNCHANGED <<cli, building, built, removing, removed, resources, moved, adrift, next>>
    BY DEF SubmitGroup, making, deleting, world
<1>1. CASE selected.kind = "group"
  <2>1. PICK g : g = selected.of
      OBVIOUS
  <2>2. PICK list : list = SetGroup(rows, In(rows, g), NoGroup)
      OBVIOUS
  <2>3. PICK tree : tree = TreeOf(list, groups) \ {g}
      OBVIOUS
  <2>4. rows \in Seq(RowType) /\ Unique(rows) /\ groups \subseteq Group /\ NoGroup \in Place
      BY DEF Base, Shapes, Once, Place
  <2>5. /\ list \in Seq(RowType) /\ Unique(list) /\ Ids(list) = Ids(rows)
        /\ Likewise(list, rows)
      BY <2>2, <2>4, RegroupedRows
  <2>6. SavedAndRead(list, tree, Nothing, selected)
      BY <1>1, <2>1, <2>2, <2>3 DEF SubmitGroup, SaveAndReload, SavedAndRead
  <2>7. tree \subseteq Group
      BY <2>3, <2>4, <2>5, ViewTree
  <2>8. TreeOf(list, tree) = tree
    <3>1. /\ DOMAIN list = DOMAIN rows
          /\ \A i \in DOMAIN rows :
               list[i].group = IF rows[i].id \in In(rows, g) THEN NoGroup ELSE rows[i].group
        BY <2>2, <2>4, SetGroupFacts
    <3>2. \A i \in DOMAIN rows : rows[i].id \in In(rows, g) <=> rows[i].group = g
        BY <2>4, InFacts
    <3>3. g # NoGroup
        BY <1>1, <2>1, SelectedOf, GroupAssumption DEF Base
    <3>4. \A i \in DOMAIN list : list[i].group # g
        BY <3>1, <3>2, <3>3
    <3>5. \A i \in DOMAIN list : list[i].group \in TreeOf(list, groups) \cup {NoGroup}
        BY <2>5, TreeFacts
    <3>6. \A i \in DOMAIN list : list[i].group \in tree \cup {NoGroup}
        BY <2>3, <3>4, <3>5
    <3>7. NoGroup \notin tree
        BY <2>3 DEF TreeOf
    <3> QED BY <3>6, <3>7 DEF TreeOf
  <2>9. Reshaped({}, {}) /\ cursor' \in Nat \ {0} /\ selected' \in Items
      BY <1>0, <2>5, <2>6, <2>7, <2>8, SavedShape DEF Base, Screen
  <2> QED BY <1>0, <2>9
<1>2. CASE selected.kind # "group"
  <2>1. UNCHANGED <<file, view>>
      BY <1>2 DEF SubmitGroup
  <2> QED BY <1>0, <2>1 DEF view, Base, Screen
<1> QED BY <1>1, <1>2

LEMMA RegroupEffect ==
  ASSUME Base, NEW g \in Place, Regroup(g)
  PROVE  /\ Reshaped({}, {}) \/ UNCHANGED <<file, rows, groups, up, inherited, cli>>
         /\ cursor' \in Nat \ {0} /\ selected' \in Items
         /\ UNCHANGED <<building, built, removing, removed, resources, moved, adrift, next>>
<1>0. UNCHANGED <<cli, building, built, removing, removed, resources, moved, adrift, next>>
    BY DEF Regroup, making, deleting, world
<1>1. CASE selected.kind = "session"
  <2>1. PICK list : list = SetGroup(rows, {selected.of}, g)
      OBVIOUS
  <2>2. PICK tree : tree = (TreeOf(list, groups) \cup {g}) \ {NoGroup}
      OBVIOUS
  <2>3. rows \in Seq(RowType) /\ Unique(rows) /\ groups \subseteq Group
      BY DEF Base, Shapes, Once
  <2>4. /\ list \in Seq(RowType) /\ Unique(list) /\ Ids(list) = Ids(rows)
        /\ Likewise(list, rows)
      BY <2>1, <2>3, RegroupedRows
  <2>5. SavedAndRead(list, tree, Nothing, selected)
      BY <1>1, <2>1, <2>2 DEF Regroup, SaveAndReload, SavedAndRead
  <2>6. tree \subseteq Group
      BY <2>2, <2>3, <2>4, ViewTree DEF Place
  <2>7. TreeOf(list, tree) = tree
    <3>1. \A i \in DOMAIN list : list[i].group \in TreeOf(list, groups) \cup {NoGroup}
        BY <2>4, TreeFacts
    <3>2. \A i \in DOMAIN list : list[i].group \in tree \cup {NoGroup}
        BY <2>2, <3>1
    <3>3. NoGroup \notin tree
        BY <2>2
    <3> QED BY <3>2, <3>3 DEF TreeOf
  <2>8. Reshaped({}, {}) /\ cursor' \in Nat \ {0} /\ selected' \in Items
      BY <1>0, <2>4, <2>5, <2>6, <2>7, SavedShape DEF Base, Screen
  <2> QED BY <1>0, <2>8
<1>2. CASE selected.kind # "session"
  <2>1. UNCHANGED <<file, view>>
      BY <1>2 DEF Regroup
  <2> QED BY <1>0, <2>1 DEF view, Base, Screen
<1> QED BY <1>1, <1>2

LEMMA MoveAwayEffect ==
  ASSUME Base, NEW done \in BOOLEAN, MoveAway(done)
  PROVE  /\ Reshaped({}, {selected.of}) /\ selected.of \in Id
         /\ cursor' \in Nat \ {0} /\ selected' \in Items
         /\ \/ moved' = moved \cup {selected.of} /\ adrift' = adrift
            \/ moved' = moved /\ adrift' = adrift \cup {selected.of}
         /\ UNCHANGED <<building, built, removing, removed, resources, next>>
<1>0. /\ UNCHANGED <<cli, building, built, removing, removed, resources, next>>
      /\ selected.kind = "session"
    BY DEF MoveAway, making, deleting
<1>1. PICK list : list = Without(rows, selected.of)
    OBVIOUS
<1>2. PICK tree : tree = TreeOf(list, groups)
    OBVIOUS
<1>3. rows \in Seq(RowType) /\ Unique(rows) /\ groups \subseteq Group
    BY DEF Base, Shapes, Once
<1>4. /\ list \in Seq(RowType) /\ Unique(list) /\ Ids(list) = Ids(rows) \ {selected.of}
      /\ Likewise(list, rows)
    BY <1>1, <1>3, RemovedRow
<1>5. tree \subseteq Group /\ TreeOf(list, tree) = tree
    BY <1>2, <1>3, <1>4, ViewTree
<1>6. CASE done
  <2>1. SavedAndRead(list, tree, Nothing, Nothing)
      BY <1>1, <1>2, <1>6 DEF MoveAway, SavedAndRead
  <2>2. moved' = moved \cup {selected.of} /\ adrift' = adrift
      BY <1>6 DEF MoveAway
  <2>3. Reshaped({}, {selected.of}) /\ cursor' \in Nat \ {0} /\ selected' \in Items
      BY <1>0, <1>4, <1>5, <2>1, SavedShape, NothingIsItem DEF Base
  <2> QED BY <1>0, <2>2, <2>3, SelectedOf DEF Base
<1>7. CASE ~done
  <2>1. /\ file' = Saved(list, tree) /\ rows' = list
        /\ adrift' = adrift \cup {selected.of}
        /\ UNCHANGED <<moved, up, groups, cursor, selected, inherited>>
      BY <1>1, <1>2, <1>7 DEF MoveAway
  <2>2. Reshaped({}, {selected.of})
      BY <1>0, <1>2, <1>3, <1>4, <1>5, <2>1 DEF Reshaped, Saved
  <2> QED BY <1>0, <2>1, <2>2, SelectedOf DEF Base, Screen
<1> QED BY <1>6, <1>7

\* Rows are marked for deletion, and each has its request.
Marked(ids) ==
  /\ ids \subseteq Ids(rows)
  /\ rows' = SetStatus(rows, ids, "deleting")
  /\ removing' \in Seq(Request) /\ Ids(removing') = Ids(removing) \cup ids

LEMMA SubmitDeleteEffect ==
  ASSUME Base, SubmitDelete
  PROVE  /\ UNCHANGED <<rows, removing>> \/ \E ids : Marked(ids)
         /\ UNCHANGED <<file, groups, cli, up, inherited, building, built, removed, resources,
                        moved, adrift, next>>
         /\ UNCHANGED <<cursor, selected>>
<1>0. /\ UNCHANGED <<file, groups, cli, up, inherited, building, built, removed, resources,
                    moved, adrift, next>>
      /\ UNCHANGED <<cursor, selected>>
    BY DEF SubmitDelete, disk, making, world
<1>1. CASE selected.kind = "session" /\ selected.of \in Ids(rows)
  <2>1. PICK q : q = [id |-> selected.of, group |-> NoGroup]
      OBVIOUS
  <2>2. q \in Request /\ q.id = selected.of
      BY <1>1, <2>1, SelectedOf DEF Base, Request, Place
  <2>3. rows' = SetStatus(rows, {selected.of}, "deleting") /\ removing' = Append(removing, q)
      BY <1>1, <2>1 DEF SubmitDelete
  <2>4. removing' \in Seq(Request) /\ Ids(removing') = Ids(removing) \cup {selected.of}
      BY <2>2, <2>3, AppendIds, AppendFacts DEF Base, Shapes
  <2>5. Marked({selected.of})
      BY <1>1, <2>3, <2>4 DEF Marked
  <2> QED BY <1>0, <2>5
<1>2. CASE ~(selected.kind = "session" /\ selected.of \in Ids(rows))
    BY <1>0, <1>2 DEF SubmitDelete
<1> QED BY <1>1, <1>2

LEMMA AskedFacts ==
  ASSUME NEW list \in Seq(RowType), NEW g \in Group
  PROVE  Asked(list, g) \in Seq(Request) /\ Ids(Asked(list, g)) = Ids(list)
<1>1. PICK y : y = Asked(list, g)
    OBVIOUS
<1>2. Len(list) \in Nat /\ DOMAIN list = 1..Len(list) /\ \A i \in DOMAIN list : list[i] \in RowType
    BY ListFacts
<1>3. y = [i \in DOMAIN list |-> [id |-> list[i].id, group |-> g]]
    BY <1>1 DEF Asked
<1>4. ASSUME NEW i \in DOMAIN list
      PROVE  y[i] \in Request /\ y[i].id = list[i].id
  <2>1. list[i].id \in Id
      BY <1>2 DEF RowType
  <2> QED BY <1>3, <2>1 DEF Request, Place
<1>5. DOMAIN y = 1..Len(list) /\ y = [i \in 1..Len(list) |-> y[i]]
    BY <1>2, <1>3
<1>6. y \in Seq(Request)
    BY <1>2, <1>4, <1>5, IsList
<1> QED BY <1>1, <1>2, <1>4, <1>5, <1>6, SameIds

LEMMA SubmitGroupAndSessionsEffect ==
  ASSUME Base, SubmitGroupAndSessions
  PROVE  /\ UNCHANGED <<rows, removing>> \/ \E ids : Marked(ids)
         /\ UNCHANGED <<file, groups, cli, up, inherited, building, built, removed, resources,
                        moved, adrift, next>>
         /\ UNCHANGED cursor /\ selected' \in Items
<1>0. /\ UNCHANGED <<file, groups, cli, up, inherited, building, built, removed, resources,
                    moved, adrift, next>>
      /\ UNCHANGED cursor
    BY DEF SubmitGroupAndSessions, disk, making, world
<1>1. CASE selected.kind = "group"
  <2>1. PICK g : g = selected.of
      OBVIOUS
  <2>2. PICK ids : ids = In(rows, g)
      OBVIOUS
  <2>3. PICK list : list = Those(rows, ids)
      OBVIOUS
  <2>4. rows \in Seq(RowType) /\ removing \in Seq(Request) /\ g \in Group
      BY <1>1, <2>1, SelectedOf DEF Base, Shapes
  <2>5. ids \subseteq Ids(rows)
      BY <2>2, <2>4, InFacts
  <2>6. list \in Seq(RowType) /\ Ids(list) = ids
      BY <2>3, <2>4, <2>5, ThoseRows
  <2>7. /\ rows' = SetStatus(rows, ids, "deleting")
        /\ removing' = removing \o Asked(list, g) /\ selected' = Nothing
      BY <1>1, <2>1, <2>2, <2>3 DEF SubmitGroupAndSessions
  <2>8. Asked(list, g) \in Seq(Request) /\ Ids(Asked(list, g)) = ids
      BY <2>4, <2>6, AskedFacts
  <2>9. removing' \in Seq(Request) /\ Ids(removing') = Ids(removing) \cup ids
      BY <2>4, <2>7, <2>8, JoinIds
  <2>10. Marked(ids)
      BY <2>5, <2>7, <2>9 DEF Marked
  <2> QED BY <1>0, <2>7, <2>10, NothingIsItem
<1>2. CASE selected.kind # "group"
    BY <1>0, <1>2 DEF SubmitGroupAndSessions, Base, Screen
<1> QED BY <1>1, <1>2

\* A command saves what it loaded with one change.
CliSaved(more, gone) ==
  /\ cli # <<>> /\ cli' = <<>>
  /\ file' \in File /\ Unique(file'.rows)
  /\ file'.groups = TreeOf(file'.rows, file'.groups)
  /\ Ids(file'.rows) = (Ids(CliRows) \ gone) \cup more
  /\ UNCHANGED <<rows, groups, up, inherited, building, built, removing, removed, moved, adrift>>
  /\ UNCHANGED <<cursor, selected, dialog, pending, cancelled>>

LEMMA Loaded ==
  ASSUME Base, cli # <<>>
  PROVE  /\ cli[1].rows \in Seq(RowType) /\ cli[1].groups \subseteq Group
         /\ CliRows = cli[1].rows /\ Unique(CliRows)
<1>1. PICK f \in File : cli = <<f>>
    BY DEF Base, Shapes
<1> QED BY <1>1 DEF CliRows, Base, Once, File

LEMMA CliSaveEffect ==
  ASSUME Base, NEW list \in Seq(RowType), NEW known, known \ {NoGroup} \subseteq Group,
         CliSave(list, known), Unique(list),
         NEW more, NEW gone, Ids(list) = (Ids(CliRows) \ gone) \cup more
  PROVE  CliSaved(more, gone)
<1>1. PICK tree : tree = TreeOf(list, known)
    OBVIOUS
<1>2. tree \subseteq Group /\ TreeOf(list, tree) = tree
    BY <1>1, TreeFacts
<1>3. file' = [rows |-> list, groups |-> tree]
    BY <1>1 DEF CliSave, Saved
<1>4. file' \in File /\ file'.rows = list /\ file'.groups = tree
    BY <1>2, <1>3 DEF File
<1>5. /\ cli # <<>> /\ cli' = <<>>
      /\ UNCHANGED <<rows, groups, up, inherited, building, built, removing, removed, moved,
                     adrift>>
      /\ UNCHANGED <<cursor, selected, dialog, pending, cancelled>>
    BY DEF CliSave, view, making, deleting
<1> QED BY <1>2, <1>4, <1>5 DEF CliSaved

LEMMA CliAddEffect ==
  ASSUME Base, NEW g \in Place, CliAdd(g)
  PROVE  /\ CliSaved({next}, {}) /\ next <= MaxSessions
         /\ next' = next + 1 /\ resources' = resources \cup {next}
<1>1. cli # <<>> /\ next <= MaxSessions
    BY DEF CliAdd
<1>2. next \in Id /\ next \notin Ids(CliRows)
    BY <1>1, BoundAssumption DEF Base, Shapes, Fresh, Known, Id
<1>3. PICK list : list = Added(CliRows, next, g)
    OBVIOUS
<1>4. CliRows \in Seq(RowType) /\ Unique(CliRows) /\ cli[1].groups \subseteq Group
    BY <1>1, Loaded
<1>5. list \in Seq(RowType) /\ Unique(list) /\ Ids(list) = (Ids(CliRows) \ {}) \cup {next}
    BY <1>2, <1>3, <1>4, AddedRow
<1>6. CliSave(list, cli[1].groups)
    BY <1>1, <1>3, Loaded DEF CliAdd, Added
<1>7. CliSaved({next}, {})
    BY <1>4, <1>5, <1>6, CliSaveEffect
<1> QED BY <1>1, <1>7 DEF CliAdd

LEMMA CliRemoveEffect ==
  ASSUME Base, NEW id \in Id, CliRemove(id)
  PROVE  CliSaved({}, {id}) /\ next' = next /\ resources' = resources \ {id}
<1>1. cli # <<>>
    BY DEF CliRemove
<1>2. PICK list : list = Without(CliRows, id)
    OBVIOUS
<1>3. CliRows \in Seq(RowType) /\ Unique(CliRows) /\ cli[1].groups \subseteq Group
    BY <1>1, Loaded
<1>4. list \in Seq(RowType) /\ Unique(list) /\ Ids(list) = (Ids(CliRows) \ {id}) \cup {}
    BY <1>2, <1>3, RemovedRow
<1>5. CliSave(list, cli[1].groups)
    BY <1>1, <1>2, Loaded DEF CliRemove
<1>6. CliSaved({}, {id})
    BY <1>3, <1>4, <1>5, CliSaveEffect
<1> QED BY <1>6 DEF CliRemove

LEMMA CliMoveEffect ==
  ASSUME Base, NEW id \in Id, NEW g \in Place, CliMove(id, g)
  PROVE  CliSaved({}, {}) /\ UNCHANGED <<next, resources>>
<1>1. cli # <<>>
    BY DEF CliMove
<1>2. PICK list : list = SetGroup(CliRows, {id}, g)
    OBVIOUS
<1>3. CliRows \in Seq(RowType) /\ Unique(CliRows) /\ cli[1].groups \subseteq Group
    BY <1>1, Loaded
<1>4. list \in Seq(RowType) /\ Unique(list) /\ Ids(list) = (Ids(CliRows) \ {}) \cup {}
    BY <1>2, <1>3, RegroupedRows
<1>5. CliSave(list, cli[1].groups)
    BY <1>1, <1>2, Loaded DEF CliMove
<1>6. CliSaved({}, {})
    BY <1>3, <1>4, <1>5, CliSaveEffect
<1> QED BY <1>6 DEF CliMove

LEMMA CliCreateGroupEffect ==
  ASSUME Base, NEW g \in Group, CliCreateGroup(g)
  PROVE  CliSaved({}, {}) /\ UNCHANGED <<next, resources>>
<1>1. cli # <<>>
    BY DEF CliCreateGroup
<1>2. CliRows \in Seq(RowType) /\ Unique(CliRows) /\ cli[1].groups \subseteq Group
    BY <1>1, Loaded
<1>3. Ids(CliRows) = (Ids(CliRows) \ {}) \cup {}
    OBVIOUS
<1>4. CliSave(CliRows, cli[1].groups \cup {g})
    BY <1>1, Loaded DEF CliCreateGroup
<1>5. (cli[1].groups \cup {g}) \ {NoGroup} \subseteq Group
    BY <1>2
<1>6. CliSaved({}, {})
    BY <1>2, <1>3, <1>4, <1>5, CliSaveEffect
<1> QED BY <1>6 DEF CliCreateGroup

LEMMA CliDeleteGroupEffect ==
  ASSUME Base, NEW g \in Group, CliDeleteGroup(g)
  PROVE  CliSaved({}, {}) /\ UNCHANGED <<next, resources>>
<1>1. cli # <<>>
    BY DEF CliDeleteGroup
<1>2. PICK list : list = SetGroup(CliRows, In(CliRows, g), NoGroup)
    OBVIOUS
<1>3. /\ CliRows \in Seq(RowType) /\ Unique(CliRows) /\ cli[1].groups \subseteq Group
      /\ NoGroup \in Place
    BY <1>1, Loaded DEF Place
<1>4. list \in Seq(RowType) /\ Unique(list) /\ Ids(list) = (Ids(CliRows) \ {}) \cup {}
    BY <1>2, <1>3, RegroupedRows
<1>5. CliSave(list, cli[1].groups \ {g})
    BY <1>1, <1>2, Loaded DEF CliDeleteGroup
<1>6. (cli[1].groups \ {g}) \ {NoGroup} \subseteq Group
    BY <1>3
<1>7. CliSaved({}, {})
    BY <1>4, <1>5, <1>6, CliSaveEffect
<1> QED BY <1>7 DEF CliDeleteGroup

\* The steps by what they do to files, lists and queues.
queues == <<building, built, removing, removed>>
away == <<moved, adrift>>
Creates ==
  /\ up /\ Reshaped({next}, {}) /\ next <= MaxSessions /\ next' = next + 1
  /\ resources' = resources \cup {next} /\ UNCHANGED <<queues, away>>
Marks ==
  /\ up /\ \E ids : Marked(ids)
  /\ UNCHANGED <<file, groups, cli, up, inherited, building, built, removed, resources, moved,
                 adrift, next>>
Regroups == up /\ Reshaped({}, {}) /\ UNCHANGED <<queues, resources, away, next>>
CliGrows ==
  /\ CliSaved({next}, {}) /\ next <= MaxSessions
  /\ next' = next + 1 /\ resources' = resources \cup {next}
CliDrops == \E id : CliSaved({}, {id}) /\ next' = next /\ resources' = resources \ {id}
CliKeeps == CliSaved({}, {}) /\ UNCHANGED <<next, resources>>

LEMMA StillSteps ==
  ASSUME MoveCursor \/ Dismiss \/ OpenNew \/ CancelNew \/ OpenDelete \/ OpenRename
  PROVE  Still
<1>1. CASE MoveCursor
    BY <1>1 DEF MoveCursor, Still, disk, making, deleting, world
<1>2. CASE Dismiss
    BY <1>2 DEF Dismiss, Still, disk, view, making, deleting, world
<1>3. CASE OpenNew
    BY <1>3 DEF OpenNew, Still, disk, view, making, deleting, world
<1>4. CASE CancelNew
    BY <1>4 DEF CancelNew, Still, disk, view, deleting, world
<1>5. CASE OpenDelete
    BY <1>5 DEF OpenDelete, Still, disk, view, making, deleting, world
<1>6. CASE OpenRename
    BY <1>6 DEF OpenRename, Still, disk, view, making, deleting, world
<1> QED BY <1>1, <1>2, <1>3, <1>4, <1>5, <1>6

Kinds ==
  \/ Still \/ Enter \/ Leave \/ Reload \/ SaveList
  \/ Creates \/ (\E g \in Place : RequestCreation(g)) \/ Build
  \/ ApplyCancelled \/ ApplyCreated \/ ApplyBuildError
  \/ Marks \/ RunRemoval \/ ApplyRemoved \/ ApplyRemoveError
  \/ Regroups \/ (\E done \in BOOLEAN : MoveAway(done))
  \/ CliLoad \/ CliFail \/ CliGrows \/ CliDrops \/ CliKeeps

LEMMA KeysKinds ==
  ASSUME Base, Keys
  PROVE  Kinds
<1>1. CASE MoveCursor \/ Dismiss \/ OpenNew \/ CancelNew \/ OpenDelete \/ OpenRename
    BY <1>1, StillSteps DEF Kinds
<1>2. CASE SaveList
    BY <1>2 DEF Kinds
<1>3. CASE SubmitDelete
  <2>1. Still \/ Marks
      BY <1>3, SubmitDeleteEffect DEF Still, Marks, SubmitDelete, InDialog
  <2> QED BY <2>1 DEF Kinds
<1>4. CASE SubmitGroupAndSessions
  <2>1. Still \/ Marks
      BY <1>4, SubmitGroupAndSessionsEffect
      DEF Still, Marks, SubmitGroupAndSessions, InDialog
  <2> QED BY <2>1 DEF Kinds
<1>5. CASE SubmitGroup
  <2>1. Still \/ Regroups
      BY <1>5, SubmitGroupEffect
      DEF Still, Regroups, queues, away, SubmitGroup, InDialog
  <2> QED BY <2>1 DEF Kinds
<1>6. ASSUME NEW g \in Place, CreateNow(g)
      PROVE  Kinds
  <2>1. Creates
      BY <1>6, CreateNowEffect DEF Creates, queues, away, CreateNow, InDialog
  <2> QED BY <2>1 DEF Kinds
<1>7. ASSUME NEW g \in Place, RequestCreation(g)
      PROVE  Kinds
    BY <1>7 DEF Kinds
<1>8. ASSUME NEW g \in Place, Regroup(g)
      PROVE  Kinds
  <2>1. Still \/ Regroups
      BY <1>8, RegroupEffect DEF Still, Regroups, queues, away, Regroup, InDialog
  <2> QED BY <2>1 DEF Kinds
<1>9. ASSUME NEW done \in BOOLEAN, MoveAway(done)
      PROVE  Kinds
    BY <1>9 DEF Kinds
<1> QED BY <1>1, <1>2, <1>3, <1>4, <1>5, <1>6, <1>7, <1>8, <1>9 DEF Keys

LEMMA CliKinds ==
  ASSUME Base, Cli
  PROVE  Kinds
<1>1. CASE CliLoad \/ CliFail
    BY <1>1 DEF Kinds
<1>2. ASSUME NEW g \in Place, CliAdd(g)
      PROVE  Kinds
  <2>1. CliGrows
      BY <1>2, CliAddEffect DEF CliGrows
  <2> QED BY <2>1 DEF Kinds
<1>3. ASSUME NEW g \in Place, NEW id \in Id, CliMove(id, g)
      PROVE  Kinds
  <2>1. CliKeeps
      BY <1>3, CliMoveEffect DEF CliKeeps
  <2> QED BY <2>1 DEF Kinds
<1>4. ASSUME NEW id \in Id, CliRemove(id)
      PROVE  Kinds
  <2>1. CliDrops
      BY <1>4, CliRemoveEffect DEF CliDrops
  <2> QED BY <2>1 DEF Kinds
<1>5. ASSUME NEW g \in Group, CliCreateGroup(g)
      PROVE  Kinds
  <2>1. CliKeeps
      BY <1>5, CliCreateGroupEffect DEF CliKeeps
  <2> QED BY <2>1 DEF Kinds
<1>6. ASSUME NEW g \in Group, CliDeleteGroup(g)
      PROVE  Kinds
  <2>1. CliKeeps
      BY <1>6, CliDeleteGroupEffect DEF CliKeeps
  <2> QED BY <2>1 DEF Kinds
<1> QED BY <1>1, <1>2, <1>3, <1>4, <1>5, <1>6 DEF Cli

LEMMA NextKinds ==
  ASSUME Base, [Next]_vars
  PROVE  Kinds
<1>1. CASE UNCHANGED vars
  <2>1. Still
      BY <1>1 DEF Still, vars, disk, view, making, deleting, world
  <2> QED BY <2>1 DEF Kinds
<1>2. CASE Next
  <2>1. CASE Enter \/ Leave \/ Reload
      BY <2>1 DEF Kinds
  <2>2. CASE Apply
      BY <2>2 DEF Apply, Kinds
  <2>3. CASE Threads
      BY <2>3 DEF Threads, Kinds
  <2> QED BY <1>2, <2>1, <2>2, <2>3, KeysKinds, CliKinds DEF Next
<1> QED BY <1>1, <1>2

-----------------------------------------------------------------------------
(* The screen: cursor, selection, dialog and the flags of a creation.        *)

LEMMA DialogFacts ==
  ASSUME Screen
  PROVE  /\ Close => dialog' \in Dialog
         /\ \A kind \in {"delete", "group", "deleteGroup", "rename"} :
              Open(kind) => dialog' \in Dialog
         /\ \A kind \in {"new", "loading"} : OpenPlain(kind) => dialog' \in Dialog
         /\ dialog.kind = "loading" => [dialog EXCEPT !.kind = "new"] \in Dialog
BY NothingIsItem DEF Screen, Dialog, Close, Open, OpenPlain

LEMMA ScreenStep ==
  ASSUME Base, [Next]_vars
  PROVE  Screen'
<1>0. /\ cursor \in Nat \ {0} /\ selected \in Items /\ dialog \in Dialog
      /\ pending \in BOOLEAN /\ cancelled \in BOOLEAN /\ Screen
    BY DEF Base, Screen
<1> USE DEF Screen
<1>1. CASE UNCHANGED vars
    BY <1>0, <1>1 DEF vars, view, making
<1>2. CASE Enter
  <2>1. file.rows \in Seq(RowType)
      BY DEF Base, Shapes, File
  <2>2. PICK items : items = Flat(file.rows, TreeOf(file.rows, file.groups))
      OBVIOUS
  <2>3. items \in Seq(Items) /\ 1 \in Nat \ {0}
      BY <2>1, <2>2, FlatType
  <2>4. selected' = At(items, 1, Nothing) /\ cursor' = 1
      BY <1>2, <2>2 DEF Enter
  <2>5. selected' \in Items
      BY <2>3, <2>4, AtType, NothingIsItem
  <2> QED BY <1>0, <1>2, <2>3, <2>4, <2>5 DEF Enter, making
<1>3. CASE Leave
  <2>1. cursor' = 1 /\ selected' = Nothing /\ pending' = FALSE /\ cancelled' = FALSE
        /\ dialog' = dialog
      BY <1>3 DEF Leave
  <2>2. cursor' \in Nat \ {0} /\ selected' \in Items
      BY <2>1, NothingIsItem
  <2> QED BY <1>0, <2>1, <2>2
<1>4. CASE MoveCursor
  <2>1. PICK items : items = Flat(rows, TreeOf(rows, groups))
      OBVIOUS
  <2>2. items \in Seq(Items)
      BY <2>1, FlatType DEF Base, Shapes
  <2>3. PICK c \in DOMAIN items : cursor' = c /\ selected' = items[c]
      BY <1>4, <2>1 DEF MoveCursor
  <2>4. cursor' \in Nat \ {0} /\ selected' \in Items
      BY <2>2, <2>3, ListFacts
  <2> QED BY <1>0, <1>4, <2>4 DEF MoveCursor, making
<1>5. CASE Reload
  <2>1. ReloadedOn(file, rows, Nothing, selected)
      BY <1>5 DEF Reload, Reloaded
  <2>2. cursor' \in Nat \ {0} /\ selected' \in Items
      BY <1>0, <2>1, ReloadScreen DEF Base, Shapes
  <2> QED BY <1>0, <1>5, <2>2 DEF Reload, making
<1>6. CASE SaveList
    BY <1>0, <1>6 DEF SaveList, view, making
<1>7. CASE Dismiss
    BY <1>0, <1>7, DialogFacts DEF Dismiss, view, making
<1>8. CASE OpenNew
    BY <1>0, <1>8, DialogFacts DEF OpenNew, view, making
<1>9. CASE CancelNew
  <2>1. dialog' \in Dialog
      BY <1>0, <1>9, DialogFacts DEF CancelNew
  <2>2. cancelled' \in BOOLEAN /\ UNCHANGED <<cursor, selected, pending>>
      BY <1>9 DEF CancelNew, view
  <2> QED BY <1>0, <2>1, <2>2
<1>10. CASE OpenDelete
  <2>1. dialog' \in Dialog
    <3>1. \/ Open("delete")
          \/ Open(IF In(rows, selected.of) # {} THEN "group" ELSE "deleteGroup")
        BY <1>10 DEF OpenDelete
    <3> QED BY <1>0, <3>1, DialogFacts
  <2> QED BY <1>0, <1>10, <2>1 DEF OpenDelete, view, making
<1>11. CASE OpenRename
  <2>1. dialog' \in Dialog
      BY <1>0, <1>11, DialogFacts DEF OpenRename
  <2> QED BY <1>0, <1>11, <2>1 DEF OpenRename, view, making
<1>12. CASE SubmitDelete
  <2>1. dialog' \in Dialog
      BY <1>0, <1>12, DialogFacts DEF SubmitDelete
  <2> QED BY <1>0, <1>12, <2>1 DEF SubmitDelete, making
<1>13. CASE SubmitGroupAndSessions
  <2>1. dialog' \in Dialog
      BY <1>0, <1>13, DialogFacts DEF SubmitGroupAndSessions
  <2>2. UNCHANGED cursor /\ selected' \in Items
      BY <1>13, SubmitGroupAndSessionsEffect
  <2> QED BY <1>0, <1>13, <2>1, <2>2 DEF SubmitGroupAndSessions, making
<1>14. CASE SubmitGroup
  <2>1. dialog' \in Dialog
      BY <1>0, <1>14, DialogFacts DEF SubmitGroup
  <2>2. cursor' \in Nat \ {0} /\ selected' \in Items
      BY <1>14, SubmitGroupEffect
  <2> QED BY <1>0, <1>14, <2>1, <2>2 DEF SubmitGroup, making
<1>15. ASSUME NEW g \in Place, CreateNow(g)
       PROVE  Screen'
  <2>1. dialog' \in Dialog
      BY <1>0, <1>15, DialogFacts DEF CreateNow
  <2>2. cursor' \in Nat \ {0} /\ selected' \in Items
      BY <1>15, CreateNowEffect
  <2> QED BY <1>0, <1>15, <2>1, <2>2 DEF CreateNow, making
<1>16. ASSUME NEW g \in Place, RequestCreation(g)
       PROVE  Screen'
  <2>1. dialog' \in Dialog
      BY <1>0, <1>16, DialogFacts DEF RequestCreation
  <2> QED BY <1>0, <1>16, <2>1 DEF RequestCreation, view
<1>17. ASSUME NEW g \in Place, Regroup(g)
       PROVE  Screen'
  <2>1. dialog' \in Dialog
      BY <1>0, <1>17, DialogFacts DEF Regroup
  <2>2. cursor' \in Nat \ {0} /\ selected' \in Items
      BY <1>17, RegroupEffect
  <2> QED BY <1>0, <1>17, <2>1, <2>2 DEF Regroup, making
<1>18. ASSUME NEW done \in BOOLEAN, MoveAway(done)
       PROVE  Screen'
  <2>1. dialog' \in Dialog
      BY <1>0, <1>18, DialogFacts DEF MoveAway
  <2>2. cursor' \in Nat \ {0} /\ selected' \in Items
      BY <1>18, MoveAwayEffect
  <2> QED BY <1>0, <1>18, <2>1, <2>2 DEF MoveAway, making
<1>19. CASE Build
    BY <1>0, <1>19 DEF Build, view
<1>20. CASE RunRemoval
    BY <1>0, <1>20 DEF RunRemoval, view, making
<1>21. CASE ApplyCancelled
    BY <1>0, <1>21 DEF ApplyCancelled, view
<1>22. CASE ApplyCreated
  <2>1. dialog' \in Dialog
      BY <1>0, <1>22, DialogFacts DEF ApplyCreated
  <2>2. cursor' \in Nat \ {0} /\ selected' \in Items
      BY <1>22, ApplyCreatedEffect
  <2>3. pending' \in BOOLEAN /\ cancelled' \in BOOLEAN
      BY <1>0, <1>22 DEF ApplyCreated
  <2> QED BY <2>1, <2>2, <2>3
<1>23. CASE ApplyBuildError
  <2>1. dialog' \in Dialog
      BY <1>0, <1>23, DialogFacts DEF ApplyBuildError
  <2> QED BY <1>0, <1>23, <2>1 DEF ApplyBuildError, view
<1>24. CASE ApplyRemoved
  <2>1. cursor' \in Nat \ {0} /\ selected' \in Items
      BY <1>24, ApplyRemovedEffect
  <2> QED BY <1>0, <1>24, <2>1 DEF ApplyRemoved, making
<1>25. CASE ApplyRemoveError
    BY <1>0, <1>25 DEF ApplyRemoveError, making
<1>26. CASE Cli
  <2>1. CASE CliLoad \/ CliFail
      BY <1>0, <2>1 DEF CliLoad, CliFail, view, making
  <2>2. CASE \E g \in Place : CliAdd(g) \/ \E id \in Id : CliMove(id, g)
      BY <1>0, <2>2 DEF CliAdd, CliMove, CliSave, view, making
  <2>3. CASE \E id \in Id : CliRemove(id)
      BY <1>0, <2>3 DEF CliRemove, CliSave, view, making
  <2>4. CASE \E g \in Group : CliCreateGroup(g) \/ CliDeleteGroup(g)
      BY <1>0, <2>4 DEF CliCreateGroup, CliDeleteGroup, CliSave, view, making
  <2> QED BY <1>26, <2>1, <2>2, <2>3, <2>4 DEF Cli
<1> QED
  BY <1>1, <1>2, <1>3, <1>4, <1>5, <1>6, <1>7, <1>8, <1>9, <1>10, <1>11, <1>12, <1>13, <1>14,
     <1>15, <1>16, <1>17, <1>18, <1>19, <1>20, <1>21, <1>22, <1>23, <1>24, <1>25, <1>26
     DEF Next, Keys, Apply, Threads

-----------------------------------------------------------------------------
(* The lists and the ids in them.                                           *)

LEMMA NoIds == Ids(<<>>) = {} /\ Unique(<<>>)
BY DEF Ids, Unique

LEMMA CliRowsOf ==
  ASSUME NEW f \in File
  PROVE  cli = <<f>> => CliRows = f.rows
BY DEF CliRows

Lists == Shapes /\ Once

LEMMA ReshapedLists ==
  ASSUME Lists, NEW more, NEW gone, Reshaped(more, gone)
  PROVE  /\ file' \in File /\ rows' \in Seq(RowType) /\ groups' \subseteq Group
         /\ Unique(file'.rows) /\ Unique(rows') /\ Unique(CliRows')
         /\ cli' = cli /\ CliRows' = CliRows /\ up' = up /\ inherited' = inherited
         /\ file'.rows = rows'
<1>1. file' = [rows |-> rows', groups |-> TreeOf(rows', groups')] /\ rows' \in Seq(RowType)
      /\ TreeOf(rows', groups') \subseteq Group
    BY DEF Reshaped
<1>2. file' \in File /\ file'.rows = rows'
    BY <1>1 DEF File
<1> QED BY <1>2 DEF Reshaped, Lists, Once, CliRows

LEMMA CliSavedLists ==
  ASSUME Lists, NEW more, NEW gone, CliSaved(more, gone)
  PROVE  /\ file' \in File /\ Unique(file'.rows) /\ cli' = <<>> /\ CliRows' = <<>>
         /\ Ids(CliRows') = {} /\ Unique(CliRows')
         /\ UNCHANGED <<rows, groups, up, inherited, building, built, removing, removed, moved,
                        adrift>>
BY NoIds DEF CliSaved, CliRows

LEMMA ListsStep ==
  ASSUME Base, Kinds
  PROVE  Lists'
<1>0. /\ Lists /\ NoGroup \in Place
      /\ next <= MaxSessions => next \in Id /\ next + 1 \in 1..(MaxSessions + 1)
    BY BoundAssumption DEF Base, Lists, Shapes, Id, Place
<1> USE DEF Lists, Shapes, Once
<1>1. CASE Still
    BY <1>0, <1>1 DEF Still, CliRows
<1>2. CASE Enter
  <2>1. /\ rows' = file.rows /\ groups' = file.groups /\ up' = TRUE
        /\ inherited' \subseteq Ids(file.rows)
        /\ UNCHANGED <<file, moved, building, built, removing, removed, resources, next, adrift,
                       cli>>
      BY <1>2 DEF Enter, disk, making, deleting, world
  <2>2. file.rows \in Seq(RowType) /\ file.groups \subseteq Group
      BY <1>0 DEF File
  <2>3. Ids(file.rows) \subseteq Id
      BY <2>2, IdsType
  <2> QED BY <1>0, <2>1, <2>2, <2>3 DEF CliRows
<1>3. CASE Leave
  <2>1. /\ up' = FALSE /\ rows' = <<>> /\ groups' = {} /\ inherited' = {}
        /\ building' = <<>> /\ built' = <<>> /\ removing' = <<>> /\ removed' = <<>>
        /\ UNCHANGED <<file, moved, cli, next>>
      BY <1>3 DEF Leave, disk
  <2>2. PICK made \in SUBSET InFlight(building), gone \in SUBSET InFlight(removing) :
          /\ resources' = (resources \cup made) \ gone
          /\ adrift' = adrift \cup made \cup (InFlight(built) \cap resources)
      BY <1>3 DEF Leave
  <2>3. made \subseteq Id
    <3>1. \A i \in DOMAIN building : building[i] \in Request
        BY <1>0, ListFacts
    <3> QED BY <3>1 DEF InFlight, Request
  <2>4. resources' \subseteq Id /\ adrift' \subseteq Id
      BY <1>0, <2>2, <2>3
  <2>5. <<>> \in Seq(RowType) /\ <<>> \in Seq(Request) /\ <<>> \in Seq(Result)
      OBVIOUS
  <2>6. Unique(rows') /\ Unique(building') /\ Unique(built') /\ Unique(CliRows')
      BY <1>0, <2>1, NoIds DEF CliRows
  <2> QED BY <1>0, <2>1, <2>4, <2>5, <2>6
<1>4. CASE Reload
  <2>1. /\ rows' = KnownAs(rows, file.rows) /\ groups' = file.groups
        /\ UNCHANGED <<up, inherited, file, moved, building, built, removing, removed, resources,
                       next, adrift, cli>>
      BY <1>4 DEF Reload, Reloaded, ReloadedOn, disk, making, deleting, world
  <2>2. file.rows \in Seq(RowType) /\ file.groups \subseteq Group
      BY <1>0 DEF File
  <2>3. rows' \in Seq(RowType) /\ Unique(rows')
      BY <1>0, <2>1, <2>2, KnownAsFacts, SameIds
  <2> QED BY <1>0, <2>1, <2>2, <2>3 DEF CliRows
<1>5. CASE SaveList
  <2>1. /\ file' = [rows |-> rows, groups |-> TreeOf(rows, groups)]
        /\ UNCHANGED <<rows, groups, up, inherited, moved, building, built, removing, removed,
                       resources, next, adrift, cli>>
      BY <1>5 DEF SaveList, Saved, view, making, deleting, world
  <2>2. file' \in File /\ file'.rows = rows
      BY <1>0, <2>1, ViewTree DEF File
  <2> QED BY <1>0, <2>1, <2>2 DEF CliRows
<1>6. CASE Creates
    BY <1>0, <1>6, ReshapedLists DEF Creates, queues, away
<1>7. ASSUME NEW g \in Place, RequestCreation(g)
      PROVE  Lists'
  <2>1. PICK q : q = [id |-> next, group |-> g]
      OBVIOUS
  <2>2. /\ building' = Append(building, q) /\ next' = next + 1 /\ next <= MaxSessions
        /\ UNCHANGED <<file, rows, groups, up, inherited, moved, built, removing, removed,
                       resources, adrift, cli>>
      BY <1>7, <2>1 DEF RequestCreation, disk, view, deleting
  <2>3. q \in Request /\ q.id = next
      BY <1>0, <2>1, <2>2 DEF Request
  <2>4. next \notin Ids(building)
      BY <1>0 DEF Base, Fresh, Making
  <2>5. building' \in Seq(Request) /\ Unique(building')
      BY <1>0, <2>2, <2>3, <2>4, AppendIds, AppendFacts
  <2> QED BY <1>0, <2>2, <2>5 DEF CliRows
<1>8. CASE Build
  <2>1. PICK ok \in BOOLEAN :
          /\ built' = Append(built, [id |-> Head(building).id, group |-> Head(building).group,
                                     ok |-> ok])
          /\ resources' = IF ok THEN resources \cup {Head(building).id} ELSE resources
      BY <1>8 DEF Build
  <2>2. PICK r : r = [id |-> Head(building).id, group |-> Head(building).group, ok |-> ok]
      OBVIOUS
  <2>3. /\ Head(building) \in Request /\ Tail(building) \in Seq(Request)
        /\ Unique(Tail(building)) /\ Head(building).id \in Ids(building)
      BY <1>0, <1>8, TailIds DEF Build
  <2>4. r \in Result /\ r.id = Head(building).id
      BY <2>2, <2>3 DEF Request, Result
  <2>5. r.id \notin Ids(built) /\ r.id \in Id
      BY <2>3, <2>4 DEF Base, Apart, Result
  <2>6. built' \in Seq(Result) /\ Unique(built')
      BY <1>0, <2>1, <2>2, <2>4, <2>5, AppendIds, AppendFacts
  <2>7. /\ building' = Tail(building) /\ resources' \subseteq Id
        /\ UNCHANGED <<file, rows, groups, up, inherited, moved, removing, removed, next, adrift,
                       cli>>
      BY <1>0, <1>8, <2>1, <2>4, <2>5 DEF Build, disk, view, deleting
  <2> QED BY <1>0, <2>3, <2>6, <2>7 DEF CliRows
<1>9. CASE ApplyCancelled \/ ApplyBuildError
  <2>1. /\ built # <<>> /\ built' = Tail(built) /\ resources' \subseteq resources
        /\ UNCHANGED <<file, rows, groups, up, inherited, moved, building, removing, removed,
                       next, adrift, cli>>
      BY <1>9 DEF ApplyCancelled, ApplyBuildError, disk, view, deleting, world
  <2>2. built' \in Seq(Result) /\ Unique(built')
      BY <1>0, <2>1, TailIds
  <2> QED BY <1>0, <2>1, <2>2 DEF CliRows
<1>10. CASE ApplyCreated
  <2>1. /\ Reshaped({Head(built).id}, {}) /\ built # <<>> /\ built' = Tail(built)
        /\ UNCHANGED <<building, removing, removed, resources, moved, adrift, next>>
      BY <1>10, ApplyCreatedEffect
  <2>2. built' \in Seq(Result) /\ Unique(built')
      BY <1>0, <2>1, TailIds
  <2> QED BY <1>0, <2>1, <2>2, ReshapedLists
<1>11. CASE Marks
  <2>1. PICK ids : Marked(ids)
      BY <1>11 DEF Marks
  <2>2. rows' \in Seq(RowType) /\ Unique(rows') /\ removing' \in Seq(Request)
      BY <1>0, <2>1, SetStatusFacts, SameIds DEF Marked
  <2> QED BY <1>0, <1>11, <2>2 DEF Marks, CliRows
<1>12. CASE RunRemoval
  <2>1. PICK ok \in BOOLEAN :
          /\ removed' = Append(removed, [id |-> Head(removing).id,
                                         group |-> Head(removing).group, ok |-> ok])
          /\ resources' = IF ok THEN resources \ {Head(removing).id} ELSE resources
      BY <1>12 DEF RunRemoval
  <2>2. PICK r : r = [id |-> Head(removing).id, group |-> Head(removing).group, ok |-> ok]
      OBVIOUS
  <2>3. Head(removing) \in Request /\ Tail(removing) \in Seq(Request)
      BY <1>0, <1>12, TailIds DEF RunRemoval
  <2>4. r \in Result
      BY <2>2, <2>3 DEF Request, Result
  <2>5. removed' \in Seq(Result)
      BY <1>0, <2>1, <2>2, <2>4, AppendFacts
  <2>6. /\ removing' = Tail(removing) /\ resources' \subseteq Id
        /\ UNCHANGED <<file, rows, groups, up, inherited, moved, building, built, next, adrift,
                       cli>>
      BY <1>0, <1>12, <2>1 DEF RunRemoval, disk, view, making
  <2> QED BY <1>0, <2>3, <2>5, <2>6 DEF CliRows
<1>13. CASE ApplyRemoved
  <2>1. /\ Reshaped({}, {Head(removed).id}) /\ removed # <<>> /\ removed' = Tail(removed)
        /\ UNCHANGED <<building, built, removing, resources, moved, adrift, next>>
      BY <1>13, ApplyRemovedEffect
  <2>2. removed' \in Seq(Result)
      BY <1>0, <2>1, TailIds
  <2> QED BY <1>0, <2>1, <2>2, ReshapedLists
<1>14. CASE ApplyRemoveError
  <2>1. /\ removed # <<>> /\ removed' = Tail(removed)
        /\ rows' = SetStatus(rows, {Head(removed).id}, "error")
        /\ UNCHANGED <<file, groups, up, inherited, moved, building, built, removing, resources,
                       next, adrift, cli>>
      BY <1>14 DEF ApplyRemoveError, disk, making, world
  <2>2. removed' \in Seq(Result)
      BY <1>0, <2>1, TailIds
  <2>3. rows' \in Seq(RowType) /\ Unique(rows')
      BY <1>0, <2>1, SetStatusFacts, SameIds
  <2> QED BY <1>0, <2>1, <2>2, <2>3 DEF CliRows
<1>15. CASE Regroups
    BY <1>0, <1>15, ReshapedLists DEF Regroups, queues, away
<1>16. ASSUME NEW done \in BOOLEAN, MoveAway(done)
       PROVE  Lists'
  <2>1. /\ Reshaped({}, {selected.of}) /\ moved' \subseteq Id /\ adrift' \subseteq Id
        /\ UNCHANGED <<building, built, removing, removed, resources, next>>
      BY <1>0, <1>16, MoveAwayEffect
  <2> QED BY <1>0, <2>1, ReshapedLists
<1>17. CASE CliLoad
  <2>1. /\ cli' = <<file>>
        /\ UNCHANGED <<file, rows, groups, up, inherited, moved, building, built, removing,
                       removed, resources, next, adrift>>
      BY <1>17 DEF CliLoad, disk, view, making, deleting, world
  <2>2. CliRows' = file.rows
      BY <2>1 DEF CliRows
  <2> QED BY <1>0, <2>1, <2>2
<1>18. CASE CliFail
  <2>1. /\ cli' = <<>>
        /\ UNCHANGED <<file, rows, groups, up, inherited, moved, building, built, removing,
                       removed, resources, next, adrift>>
      BY <1>18 DEF CliFail, disk, view, making, deleting, world
  <2> QED BY <1>0, <2>1, NoIds DEF CliRows
<1>19. CASE CliGrows
    BY <1>0, <1>19, CliSavedLists DEF CliGrows
<1>20. CASE CliDrops
    BY <1>0, <1>20, CliSavedLists DEF CliDrops
<1>21. CASE CliKeeps
    BY <1>0, <1>21, CliSavedLists DEF CliKeeps
<1> QED
  BY <1>1, <1>2, <1>3, <1>4, <1>5, <1>6, <1>7, <1>8, <1>9, <1>10, <1>11, <1>12, <1>13, <1>14,
     <1>15, <1>16, <1>17, <1>18, <1>19, <1>20, <1>21 DEF Kinds

\* Ids of the queues and of the rows a command has, by what a step does.
LEMMA NumbersStep ==
  ASSUME Base, Kinds
  PROVE  (Fresh /\ Apart)'
<1>0. /\ Lists /\ Fresh /\ Apart /\ next \in Nat
      /\ \A id \in Known \cup Making \cup resources : id \in Nat
  <2>1. next \in Nat
      BY BoundAssumption DEF Base, Shapes
  <2>2. \A id \in Known \cup Making \cup resources : id \in Id
    <3>1. Ids(building) \subseteq Id /\ Ids(removing) \subseteq Id
      <4>1. \A i \in DOMAIN building : building[i] \in Request
          BY ListFacts DEF Base, Shapes
      <4>2. \A i \in DOMAIN removing : removing[i] \in Request
          BY ListFacts DEF Base, Shapes
      <4> QED BY <4>1, <4>2 DEF Ids, Request
    <3>2. Ids(built) \subseteq Id /\ Ids(removed) \subseteq Id
      <4>1. \A i \in DOMAIN built : built[i] \in Result
          BY ListFacts DEF Base, Shapes
      <4>2. \A i \in DOMAIN removed : removed[i] \in Result
          BY ListFacts DEF Base, Shapes
      <4> QED BY <4>1, <4>2 DEF Ids, Result
    <3>3. Ids(file.rows) \subseteq Id /\ Ids(rows) \subseteq Id
        BY IdsType DEF Base, Shapes, File
    <3>4. Ids(CliRows) \subseteq Id
      <4>1. CASE cli = <<>>
          BY <4>1, NoIds DEF CliRows
      <4>2. CASE cli # <<>>
          BY <4>2, Loaded, IdsType
      <4> QED BY <4>1, <4>2
    <3> QED BY <3>1, <3>2, <3>3, <3>4 DEF Known, Making, Base, Shapes
  <2> QED BY <2>1, <2>2, BoundAssumption DEF Base, Lists, Id
\* Nothing new.
<1>1. ASSUME Known' \subseteq Known, Ids(building)' \subseteq Ids(building),
             Ids(built)' \subseteq Ids(built), resources' \subseteq resources \cup Making,
             next' = next
      PROVE  (Fresh /\ Apart)'
    BY <1>0, <1>1 DEF Fresh, Apart, Making
\* A new row.
<1>2. ASSUME Known' \subseteq Known \cup {next}, Ids(building)' = Ids(building),
             Ids(built)' = Ids(built), resources' = resources \cup {next}, next' = next + 1
      PROVE  (Fresh /\ Apart)'
  <2>1. \A id \in Known \cup Making \cup resources : id < next /\ id < next + 1 /\ id # next
      BY <1>0 DEF Fresh
  <2>2. next < next + 1
      BY <1>0
  <2> QED BY <1>0, <1>2, <2>1, <2>2 DEF Fresh, Apart, Making
<1>3. CASE Still
    BY <1>1, <1>3 DEF Still, Known, Making, CliRows
<1>4. CASE Enter
  <2>1. Ids(rows') = Ids(file.rows)
        /\ UNCHANGED <<file, building, built, removing, removed, resources, next, cli>>
      BY <1>4 DEF Enter, disk, making, deleting, world
  <2> QED BY <1>1, <2>1 DEF Known, CliRows
<1>5. CASE Leave
  <2>1. /\ rows' = <<>> /\ building' = <<>> /\ built' = <<>> /\ removing' = <<>> /\ removed' = <<>>
        /\ UNCHANGED <<file, cli, next>>
      BY <1>5 DEF Leave, disk
  <2>2. resources' \subseteq resources \cup Ids(building)
      BY <1>5 DEF Leave, InFlight, Ids
  <2> QED BY <1>1, <2>1, <2>2, NoIds DEF Known, Making, CliRows
<1>6. CASE Reload
  <2>1. /\ rows' = KnownAs(rows, file.rows)
        /\ UNCHANGED <<file, building, built, removing, removed, resources, next, cli>>
      BY <1>6 DEF Reload, Reloaded, ReloadedOn, disk, making, deleting, world
  <2>2. Ids(rows') = Ids(file.rows)
      BY <1>0, <2>1, KnownAsFacts, SameIds DEF Lists, Shapes, File
  <2> QED BY <1>1, <2>1, <2>2 DEF Known, CliRows
<1>7. CASE SaveList
  <2>1. /\ file'.rows = rows
        /\ UNCHANGED <<rows, building, built, removing, removed, resources, next, cli>>
      BY <1>7 DEF SaveList, Saved, view, making, deleting, world
  <2> QED BY <1>1, <2>1 DEF Known, CliRows
<1>8. CASE Creates
  <2>1. /\ Ids(rows') = Ids(rows) \cup {next} /\ Ids(file'.rows) = Ids(rows')
        /\ CliRows' = CliRows
      BY <1>0, <1>8, ReshapedLists DEF Creates, Reshaped
  <2> QED BY <1>2, <1>8, <2>1 DEF Creates, queues, Known
<1>9. ASSUME NEW g \in Place, RequestCreation(g)
      PROVE  (Fresh /\ Apart)'
  <2>1. PICK q : q = [id |-> next, group |-> g]
      OBVIOUS
  <2>2. /\ building' = Append(building, q) /\ next' = next + 1
        /\ UNCHANGED <<file, rows, built, removing, removed, resources, cli>>
      BY <1>9, <2>1 DEF RequestCreation, disk, view, deleting
  <2>3. q \in Request /\ q.id = next
      BY <1>9, <2>1, <1>0, BoundAssumption DEF Request, RequestCreation, Lists, Shapes, Id
  <2>4. Ids(building') = Ids(building) \cup {next}
      BY <1>0, <2>2, <2>3, AppendIds DEF Lists, Shapes
  <2>5. Known' = Known /\ Ids(built') = Ids(built) /\ Making' = Making \cup {next}
      BY <2>2, <2>4 DEF Known, CliRows, Making
  <2>6. \A id \in Known \cup Making \cup resources : id < next /\ id < next + 1 /\ id # next
      BY <1>0 DEF Fresh
  <2>7. next < next + 1
      BY <1>0
  <2> QED BY <1>0, <2>2, <2>4, <2>5, <2>6, <2>7 DEF Fresh, Apart, Making
<1>10. CASE Build
  <2>1. PICK ok \in BOOLEAN :
          /\ built' = Append(built, [id |-> Head(building).id, group |-> Head(building).group,
                                     ok |-> ok])
          /\ resources' = IF ok THEN resources \cup {Head(building).id} ELSE resources
      BY <1>10 DEF Build
  <2>2. PICK r : r = [id |-> Head(building).id, group |-> Head(building).group, ok |-> ok]
      OBVIOUS
  <2>3. /\ Head(building) \in Request
        /\ Ids(building) = {Head(building).id} \cup Ids(Tail(building))
        /\ Head(building).id \notin Ids(Tail(building))
      BY <1>0, <1>10, TailIds DEF Build, Lists, Shapes, Once
  <2>4. r \in Result /\ r.id = Head(building).id
      BY <2>2, <2>3 DEF Request, Result
  <2>5. Ids(built') = Ids(built) \cup {Head(building).id}
      BY <1>0, <2>1, <2>2, <2>4, AppendIds DEF Lists, Shapes
  <2>6. /\ building' = Tail(building) /\ resources' \subseteq resources \cup Making /\ next' = next
        /\ UNCHANGED <<file, rows, removing, removed, cli>>
      BY <1>10, <2>1, <2>3 DEF Build, disk, view, deleting, Making
  <2>7. Known' = Known /\ Making' = Making
      BY <2>3, <2>5, <2>6 DEF Known, CliRows, Making
  <2> QED BY <1>0, <2>3, <2>5, <2>6, <2>7 DEF Fresh, Apart
<1>11. CASE ApplyCancelled \/ ApplyBuildError
  <2>1. /\ built # <<>> /\ built' = Tail(built) /\ resources' \subseteq resources
        /\ UNCHANGED <<file, rows, building, removing, removed, next, cli>>
      BY <1>11 DEF ApplyCancelled, ApplyBuildError, disk, view, deleting, world
  <2>2. Ids(built') \subseteq Ids(built)
      BY <1>0, <2>1, TailIds DEF Lists, Shapes
  <2> QED BY <1>1, <2>1, <2>2 DEF Known, CliRows
<1>12. CASE ApplyCreated
  <2>1. /\ Reshaped({Head(built).id}, {}) /\ built # <<>> /\ built' = Tail(built)
        /\ UNCHANGED <<building, removing, removed, resources, next>>
      BY <1>12, ApplyCreatedEffect
  <2>2. /\ Ids(built) = {Head(built).id} \cup Ids(Tail(built))
        /\ Head(built).id \notin Ids(Tail(built))
      BY <1>0, <2>1, TailIds DEF Lists, Shapes, Once
  <2>3. /\ Ids(rows') = Ids(rows) \cup {Head(built).id} /\ Ids(file'.rows) = Ids(rows')
        /\ CliRows' = CliRows
      BY <1>0, <2>1, ReshapedLists DEF Reshaped
  <2>4. /\ Known' \subseteq Known \cup {Head(built).id}
        /\ Known' \cup Making' \subseteq Known \cup Making
      BY <2>1, <2>2, <2>3 DEF Known, Making
  <2> QED BY <1>0, <2>1, <2>2, <2>4 DEF Fresh, Apart, Making
<1>13. CASE Marks
  <2>1. PICK ids : Marked(ids)
      BY <1>13 DEF Marks
  <2>2. Ids(rows') = Ids(rows) /\ Ids(removing') = Ids(removing) \cup ids /\ ids \subseteq Ids(rows)
      BY <1>0, <2>1, SetStatusFacts, SameIds DEF Marked, Lists, Shapes
  <2> QED BY <1>1, <1>13, <2>2 DEF Marks, Known, CliRows
<1>14. CASE RunRemoval
  <2>1. PICK ok \in BOOLEAN :
          /\ removed' = Append(removed, [id |-> Head(removing).id,
                                         group |-> Head(removing).group, ok |-> ok])
          /\ resources' = IF ok THEN resources \ {Head(removing).id} ELSE resources
      BY <1>14 DEF RunRemoval
  <2>2. PICK r : r = [id |-> Head(removing).id, group |-> Head(removing).group, ok |-> ok]
      OBVIOUS
  <2>3. /\ Head(removing) \in Request
        /\ Ids(removing) = {Head(removing).id} \cup Ids(Tail(removing))
      BY <1>0, <1>14, TailIds DEF RunRemoval, Lists, Shapes
  <2>4. r \in Result /\ r.id = Head(removing).id
      BY <2>2, <2>3 DEF Request, Result
  <2>5. Ids(removed') = Ids(removed) \cup {Head(removing).id}
      BY <1>0, <2>1, <2>2, <2>4, AppendIds DEF Lists, Shapes
  <2>6. /\ removing' = Tail(removing) /\ resources' \subseteq resources
        /\ UNCHANGED <<file, rows, building, built, next, cli>>
      BY <1>14, <2>1 DEF RunRemoval, disk, view, making
  <2> QED BY <1>1, <2>3, <2>5, <2>6 DEF Known, CliRows
<1>15. CASE ApplyRemoved
  <2>1. /\ Reshaped({}, {Head(removed).id}) /\ removed # <<>> /\ removed' = Tail(removed)
        /\ UNCHANGED <<building, built, removing, resources, next>>
      BY <1>15, ApplyRemovedEffect
  <2>2. Ids(removed') \subseteq Ids(removed)
      BY <1>0, <2>1, TailIds DEF Lists, Shapes
  <2>3. Ids(rows') \subseteq Ids(rows) /\ Ids(file'.rows) = Ids(rows') /\ CliRows' = CliRows
      BY <1>0, <2>1, ReshapedLists DEF Reshaped
  <2> QED BY <1>1, <2>1, <2>2, <2>3 DEF Known
<1>16. CASE ApplyRemoveError
  <2>1. /\ removed # <<>> /\ removed' = Tail(removed)
        /\ rows' = SetStatus(rows, {Head(removed).id}, "error")
        /\ UNCHANGED <<file, building, built, removing, resources, next, cli>>
      BY <1>16 DEF ApplyRemoveError, disk, making, world
  <2>2. Ids(removed') \subseteq Ids(removed)
      BY <1>0, <2>1, TailIds DEF Lists, Shapes
  <2>3. Ids(rows') = Ids(rows)
      BY <1>0, <2>1, SetStatusFacts, SameIds DEF Lists, Shapes
  <2> QED BY <1>1, <2>1, <2>2, <2>3 DEF Known, CliRows
<1>17. CASE Regroups
  <2>1. Ids(rows') = Ids(rows) /\ Ids(file'.rows) = Ids(rows') /\ CliRows' = CliRows
      BY <1>0, <1>17, ReshapedLists DEF Regroups, Reshaped
  <2> QED BY <1>1, <1>17, <2>1 DEF Regroups, queues, Known
<1>18. ASSUME NEW done \in BOOLEAN, MoveAway(done)
       PROVE  (Fresh /\ Apart)'
  <2>1. /\ Reshaped({}, {selected.of})
        /\ UNCHANGED <<building, built, removing, removed, resources, next>>
      BY <1>18, MoveAwayEffect
  <2>2. Ids(rows') \subseteq Ids(rows) /\ Ids(file'.rows) = Ids(rows') /\ CliRows' = CliRows
      BY <1>0, <2>1, ReshapedLists DEF Reshaped
  <2> QED BY <1>1, <2>1, <2>2 DEF Known
<1>19. CASE CliLoad \/ CliFail
  <2>1. /\ cli' = <<file>> \/ cli' = <<>>
        /\ UNCHANGED <<file, rows, building, built, removing, removed, resources, next>>
      BY <1>19 DEF CliLoad, CliFail, disk, view, making, deleting, world
  <2>2. Ids(CliRows') \subseteq Ids(file.rows)
      BY <2>1, NoIds DEF CliRows
  <2> QED BY <1>1, <2>1, <2>2 DEF Known
<1>20. CASE CliGrows
  <2>1. Ids(file'.rows) = Ids(CliRows) \cup {next} /\ Ids(CliRows') = {}
        /\ UNCHANGED <<rows, building, built, removing, removed>>
      BY <1>0, <1>20, CliSavedLists DEF CliGrows, CliSaved
  <2> QED BY <1>2, <1>20, <2>1 DEF CliGrows, Known
<1>21. CASE CliDrops \/ CliKeeps
  <2>1. PICK gone : CliSaved({}, gone) /\ next' = next /\ resources' \subseteq resources
      BY <1>21 DEF CliDrops, CliKeeps
  <2>2. Ids(file'.rows) \subseteq Ids(CliRows) /\ Ids(CliRows') = {}
        /\ UNCHANGED <<rows, building, built, removing, removed>>
      BY <1>0, <2>1, CliSavedLists DEF CliSaved
  <2> QED BY <1>1, <2>1, <2>2 DEF Known
<1> QED
  BY <1>3, <1>4, <1>5, <1>6, <1>7, <1>8, <1>9, <1>10, <1>11, <1>12, <1>13, <1>14,
     <1>15, <1>16, <1>17, <1>18, <1>19, <1>20, <1>21 DEF Kinds

-----------------------------------------------------------------------------
(* The first invariant.                                                     *)

LEMMA FirstRows ==
  /\ InitialRows \in Seq(RowType) /\ Unique(InitialRows)
  /\ Ids(InitialRows) = 1..Existing
  /\ \A i \in DOMAIN InitialRows : InitialRows[i].group = NoGroup
<1>1. PICK y : y = InitialRows
    OBVIOUS
<1>2. /\ y = [i \in 1..Existing |-> [id |-> i, group |-> NoGroup, status |-> "idle"]]
      /\ Existing \in Nat /\ 1..Existing \subseteq Id /\ NoGroup \in Place
    BY <1>1, BoundAssumption DEF InitialRows, Row, Id, Place
<1>3. \A i \in 1..Existing : y[i] \in RowType /\ y[i].id = i /\ y[i].group = NoGroup
    BY <1>2 DEF RowType
<1>4. DOMAIN y = 1..Existing /\ y = [i \in 1..Existing |-> y[i]]
    BY <1>2
<1>5. y \in Seq(RowType)
    BY <1>2, <1>3, <1>4, IsList
<1>6. Unique(y) /\ Ids(y) = 1..Existing
    BY <1>3, <1>4 DEF Unique, Ids
<1> QED BY <1>1, <1>3, <1>4, <1>5, <1>6

LEMMA BaseInit ==
  ASSUME Init
  PROVE  Base
<1>1. /\ file = [rows |-> InitialRows, groups |-> {}] /\ rows = <<>> /\ groups = {}
      /\ moved = {} /\ adrift = {} /\ inherited = {} /\ up = FALSE /\ cli = <<>>
      /\ building = <<>> /\ built = <<>> /\ removing = <<>> /\ removed = <<>>
      /\ resources = 1..Existing /\ next = Existing + 1
    BY DEF Init, Saved
<1>2. 1..Existing \subseteq Id /\ Existing + 1 \in 1..(MaxSessions + 1) /\ Existing \in Nat
    BY BoundAssumption DEF Id
<1>3. <<>> \in Seq(RowType) /\ <<>> \in Seq(Request) /\ <<>> \in Seq(Result)
    OBVIOUS
<1>4. Shapes
    BY <1>1, <1>2, <1>3, FirstRows DEF Shapes, File
<1>5. Screen
  <2>1. cursor = 1 /\ selected = Nothing /\ pending = FALSE /\ cancelled = FALSE
        /\ dialog = [kind |-> "none", on |-> Nothing]
      BY DEF Init
  <2>2. cursor \in Nat \ {0} /\ selected \in Items
      BY <2>1, NothingIsItem
  <2>3. dialog \in Dialog
      BY <2>1, NothingIsItem DEF Dialog
  <2> QED BY <2>1, <2>2, <2>3 DEF Screen
<1>6. Once
    BY <1>1, FirstRows, NoIds DEF Once, CliRows
<1>7. Known = 1..Existing /\ Making = {}
    BY <1>1, FirstRows, NoIds DEF Known, Making, CliRows
<1>8. Fresh
    BY <1>1, <1>2, <1>7 DEF Fresh
<1>9. Apart
    BY <1>1, <1>7, NoIds DEF Apart
<1> QED BY <1>4, <1>5, <1>6, <1>8, <1>9 DEF Base

LEMMA BaseStep ==
  ASSUME Base, [Next]_vars
  PROVE  Base'
BY NextKinds, ScreenStep, ListsStep, NumbersStep DEF Base, Lists

\* The inductive invariant: with commands at the same time as well, every id
\* is below the next one, no list has an id twice, and what is being made has
\* no row and no deletion request.
THEOREM BaseAlways == Spec => []Base
<1>1. Init => Base
    BY BaseInit
<1>2. Base /\ [Next]_vars => Base'
    BY BaseStep
<1> QED BY <1>1, <1>2, PTL DEF Spec

LEMMA BaseTypes ==
  ASSUME Base
  PROVE  TypeOK
<1>1. file.rows \in Seq(RowType) /\ file.groups \subseteq Group
    BY DEF Base, Shapes, File
<1>2. \A list \in {file.rows, rows} : Cardinality(Ids(list)) = Len(list)
    BY <1>1, UniqueCount DEF Base, Shapes, Once
<1>3. dialog.kind \in {"none", "new", "loading", "delete", "group", "deleteGroup", "rename"}
      /\ dialog.on \in Items
    BY DEF Base, Screen, Dialog
<1>4. \A i \in DOMAIN cli : cli[i].rows \in Seq(RowType) /\ cli[i].groups \subseteq Group
  <2>1. CASE cli = <<>>
      BY <2>1
  <2>2. ASSUME NEW f \in File, cli = <<f>>
        PROVE  \A i \in DOMAIN cli : cli[i] = f
      BY <2>2
  <2> QED BY <2>1, <2>2 DEF Base, Shapes, File
<1> QED BY <1>1, <1>2, <1>3, <1>4 DEF TypeOK, Base, Shapes, Screen

\* Every value has its type, and no list of sessions, on file or in the view,
\* has two rows for one session, also when commands rewrite the files the view
\* works on: what apply_creation_results and create_session append is new to
\* both, and a result is read from its channel once.
THEOREM TypeCorrect == Spec => []TypeOK
BY BaseAlways, BaseTypes, PTL

-----------------------------------------------------------------------------
(* Without commands at the same time, the files are the view's list.        *)

Alone == ~Overlap

\* Row by row the same sessions and groups; a status may differ.
Same(a, b) ==
  DOMAIN a = DOMAIN b /\ \A i \in DOMAIN a : a[i].id = b[i].id /\ a[i].group = b[i].group

Mirror ==
  /\ cli # <<>> => ~up /\ cli = <<file>>
  /\ file.groups = TreeOf(file.rows, file.groups)
  /\ up => Same(file.rows, rows) /\ file.groups = TreeOf(rows, groups)

LEMMA SameFacts ==
  ASSUME NEW a, NEW b, Same(a, b)
  PROVE  Ids(a) = Ids(b) /\ \A known : TreeOf(a, known) = TreeOf(b, known)
BY SameIds, SameTree DEF Same

LEMMA ReshapedMirror ==
  ASSUME Mirror, up, NEW more, NEW gone, Reshaped(more, gone)
  PROVE  Mirror'
<1>1. /\ file' = [rows |-> rows', groups |-> TreeOf(rows', groups')] /\ cli' = cli /\ up' = up
      /\ rows' \in Seq(RowType)
    BY DEF Reshaped
<1>2. TreeOf(rows', TreeOf(rows', groups')) = TreeOf(rows', groups')
    BY <1>1, TreeFacts
<1> QED BY <1>1, <1>2 DEF Mirror, Same

LEMMA MarkedMirror ==
  ASSUME Base, Mirror, up, NEW S, NEW status \in {"idle", "deleting", "error"},
         rows' = SetStatus(rows, S, status), UNCHANGED <<file, groups, cli, up>>
  PROVE  Mirror'
<1>1. /\ DOMAIN rows' = DOMAIN rows
      /\ \A i \in DOMAIN rows : rows'[i].id = rows[i].id /\ rows'[i].group = rows[i].group
    BY SetStatusFacts DEF Base, Shapes
<1>2. TreeOf(rows', groups) = TreeOf(rows, groups)
    BY <1>1, SameTree
<1> QED BY <1>1, <1>2 DEF Mirror, Same

LEMMA MirrorStep ==
  ASSUME Alone, Base, Mirror, Kinds
  PROVE  Mirror'
<1>0. file \in File /\ file.rows \in Seq(RowType) /\ rows \in Seq(RowType)
    BY DEF Base, Shapes, File
<1>1. CASE Still
    BY <1>1 DEF Still, Mirror
<1>2. CASE Enter
  <2>1. cli = <<>> /\ UNCHANGED <<file, cli>> /\ rows' = file.rows /\ groups' = file.groups
      BY <1>2 DEF Enter, disk, Alone
  <2> QED BY <2>1 DEF Mirror, Same
<1>3. CASE Leave
  <2>1. up' = FALSE /\ up /\ UNCHANGED <<file, cli>>
      BY <1>3 DEF Leave, Listening, InDialog, disk
  <2> QED BY <2>1 DEF Mirror
<1>4. CASE Reload
  <2>1. up /\ rows' = KnownAs(rows, file.rows) /\ groups' = file.groups
        /\ UNCHANGED <<file, cli, up>>
      BY <1>4 DEF Reload, Reloaded, ReloadedOn, disk
  <2>2. Same(file.rows, rows')
      BY <1>0, <2>1, KnownAsFacts DEF Same
  <2> QED BY <2>1, <2>2, SameFacts DEF Mirror
<1>5. CASE SaveList
  <2>1. up /\ file' = [rows |-> rows, groups |-> TreeOf(rows, groups)]
        /\ UNCHANGED <<rows, groups, cli, up>>
      BY <1>5 DEF SaveList, Saved, Listening, InDialog, view
  <2>2. TreeOf(rows, TreeOf(rows, groups)) = TreeOf(rows, groups)
      BY <1>0, TreeFacts
  <2> QED BY <2>1, <2>2 DEF Mirror, Same
<1>6. CASE Creates
    BY <1>6, ReshapedMirror DEF Creates
<1>7. ASSUME NEW g \in Place, RequestCreation(g)
      PROVE  Mirror'
    BY <1>7 DEF RequestCreation, disk, view, Mirror
<1>8. CASE Build
    BY <1>8 DEF Build, disk, view, Mirror
<1>9. CASE ApplyCancelled \/ ApplyBuildError
    BY <1>9 DEF ApplyCancelled, ApplyBuildError, disk, view, Mirror
<1>10. CASE ApplyCreated
  <2>1. up /\ Reshaped({Head(built).id}, {})
      BY <1>10, ApplyCreatedEffect DEF ApplyCreated
  <2> QED BY <2>1, ReshapedMirror
<1>11. CASE Marks
  <2>1. PICK ids : up /\ rows' = SetStatus(rows, ids, "deleting")
                   /\ UNCHANGED <<file, groups, cli, up>>
      BY <1>11 DEF Marks, Marked
  <2> QED BY <2>1, MarkedMirror
<1>12. CASE RunRemoval
    BY <1>12 DEF RunRemoval, disk, view, Mirror
<1>13. CASE ApplyRemoved
  <2>1. up /\ Reshaped({}, {Head(removed).id})
      BY <1>13, ApplyRemovedEffect DEF ApplyRemoved
  <2> QED BY <2>1, ReshapedMirror
<1>14. CASE ApplyRemoveError
  <2>1. up /\ rows' = SetStatus(rows, {Head(removed).id}, "error")
        /\ UNCHANGED <<file, groups, cli, up>>
      BY <1>14 DEF ApplyRemoveError, disk
  <2> QED BY <2>1, MarkedMirror
<1>15. CASE Regroups
    BY <1>15, ReshapedMirror DEF Regroups
<1>16. ASSUME NEW done \in BOOLEAN, MoveAway(done)
       PROVE  Mirror'
  <2>1. up /\ Reshaped({}, {selected.of})
      BY <1>16, MoveAwayEffect DEF MoveAway, InDialog
  <2> QED BY <2>1, ReshapedMirror
<1>17. CASE CliLoad
  <2>1. ~up /\ cli' = <<file>> /\ UNCHANGED <<file, up>>
      BY <1>17 DEF CliLoad, disk, view, Alone
  <2> QED BY <2>1 DEF Mirror
<1>18. CASE CliFail
    BY <1>18 DEF CliFail, disk, view, Mirror
<1>19. CASE CliGrows \/ CliDrops \/ CliKeeps
  <2>1. /\ cli # <<>> /\ cli' = <<>> /\ up' = up
        /\ file'.groups = TreeOf(file'.rows, file'.groups)
      BY <1>19 DEF CliGrows, CliDrops, CliKeeps, CliSaved
  <2> QED BY <2>1 DEF Mirror
<1> QED
  BY <1>1, <1>2, <1>3, <1>4, <1>5, <1>6, <1>7, <1>8, <1>9, <1>10, <1>11, <1>12, <1>13, <1>14,
     <1>15, <1>16, <1>17, <1>18, <1>19 DEF Kinds

LEMMA MirrorInit ==
  ASSUME Init
  PROVE  Mirror
<1>1. file = [rows |-> InitialRows, groups |-> {}] /\ up = FALSE /\ cli = <<>>
    BY DEF Init, Saved
<1>2. TreeOf(InitialRows, {}) = {}
    BY FirstRows DEF TreeOf
<1> QED BY <1>1, <1>2 DEF Mirror

LEMMA MirrorAlways == ASSUME Alone PROVE Spec => [](Base /\ Mirror)
<1>1. Init => Base /\ Mirror
    BY BaseInit, MirrorInit
<1>2. Base /\ Mirror /\ [Next]_vars => Base' /\ Mirror'
    BY BaseStep, NextKinds, MirrorStep
<1> QED BY <1>1, <1>2, PTL DEF Spec

LEMMA MirrorScreen ==
  ASSUME Base, Mirror
  PROVE  ScreenIsFile
<1> SUFFICES ASSUME up
             PROVE  /\ Ids(file.rows) = Ids(rows)
                    /\ \A id \in Ids(rows) : RowOf(file.rows, id).group = RowOf(rows, id).group
                    /\ file.groups = TreeOf(rows, groups)
    BY DEF ScreenIsFile
<1>1. /\ Same(file.rows, rows) /\ file.groups = TreeOf(rows, groups)
      /\ file.rows \in Seq(RowType) /\ rows \in Seq(RowType)
      /\ Unique(file.rows) /\ Unique(rows)
    BY DEF Mirror, Base, Shapes, Once, File
<1>2. ASSUME NEW id \in Ids(rows)
      PROVE  RowOf(file.rows, id).group = RowOf(rows, id).group
  <2>1. PICK i \in DOMAIN rows : rows[i].id = id
      BY DEF Ids
  <2>2. i \in DOMAIN file.rows /\ file.rows[i].id = id /\ file.rows[i].group = rows[i].group
      BY <1>1, <2>1 DEF Same
  <2>3. RowOf(rows, id) = rows[i]
      BY <1>1, <2>1, RowOfUnique
  <2>4. RowOf(file.rows, id) = file.rows[i]
      BY <1>1, <2>2, RowOfUnique
  <2> QED BY <2>2, <2>3, <2>4
<1> QED BY <1>1, <1>2, SameFacts

\* What the user sees is what the next start will show: every key and every
\* result of a thread leaves the files with the sessions and groups of the view.
\* save_with_groups writes the tree built from both (new_with_groups), and reload
\* of such files changes neither.
THEOREM ScreenIsFileAlways == ASSUME Alone PROVE Spec => []ScreenIsFile
BY MirrorAlways, MirrorScreen, PTL

-----------------------------------------------------------------------------
(* Without commands at the same time, what a session has outside the files  *)
(* has an owner.                                                            *)

\* Where an owner is; and what is not there yet, or no more.
Owned ==
  /\ resources \subseteq Ids(file.rows) \cup moved \cup Ids(built) \cup adrift
  /\ resources \cap Ids(building) = {}
  /\ \A i \in DOMAIN built : ~built[i].ok => built[i].id \notin resources
  /\ \A i \in DOMAIN removed : removed[i].ok => removed[i].id \notin resources

\* Nothing new outside the files and nothing new in the queues.
LEMMA OwnedKeeps ==
  ASSUME Owned, UNCHANGED queues, resources' \subseteq resources,
         resources' \subseteq Ids(file'.rows) \cup moved' \cup Ids(built) \cup adrift'
  PROVE  Owned'
BY DEF Owned, queues

\* The session just numbered is in no queue.
LEMMA NewIsFresh ==
  ASSUME Base
  PROVE  next \notin Known /\ next \notin Making /\ next \notin resources
BY BoundAssumption DEF Base, Shapes, Fresh

LEMMA OwnedGrows ==
  ASSUME Base, Owned, UNCHANGED queues, resources' = resources \cup {next},
         moved' = moved, adrift' = adrift, Ids(file'.rows) = Ids(file.rows) \cup {next}
  PROVE  Owned'
<1>1. next \notin Ids(building) /\ next \notin Ids(built) /\ next \notin Ids(removed)
    BY NewIsFresh DEF Known, Making
<1>2. /\ \A i \in DOMAIN built : built[i].id # next
      /\ \A i \in DOMAIN removed : removed[i].id # next
    BY <1>1 DEF Ids
<1> QED BY <1>1, <1>2 DEF Owned, queues

LEMMA OwnedStep ==
  ASSUME Alone, Base, Mirror, Owned, Kinds
  PROVE  Owned'
<1>0. /\ Lists /\ file \in File
      /\ up => Ids(file.rows) = Ids(rows)
      /\ cli # <<>> => Ids(CliRows) = Ids(file.rows)
    BY SameFacts DEF Base, Lists, Shapes, Mirror, CliRows
<1>1. CASE Still
    BY <1>1 DEF Still, Owned
<1>2. CASE Enter
    BY <1>2 DEF Enter, disk, making, deleting, world, Owned
<1>3. CASE Leave
  <2>1. PICK made \in SUBSET InFlight(building), gone \in SUBSET InFlight(removing) :
          /\ resources' = (resources \cup made) \ gone
          /\ adrift' = adrift \cup made \cup (InFlight(built) \cap resources)
      BY <1>3 DEF Leave
  <2>2. building' = <<>> /\ built' = <<>> /\ removed' = <<>> /\ UNCHANGED <<file, moved>>
      BY <1>3 DEF Leave, disk
  <2>3. InFlight(built) = Ids(built)
      BY DEF InFlight, Ids
  <2>4. resources' \subseteq Ids(file.rows) \cup moved \cup adrift'
      BY <2>1, <2>3 DEF Owned
  <2> QED BY <2>2, <2>4, NoIds DEF Owned
<1>4. CASE Reload
    BY <1>4 DEF Reload, disk, making, deleting, world, Owned
<1>5. CASE SaveList
  <2>1. up /\ file'.rows = rows /\ UNCHANGED <<moved, queues, resources, adrift>>
      BY <1>5 DEF SaveList, Saved, Listening, InDialog, making, deleting, world, queues
  <2> QED BY <1>0, <2>1, OwnedKeeps DEF Owned, queues
<1>6. CASE Creates
  <2>1. Ids(file'.rows) = Ids(file.rows) \cup {next}
      BY <1>0, <1>6, ReshapedLists DEF Creates, Reshaped
  <2> QED BY <1>6, <2>1, OwnedGrows DEF Creates, away
<1>7. ASSUME NEW g \in Place, RequestCreation(g)
      PROVE  Owned'
  <2>1. PICK q : q = [id |-> next, group |-> g]
      OBVIOUS
  <2>2. /\ building' = Append(building, q) /\ next <= MaxSessions
        /\ UNCHANGED <<file, moved, built, removed, resources, adrift>>
      BY <1>7, <2>1 DEF RequestCreation, disk, deleting
  <2>3. q \in Request /\ q.id = next
      BY <2>1, <2>2, BoundAssumption DEF Request, Base, Shapes, Id
  <2>4. Ids(building') = Ids(building) \cup {next}
      BY <2>2, <2>3, AppendIds DEF Base, Shapes
  <2> QED BY <2>2, <2>4, NewIsFresh DEF Owned
<1>8. CASE Build
  <2>1. PICK ok \in BOOLEAN :
          /\ built' = Append(built, [id |-> Head(building).id, group |-> Head(building).group,
                                     ok |-> ok])
          /\ resources' = IF ok THEN resources \cup {Head(building).id} ELSE resources
      BY <1>8 DEF Build
  <2>2. PICK r : r = [id |-> Head(building).id, group |-> Head(building).group, ok |-> ok]
      OBVIOUS
  <2>3. PICK h : h = Head(building).id
      OBVIOUS
  <2>4. /\ Head(building) \in Request
        /\ Ids(building) = {h} \cup Ids(Tail(building)) /\ h \notin Ids(Tail(building))
      BY <1>8, <2>3, TailIds DEF Build, Base, Shapes, Once
  <2>5. r \in Result /\ r.id = h /\ r.ok = ok
      BY <2>2, <2>3, <2>4 DEF Request, Result
  <2>6. Ids(built') = Ids(built) \cup {h}
      BY <2>1, <2>2, <2>5, AppendIds DEF Base, Shapes
  <2>7. building' = Tail(building) /\ UNCHANGED <<file, moved, removed, adrift>>
      BY <1>8 DEF Build, disk, deleting
  <2>8. h \notin Ids(built) /\ h \notin Ids(removed) /\ h \notin resources
      BY <2>4 DEF Base, Apart, Known, Making, Owned
  <2>9. ASSUME NEW i \in DOMAIN built', ~built'[i].ok
        PROVE  built'[i].id \notin resources'
    <3>1. /\ DOMAIN built' = 1..(Len(built) + 1) /\ DOMAIN built = 1..Len(built)
          /\ Len(built) \in Nat /\ built'[Len(built) + 1] = r
          /\ \A j \in DOMAIN built : built'[j] = built[j]
        BY <2>1, <2>2, <2>5, AppendFacts, ListFacts DEF Base, Shapes
    <3>2. CASE i \in DOMAIN built
        BY <2>1, <2>3, <2>8, <2>9, <3>1, <3>2 DEF Owned, Ids
    <3>3. CASE i = Len(built) + 1
        BY <2>1, <2>5, <2>8, <2>9, <3>1, <3>3
    <3> QED BY <3>1, <3>2, <3>3
  <2>10. \A i \in DOMAIN removed : removed[i].ok => removed[i].id \notin resources'
      BY <2>1, <2>3, <2>8 DEF Owned, Ids
  <2> QED BY <2>1, <2>3, <2>4, <2>6, <2>7, <2>8, <2>9, <2>10 DEF Owned
<1>9. CASE ApplyCancelled \/ ApplyBuildError
  <2>1. /\ built # <<>> /\ built' = Tail(built)
        /\ UNCHANGED <<file, moved, building, removed, adrift>>
      BY <1>9 DEF ApplyCancelled, ApplyBuildError, disk, deleting, world
  <2>2. /\ Ids(built) = {Head(built).id} \cup Ids(built') /\ 1 \in DOMAIN built
        /\ Head(built) = built[1]
        /\ \A i \in DOMAIN built' : i + 1 \in DOMAIN built /\ built'[i] = built[i + 1]
      BY <2>1, TailIds DEF Base, Shapes
  <2>3. resources' \subseteq resources /\ Head(built).id \notin resources'
    <3>1. CASE ApplyCancelled
        BY <2>2, <3>1 DEF ApplyCancelled, Owned
    <3>2. CASE ApplyBuildError
        BY <2>2, <3>2 DEF ApplyBuildError, world, Owned
    <3> QED BY <1>9, <3>1, <3>2
  <2> QED BY <2>1, <2>2, <2>3 DEF Owned
<1>10. CASE ApplyCreated
  <2>1. /\ up /\ Reshaped({Head(built).id}, {}) /\ built # <<>> /\ built' = Tail(built)
        /\ UNCHANGED <<building, removed, resources, moved, adrift>>
      BY <1>10, ApplyCreatedEffect DEF ApplyCreated
  <2>2. /\ Ids(built) = {Head(built).id} \cup Ids(built')
        /\ \A i \in DOMAIN built' : i + 1 \in DOMAIN built /\ built'[i] = built[i + 1]
      BY <2>1, TailIds DEF Base, Shapes
  <2>3. Ids(file'.rows) = Ids(file.rows) \cup {Head(built).id}
      BY <1>0, <2>1, ReshapedLists DEF Reshaped
  <2> QED BY <2>1, <2>2, <2>3 DEF Owned
<1>11. CASE Marks
    BY <1>11 DEF Marks, Owned
<1>12. CASE RunRemoval
  <2>1. PICK ok \in BOOLEAN :
          /\ removed' = Append(removed, [id |-> Head(removing).id,
                                         group |-> Head(removing).group, ok |-> ok])
          /\ resources' = IF ok THEN resources \ {Head(removing).id} ELSE resources
      BY <1>12 DEF RunRemoval
  <2>2. PICK r : r = [id |-> Head(removing).id, group |-> Head(removing).group, ok |-> ok]
      OBVIOUS
  <2>3. Head(removing) \in Request
      BY <1>12, TailIds DEF RunRemoval, Base, Shapes
  <2>4. r \in Result /\ r.id = Head(removing).id /\ r.ok = ok
      BY <2>2, <2>3 DEF Request, Result
  <2>5. UNCHANGED <<file, moved, building, built, adrift>> /\ resources' \subseteq resources
      BY <1>12, <2>1 DEF RunRemoval, disk, making
  <2>6. ASSUME NEW i \in DOMAIN removed', removed'[i].ok
        PROVE  removed'[i].id \notin resources'
    <3>1. /\ DOMAIN removed' = 1..(Len(removed) + 1) /\ DOMAIN removed = 1..Len(removed)
          /\ Len(removed) \in Nat /\ removed'[Len(removed) + 1] = r
          /\ \A j \in DOMAIN removed : removed'[j] = removed[j]
        BY <2>1, <2>2, <2>4, AppendFacts, ListFacts DEF Base, Shapes
    <3>2. CASE i \in DOMAIN removed
        BY <2>5, <2>6, <3>1, <3>2 DEF Owned
    <3>3. CASE i = Len(removed) + 1
        BY <2>1, <2>4, <2>6, <3>1, <3>3
    <3> QED BY <3>1, <3>2, <3>3
  <2> QED BY <2>5, <2>6 DEF Owned
<1>13. CASE ApplyRemoved
  <2>1. /\ up /\ Reshaped({}, {Head(removed).id}) /\ removed # <<>> /\ removed' = Tail(removed)
        /\ Head(removed).ok /\ UNCHANGED <<building, built, resources, moved, adrift>>
      BY <1>13, ApplyRemovedEffect DEF ApplyRemoved
  <2>2. /\ 1 \in DOMAIN removed /\ Head(removed) = removed[1]
        /\ \A i \in DOMAIN removed' : i + 1 \in DOMAIN removed /\ removed'[i] = removed[i + 1]
      BY <2>1, TailIds DEF Base, Shapes
  <2>3. Ids(file'.rows) = Ids(file.rows) \ {Head(removed).id}
      BY <1>0, <2>1, ReshapedLists DEF Reshaped
  <2> QED BY <2>1, <2>2, <2>3 DEF Owned
<1>14. CASE ApplyRemoveError
  <2>1. /\ removed # <<>> /\ removed' = Tail(removed)
        /\ UNCHANGED <<file, moved, building, built, resources, adrift>>
      BY <1>14 DEF ApplyRemoveError, disk, making, world
  <2>2. \A i \in DOMAIN removed' : i + 1 \in DOMAIN removed /\ removed'[i] = removed[i + 1]
      BY <2>1, TailIds DEF Base, Shapes
  <2> QED BY <2>1, <2>2 DEF Owned
<1>15. CASE Regroups
  <2>1. Ids(file'.rows) = Ids(file.rows)
      BY <1>0, <1>15, ReshapedLists DEF Regroups, Reshaped
  <2> QED BY <1>15, <2>1, OwnedKeeps DEF Regroups, away, Owned
<1>16. ASSUME NEW done \in BOOLEAN, MoveAway(done)
       PROVE  Owned'
  <2>1. /\ up /\ Reshaped({}, {selected.of})
        /\ \/ moved' = moved \cup {selected.of} /\ adrift' = adrift
           \/ moved' = moved /\ adrift' = adrift \cup {selected.of}
        /\ UNCHANGED <<queues, resources>>
      BY <1>16, MoveAwayEffect DEF MoveAway, InDialog, queues
  <2>2. Ids(file'.rows) = Ids(file.rows) \ {selected.of}
      BY <1>0, <2>1, ReshapedLists DEF Reshaped
  <2> QED BY <2>1, <2>2, OwnedKeeps DEF Owned
<1>17. CASE CliLoad \/ CliFail
    BY <1>17 DEF CliLoad, CliFail, disk, making, deleting, world, Owned
<1>18. CASE CliGrows
  <2>1. Ids(file'.rows) = Ids(file.rows) \cup {next}
        /\ UNCHANGED <<queues, moved, adrift>>
      BY <1>0, <1>18 DEF CliGrows, CliSaved, queues
  <2> QED BY <1>18, <2>1, OwnedGrows DEF CliGrows
<1>19. CASE CliDrops
  <2>1. PICK id : CliSaved({}, {id}) /\ resources' = resources \ {id}
      BY <1>19 DEF CliDrops
  <2>2. Ids(file'.rows) = Ids(file.rows) \ {id} /\ UNCHANGED <<queues, moved, adrift>>
      BY <1>0, <2>1 DEF CliSaved, queues
  <2> QED BY <2>1, <2>2, OwnedKeeps DEF Owned
<1>20. CASE CliKeeps
  <2>1. Ids(file'.rows) = Ids(file.rows) /\ UNCHANGED <<queues, moved, adrift, resources>>
      BY <1>0, <1>20 DEF CliKeeps, CliSaved, queues
  <2> QED BY <2>1, OwnedKeeps DEF Owned
<1> QED
  BY <1>1, <1>2, <1>3, <1>4, <1>5, <1>6, <1>7, <1>8, <1>9, <1>10, <1>11, <1>12, <1>13, <1>14,
     <1>15, <1>16, <1>17, <1>18, <1>19, <1>20 DEF Kinds

LEMMA OwnedInit ==
  ASSUME Init
  PROVE  Owned
<1>1. /\ file.rows = InitialRows /\ building = <<>> /\ built = <<>> /\ removed = <<>>
      /\ resources = 1..Existing
    BY DEF Init, Saved
<1> QED BY <1>1, FirstRows, NoIds DEF Owned

LEMMA OwnedAnswers ==
  ASSUME Base, Owned
  PROVE  NoOrphans
<1>1. /\ building \in Seq(Request) /\ built \in Seq(Result)
      /\ removing \in Seq(Request) /\ removed \in Seq(Result)
    BY DEF Base, Shapes
<1>2. PICK All : All = Request \cup Result
    OBVIOUS
<1>3. building \in Seq(All) /\ built \in Seq(All) /\ removing \in Seq(All) /\ removed \in Seq(All)
    BY <1>1, <1>2
<1>4. PICK x : x = building \o built
    OBVIOUS
<1>5. x \in Seq(All) /\ Ids(built) \subseteq Ids(x)
    BY <1>3, <1>4, JoinIds
<1>6. PICK y : y = x \o removing
    OBVIOUS
<1>7. y \in Seq(All) /\ Ids(built) \subseteq Ids(y)
    BY <1>3, <1>5, <1>6, JoinIds
<1>8. Ids(built) \subseteq Ids(y \o removed)
    BY <1>3, <1>7, JoinIds
<1>9. Ids(built) \subseteq InFlight(building \o built \o removing \o removed)
    BY <1>4, <1>6, <1>8 DEF InFlight, Ids
<1> QED BY <1>9 DEF NoOrphans, Owned

\* Every worktree and tmux session has someone who will remove it: a row, a
\* row of another profile, or an answer the view has yet to read.  A cancelled
\* creation is cleaned up by apply_creation_results, a failed one by the thread,
\* and apply_deletion_results drops a row only of what is gone.
THEOREM NoOrphansAlways == ASSUME Alone PROVE Spec => []NoOrphans
<1>1. Init => Base /\ Mirror /\ Owned
    BY BaseInit, MirrorInit, OwnedInit
<1>2. Base /\ Mirror /\ Owned /\ [Next]_vars => Base' /\ Mirror' /\ Owned'
    BY BaseStep, NextKinds, MirrorStep, OwnedStep
<1>3. Base /\ Owned => NoOrphans
    BY OwnedAnswers
<1> QED BY <1>1, <1>2, <1>3, PTL DEF Spec

-----------------------------------------------------------------------------
(* A row that says deleting.                                                *)

Asking == Ids(removing) \cup Ids(removed) \cup inherited
Underway == up => \A i \in DOMAIN rows : rows[i].status = "deleting" => rows[i].id \in Asking

\* A reshaped list, as far as it has no row of those that are answered.
LEMMA ReshapedUnderway ==
  ASSUME Base, Underway, up, NEW more, NEW gone, Reshaped(more, gone),
         \A id \in Asking : id \in Asking' \/ id \notin Ids(rows')
  PROVE  Underway'
<1>1. Likewise(rows', rows)
    BY DEF Reshaped
<1>2. ASSUME NEW i \in DOMAIN rows', rows'[i].status = "deleting"
      PROVE  rows'[i].id \in Asking'
  <2>1. PICK j \in DOMAIN rows : rows[j].id = rows'[i].id /\ rows[j].status = "deleting"
      BY <1>1, <1>2 DEF Likewise
  <2>2. rows'[i].id \in Asking
      BY <2>1 DEF Underway
  <2>3. rows'[i].id \in Ids(rows')
      BY DEF Ids
  <2> QED BY <2>2, <2>3
<1> QED BY <1>2 DEF Underway

LEMMA UnderwayStep ==
  ASSUME Alone, Base, Mirror, Underway, Kinds
  PROVE  Underway'
<1>0. file \in File /\ file.rows \in Seq(RowType) /\ rows \in Seq(RowType)
      /\ Unique(file.rows) /\ Unique(rows) /\ Lists
    BY DEF Base, Lists, Shapes, Once, File
<1>1. CASE Still
    BY <1>1 DEF Still, Underway, Asking
<1>2. CASE Enter
  <2>1. /\ rows' = file.rows
        /\ inherited' = {id \in Ids(file.rows) : RowOf(file.rows, id).status = "deleting"}
      BY <1>2 DEF Enter
  <2>2. ASSUME NEW i \in DOMAIN rows', rows'[i].status = "deleting"
        PROVE  rows'[i].id \in inherited'
      BY <1>0, <2>1, <2>2, RowOfUnique
  <2> QED BY <2>2 DEF Underway, Asking
<1>3. CASE Leave
    BY <1>3 DEF Leave, Underway
<1>4. CASE Reload
  <2>1. /\ up /\ rows' = KnownAs(rows, file.rows)
        /\ UNCHANGED <<removing, removed, inherited>>
      BY <1>4 DEF Reload, Reloaded, ReloadedOn, deleting
  <2>2. Same(file.rows, rows)
      BY <2>1 DEF Mirror
  <2>3. ASSUME NEW i \in DOMAIN rows', rows'[i].status = "deleting"
        PROVE  rows'[i].id \in Asking'
    <3>1. /\ i \in DOMAIN file.rows /\ rows'[i].id = file.rows[i].id
          /\ rows'[i].status = IF file.rows[i].id \in Ids(rows)
                               THEN RowOf(rows, file.rows[i].id).status
                               ELSE file.rows[i].status
        BY <1>0, <2>1, KnownAsFacts
    <3>2. i \in DOMAIN rows /\ file.rows[i].id = rows[i].id
        BY <2>2, <3>1 DEF Same
    <3>3. RowOf(rows, rows[i].id) = rows[i] /\ rows[i].id \in Ids(rows)
        BY <1>0, <3>2, RowOfUnique
    <3>4. rows[i].status = "deleting" /\ rows'[i].id = rows[i].id
        BY <2>3, <3>1, <3>2, <3>3
    <3> QED BY <2>1, <3>2, <3>4 DEF Underway, Asking
  <2> QED BY <2>3 DEF Underway
<1>5. CASE SaveList
    BY <1>5 DEF SaveList, view, deleting, Underway, Asking
<1>6. CASE Creates
  <2>1. up /\ Reshaped({next}, {}) /\ Asking' = Asking
      BY <1>6 DEF Creates, queues, Reshaped, Asking
  <2> QED BY <2>1, ReshapedUnderway
<1>7. ASSUME NEW g \in Place, RequestCreation(g)
      PROVE  Underway'
    BY <1>7 DEF RequestCreation, view, deleting, Underway, Asking
<1>8. CASE Build
    BY <1>8 DEF Build, view, deleting, Underway, Asking
<1>9. CASE ApplyCancelled \/ ApplyBuildError
    BY <1>9 DEF ApplyCancelled, ApplyBuildError, view, deleting, Underway, Asking
<1>10. CASE ApplyCreated
  <2>1. up /\ Reshaped({Head(built).id}, {}) /\ UNCHANGED <<removing, removed>>
      BY <1>10, ApplyCreatedEffect DEF ApplyCreated
  <2>2. Asking' = Asking
      BY <2>1 DEF Reshaped, Asking
  <2> QED BY <2>1, <2>2, ReshapedUnderway
<1>11. CASE Marks
  <2>1. PICK ids : up /\ Marked(ids)
      BY <1>11 DEF Marks
  <2>2. Asking' = Asking \cup ids
      BY <1>11, <2>1 DEF Marks, Marked, Asking
  <2>3. /\ DOMAIN rows' = DOMAIN rows
        /\ \A i \in DOMAIN rows :
             /\ rows'[i].id = rows[i].id
             /\ rows'[i].status = IF rows[i].id \in ids THEN "deleting" ELSE rows[i].status
      BY <1>0, <2>1, SetStatusFacts DEF Marked
  <2> QED BY <2>1, <2>2, <2>3 DEF Underway
<1>12. CASE RunRemoval
  <2>1. PICK ok \in BOOLEAN :
          removed' = Append(removed, [id |-> Head(removing).id,
                                      group |-> Head(removing).group, ok |-> ok])
      BY <1>12 DEF RunRemoval
  <2>2. PICK r : r = [id |-> Head(removing).id, group |-> Head(removing).group, ok |-> ok]
      OBVIOUS
  <2>3. /\ Head(removing) \in Request
        /\ Ids(removing) = {Head(removing).id} \cup Ids(Tail(removing))
      BY <1>12, TailIds DEF RunRemoval, Base, Shapes
  <2>4. r \in Result /\ r.id = Head(removing).id
      BY <2>2, <2>3 DEF Request, Result
  <2>5. Ids(removed') = Ids(removed) \cup {Head(removing).id}
      BY <2>1, <2>2, <2>4, AppendIds DEF Base, Shapes
  <2>6. removing' = Tail(removing) /\ UNCHANGED <<rows, up, inherited>>
      BY <1>12 DEF RunRemoval, view
  <2>7. Asking' = Asking
      BY <2>3, <2>5, <2>6 DEF Asking
  <2> QED BY <2>6, <2>7 DEF Underway
<1>13. CASE ApplyRemoved
  <2>1. /\ up /\ Reshaped({}, {Head(removed).id}) /\ removed # <<>> /\ removed' = Tail(removed)
        /\ removing' = removing
      BY <1>13, ApplyRemovedEffect DEF ApplyRemoved
  <2>2. Ids(removed) = {Head(removed).id} \cup Ids(removed')
      BY <2>1, TailIds DEF Base, Shapes
  <2>3. Head(removed).id \notin Ids(rows') /\ inherited' = inherited
      BY <2>1 DEF Reshaped
  <2> QED BY <2>1, <2>2, <2>3, ReshapedUnderway DEF Asking
<1>14. CASE ApplyRemoveError
  <2>1. /\ removed # <<>> /\ removed' = Tail(removed) /\ UNCHANGED <<removing, inherited, up>>
        /\ rows' = SetStatus(rows, {Head(removed).id}, "error")
      BY <1>14 DEF ApplyRemoveError
  <2>2. Ids(removed) = {Head(removed).id} \cup Ids(removed')
      BY <2>1, TailIds DEF Base, Shapes
  <2>3. /\ DOMAIN rows' = DOMAIN rows
        /\ \A i \in DOMAIN rows :
             /\ rows'[i].id = rows[i].id
             /\ rows'[i].status = IF rows[i].id \in {Head(removed).id} THEN "error"
                                  ELSE rows[i].status
      BY <1>0, <2>1, SetStatusFacts
  <2>4. ASSUME up, NEW i \in DOMAIN rows, rows'[i].status = "deleting"
        PROVE  rows'[i].id \in Asking'
    <3>1. rows[i].id # Head(removed).id /\ rows[i].status = "deleting" /\ rows'[i].id = rows[i].id
        BY <2>3, <2>4
    <3>2. rows[i].id \in Asking
        BY <2>4, <3>1 DEF Underway
    <3> QED BY <2>1, <2>2, <3>1, <3>2 DEF Asking
  <2> QED BY <2>1, <2>3, <2>4 DEF Underway
<1>15. CASE Regroups
  <2>1. up /\ Reshaped({}, {}) /\ Asking' = Asking
      BY <1>15 DEF Regroups, queues, Reshaped, Asking
  <2> QED BY <2>1, ReshapedUnderway
<1>16. ASSUME NEW done \in BOOLEAN, MoveAway(done)
       PROVE  Underway'
  <2>1. up /\ Reshaped({}, {selected.of}) /\ UNCHANGED <<removing, removed>>
      BY <1>16, MoveAwayEffect DEF MoveAway, InDialog
  <2>2. Asking' = Asking
      BY <2>1 DEF Reshaped, Asking
  <2> QED BY <2>1, <2>2, ReshapedUnderway
<1>17. CASE CliLoad \/ CliFail
    BY <1>17 DEF CliLoad, CliFail, view, deleting, Underway, Asking
<1>18. CASE CliGrows \/ CliDrops \/ CliKeeps
  <2>1. UNCHANGED <<rows, up, removing, removed, inherited>>
      BY <1>18 DEF CliGrows, CliDrops, CliKeeps, CliSaved
  <2> QED BY <2>1 DEF Underway, Asking
<1> QED
  BY <1>1, <1>2, <1>3, <1>4, <1>5, <1>6, <1>7, <1>8, <1>9, <1>10, <1>11, <1>12, <1>13, <1>14,
     <1>15, <1>16, <1>17, <1>18 DEF Kinds

LEMMA UnderwayShows ==
  ASSUME Base, Underway
  PROVE  DeletingIsUnderWay
<1>1. PICK All : All = Request \cup Result
    OBVIOUS
<1>2. removing \in Seq(All) /\ removed \in Seq(All)
    BY <1>1 DEF Base, Shapes
<1>3. Ids(removing \o removed) = Ids(removing) \cup Ids(removed)
    BY <1>2, JoinIds
<1>4. InFlight(removing \o removed) = Ids(removing \o removed)
    BY DEF InFlight, Ids
<1> QED BY <1>3, <1>4 DEF DeletingIsUnderWay, Underway, Asking

\* A row says deleting only while its deletion is asked for or its answer is
\* unread, or an earlier run of the view left it so on file: delete_selected and
\* delete_group_with_sessions send a request for each row they mark, and both
\* outcomes in apply_deletion_results take the mark away.
THEOREM DeletingIsUnderWayAlways == ASSUME Alone PROVE Spec => []DeletingIsUnderWay
<1>1. Init => Base /\ Mirror /\ Underway
    BY BaseInit, MirrorInit DEF Init, Underway
<1>2. Base /\ Mirror /\ Underway /\ [Next]_vars => Base' /\ Mirror' /\ Underway'
    BY BaseStep, NextKinds, MirrorStep, UnderwayStep
<1>3. Base /\ Underway => DeletingIsUnderWay
    BY UnderwayShows
<1> QED BY <1>1, <1>2, <1>3, PTL DEF Spec
=============================================================================
