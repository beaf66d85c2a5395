--------------------------- MODULE LogData_proofs ---------------------------
(***************************************************************************)
(* Proofs about LogData, for chains of any length and any log data: what   *)
(* the loops have collected and merged is, at each of their steps, the     *)
(* merge of the part of the chain they have seen; so the end result is the *)
(* merge of the chain, and a panic is a collision in it.                   *)
(***************************************************************************)
EXTENDS LogData, SequenceTheorems, TLAPS

LEMMA ValueTypes ==
  ASSUME NEW v \in Values
  PROVE  /\ v \in Items
         /\ v.kind \in {"scalar", "map", "list"}
         /\ v.kind = "list" => v = List(v.items) /\ v.items \in Seq(Items)
         /\ Elements(v) \in Seq(Items)
<1>1. v \in Items /\ Range(Elements(v)) \subseteq Items
  BY DEF Items
<1>2. /\ v.kind \in {"scalar", "map", "list"}
      /\ v.kind = "list" => v = List(v.items) /\ v.items \in Seq(Range(v.items))
  BY DataAssumption DEF DataAssumption
<1>3. CASE v.kind = "list"
  <2>1. Elements(v) = v.items
    BY <1>3 DEF Elements
  <2>2. v.items \in Seq(Items)
    BY <1>1, <1>2, <1>3, <2>1
  <2> QED
    BY <1>1, <1>2, <2>1, <2>2
<1>4. CASE v.kind # "list"
  <2>1. Elements(v) = <<v>>
    BY <1>4 DEF Elements
  <2> QED
    BY <1>1, <1>2, <1>4, <2>1
<1> QED
  BY <1>3, <1>4

-----------------------------------------------------------------------------
(* A merge of some places grows by one more place, behind them.              *)

LEMMA OneValue ==
  ASSUME NEW maps, NEW k, NEW l \in Nat
  PROVE  IsMergeOf(maps[l][k], maps, {l}, k)
<1>1. Outermost(l, {l})
  BY DEF Outermost
<1>2. Later(maps, {l}, k, l) = {}
  BY DEF Later
<1> QED
  BY <1>1, <1>2 DEF IsMergeOf

LEMMA LaterGrows ==
  ASSUME NEW maps, NEW k, NEW at \in SUBSET Nat, NEW l \in Nat, NEW first \in at,
         Outermost(first, at), \A i \in at : i < l
  PROVE  /\ Outermost(first, at \cup {l})
         /\ Later(maps, at, k, first) = {} /\ maps[l][k] = maps[first][k] =>
              Later(maps, at \cup {l}, k, first) = {}
         /\ Later(maps, at, k, first) # {} \/ maps[l][k] # maps[first][k] =>
              Later(maps, at \cup {l}, k, first) = Later(maps, at, k, first) \cup {l}
<1>1. Outermost(first, at \cup {l})
  BY DEF Outermost
<1>2. ASSUME Later(maps, at, k, first) = {}, maps[l][k] = maps[first][k]
      PROVE  Later(maps, at \cup {l}, k, first) = {}
  <2>1. \A i \in at : maps[i][k] = maps[first][k]
    BY <1>2 DEF Later
  <2> QED
    BY <1>2, <2>1 DEF Later
<1>3. ASSUME Later(maps, at, k, first) # {} \/ maps[l][k] # maps[first][k]
      PROVE  Later(maps, at \cup {l}, k, first) = Later(maps, at, k, first) \cup {l}
  <2>1. \A i \in at : i \in Later(maps, at \cup {l}, k, first) <=> i \in Later(maps, at, k, first)
    BY DEF Later
  <2>2. l \in Later(maps, at \cup {l}, k, first)
    BY <1>3 DEF Later
  <2>3. /\ Later(maps, at \cup {l}, k, first) \subseteq at \cup {l}
        /\ Later(maps, at, k, first) \subseteq at
    BY DEF Later
  <2> QED
    BY <2>1, <2>2, <2>3
<1> QED
  BY <1>1, <1>2, <1>3

\* The same value again changes nothing.
LEMMA SameAgain ==
  ASSUME NEW maps, NEW k, NEW at \in SUBSET Nat, NEW l \in Nat, NEW v,
         \A i \in at : i < l,
         IsMergeOf(v, maps, at, k), v.kind # "list", v = maps[l][k]
  PROVE  IsMergeOf(v, maps, at \cup {l}, k)
<1>1. PICK first \in at : /\ Outermost(first, at)
                          /\ Later(maps, at, k, first) = {}
                          /\ v = maps[first][k]
  BY DEF IsMergeOf
<1>2. maps[l][k] = maps[first][k]
  BY <1>1
<1>3. /\ Outermost(first, at \cup {l})
      /\ Later(maps, at \cup {l}, k, first) = {}
  BY <1>1, <1>2, LaterGrows
<1> QED
  BY <1>1, <1>3 DEF IsMergeOf

Extended(s, n, l) == [m \in 1 .. n + 1 |-> IF m = n + 1 THEN l ELSE s[m]]

\* A list of places grows by a place behind them.
LEMMA EnumeratesMore ==
  ASSUME NEW at \in SUBSET Nat, NEW n \in Nat, NEW s \in [1 .. n -> at], Enumerates(s, at),
         NEW l \in Nat, \A i \in at : i < l,
         NEW t, t = Extended(s, n, l)
  PROVE  t \in [1 .. n + 1 -> at \cup {l}] /\ Enumerates(t, at \cup {l})
<1>1. t \in [1 .. n + 1 -> at \cup {l}]
  BY DEF Extended
<1>2. /\ \A m \in 1 .. n : t[m] = s[m] /\ s[m] \in at
      /\ t[n + 1] = l
      /\ DOMAIN t = 1 .. n + 1 /\ DOMAIN s = 1 .. n
  BY DEF Extended
<1>3. ASSUME NEW i \in DOMAIN t, NEW j \in DOMAIN t, i < j
      PROVE  t[i] < t[j]
  <2>1. i \in 1 .. n /\ j \in 1 .. n + 1
    BY <1>2, <1>3
  <2>2. CASE j = n + 1
    BY <1>2, <2>1, <2>2
  <2>3. CASE j # n + 1
    BY <1>2, <1>3, <2>1, <2>3 DEF Enumerates
  <2> QED
    BY <2>2, <2>3
<1>4. Range(t) = at \cup {l}
  <2>1. \A i \in at : \E m \in 1 .. n : s[m] = i
    BY DEF Enumerates, Range
  <2>2. \A i \in at : \E m \in DOMAIN t : t[m] = i
    BY <1>2, <2>1
  <2>3. Range(t) \subseteq at \cup {l}
    BY <1>1 DEF Range
  <2>4. at \subseteq Range(t)
    BY <2>2 DEF Range
  <2>5. l \in Range(t)
    BY <1>2 DEF Range
  <2> QED
    BY <2>3, <2>4, <2>5
<1> QED
  BY <1>1, <1>3, <1>4 DEF Enumerates

\* What a merge consists of: the outermost value, and the later ones in their order.
Parts(v, maps, at, k, first) ==
  /\ Outermost(first, at)
  /\ Later(maps, at, k, first) = {} => v = maps[first][k]
  /\ Later(maps, at, k, first) # {} => v.kind = "list"
  /\ \E n \in Nat : \E s \in [1 .. n -> Later(maps, at, k, first)] :
       /\ Enumerates(s, Later(maps, at, k, first))
       /\ Elements(v) = Elements(maps[first][k]) \o ValuesAt(maps, s, k)

LEMMA MergeParts ==
  ASSUME NEW maps, NEW k, NEW at \in SUBSET Nat, NEW v,
         \A i \in at : maps[i][k] \in Values,
         IsMergeOf(v, maps, at, k)
  PROVE  \E first \in at : Parts(v, maps, at, k, first)
<1>1. PICK first \in at :
        /\ Outermost(first, at)
        /\ \/ Later(maps, at, k, first) = {} /\ v = maps[first][k]
           \/ /\ Later(maps, at, k, first) # {}
              /\ v.kind = "list" /\ v.items \in Seq(Items)
              /\ \E s \in [1 .. Len(v.items) - Len(Elements(maps[first][k])) -> Later(maps, at, k, first)] :
                   /\ Enumerates(s, Later(maps, at, k, first))
                   /\ v = List(Elements(maps[first][k]) \o ValuesAt(maps, s, k))
  BY DEF IsMergeOf
<1> DEFINE later == Later(maps, at, k, first)
           base == Elements(maps[first][k])
<1>2. base \in Seq(Items)
  BY ValueTypes
<1>3. later \subseteq at
  BY DEF Later
<1> HIDE DEF later, base
<1>4. CASE later = {}
  <2>0. PICK s : s = [m \in 1 .. 0 |-> 0]
    OBVIOUS
  <2>1. s \in [1 .. 0 -> later] /\ Enumerates(s, later)
    BY <1>4, <2>0 DEF Enumerates, Range
  <2>2. ValuesAt(maps, s, k) = <<>>
    BY <2>0 DEF ValuesAt
  <2>3. base = base \o <<>>
    BY <1>2
  <2>4. v = maps[first][k] /\ Elements(v) = base
    BY <1>1, <1>4 DEF later, base
  <2>5. Elements(v) = base \o ValuesAt(maps, s, k)
    BY <2>2, <2>3, <2>4
  <2> QED
    BY <1>1, <1>4, <2>1, <2>4, <2>5 DEF later, base, Parts
<1>5. CASE later # {}
  <2> DEFINE n == Len(v.items) - Len(base)
  <2>1. v.kind = "list"
    BY <1>1, <1>5 DEF later
  <2>2. PICK s \in [1 .. n -> later] :
          /\ Enumerates(s, later)
          /\ v = List(base \o ValuesAt(maps, s, k))
    BY <1>1, <1>5 DEF later, base
  <2>3. n \in Int
    BY <1>1, <1>2, <1>5 DEF later
  <2> HIDE DEF n
  <2>4. 1 .. n # {}
    BY <1>5, <2>2 DEF Enumerates, Range
  <2>5. n \in Nat /\ DOMAIN s = 1 .. n
    BY <2>2, <2>3, <2>4
  <2>6. Elements(v) = base \o ValuesAt(maps, s, k)
    BY <2>1, <2>2, <2>5 DEF Elements, List
  <2> QED
    BY <1>1, <1>5, <2>1, <2>2, <2>5, <2>6 DEF later, base, Parts
<1> QED
  BY <1>4, <1>5

\* The values at some places, and one more behind them.
LEMMA ValuesMore ==
  ASSUME NEW maps, NEW k, NEW n \in Nat, NEW s, DOMAIN s = 1 .. n,
         \A m \in 1 .. n : maps[s[m]][k] \in Items,
         NEW l, maps[l][k] \in Items,
         NEW t, t = Extended(s, n, l),
         NEW tail, tail = ValuesAt(maps, s, k),
         NEW more, more = ValuesAt(maps, t, k)
  PROVE  tail \in Seq(Items) /\ Len(tail) = n /\ more = Append(tail, maps[l][k])
<1> DEFINE w == maps[l][k]
<1>1. tail \in Seq(Items) /\ Len(tail) = n
  <2>1. tail \in [1 .. n -> Items]
    BY DEF ValuesAt
  <2> QED
    BY <2>1
<1>2. more = Append(tail, w)
  <2>1. DOMAIN Append(tail, w) = 1 .. n + 1 /\ Append(tail, w) = [m \in 1 .. n + 1 |-> Append(tail, w)[m]]
    BY <1>1
  <2>2. ASSUME NEW m \in 1 .. n + 1
        PROVE  more[m] = Append(tail, w)[m]
    <3>1. CASE m = n + 1
      <4>1. more[m] = w
        BY <3>1 DEF ValuesAt, Extended
      <4>2. Append(tail, w)[m] = w
        BY <1>1, <3>1
      <4> QED
        BY <4>1, <4>2
    <3>2. CASE m # n + 1
      <4>1. m \in 1 .. n
        BY <3>2
      <4>2. more[m] = tail[m]
        BY <4>1 DEF ValuesAt, Extended
      <4>3. Append(tail, w)[m] = tail[m]
        BY <1>1, <4>1
      <4> QED
        BY <4>2, <4>3
    <3> QED
      BY <3>1, <3>2
  <2> QED
    BY <2>1, <2>2 DEF ValuesAt, Extended
<1> QED
  BY <1>1, <1>2

LEMMA ConcatMore ==
  ASSUME NEW base \in Seq(Items), NEW tail \in Seq(Items), NEW w \in Items
  PROVE  /\ Append(base \o tail, w) = base \o Append(tail, w)
         /\ base \o Append(tail, w) \in Seq(Items)
         /\ Len(base \o Append(tail, w)) - Len(base) = Len(tail) + 1
<1>1. Append(tail, w) = tail \o <<w>> /\ Append(base \o tail, w) = (base \o tail) \o <<w>>
  BY ConcatProperties, AppendIsConcat
<1>2. <<w>> \in Seq(Items)
  OBVIOUS
<1>3. Append(base \o tail, w) = base \o Append(tail, w)
  BY <1>1, <1>2, ConcatAssociative
<1>4. Append(tail, w) \in Seq(Items) /\ Len(Append(tail, w)) = Len(tail) + 1
  BY AppendProperties
<1>5. /\ base \o Append(tail, w) \in Seq(Items)
      /\ Len(base \o Append(tail, w)) = Len(base) + Len(Append(tail, w))
  BY <1>4, ConcatProperties
<1> QED
  BY <1>3, <1>4, <1>5

LEMMA CombinedAppends ==
  ASSUME NEW v, NEW w
  PROVE  Combined(v, w) = List(Append(Elements(v), w))
<1>1. <<v>> \in Seq({v, w})
  OBVIOUS
<1>2. /\ Append(<<v>>, w) \in Seq({v, w}) /\ Len(Append(<<v>>, w)) = 2
      /\ Append(<<v>>, w)[1] = v /\ Append(<<v>>, w)[2] = w
  BY <1>1, AppendProperties
<1>3. /\ <<v, w>> \in Seq({v, w}) /\ Len(<<v, w>>) = 2
      /\ <<v, w>>[1] = v /\ <<v, w>>[2] = w
  OBVIOUS
<1>4. Append(<<v>>, w) = <<v, w>>
  <2>1. \A i \in 1 .. 2 : Append(<<v>>, w)[i] = <<v, w>>[i]
    BY <1>2, <1>3
  <2> QED
    BY <1>2, <1>3, <2>1, SeqEqual
<1> QED
  BY <1>4 DEF Combined, Elements

\* Another value makes a list of one, and a list longer.
LEMMA OneMore ==
  ASSUME NEW maps, NEW k, NEW at \in SUBSET Nat, NEW l \in Nat, NEW v,
         \A i \in at : i < l,
         \A i \in at \cup {l} : maps[i][k] \in Values,
         IsMergeOf(v, maps, at, k), v # maps[l][k]
  PROVE  IsMergeOf(Combined(v, maps[l][k]), maps, at \cup {l}, k)
<1> DEFINE w == maps[l][k]
<1>0. \A i \in at : maps[i][k] \in Values
  OBVIOUS
<1>1. PICK first \in at : Parts(v, maps, at, k, first)
  BY <1>0, MergeParts
<1> DEFINE later == Later(maps, at, k, first)
           base == Elements(maps[first][k])
<1>2. PICK n \in Nat :
        \E s \in [1 .. n -> later] :
          /\ Enumerates(s, later)
          /\ Elements(v) = base \o ValuesAt(maps, s, k)
  BY <1>1 DEF Parts
<1>3. PICK s \in [1 .. n -> later] :
        /\ Enumerates(s, later)
        /\ Elements(v) = base \o ValuesAt(maps, s, k)
  BY <1>2
<1>4. /\ Outermost(first, at \cup {l})
      /\ Later(maps, at \cup {l}, k, first) = later \cup {l}
  <2>1. /\ Outermost(first, at)
        /\ later # {} \/ w # maps[first][k]
    BY <1>1 DEF Parts
  <2> QED
    BY <2>1, LaterGrows
<1>5. later \in SUBSET Nat /\ (\A i \in later : i < l)
  BY DEF Later
<1>6. /\ base \in Seq(Items)
      /\ \A i \in later : maps[i][k] \in Items
      /\ maps[l][k] \in Items
  <2>1. later \subseteq at
    BY DEF Later
  <2> QED
    BY <2>1, ValueTypes
<1>7. PICK t : t = Extended(s, n, l)
  OBVIOUS
<1>8. PICK tail, more : tail = ValuesAt(maps, s, k) /\ more = ValuesAt(maps, t, k)
  OBVIOUS
<1> HIDE DEF later, base
<1>9. t \in [1 .. n + 1 -> later \cup {l}] /\ Enumerates(t, later \cup {l})
  BY <1>3, <1>5, <1>7, EnumeratesMore
<1>10. /\ Append(base \o tail, maps[l][k]) = base \o more
       /\ base \o more \in Seq(Items)
       /\ Len(base \o more) - Len(base) = n + 1
  <2>1. DOMAIN s = 1 .. n /\ (\A m \in 1 .. n : maps[s[m]][k] \in Items)
    BY <1>6
  <2>2. tail \in Seq(Items) /\ Len(tail) = n /\ more = Append(tail, maps[l][k])
    BY <1>6, <1>7, <1>8, <2>1, ValuesMore
  <2> QED
    BY <1>6, <2>2, ConcatMore
<1>11. Combined(v, w) = List(Append(Elements(v), w))
  BY CombinedAppends
<1> HIDE DEF w
<1>12. Elements(v) = base \o tail
  BY <1>3, <1>8
<1>13. Combined(v, w) = List(base \o more)
  BY <1>10, <1>11, <1>12 DEF w
<1>14. Combined(v, w) = List(base \o ValuesAt(maps, t, k))
  BY <1>8, <1>13
<1>15. /\ Combined(v, w).kind = "list"
       /\ Combined(v, w).items \in Seq(Items)
       /\ Len(Combined(v, w).items) - Len(base) = n + 1
  BY <1>10, <1>13 DEF List
<1> QED
  BY <1>4, <1>9, <1>14, <1>15 DEF IsMergeOf, base, w

-----------------------------------------------------------------------------
(* What can be compared does not collide, and the other way round.           *)

LEMMA ComparableIsSafe ==
  ASSUME NEW maps, NEW k, NEW at \in SUBSET Nat, NEW l \in Nat, NEW v,
         \A i \in at : i < l,
         IsMergeOf(v, maps, at, k), ~Collides(maps, at, k), ~Incomparable(v, maps[l][k])
  PROVE  ~Collides(maps, at \cup {l}, k)
<1>1. PICK first \in at :
        /\ Later(maps, at, k, first) = {} => v = maps[first][k]
        /\ Later(maps, at, k, first) # {} => v.kind = "list"
  BY DEF IsMergeOf
<1>2. ASSUME NEW i \in at, maps[i][k] # maps[first][k]
      PROVE  v.kind = "list"
  <2>1. i \in Later(maps, at, k, first)
    BY <1>2 DEF Later
  <2> QED
    BY <1>1, <2>1
<1>3. ASSUME NEW i \in at, \A h \in at : maps[h][k] = maps[i][k]
      PROVE  v = maps[i][k]
  <2>1. Later(maps, at, k, first) = {}
    BY <1>3 DEF Later
  <2> QED
    BY <1>1, <1>3, <2>1
<1>4. ASSUME NEW i \in at, maps[i][k].kind = "list"
      PROVE  v.kind = "list"
  <2>1. CASE \A h \in at : maps[h][k] = maps[i][k]
    BY <1>3, <1>4, <2>1
  <2>2. CASE \E h \in at : maps[h][k] # maps[i][k]
    BY <1>2, <2>2
  <2> QED
    BY <2>1, <2>2
<1>5. ASSUME Collides(maps, at \cup {l}, k)
      PROVE  FALSE
  <2>1. PICK i \in at \cup {l}, j \in at \cup {l} :
          /\ i < j
          /\ \/ /\ maps[j][k].kind = "list"
                /\ \/ maps[i][k].kind = "list"
                   \/ \E h \in at \cup {l} : h < i /\ maps[h][k] # maps[i][k]
             \/ /\ maps[j][k].kind = "map" /\ maps[i][k].kind = "map"
                /\ \A h \in at \cup {l} : h < j => maps[h][k] = maps[i][k]
    BY <1>5 DEF Collides
  <2>2. i \in at
    <3>1. i < j
      BY <2>1
    <3> QED
      BY <3>1
  <2>3. CASE j \in at
    <3>1. \A h \in at \cup {l} : h < i => h \in at
      BY <2>2
    <3> QED
      BY <2>1, <2>2, <2>3, <3>1 DEF Collides
  <2>4. CASE j = l
    <3>1. CASE maps[l][k].kind = "list"
      <4>1. CASE maps[i][k].kind = "list"
        BY <1>4, <2>2, <3>1, <4>1 DEF Incomparable
      <4>2. CASE \E h \in at \cup {l} : h < i /\ maps[h][k] # maps[i][k]
        <5>1. PICK h \in at : maps[h][k] # maps[i][k]
          BY <2>2, <4>2
        <5>2. v.kind = "list"
          BY <1>2, <2>2, <5>1
        <5> QED
          BY <3>1, <5>2 DEF Incomparable
      <4> QED
        BY <2>1, <2>4, <3>1, <4>1, <4>2
    <3>2. CASE maps[l][k].kind # "list"
      <4>1. /\ maps[l][k].kind = "map" /\ maps[i][k].kind = "map"
            /\ \A h \in at : maps[h][k] = maps[i][k]
        BY <2>1, <2>4, <3>2
      <4>2. v = maps[i][k]
        BY <1>3, <2>2, <4>1
      <4> QED
        BY <4>1, <4>2 DEF Incomparable
    <3> QED
      BY <3>1, <3>2
  <2> QED
    BY <2>3, <2>4
<1> QED
  BY <1>5

LEMMA PanicIsCollision ==
  ASSUME NEW maps, NEW k, NEW at \in SUBSET Nat, NEW l \in Nat, NEW v,
         \A i \in at : i < l,
         IsMergeOf(v, maps, at, k), Incomparable(v, maps[l][k])
  PROVE  Collides(maps, at \cup {l}, k)
<1>1. PICK first \in at :
        /\ Outermost(first, at)
        /\ \/ Later(maps, at, k, first) = {} /\ v = maps[first][k]
           \/ Later(maps, at, k, first) # {} /\ v.kind = "list"
  BY DEF IsMergeOf
<1>2. v.kind = maps[l][k].kind /\ v.kind \in {"list", "map"}
  BY DEF Incomparable
<1>3. first < l /\ first \in at \cup {l} /\ l \in at \cup {l}
  OBVIOUS
<1>4. CASE Later(maps, at, k, first) = {}
  <2>1. v = maps[first][k]
    BY <1>1, <1>4
  <2>2. \A h \in at : maps[h][k] = maps[first][k]
    BY <1>4 DEF Later
  <2>3. \A h \in at \cup {l} : h < l => maps[h][k] = maps[first][k]
    BY <2>2
  <2>4. CASE v.kind = "list"
    BY <1>2, <1>3, <2>1, <2>4 DEF Collides
  <2>5. CASE v.kind = "map"
    BY <1>2, <1>3, <2>1, <2>3, <2>5 DEF Collides
  <2> QED
    BY <1>2, <2>4, <2>5
<1>5. CASE Later(maps, at, k, first) # {}
  <2>1. maps[l][k].kind = "list"
    BY <1>1, <1>2, <1>5
  <2>2. PICK i \in at : maps[i][k] # maps[first][k]
    BY <1>5 DEF Later
  <2>3. first < i /\ i < l
    BY <1>1, <2>2 DEF Outermost
  <2> QED
    BY <2>1, <2>2, <2>3 DEF Collides
<1> QED
  BY <1>4, <1>5

\* A collision stays one when places behind it are added.
LEMMA CollisionStays ==
  ASSUME NEW maps, NEW k, NEW at \in SUBSET Nat, NEW all \in SUBSET Nat, at \subseteq all,
         \A h \in all, j \in at : h < j => h \in at,
         Collides(maps, at, k)
  PROVE  Collides(maps, all, k)
<1>1. PICK i \in at, j \in at :
        /\ i < j
        /\ \/ /\ maps[j][k].kind = "list"
              /\ maps[i][k].kind = "list" \/ \E h \in at : h < i /\ maps[h][k] # maps[i][k]
           \/ /\ maps[j][k].kind = "map" /\ maps[i][k].kind = "map"
              /\ \A h \in at : h < j => maps[h][k] = maps[i][k]
  BY DEF Collides
<1>2. i \in all /\ j \in all
  OBVIOUS
<1>3. (\E h \in at : h < i /\ maps[h][k] # maps[i][k]) =>
        \E h \in all : h < i /\ maps[h][k] # maps[i][k]
  OBVIOUS
<1>4. (\A h \in at : h < j => maps[h][k] = maps[i][k]) =>
        \A h \in all : h < j => maps[h][k] = maps[i][k]
  OBVIOUS
<1> QED
  BY <1>1, <1>2, <1>3, <1>4 DEF Collides

-----------------------------------------------------------------------------
(* The same values at other places, in the same order, merge to the same.    *)

Embeds(place, at, maps, other, k) ==
  /\ \A i \in at : place[i] \in Nat /\ other[place[i]][k] = maps[i][k]
  /\ \A i, j \in at : i < j => place[i] < place[j]

Placed(place, at) == {place[i] : i \in at}

Moved(place, s) == [m \in DOMAIN s |-> place[s[m]]]

\* Order and equality are the same in both places.
Matches(place, at, maps, other, k) ==
  \A i, j \in at :
    /\ i < j <=> place[i] < place[j]
    /\ i <= j <=> place[i] <= place[j]
    /\ other[place[i]][k] # other[place[j]][k] <=> maps[i][k] # maps[j][k]

LEMMA OrderKept ==
  ASSUME NEW maps, NEW other, NEW k, NEW at \in SUBSET Nat, NEW place,
         Embeds(place, at, maps, other, k)
  PROVE  Matches(place, at, maps, other, k)
<1> SUFFICES ASSUME NEW i \in at, NEW j \in at
             PROVE  /\ i < j <=> place[i] < place[j]
                    /\ i <= j <=> place[i] <= place[j]
                    /\ other[place[i]][k] # other[place[j]][k] <=> maps[i][k] # maps[j][k]
  BY DEF Matches
<1>1. place[i] \in Nat /\ place[j] \in Nat
  BY DEF Embeds
<1>2. i < j => place[i] < place[j]
  BY DEF Embeds
<1>3. j < i => place[j] < place[i]
  BY DEF Embeds
<1>4. other[place[i]][k] # other[place[j]][k] <=> maps[i][k] # maps[j][k]
  BY DEF Embeds
<1>5. i \in Nat /\ j \in Nat
  OBVIOUS
<1>6. (i < j <=> place[i] < place[j]) /\ (i <= j <=> place[i] <= place[j])
  <2>1. CASE i < j
    BY <1>1, <1>2, <1>5, <2>1
  <2>2. CASE j < i
    BY <1>1, <1>3, <1>5, <2>2
  <2>3. CASE i = j
    BY <1>1, <1>5, <2>3
  <2> QED
    BY <1>5, <2>1, <2>2, <2>3
<1> QED
  BY <1>4, <1>6

LEMMA LaterPlaced ==
  ASSUME NEW maps, NEW other, NEW k, NEW at \in SUBSET Nat, NEW place, NEW first \in at,
         Embeds(place, at, maps, other, k)
  PROVE  Later(other, Placed(place, at), k, place[first]) =
           Placed(place, Later(maps, at, k, first))
<1>0. Matches(place, at, maps, other, k)
  BY OrderKept
<1>1. ASSUME NEW i \in at
      PROVE  place[i] \in Later(other, Placed(place, at), k, place[first]) <=>
               i \in Later(maps, at, k, first)
  <2>1. place[i] \in Placed(place, at)
    BY DEF Placed
  <2>2. (\E y \in Placed(place, at) : y <= place[i] /\ other[y][k] # other[place[first]][k])
          <=> \E j \in at : place[j] <= place[i] /\ other[place[j]][k] # other[place[first]][k]
    BY DEF Placed
  <2>3. \A j \in at : place[j] <= place[i] /\ other[place[j]][k] # other[place[first]][k]
                        <=> j <= i /\ maps[j][k] # maps[first][k]
    BY <1>0 DEF Matches
  <2>4. place[i] \in Later(other, Placed(place, at), k, place[first])
          <=> \E y \in Placed(place, at) : y <= place[i] /\ other[y][k] # other[place[first]][k]
    BY <2>1 DEF Later
  <2>5. i \in Later(maps, at, k, first)
          <=> \E j \in at : j <= i /\ maps[j][k] # maps[first][k]
    BY DEF Later
  <2> QED
    BY <2>2, <2>3, <2>4, <2>5
<1>2. /\ Later(other, Placed(place, at), k, place[first]) \subseteq Placed(place, at)
      /\ Later(maps, at, k, first) \subseteq at
  BY DEF Later
<1>3. ASSUME NEW y
      PROVE  y \in Later(other, Placed(place, at), k, place[first]) <=>
               y \in Placed(place, Later(maps, at, k, first))
  <2>1. ASSUME y \in Later(other, Placed(place, at), k, place[first])
        PROVE  y \in Placed(place, Later(maps, at, k, first))
    <3>1. PICK i \in at : y = place[i]
      BY <1>2, <2>1 DEF Placed
    <3>2. i \in Later(maps, at, k, first)
      BY <1>1, <2>1, <3>1
    <3> QED
      BY <3>1, <3>2 DEF Placed
  <2>2. ASSUME y \in Placed(place, Later(maps, at, k, first))
        PROVE  y \in Later(other, Placed(place, at), k, place[first])
    <3>1. PICK i \in Later(maps, at, k, first) : y = place[i]
      BY <2>2 DEF Placed
    <3> QED
      BY <1>1, <1>2, <3>1
  <2> QED
    BY <2>1, <2>2
<1> QED
  BY <1>3

LEMMA EnumerationPlaced ==
  ASSUME NEW maps, NEW other, NEW k, NEW at \in SUBSET Nat, NEW place,
         Embeds(place, at, maps, other, k),
         NEW later \in SUBSET at, NEW s, Enumerates(s, later)
  PROVE  Enumerates(Moved(place, s), Placed(place, later))
<1> DEFINE t == Moved(place, s)
<1>1. /\ DOMAIN t = DOMAIN s
      /\ \A m \in DOMAIN s : t[m] = place[s[m]] /\ s[m] \in later /\ s[m] \in at
  BY DEF Moved, Enumerates, Range
<1> HIDE DEF t
<1>2. t \in [DOMAIN s -> Placed(place, later)]
  BY <1>1 DEF Placed, Moved, t
<1>3. Range(t) = Placed(place, later)
  <2>1. Range(t) \subseteq Placed(place, later)
    BY <1>2 DEF Range
  <2>2. ASSUME NEW i \in later
        PROVE  place[i] \in Range(t)
    <3>1. PICK m \in DOMAIN s : s[m] = i
      BY <1>1 DEF Enumerates, Range
    <3> QED
      BY <1>1, <3>1 DEF Range
  <2>3. Placed(place, later) \subseteq Range(t)
    BY <2>2 DEF Placed
  <2> QED
    BY <2>1, <2>3
<1>4. ASSUME NEW i \in DOMAIN s, NEW j \in DOMAIN s, i < j
      PROVE  t[i] < t[j]
  <2>1. s[i] < s[j] /\ s[i] \in at /\ s[j] \in at
    BY <1>1, <1>4 DEF Enumerates
  <2> QED
    BY <1>1, <2>1 DEF Embeds
<1> QED
  BY <1>1, <1>3, <1>4 DEF Enumerates, t

LEMMA MergePlaced ==
  ASSUME NEW maps, NEW other, NEW k, NEW at \in SUBSET Nat, NEW place, NEW v,
         Embeds(place, at, maps, other, k),
         \A i \in at : maps[i][k] \in Values,
         IsMergeOf(v, maps, at, k)
  PROVE  IsMergeOf(v, other, Placed(place, at), k)
<1>1. PICK first \in at :
        /\ Outermost(first, at)
        /\ \/ Later(maps, at, k, first) = {} /\ v = maps[first][k]
           \/ /\ Later(maps, at, k, first) # {}
              /\ v.kind = "list" /\ v.items \in Seq(Items)
              /\ \E s \in [1 .. Len(v.items) - Len(Elements(maps[first][k])) -> Later(maps, at, k, first)] :
                   /\ Enumerates(s, Later(maps, at, k, first))
                   /\ v = List(Elements(maps[first][k]) \o ValuesAt(maps, s, k))
  BY DEF IsMergeOf
<1> DEFINE later == Later(maps, at, k, first)
           n == Len(v.items) - Len(Elements(maps[first][k]))
<1>0. Matches(place, at, maps, other, k)
  BY OrderKept
<1>2. /\ place[first] \in Placed(place, at)
      /\ other[place[first]][k] = maps[first][k]
  BY DEF Placed, Embeds
<1>3. Outermost(place[first], Placed(place, at))
  <2>1. \A j \in at : place[first] <= place[j]
    BY <1>0, <1>1 DEF Matches, Outermost
  <2> QED
    BY <1>2, <2>1 DEF Outermost, Placed
<1>4. Later(other, Placed(place, at), k, place[first]) = Placed(place, later)
  BY LaterPlaced
<1>5. CASE later = {}
  <2>1. Later(other, Placed(place, at), k, place[first]) = {}
    BY <1>4, <1>5 DEF Placed
  <2> QED
    BY <1>1, <1>2, <1>3, <1>5, <2>1 DEF IsMergeOf
<1>6. CASE later # {}
  <2>1. v.kind = "list" /\ v.items \in Seq(Items)
    BY <1>1, <1>6
  <2>2. PICK s \in [1 .. n -> later] :
          /\ Enumerates(s, later)
          /\ v = List(Elements(maps[first][k]) \o ValuesAt(maps, s, k))
    BY <1>1, <1>6
  <2>3. DOMAIN s = 1 .. n
    OBVIOUS
  <2>4. later \in SUBSET at
    BY DEF Later
  <2> DEFINE t == Moved(place, s)
  <2> HIDE DEF later, n
  <2>5. /\ t \in [DOMAIN s -> Placed(place, later)]
        /\ Enumerates(t, Placed(place, later))
        /\ ValuesAt(other, t, k) = ValuesAt(maps, s, k)
    <3>1. Enumerates(s, later)
      BY <2>2
    <3>2. Enumerates(t, Placed(place, later))
      BY <2>4, <3>1, EnumerationPlaced
    <3>3. \A m \in DOMAIN s : s[m] \in later /\ s[m] \in at
      BY <2>4
    <3>4. t \in [DOMAIN s -> Placed(place, later)]
      BY <3>3 DEF Moved, Placed
    <3>5. ValuesAt(other, t, k) = ValuesAt(maps, s, k)
      BY <3>3 DEF ValuesAt, Moved, Embeds
    <3> QED
      BY <3>2, <3>4, <3>5
  <2>6. t \in [1 .. n -> Placed(place, later)]
    BY <2>3, <2>5
  <2> HIDE DEF t
  <2>7. Placed(place, later) # {}
    BY <1>6 DEF Placed
  <2>8. v = List(Elements(other[place[first]][k]) \o ValuesAt(other, t, k))
    BY <1>2, <2>2, <2>5
  <2>9. t \in [1 .. Len(v.items) - Len(Elements(other[place[first]][k])) -> Placed(place, later)]
    BY <1>2, <2>6 DEF n
  <2> QED
    BY <1>2, <1>3, <1>4, <2>1, <2>5, <2>7, <2>8, <2>9 DEF IsMergeOf
<1> QED
  BY <1>5, <1>6

LEMMA CollisionPlaced ==
  ASSUME NEW maps, NEW other, NEW k, NEW at \in SUBSET Nat, NEW place,
         Embeds(place, at, maps, other, k)
  PROVE  Collides(other, Placed(place, at), k) <=> Collides(maps, at, k)
<1> DEFINE Clash(i, j) ==
             /\ i < j
             /\ \/ /\ maps[j][k].kind = "list"
                   /\ maps[i][k].kind = "list" \/ \E h \in at : h < i /\ maps[h][k] # maps[i][k]
                \/ /\ maps[j][k].kind = "map" /\ maps[i][k].kind = "map"
                   /\ \A h \in at : h < j => maps[h][k] = maps[i][k]
           ClashThere(x, y) ==
             /\ x < y
             /\ \/ /\ other[y][k].kind = "list"
                   /\ \/ other[x][k].kind = "list"
                      \/ \E z \in Placed(place, at) : z < x /\ other[z][k] # other[x][k]
                \/ /\ other[y][k].kind = "map" /\ other[x][k].kind = "map"
                   /\ \A z \in Placed(place, at) : z < y => other[z][k] = other[x][k]
<1>0. Matches(place, at, maps, other, k)
  BY OrderKept
<1>1. ASSUME NEW i \in at, NEW j \in at
      PROVE  Clash(i, j) <=> ClashThere(place[i], place[j])
  <2>1. i < j <=> place[i] < place[j]
    BY <1>0 DEF Matches
  <2>2. other[place[i]][k] = maps[i][k] /\ other[place[j]][k] = maps[j][k]
    BY DEF Embeds
  <2>3. (\E h \in at : h < i /\ maps[h][k] # maps[i][k]) <=>
          \E h \in at : place[h] < place[i] /\ other[place[h]][k] # other[place[i]][k]
    BY <1>0 DEF Matches
  <2>4. (\E h \in at : place[h] < place[i] /\ other[place[h]][k] # other[place[i]][k]) <=>
          \E z \in Placed(place, at) : z < place[i] /\ other[z][k] # other[place[i]][k]
    BY DEF Placed
  <2>5. (\A h \in at : h < j => maps[h][k] = maps[i][k]) <=>
          \A h \in at : place[h] < place[j] => other[place[h]][k] = other[place[i]][k]
    BY <1>0 DEF Matches
  <2>6. (\A h \in at : place[h] < place[j] => other[place[h]][k] = other[place[i]][k]) <=>
          \A z \in Placed(place, at) : z < place[j] => other[z][k] = other[place[i]][k]
    BY DEF Placed
  <2> QED
    BY <2>1, <2>2, <2>3, <2>4, <2>5, <2>6
<1>2. Collides(maps, at, k) <=> \E i, j \in at : Clash(i, j)
  BY DEF Collides
<1>3. Collides(other, Placed(place, at), k) <=>
        \E x, y \in Placed(place, at) : ClashThere(x, y)
  BY DEF Collides
<1> HIDE DEF Clash, ClashThere
<1>4. (\E x, y \in Placed(place, at) : ClashThere(x, y)) <=>
        \E i, j \in at : ClashThere(place[i], place[j])
  BY DEF Placed
<1> QED
  BY <1>1, <1>2, <1>3, <1>4

-----------------------------------------------------------------------------
(* The inductive invariant.                                                  *)

IsItem(v) == v \in Values \/ (v = List(v.items) /\ v.items \in Seq(Items))

LEMMA CombinedType ==
  ASSUME NEW v, IsItem(v), NEW w \in Values
  PROVE  IsItem(Combined(v, w))
<1>1. Elements(v) \in Seq(Items)
  <2>1. CASE v \in Values
    BY <2>1, ValueTypes
  <2>2. CASE v = List(v.items) /\ v.items \in Seq(Items)
    <3>1. v.kind = "list"
      BY <2>2 DEF List
    <3> QED
      BY <2>2, <3>1 DEF Elements
  <2> QED
    BY <2>1, <2>2 DEF IsItem
<1>2. Append(Elements(v), w) \in Seq(Items)
  BY <1>1, ValueTypes, AppendProperties
<1>3. Combined(v, w) = List(Append(Elements(v), w))
  BY CombinedAppends
<1>4. List(Append(Elements(v), w)).items = Append(Elements(v), w)
  BY DEF List
<1> QED
  BY <1>2, <1>3, <1>4 DEF IsItem

LEMMA MapTypes ==
  ASSUME TypeOK
  PROVE  /\ DOMAIN data = 1 .. Len(data) /\ Len(data) \in Nat
         /\ \A i \in DOMAIN data : DOMAIN data[i] \subseteq Keys
         /\ \A i \in DOMAIN data : \A k \in DOMAIN data[i] : data[i][k] \in Values
         /\ \A k : Having(data, k) \in SUBSET Nat /\ Seen(k) \in SUBSET Nat
<1>1. data \in Seq(Data)
  BY DEF TypeOK
<1>2. /\ DOMAIN data = 1 .. Len(data) /\ Len(data) \in Nat
      /\ \A i \in DOMAIN data : data[i] \in Data
  BY <1>1
<1> QED
  BY <1>2 DEF Keys, Values, Having, Seen

LEMMA ChainTypes ==
  ASSUME TypeOK
  PROVE  /\ DOMAIN chain = 1 .. Len(chain) /\ Len(chain) \in Nat
         /\ \A i \in DOMAIN chain : chain[i].logs \in BOOLEAN
         /\ \A i \in DOMAIN chain : chain[i].logs => chain[i].data \in Data
         /\ \A i \in DOMAIN chain : ~chain[i].logs => DOMAIN chain[i].data = {}
<1>1. chain \in Seq(Errors)
  BY DEF TypeOK
<1>2. /\ DOMAIN chain = 1 .. Len(chain) /\ Len(chain) \in Nat
      /\ \A i \in DOMAIN chain : chain[i] \in Errors
  BY <1>1
<1>3. ASSUME NEW e \in Errors
      PROVE  /\ e.logs \in BOOLEAN
             /\ e.logs => e.data \in Data
             /\ ~e.logs => DOMAIN e.data = {}
  <2>1. CASE e \in [logs : {TRUE}, data : Data]
    BY <2>1
  <2>2. CASE e = [logs |-> FALSE, data |-> NoData]
    BY <2>2 DEF NoData
  <2> QED
    BY <2>1, <2>2 DEF Errors
<1> QED
  BY <1>2, <1>3

LEMMA InitInv == Init => Inv
<1> SUFFICES ASSUME Init PROVE Inv
  OBVIOUS
<1>1. PICK n \in 0 .. MaxLevels : chain \in [1 .. n -> Errors]
  BY DEF Init
<1>2. chain \in Seq(Errors) /\ Len(chain) = n
  BY <1>1, MaxLevelsAssumption
<1>3. data \in Seq(Data) /\ Len(data) = 0
  BY DEF Init
<1>4. DOMAIN logData = {}
  BY DEF Init, NoData
<1>5. TypeOK
  BY <1>2, <1>3, <1>4, MaxLevelsAssumption DEF Init, TypeOK
<1>6. InOrder
  BY <1>3 DEF Init, InOrder
<1>7. Collected
  <2>1. Logged = {}
    BY DEF Init, Logged
  <2>2. PICK from : from = [i \in 1 .. 0 |-> 0]
    OBVIOUS
  <2>3. from \in [1 .. Len(data) -> Logged] /\ DOMAIN data = {}
    BY <1>3, <2>1, <2>2 DEF Init
  <2>4. Enumerates(from, Logged)
    BY <2>1, <2>2 DEF Enumerates, Range
  <2> QED
    BY <2>3, <2>4 DEF Collected
<1>8. Merged
  BY DEF Init, Merged
<1> QED
  BY <1>5, <1>6, <1>7, <1>8 DEF Inv

LEMMA UnwrapInv == Inv /\ Unwrap => Inv'
<1> SUFFICES ASSUME Inv, Unwrap PROVE Inv'
  OBVIOUS
<1>1. /\ TypeOK /\ InOrder /\ Collected
      /\ pc = "unwrap" /\ pc' = pc /\ chain' = chain /\ level' = level + 1
      /\ todo' = todo /\ logData' = logData
  BY DEF Inv, Unwrap
<1>2. /\ level \in Nat /\ 1 <= level /\ level < Len(chain) /\ Len(chain) <= MaxLevels
      /\ Len(chain) \in Nat /\ MaxLevels \in Nat
      /\ Len(data) < level /\ todo = {} /\ logData = NoData
      /\ Len(data) \in Nat /\ data \in Seq(Data) /\ level \in DOMAIN chain
  BY <1>1, ChainTypes, MaxLevelsAssumption DEF TypeOK, InOrder, Unwrap, Wraps
<1>3. Merged'
  BY <1>1 DEF Merged
<1>4. Logged = {i \in 1 .. level - 1 : chain[i].logs}
  BY <1>1 DEF Logged
<1>5. PICK from \in [1 .. Len(data) -> Logged] :
        /\ Enumerates(from, Logged)
        /\ \A i \in DOMAIN data : data[i] = chain[from[i]].data
  BY <1>1 DEF Collected
<1>6. CASE chain[level].logs
  <2>1. data' = Append(data, chain[level].data) /\ chain[level].data \in Data
    BY <1>1, <1>2, <1>6, ChainTypes DEF Unwrap
  <2>2. /\ data' \in Seq(Data) /\ Len(data') = Len(data) + 1
        /\ \A i \in 1 .. Len(data) : data'[i] = data[i]
        /\ data'[Len(data) + 1] = chain[level].data
    BY <1>2, <2>1, AppendProperties
  <2>3. TypeOK' /\ InOrder'
    BY <1>1, <1>2, <2>2 DEF TypeOK, InOrder
  <2>4. Logged' = Logged \cup {level}
    BY <1>1, <1>2, <1>4, <1>6 DEF Logged
  <2>5. Logged \in SUBSET Nat /\ (\A i \in Logged : i < level)
    BY <1>2, <1>4
  <2>6. PICK t : t = Extended(from, Len(data), level)
    OBVIOUS
  <2>7. t \in [1 .. Len(data) + 1 -> Logged \cup {level}] /\ Enumerates(t, Logged \cup {level})
    BY <1>2, <1>5, <2>5, <2>6, EnumeratesMore
  <2>8. \A i \in 1 .. Len(data) + 1 : data'[i] = chain[t[i]].data
    <3>1. \A i \in 1 .. Len(data) : t[i] = from[i] /\ data[i] = chain[from[i]].data
      <4>1. DOMAIN data = 1 .. Len(data)
        BY <1>2
      <4>2. \A i \in 1 .. Len(data) : t[i] = from[i]
        BY <1>2, <2>6 DEF Extended
      <4> QED
        BY <1>5, <4>1, <4>2
    <3>2. t[Len(data) + 1] = level
      BY <1>2, <2>6 DEF Extended
    <3>3. ASSUME NEW i \in 1 .. Len(data) + 1
          PROVE  data'[i] = chain[t[i]].data
      <4>1. i \in 1 .. Len(data) \/ i = Len(data) + 1
        BY <1>2
      <4> QED
        BY <2>2, <3>1, <3>2, <4>1
    <3> QED
      BY <3>3
  <2>9. DOMAIN data' = 1 .. Len(data) + 1
    BY <1>2, <2>2
  <2>10. Collected'
    BY <1>1, <2>2, <2>4, <2>7, <2>8, <2>9 DEF Collected
  <2> QED
    BY <1>3, <2>3, <2>10 DEF Inv
<1>7. CASE ~chain[level].logs
  <2>1. data' = data
    BY <1>7 DEF Unwrap
  <2>2. TypeOK' /\ InOrder'
    BY <1>1, <1>2, <2>1 DEF TypeOK, InOrder
  <2>3. Logged' = Logged
    BY <1>1, <1>2, <1>4, <1>7 DEF Logged
  <2>4. Collected'
    BY <1>1, <1>5, <2>1, <2>3 DEF Collected
  <2> QED
    BY <1>3, <2>2, <2>4 DEF Inv
<1> QED
  BY <1>2, <1>6, <1>7, ChainTypes

\* The maps collected stay as they are once the whole chain has been read.
LEMMA CollectedStays ==
  ASSUME Collected, pc # "unwrap", pc' # "unwrap", UNCHANGED <<chain, data>>
  PROVE  Collected'
<1>1. Logged' = Logged
  BY DEF Logged
<1>2. PICK from \in [1 .. Len(data) -> Logged] :
        /\ Enumerates(from, Logged)
        /\ \A i \in DOMAIN data : data[i] = chain[from[i]].data
  BY DEF Collected
<1> QED
  BY <1>1, <1>2 DEF Collected

LEMMA StartMergeInv == Inv /\ StartMerge => Inv'
<1> SUFFICES ASSUME Inv, StartMerge PROVE Inv'
  OBVIOUS
<1>1. /\ TypeOK /\ InOrder /\ Collected
      /\ pc = "unwrap" /\ pc' \in {"merge", "done"} /\ level' = 1
      /\ chain' = chain /\ data' = data /\ logData' = logData
      /\ pc' = "merge" => 1 <= Len(data) /\ todo' = DOMAIN data[1]
      /\ pc' = "done" => ~(1 <= Len(data)) /\ todo' = {}
  BY DEF Inv, StartMerge, Enter
<1>2. /\ Len(data) \in Nat /\ Len(chain) \in Nat /\ MaxLevels \in Nat /\ 1 <= MaxLevels
      /\ level \in Nat /\ 1 <= level
  BY <1>1, MapTypes, ChainTypes, MaxLevelsAssumption DEF TypeOK
<1>3. TypeOK'
  <2>1. todo' \subseteq Keys
    BY <1>1, <1>2, MapTypes
  <2> QED
    BY <1>1, <1>2, <2>1 DEF TypeOK
<1>4. InOrder'
  BY <1>1, <1>2 DEF InOrder
<1>5. Collected'
  <2>1. level = 1 \/ level <= Len(chain)
    BY <1>1 DEF InOrder
  <2>2. Len(chain) <= level
    BY <1>2 DEF StartMerge, Wraps
  <2>3. 1 .. level - 1 = 1 .. Len(chain) - 1
    BY <1>2, <2>1, <2>2
  <2>4. Logged' = Logged
    BY <1>1, <2>3 DEF Logged
  <2>5. PICK from \in [1 .. Len(data) -> Logged] :
          /\ Enumerates(from, Logged)
          /\ \A i \in DOMAIN data : data[i] = chain[from[i]].data
    BY <1>1 DEF Collected
  <2> QED
    BY <1>1, <2>4, <2>5 DEF Collected
<1>6. Merged'
  <2>1. DOMAIN logData' = {}
    BY <1>1 DEF InOrder, NoData
  <2>2. \A k : Seen(k)' = {}
    <3>1. ASSUME NEW k, NEW i \in Having(data, k), i < 1 \/ (i = 1 /\ k \notin todo')
          PROVE  FALSE
      <4>1. i \in 1 .. Len(data) /\ k \in DOMAIN data[i]
        BY <1>1, <3>1, MapTypes DEF Having
      <4> QED
        BY <1>1, <1>2, <3>1, <4>1
    <3> QED
      BY <1>1, <3>1 DEF Seen
  <2>3. pc' # "panicked"
    BY <1>1
  <2> QED
    BY <2>1, <2>2, <2>3 DEF Merged
<1> QED
  BY <1>3, <1>4, <1>5, <1>6 DEF Inv

LEMMA NextMapInv == Inv /\ NextMap => Inv'
<1> SUFFICES ASSUME Inv, NextMap PROVE Inv'
  OBVIOUS
<1>1. /\ TypeOK /\ InOrder /\ Collected /\ Merged
      /\ pc = "merge" /\ pc' \in {"merge", "done"} /\ level' = level + 1 /\ todo = {}
      /\ chain' = chain /\ data' = data /\ logData' = logData
      /\ pc' = "merge" => level + 1 <= Len(data) /\ todo' = DOMAIN data[level + 1]
      /\ pc' = "done" => ~(level + 1 <= Len(data)) /\ todo' = {}
  BY DEF Inv, NextMap, Enter
<1>2. /\ Len(data) \in Nat /\ MaxLevels \in Nat /\ Len(data) < MaxLevels
      /\ level \in Nat /\ 1 <= level /\ level <= Len(data)
  BY <1>1, MapTypes, MaxLevelsAssumption DEF TypeOK, InOrder
<1>3. TypeOK'
  <2>1. todo' \subseteq Keys
    BY <1>1, <1>2, MapTypes
  <2> QED
    BY <1>1, <1>2, <2>1 DEF TypeOK
<1>4. InOrder'
  BY <1>1, <1>2 DEF InOrder
<1>5. Collected'
  BY <1>1, CollectedStays
<1>6. \A k : Seen(k)' = Seen(k)
  <2>1. ASSUME NEW k, NEW i \in Having(data, k)
        PROVE  (i < level + 1 \/ (i = level + 1 /\ k \notin todo')) <=>
                 (i < level \/ (i = level /\ k \notin todo))
    <3>1. i \in 1 .. Len(data) /\ k \in DOMAIN data[i]
      BY <1>1, MapTypes DEF Having
    <3> QED
      BY <1>1, <1>2, <3>1
  <2> QED
    BY <1>1, <2>1 DEF Seen
<1>7. Merged'
  BY <1>1, <1>6 DEF Merged
<1> QED
  BY <1>3, <1>4, <1>5, <1>7 DEF Inv

LEMMA MergeKeyInv == ASSUME NEW k PROVE Inv /\ MergeKey(k) => Inv'
<1> SUFFICES ASSUME Inv, MergeKey(k) PROVE Inv'
  OBVIOUS
<1> DEFINE w == data[level][k]
           at == Seen(k)
<1>1. /\ TypeOK /\ InOrder /\ Collected /\ Merged
      /\ pc = "merge" /\ k \in todo /\ todo' = todo \ {k}
      /\ chain' = chain /\ data' = data /\ level' = level
  BY DEF Inv, MergeKey
<1>2. /\ Len(data) \in Nat /\ DOMAIN data = 1 .. Len(data)
      /\ level \in Nat /\ level \in DOMAIN data /\ todo \subseteq DOMAIN data[level]
      /\ todo \subseteq Keys
  BY <1>1, MapTypes DEF TypeOK, InOrder
<1>3. /\ w \in Values /\ k \in Keys
      /\ at \in SUBSET Nat /\ (\A i \in at : i < level)
      /\ \A i \in at \cup {level} : data[i][k] \in Values
      /\ \A i \in at : data[i][k] \in Values
  <2>1. \A i \in at : i \in DOMAIN data /\ k \in DOMAIN data[i]
    BY DEF Seen, Having
  <2>2. at \in SUBSET Nat /\ (\A i \in at : i < level)
    BY <1>1, <1>2, MapTypes DEF Seen
  <2> QED
    BY <1>1, <1>2, <2>1, <2>2, MapTypes
<1>4. /\ Seen(k)' = at \cup {level}
      /\ \A x \in Keys : x # k => Seen(x)' = Seen(x)
  BY <1>1, <1>2 DEF Seen, Having
<1>5. /\ DOMAIN logData = {x \in Keys : Seen(x) # {}}
      /\ \A x \in DOMAIN logData : IsMergeOf(logData[x], data, Seen(x), x) /\ ~Collides(data, Seen(x), x)
      /\ \A x \in DOMAIN logData : IsItem(logData[x])
  BY <1>1 DEF Merged, TypeOK, IsItem
<1>6. pc' \in {"merge", "panicked"}
  BY <1>1 DEF MergeKey
<1>7. InOrder' /\ Collected'
  BY <1>1, <1>2, <1>6, CollectedStays DEF InOrder
<1>8. ASSUME IsItem(logData'[k]) \/ logData' = logData,
             logData' = logData \/ DOMAIN logData' = DOMAIN logData \cup {k},
             \A x \in DOMAIN logData : x # k => logData'[x] = logData[x]
      PROVE  TypeOK'
  <2>1. DOMAIN logData' \subseteq Keys /\ (\A x \in DOMAIN logData' : IsItem(logData'[x]))
    BY <1>3, <1>5, <1>8
  <2> QED
    BY <1>1, <1>2, <1>6, <2>1 DEF TypeOK, IsItem
<1>9. ASSUME pc' = pc,
             DOMAIN logData' = DOMAIN logData \cup {k},
             \A x \in DOMAIN logData : x # k => logData'[x] = logData[x],
             IsMergeOf(logData'[k], data, at \cup {level}, k),
             ~Collides(data, at \cup {level}, k)
      PROVE  Merged'
  <2>1. DOMAIN logData' = {x \in Keys : Seen(x)' # {}}
    BY <1>3, <1>4, <1>5, <1>9
  <2>2. ASSUME NEW x \in DOMAIN logData'
        PROVE  IsMergeOf(logData'[x], data', Seen(x)', x) /\ ~Collides(data', Seen(x)', x)
    <3>1. CASE x = k
      BY <1>1, <1>4, <1>9, <3>1
    <3>2. CASE x # k
      <4>1. x \in DOMAIN logData /\ x \in Keys /\ logData'[x] = logData[x]
        BY <1>5, <1>9, <3>2
      <4> QED
        BY <1>1, <1>4, <1>5, <3>2, <4>1
    <3> QED
      BY <3>1, <3>2
  <2> QED
    BY <1>1, <1>9, <2>1, <2>2 DEF Merged
<1> HIDE DEF w, at
<1>10. CASE k \notin DOMAIN logData /\ Set(k, w) /\ pc' = pc
  <2>1. /\ DOMAIN logData' = DOMAIN logData \cup {k} /\ logData'[k] = w
        /\ \A x \in DOMAIN logData : x # k => logData'[x] = logData[x]
    BY <1>10 DEF Set
  <2>2. at = {}
    BY <1>3, <1>5, <1>10 DEF at
  <2>3. IsMergeOf(logData'[k], data, at \cup {level}, k)
    BY <1>2, <2>1, <2>2, OneValue DEF w
  <2>4. ~Collides(data, at \cup {level}, k)
    BY <1>2, <2>2 DEF Collides
  <2>5. Merged'
    BY <1>9, <1>10, <2>1, <2>3, <2>4
  <2>6. TypeOK'
    BY <1>3, <1>8, <2>1 DEF IsItem
  <2> QED
    BY <1>7, <2>5, <2>6 DEF Inv
<1>11. CASE /\ k \in DOMAIN logData /\ Incomparable(logData[k], w)
            /\ pc' = "panicked" /\ UNCHANGED logData
  <2>1. Collides(data, at \cup {level}, k)
    BY <1>2, <1>3, <1>5, <1>11, PanicIsCollision DEF w, at
  <2>2. /\ at \cup {level} \subseteq Having(data, k) /\ Having(data, k) \in SUBSET Nat
        /\ \A h \in Having(data, k), j \in at \cup {level} : h < j => h \in at \cup {level}
    <3>1. at \cup {level} \subseteq Having(data, k) /\ Having(data, k) \in SUBSET Nat
      BY <1>1, <1>2, MapTypes DEF at, Seen, Having
    <3>2. \A j \in at \cup {level} : j <= level /\ j \in Nat
      BY <1>2, <1>3
    <3>3. \A h \in Having(data, k) : h < level => h \in at
      BY DEF at, Seen
    <3> QED
      BY <1>2, <3>1, <3>2, <3>3
  <2>3. Collides(data, Having(data, k), k)
    BY <1>2, <1>3, <2>1, <2>2, CollisionStays
  <2>4. Merged'
    BY <1>1, <1>3, <1>11, <2>3 DEF Merged
  <2>5. TypeOK'
    BY <1>8, <1>11
  <2> QED
    BY <1>7, <2>4, <2>5 DEF Inv
<1>12. CASE /\ k \in DOMAIN logData /\ ~Incomparable(logData[k], w) /\ pc' = pc
            /\ logData[k] = w /\ UNCHANGED logData
  <2>1. w.kind # "list"
    BY <1>12 DEF Incomparable
  <2>2. IsMergeOf(w, data, at, k) /\ ~Collides(data, at, k)
    BY <1>5, <1>12 DEF at
  <2>3. IsMergeOf(w, data, at \cup {level}, k)
    BY <1>2, <1>3, <2>1, <2>2, SameAgain DEF w
  <2>4. ~Collides(data, at \cup {level}, k)
    BY <1>2, <1>3, <1>12, <2>2, ComparableIsSafe DEF w
  <2>5. Merged'
    BY <1>9, <1>12, <2>3, <2>4
  <2>6. TypeOK'
    BY <1>8, <1>12
  <2> QED
    BY <1>7, <2>5, <2>6 DEF Inv
<1>13. CASE /\ k \in DOMAIN logData /\ ~Incomparable(logData[k], w) /\ pc' = pc
            /\ logData[k] # w /\ Set(k, Combined(logData[k], w))
  <2>1. /\ DOMAIN logData' = DOMAIN logData \cup {k} /\ logData'[k] = Combined(logData[k], w)
        /\ \A x \in DOMAIN logData : x # k => logData'[x] = logData[x]
    BY <1>13 DEF Set
  <2>2. IsMergeOf(logData[k], data, at, k) /\ ~Collides(data, at, k) /\ IsItem(logData[k])
    BY <1>5, <1>13 DEF at
  <2>3. IsMergeOf(logData'[k], data, at \cup {level}, k)
    <3>1. logData[k] # data[level][k]
      BY <1>13 DEF w
    <3>2. /\ at \in SUBSET Nat /\ level \in Nat /\ (\A i \in at : i < level)
          /\ \A i \in at \cup {level} : data[i][k] \in Values
      BY <1>2, <1>3
    <3>3. IsMergeOf(Combined(logData[k], data[level][k]), data, at \cup {level}, k)
      BY <2>2, <3>1, <3>2, OneMore
    <3> QED
      BY <2>1, <3>3 DEF w
  <2>4. ~Collides(data, at \cup {level}, k)
    BY <1>2, <1>3, <1>13, <2>2, ComparableIsSafe DEF w
  <2>5. Merged'
    BY <1>9, <1>13, <2>1, <2>3, <2>4
  <2>6. TypeOK'
    BY <1>3, <1>8, <2>1, <2>2, CombinedType
  <2> QED
    BY <1>7, <2>5, <2>6 DEF Inv
<1> QED
  BY <1>10, <1>11, <1>12, <1>13 DEF MergeKey, w

LEMMA StepInv == Inv /\ [Next]_vars => Inv'
<1>1. CASE HasEnded \/ UNCHANGED vars
  <2>1. ASSUME Inv, UNCHANGED vars
        PROVE  Inv'
    <3>1. Logged' = Logged /\ (\A k : Seen(k)' = Seen(k))
      BY <2>1 DEF vars, Logged, Seen
    <3>2. TypeOK' /\ InOrder' /\ Collected'
      BY <2>1, <3>1 DEF Inv, vars, TypeOK, InOrder, Collected
    <3>3. Merged'
      BY <2>1, <3>1 DEF Inv, vars, Merged
    <3> QED
      BY <3>2, <3>3 DEF Inv
  <2> QED
    BY <1>1, <2>1 DEF HasEnded
<1> QED
  BY <1>1, UnwrapInv, StartMergeInv, NextMapInv, MergeKeyInv DEF Next

\* What has been collected and merged is, at each step of the loops, the merge of the
\* part of the chain they have seen.
THEOREM Invariance == Spec => []Inv
BY InitInv, StepInv, PTL DEF Spec

\* Every variable of LogData keeps its type, whatever the log data hold.
THEOREM TypeCorrectness == Spec => []TypeOK
<1>1. Inv => TypeOK
  BY DEF Inv
<1> QED
  BY <1>1, Invariance, PTL

-----------------------------------------------------------------------------
(* What the invariant says of the result.                                    *)

\* The places of a key in the maps collected are those it has along the chain.
LEMMA SameHaving ==
  ASSUME TypeOK, Collected, pc # "unwrap", NEW k
  PROVE  \E place :
           /\ Embeds(place, Having(data, k), data, Along, k)
           /\ Placed(place, Having(data, k)) = Having(Along, k)
<1>1. Logged = {i \in 1 .. Len(chain) - 1 : chain[i].logs}
  BY DEF Logged
<1>2. PICK from \in [1 .. Len(data) -> Logged] :
        /\ Enumerates(from, Logged)
        /\ \A i \in DOMAIN data : data[i] = chain[from[i]].data
  BY DEF Collected
<1>3. /\ DOMAIN data = 1 .. Len(data) /\ DOMAIN Along = 1 .. Len(chain) - 1
      /\ \A i \in 1 .. Len(chain) - 1 : Along[i] = chain[i].data
      /\ 1 .. Len(chain) - 1 \subseteq DOMAIN chain
      /\ 1 .. Len(chain) - 1 \subseteq Nat
      /\ Having(data, k) \subseteq DOMAIN data
  BY MapTypes, ChainTypes DEF Along, Having
<1>4. ASSUME NEW i \in Having(data, k)
      PROVE  /\ from[i] \in 1 .. Len(chain) - 1 /\ from[i] \in Nat
             /\ Along[from[i]] = data[i] /\ from[i] \in Having(Along, k)
  <2>1. i \in 1 .. Len(data) /\ k \in DOMAIN data[i]
    BY <1>3 DEF Having
  <2>2. from[i] \in 1 .. Len(chain) - 1
    BY <1>1, <1>2, <2>1
  <2>3. Along[from[i]] = data[i]
    BY <1>2, <1>3, <2>1, <2>2
  <2> QED
    BY <1>3, <2>1, <2>2, <2>3 DEF Having
<1>5. ASSUME NEW i \in Having(data, k), NEW j \in Having(data, k), i < j
      PROVE  from[i] < from[j]
  BY <1>2, <1>3, <1>5 DEF Enumerates
<1>6. Embeds(from, Having(data, k), data, Along, k)
  BY <1>4, <1>5 DEF Embeds
<1>7. ASSUME NEW y \in Having(Along, k)
      PROVE  \E i \in Having(data, k) : y = from[i]
  <2>1. y \in 1 .. Len(chain) - 1 /\ k \in DOMAIN chain[y].data
    BY <1>3 DEF Having
  <2>2. y \in Logged
    BY <1>1, <1>3, <2>1, ChainTypes
  <2>3. PICK i \in 1 .. Len(data) : from[i] = y
    BY <1>2, <2>2 DEF Enumerates, Range
  <2>4. i \in Having(data, k)
    BY <1>2, <1>3, <2>1, <2>3 DEF Having
  <2> QED
    BY <2>3, <2>4
<1>8. Placed(from, Having(data, k)) = Having(Along, k)
  BY <1>4, <1>7 DEF Placed
<1> QED
  BY <1>6, <1>8

LEMMA AllSeen ==
  ASSUME TypeOK, InOrder, pc = "done", NEW k
  PROVE  Seen(k) = Having(data, k)
<1>1. /\ level = Len(data) + 1 /\ Len(data) \in Nat
      /\ \A i \in Having(data, k) : i \in 1 .. Len(data)
  BY MapTypes DEF InOrder, Having
<1>2. \A i \in Having(data, k) : i < level
  BY <1>1
<1> QED
  BY <1>2 DEF Seen

\* Whatever the order of the keys and the length of the chain, the log data is that of
\* the reference.
THEOREM MergesAreReference == Spec => []MergeIsReference
<1>1. Inv => MergeIsReference
  <2> SUFFICES ASSUME Inv, pc = "done" PROVE MergeIsReference
    BY DEF MergeIsReference
  <2>1. TypeOK /\ InOrder /\ Collected /\ Merged
    BY DEF Inv
  <2>2. ASSUME NEW k
        PROVE  Having(data, k) = {} <=> Having(Along, k) = {}
    <3>1. PICK place : Placed(place, Having(data, k)) = Having(Along, k)
      BY <2>1, SameHaving
    <3> QED
      BY <3>1 DEF Placed
  <2>3. DOMAIN logData = {k \in Keys : Having(Along, k) # {}}
    BY <2>1, <2>2, AllSeen DEF Merged
  <2>4. ASSUME NEW k \in DOMAIN logData
        PROVE  IsMergeOf(logData[k], Along, Having(Along, k), k)
    <3>1. IsMergeOf(logData[k], data, Having(data, k), k)
      BY <2>1, AllSeen DEF Merged
    <3>2. PICK place : /\ Embeds(place, Having(data, k), data, Along, k)
                       /\ Placed(place, Having(data, k)) = Having(Along, k)
      BY <2>1, SameHaving
    <3>3. /\ Having(data, k) \in SUBSET Nat
          /\ \A i \in Having(data, k) : data[i][k] \in Values
      BY <2>1, MapTypes DEF Having
    <3>4. IsMergeOf(logData[k], Along, Placed(place, Having(data, k)), k)
      BY <3>1, <3>2, <3>3, MergePlaced
    <3> QED
      BY <3>2, <3>4
  <2> QED
    BY <2>3, <2>4 DEF MergeIsReference
<1> QED
  BY <1>1, Invariance, PTL

\* A failed request loses its answer to a panic in unwrapLogData exactly when values
\* of its chain collide.
THEOREM PanicsHaveCauses == Spec => []PanicHasCause
<1>1. Inv => PanicHasCause
  <2> SUFFICES ASSUME Inv, Ended
               PROVE  pc = "panicked" <=> \E k \in Keys : Collides(Along, Having(Along, k), k)
    BY DEF PanicHasCause
  <2>1. TypeOK /\ InOrder /\ Collected /\ Merged /\ pc \in {"done", "panicked"}
    BY DEF Inv, Ended
  <2>2. ASSUME NEW k
        PROVE  Collides(Along, Having(Along, k), k) <=> Collides(data, Having(data, k), k)
    <3>1. PICK place : /\ Embeds(place, Having(data, k), data, Along, k)
                       /\ Placed(place, Having(data, k)) = Having(Along, k)
      BY <2>1, SameHaving
    <3>2. Having(data, k) \in SUBSET Nat
      BY <2>1, MapTypes
    <3>3. Collides(Along, Placed(place, Having(data, k)), k) <=> Collides(data, Having(data, k), k)
      BY <3>1, <3>2, CollisionPlaced
    <3> QED
      BY <3>1, <3>3
  <2>3. CASE pc = "panicked"
    BY <2>1, <2>2, <2>3 DEF Merged
  <2>4. CASE pc = "done"
    <3>1. ASSUME NEW k \in Keys
          PROVE  ~Collides(data, Having(data, k), k)
      <4>1. Seen(k) = Having(data, k)
        BY <2>1, <2>4, AllSeen
      <4>2. CASE k \in DOMAIN logData
        BY <2>1, <2>4, <4>1, <4>2 DEF Merged
      <4>3. CASE k \notin DOMAIN logData
        <5>1. Having(data, k) = {}
          BY <2>1, <2>4, <4>1, <4>3 DEF Merged
        <5> QED
          BY <5>1 DEF Collides
      <4> QED
        BY <4>2, <4>3
    <3> QED
      BY <2>2, <2>4, <3>1
  <2> QED
    BY <2>1, <2>3, <2>4
<1> QED
  BY <1>1, Invariance, PTL
=============================================================================
