-------------------------- MODULE HistoryViewsProofs --------------------------
(***************************************************************************)
(* What TLAPS proves of HistoryViews, for any captured history: that the   *)
(* three views of the readers are what their properties say of them.       *)
(***************************************************************************)
EXTENDS HistoryViews, FiniteSetTheorems, SequenceTheorems, TLAPS

-----------------------------------------------------------------------------
(* Induction over a set of natural numbers.  The theorems of the library   *)
(* have an operator for what is proved, and here it is a set: what holds   *)
(* of 0 and of every successor of what it holds of.                        *)

\* A set with 0 and all successors of its members has every natural number.
LEMMA SetInduction ==
  ASSUME NEW T, 0 \in T, \A n \in Nat : n \in T => n + 1 \in T
  PROVE  Nat \subseteq T
<1> DEFINE less == OpToRel(<, Nat)
           rest == Nat \ T
<1>1. SUFFICES ASSUME rest # {} PROVE FALSE
  OBVIOUS
<1>2. IsWellFoundedOn(less, Nat)
  BY NatLessThanWellFounded, Zenon
<1>3. \A m, n \in Nat : <<m, n>> \in less <=> m < n
  BY DEF OpToRel
<1> HIDE DEF less
<1>4. PICK n \in rest : \A m \in rest : <<m, n>> \notin less
  <2>1. rest \subseteq Nat
    OBVIOUS
  <2> HIDE DEF rest
  <2> QED
    BY <1>1, <1>2, <2>1, WFMin
<1>5. n # 0 /\ n \in Nat
  OBVIOUS
<1>6. n - 1 \in Nat /\ n - 1 < n /\ (n - 1) + 1 = n
  BY <1>5
<1>7. n - 1 \in T
  BY <1>3, <1>4, <1>5, <1>6
<1> QED
  BY <1>6, <1>7, <1>4

\* A set of natural numbers with a member has a least one.
LEMMA LeastOfNats ==
  ASSUME NEW T \in SUBSET Nat, T # {}
  PROVE  \E n \in T : \A m \in T : n <= m
<1> DEFINE less == OpToRel(<, Nat)
<1>2. IsWellFoundedOn(less, Nat)
  BY NatLessThanWellFounded, Zenon
<1>3. \A m, n \in Nat : <<m, n>> \in less <=> m < n
  BY DEF OpToRel
<1> HIDE DEF less
<1>4. PICK n \in T : \A m \in T : <<m, n>> \notin less
  BY <1>2, WFMin
<1>5. ASSUME NEW m \in T PROVE n <= m
  <2>1. m \in Nat /\ n \in Nat /\ ~(m < n)
    BY <1>3, <1>4
  <2> QED
    BY <2>1
<1> QED
  BY <1>5

\* A set of natural numbers with a member, none above a bound, has a greatest one.
LEMMA GreatestOfNats ==
  ASSUME NEW N \in Nat, NEW T \in SUBSET (0..N), T # {}
  PROVE  \E n \in T : \A m \in T : m <= n
<1> DEFINE back == {N - n : n \in T}
<1>1. back \in SUBSET Nat /\ back # {}
  <2>1. \A n \in T : N - n \in Nat
    OBVIOUS
  <2> QED
    BY <2>1
<1>2. PICK k \in back : \A m \in back : k <= m
  <2> HIDE DEF back
  <2> QED
    BY <1>1, LeastOfNats
<1>3. PICK n \in T : k = N - n
  OBVIOUS
<1>4. ASSUME NEW m \in T PROVE m <= n
  <2>1. N - m \in back
    OBVIOUS
  <2> QED
    <3>1. k <= N - m /\ k = N - n /\ m \in 0..N /\ n \in 0..N
      BY <2>1, <1>2, <1>3
    <3> HIDE DEF back
    <3> QED
      BY <3>1
<1> QED
  BY <1>4

-----------------------------------------------------------------------------
(* Orders and the lists that ORDER BY makes of them. *)

\* A strict total order of S, as the set of its pairs.
StrictOrder(S, R) ==
  /\ \A x \in S : <<x, x>> \notin R
  /\ \A x, y, z \in S : <<x, y>> \in R /\ <<y, z>> \in R => <<x, z>> \in R
  /\ \A x, y \in S : x # y => <<x, y>> \in R \/ <<y, x>> \in R

\* In an order, what comes sooner has less before it.
LEMMA FewerAhead ==
  ASSUME NEW S, IsFiniteSet(S), NEW R, StrictOrder(S, R)
  PROVE  /\ \A x \in S : Cardinality(Ahead(S, R, x)) \in 0..(Cardinality(S) - 1)
         /\ \A x, y \in S :
              <<x, y>> \in R <=> Cardinality(Ahead(S, R, x)) < Cardinality(Ahead(S, R, y))
<1>1. ASSUME NEW x \in S
      PROVE  IsFiniteSet(Ahead(S, R, x)) /\ Cardinality(Ahead(S, R, x)) \in 0..(Cardinality(S) - 1)
  <2>1. Ahead(S, R, x) \subseteq S \ {x}
    BY DEF Ahead, StrictOrder
  <2>2. IsFiniteSet(S \ {x}) /\ Cardinality(S \ {x}) = Cardinality(S) - 1
    BY FS_RemoveElement
  <2>3. IsFiniteSet(Ahead(S, R, x)) /\ Cardinality(Ahead(S, R, x)) <= Cardinality(S \ {x})
    BY <2>1, <2>2, FS_Subset
  <2> QED
    BY <2>2, <2>3, FS_CardinalityType
<1>2. ASSUME NEW x \in S, NEW y \in S, <<x, y>> \in R
      PROVE  Cardinality(Ahead(S, R, x)) < Cardinality(Ahead(S, R, y))
  <2>1. Ahead(S, R, x) \subseteq Ahead(S, R, y)
    BY <1>2 DEF Ahead, StrictOrder
  <2>2. x \in Ahead(S, R, y) /\ x \notin Ahead(S, R, x)
    BY <1>2 DEF Ahead, StrictOrder
  <2>3. /\ Cardinality(Ahead(S, R, x)) <= Cardinality(Ahead(S, R, y))
        /\ Cardinality(Ahead(S, R, x)) # Cardinality(Ahead(S, R, y))
    BY <2>1, <2>2, <1>1, FS_Subset
  <2> QED
    BY <2>3, <1>1
<1>3. ASSUME NEW x \in S, NEW y \in S,
             Cardinality(Ahead(S, R, x)) < Cardinality(Ahead(S, R, y))
      PROVE  <<x, y>> \in R
  <2>1. x # y
    BY <1>1, <1>3
  <2>2. CASE <<y, x>> \in R
    BY <1>1, <1>2, <1>3, <2>2
  <2> QED
    BY <2>1, <2>2 DEF StrictOrder
<1> QED
  BY <1>1, <1>2, <1>3

\* Every number of things before it is that of one member of the set.
LEMMA EachPlace ==
  ASSUME NEW S, IsFiniteSet(S), NEW R, StrictOrder(S, R), NEW n \in 1..Cardinality(S)
  PROVE  \E x \in S : Cardinality(Ahead(S, R, x)) = n - 1
<1> DEFINE N == Cardinality(S)
           place == [x \in S |-> Cardinality(Ahead(S, R, x))]
<1>1. N \in Nat
  BY FS_CardinalityType
<1>2. place \in [S -> 0..(N - 1)] /\ \A x, y \in S : <<x, y>> \in R <=> place[x] < place[y]
  BY FewerAhead
<1>3. \A x, y \in S : place[x] = place[y] => x = y
  <2> HIDE DEF place
  <2> QED
    BY <1>1, <1>2 DEF StrictOrder
<1>4. place \in Injection(S, 0..(N - 1))
  <2> HIDE DEF place
  <2> QED
    BY <1>2, <1>3 DEF Injection, IsInjective
<1>5. IsFiniteSet(0..(N - 1)) /\ Cardinality(0..(N - 1)) = N
  <2>1. 0 \in Int /\ N - 1 \in Int /\ (0 > N - 1 => N = 0) /\ N - 1 - 0 + 1 = N
    BY <1>1
  <2> HIDE DEF N
  <2> QED
    BY <2>1, FS_Interval
<1>6. place \in Surjection(S, 0..(N - 1))
  <2> HIDE DEF place
  <2> QED
    BY <1>4, <1>5, FS_Injection
<1>7. n - 1 \in 0..(N - 1)
  BY <1>1
<1> QED
  BY <1>6, <1>7 DEF Surjection

\* A list has every member of a set once, in an order.
Lists(L, S, R) ==
  /\ L \in Seq(S) /\ Len(L) = Cardinality(S)
  /\ \A x \in S : \E n \in 1..Len(L) : L[n] = x
  /\ \A m, n \in 1..Len(L) : m < n => <<L[m], L[n]>> \in R

\* ORDER BY lists what it orders.
LEMMA OrderedLists ==
  ASSUME NEW S, IsFiniteSet(S), NEW R, StrictOrder(S, R)
  PROVE  Lists(Ordered(S, R), S, R)
<1> DEFINE L == Ordered(S, R)
           N == Cardinality(S)
<1>1. N \in Nat
  BY FS_CardinalityType
<1>2. ASSUME NEW n \in 1..N PROVE L[n] \in S /\ Cardinality(Ahead(S, R, L[n])) = n - 1
  <2>1. L[n] = CHOOSE x \in S : Cardinality(Ahead(S, R, x)) = n - 1
    BY DEF Ordered
  <2> HIDE DEF L
  <2> QED
    BY <2>1, EachPlace
<1>3. L = [n \in 1..N |-> L[n]]
  BY DEF Ordered
<1> HIDE DEF L
<1>4. L \in [1..N -> S]
  BY <1>2, <1>3
<1>5. L \in Seq(S) /\ Len(L) = N
  BY <1>1, <1>4, IsASeq, LenProperties
<1>6. ASSUME NEW x \in S PROVE \E n \in 1..N : L[n] = x
  <2> DEFINE n == Cardinality(Ahead(S, R, x)) + 1
  <2>1. n \in 1..N /\ n - 1 = Cardinality(Ahead(S, R, x))
    BY <1>1, FewerAhead
  <2>2. L[n] \in S /\ Cardinality(Ahead(S, R, L[n])) = Cardinality(Ahead(S, R, x))
    BY <2>1, <1>2
  <2> HIDE DEF n
  <2>3. <<L[n], x>> \notin R /\ <<x, L[n]>> \notin R
    <3>1. Cardinality(Ahead(S, R, x)) \in Nat
      BY <1>1, FewerAhead
    <3> QED
      BY <2>2, <3>1, FewerAhead
  <2> QED
    BY <2>1, <2>2, <2>3 DEF StrictOrder
<1>7. ASSUME NEW m \in 1..N, NEW n \in 1..N, m < n PROVE <<L[m], L[n]>> \in R
  <2>1. Cardinality(Ahead(S, R, L[m])) < Cardinality(Ahead(S, R, L[n]))
    BY <1>1, <1>2, <1>7
  <2> QED
    BY <2>1, <1>2, FewerAhead
<1>8. Lists(L, S, R)
  BY <1>5, <1>6, <1>7 DEF Lists
<1> QED
  BY <1>8 DEF L

-----------------------------------------------------------------------------
(* The captured history: what there is to read at any moment. *)

\* The rows a world has.
RowsOf(w) ==
  [kind : w.kinds \cup {"screen"}, at : Nat, end : Nat, window : w.windows,
   text : w.texts \cup {NoText}, bytes : {0, 1}]

\* A row begins in the past and ends when it began or later; a screenshot is a moment.
InTime(row) ==
  /\ row.at <= row.end /\ row.at <= now
  /\ row.kind = "screen" => row.end = row.at /\ row.bytes = 1

\* What the readers meet at any moment.
HistoryInv ==
  /\ world \in Worlds /\ now \in Nat
  /\ rows \in Seq(RowsOf(world)) /\ Len(rows) <= world.rows
  /\ \A i \in Rowids : InTime(rows[i])
  /\ vectors \subseteq {i \in Rowids : rows[i].text # NoText}

\* A row appended to the history is a row of it, after those there were.
LEMMA AppendedRow ==
  ASSUME HistoryInv, NEW row \in RowsOf(world), InTime(row), Len(rows) < world.rows,
         rows' = Append(rows, row), UNCHANGED <<world, now, vectors>>
  PROVE  HistoryInv'
<1>1. rows' \in Seq(RowsOf(world)) /\ Len(rows') = Len(rows) + 1 /\ Len(rows) \in Nat
  BY AppendProperties DEF HistoryInv
<1>2. \A i \in 1..Len(rows') : rows'[i] = IF i <= Len(rows) THEN rows[i] ELSE row
  BY AppendProperties DEF HistoryInv
<1>3. DOMAIN rows = 1..Len(rows) /\ DOMAIN rows' = 1..Len(rows')
  BY <1>1, LenProperties DEF HistoryInv
<1>4. Len(rows') <= world.rows
  BY <1>1, HistoryAssumption DEF HistoryInv
<1>5. \A i \in DOMAIN rows' : InTime(rows'[i])
  BY <1>1, <1>2, <1>3 DEF HistoryInv, Rowids
<1>6. vectors \subseteq {i \in DOMAIN rows' : rows'[i].text # NoText}
  BY <1>1, <1>2, <1>3 DEF HistoryInv, Rowids
<1> QED
  BY <1>1, <1>4, <1>5, <1>6 DEF HistoryInv, Rowids, InTime

\* Nor does a row that is changed, but for its text, disturb the others.
LEMMA ChangedRow ==
  ASSUME HistoryInv, NEW i \in Rowids, NEW row \in RowsOf(world), InTime(row),
         rows[i].text # NoText => row.text # NoText,
         rows' = [rows EXCEPT ![i] = row], UNCHANGED <<world, now, vectors>>
  PROVE  HistoryInv'
<1>1. rows' \in Seq(RowsOf(world)) /\ Len(rows') = Len(rows)
  BY ExceptSeq DEF HistoryInv, Rowids
<1>2. DOMAIN rows' = DOMAIN rows /\ \A j \in DOMAIN rows : rows'[j] = IF j = i THEN row ELSE rows[j]
  BY DEF Rowids
<1>3. \A j \in DOMAIN rows' : InTime(rows'[j])
  BY <1>2 DEF HistoryInv, Rowids
<1>4. vectors \subseteq {j \in DOMAIN rows' : rows'[j].text # NoText}
  BY <1>2 DEF HistoryInv, Rowids
<1> QED
  BY <1>1, <1>3, <1>4 DEF HistoryInv, Rowids, InTime

\* The history keeps its shape.
LEMMA HistoryStep == HistoryInv /\ [Next]_vars => HistoryInv'
<1> SUFFICES ASSUME HistoryInv, [Next]_vars PROVE HistoryInv'
  OBVIOUS
<1>0. \A i \in Rowids : rows[i] \in RowsOf(world) /\ InTime(rows[i])
  BY ElementOfSeq, LenProperties DEF HistoryInv, Rowids
<1>1. CASE CaptureScreen
  <2>1. PICK at \in (now - 1)..now, window \in world.windows, text \in world.texts \cup {NoText} :
          at >= 0 /\ rows' = Append(rows, Screenshot(at, window, text))
    BY <1>1 DEF CaptureScreen
  <2>2. at \in Nat /\ at <= now
    BY <2>1 DEF HistoryInv
  <2>3. Screenshot(at, window, text) \in RowsOf(world) /\ InTime(Screenshot(at, window, text))
    BY <2>2 DEF Screenshot, RowsOf, InTime
  <2> QED
    BY <1>1, <2>1, <2>3, AppendedRow DEF CaptureScreen
<1>2. CASE OpenAudio
  <2>1. PICK kind \in world.kinds \ {"screen"}, window \in world.windows :
          rows' = Append(rows, AudioChunk(kind, window))
    BY <1>2 DEF OpenAudio
  <2>2. AudioChunk(kind, window) \in RowsOf(world) /\ InTime(AudioChunk(kind, window))
    BY DEF AudioChunk, RowsOf, InTime, HistoryInv
  <2> QED
    BY <1>2, <2>1, <2>2, AppendedRow DEF OpenAudio
<1>3. CASE CloseAudio
  <2>1. PICK i \in Rowids :
          rows[i].bytes = 0 /\ rows' = [rows EXCEPT ![i].bytes = 1, ![i].end = now]
    BY <1>3 DEF CloseAudio, Rowids
  <2> DEFINE row == [rows[i] EXCEPT !.bytes = 1, !.end = now]
  <2>2. row \in RowsOf(world) /\ row.text = rows[i].text
    BY <1>0 DEF RowsOf, HistoryInv
  <2>3. InTime(row)
    <3>1. rows[i] \in RowsOf(world) /\ InTime(rows[i]) /\ now \in Nat /\ rows[i].bytes = 0
      BY <1>0, <2>1 DEF HistoryInv
    <3>2. row.at = rows[i].at /\ row.end = now /\ row.kind = rows[i].kind
      BY <3>1 DEF RowsOf
    <3> QED
      BY <3>1, <3>2 DEF InTime, RowsOf
  <2>4. rows' = [rows EXCEPT ![i] = row]
    BY <2>1
  <2> HIDE DEF row
  <2> QED
    BY <1>3, <2>2, <2>3, <2>4, ChangedRow DEF CloseAudio
<1>4. CASE Transcribe
  <2>1. PICK i \in Rowids, text \in world.texts :
          rows[i].text = NoText /\ rows' = [rows EXCEPT ![i].text = text]
    BY <1>4 DEF Transcribe, Rowids
  <2> DEFINE row == [rows[i] EXCEPT !.text = text]
  <2>2. row \in RowsOf(world)
    BY <1>0 DEF RowsOf
  <2>3. InTime(row)
    BY <1>0 DEF RowsOf, InTime
  <2>4. rows' = [rows EXCEPT ![i] = row]
    BY <2>1
  <2> HIDE DEF row
  <2> QED
    BY <1>4, <2>1, <2>2, <2>3, <2>4, ChangedRow DEF Transcribe
<1>5. CASE EmbedRow
  BY <1>5 DEF EmbedRow, HistoryInv, Rowids, InTime
<1>6. CASE Tick
  <2>1. now' \in Nat /\ now <= now' /\ now \in Nat
    BY <1>6 DEF Tick, HistoryInv
  <2>2. ASSUME NEW i \in Rowids PROVE InTime(rows[i])'
    <3>1. rows[i].at \in Nat /\ rows' = rows
      BY <1>0, <1>6 DEF RowsOf, Tick
    <3> QED
      BY <1>0, <2>1, <3>1 DEF InTime
  <2> QED
    BY <1>6, <2>1, <2>2 DEF Tick, HistoryInv, Rowids
<1>7. CASE UNCHANGED vars
  BY <1>7 DEF vars, HistoryInv, Rowids, InTime
<1> QED
  BY <1>1, <1>2, <1>3, <1>4, <1>5, <1>6, <1>7 DEF Next

\* Every state that is reached has such a history.
LEMMA HistoryIsSound == Spec => []HistoryInv
<1>1. Init => HistoryInv
  <2> SUFFICES ASSUME Init PROVE HistoryInv
    OBVIOUS
  <2>1. rows \in Seq(RowsOf(world)) /\ Len(rows) = 0 /\ DOMAIN rows = {}
    BY EmptySeq DEF Init
  <2> QED
    BY <2>1, HistoryAssumption DEF Init, HistoryInv, Rowids
<1> QED
  BY <1>1, HistoryStep, PTL DEF Spec

-----------------------------------------------------------------------------
(* Rows in order. *)

\* The three orders are orders of any rows.
LEMMA RowOrders ==
  ASSUME HistoryInv, NEW S \in SUBSET Rowids
  PROVE  /\ IsFiniteSet(S) /\ \A i \in S : At(i) \in Nat
         /\ StrictOrder(S, Earlier) /\ StrictOrder(S, Later) /\ StrictOrder(S, OldestFirst)
<1>1. Rowids = 1..Len(rows) /\ Len(rows) \in Nat
  BY LenProperties DEF HistoryInv, Rowids
<1>2. IsFiniteSet(S) /\ \A i \in S : i \in Nat
  <2>1. IsFiniteSet(1..Len(rows))
    BY <1>1, FS_Interval
  <2>2. IsFiniteSet(S)
    BY <2>1, <1>1, FS_Subset
  <2> QED
    BY <2>2, <1>1
<1>3. \A i \in Rowids : At(i) \in Nat
  <2>1. \A i \in Rowids : rows[i] \in RowsOf(world)
    BY ElementOfSeq, <1>1 DEF HistoryInv
  <2> QED
    BY <2>1 DEF RowsOf, At
<1>4. \A x, y \in S : /\ <<x, y>> \in Earlier <=> At(x) < At(y) \/ (At(x) = At(y) /\ x < y)
                      /\ <<x, y>> \in Later <=> At(y) < At(x) \/ (At(y) = At(x) /\ y < x)
                      /\ <<x, y>> \in OldestFirst <=> At(x) < At(y) \/ (At(x) = At(y) /\ x > y)
  BY DEF Earlier, Later, OldestFirst
<1>5. \A x \in S : At(x) \in Nat
  BY <1>3
<1>6. StrictOrder(S, Earlier)
  BY <1>2, <1>4, <1>5 DEF StrictOrder
<1>7. StrictOrder(S, Later)
  BY <1>2, <1>4, <1>5 DEF StrictOrder
<1>8. StrictOrder(S, OldestFirst)
  BY <1>2, <1>4, <1>5 DEF StrictOrder
<1> QED
  BY <1>2, <1>5, <1>6, <1>7, <1>8

\* The last of a list is what all the others come before.
LEMMA LastOfList ==
  ASSUME NEW S, IsFiniteSet(S), NEW R, StrictOrder(S, R), NEW L, Lists(L, S, R),
         NEW z \in S, \A y \in S : y = z \/ <<y, z>> \in R
  PROVE  L # <<>> /\ Last(L) = z
<1>1. PICK k \in 1..Len(L) : L[k] = z
  BY DEF Lists
<1>2. Len(L) \in Nat /\ Len(L) >= 1 /\ L # <<>> /\ Len(L) \in 1..Len(L)
  BY <1>1, LenProperties DEF Lists
<1>3. Last(L) = L[Len(L)] /\ L[Len(L)] \in S
  BY <1>2, ElementOfSeq DEF Last, Lists
<1>4. CASE k = Len(L)
  BY <1>1, <1>2, <1>3, <1>4
<1>5. CASE k < Len(L)
  <2>1. <<z, L[Len(L)]>> \in R
    BY <1>1, <1>2, <1>5 DEF Lists
  <2> QED
    BY <2>1, <1>2, <1>3 DEF StrictOrder
<1> QED
  BY <1>1, <1>2, <1>4, <1>5

\* ORDER BY with LIMIT 1 is the first.
LEMMA BestIsFirst ==
  ASSUME NEW S, IsFiniteSet(S), NEW R, StrictOrder(S, R), S # {}
  PROVE  \E b \in S : Best(S, R, 1) = {b} /\ \A y \in S : y = b \/ <<b, y>> \in R
<1>1. Cardinality(S) \in Nat /\ Cardinality(S) # 0
  BY FS_CardinalityType, FS_EmptySet
<1>2. 1 \in 1..Cardinality(S)
  BY <1>1
<1>3. PICK b \in S : Cardinality(Ahead(S, R, b)) = 0
  <2>1. \E b \in S : Cardinality(Ahead(S, R, b)) = 1 - 1
    BY <1>2, EachPlace
  <2> QED
    BY <2>1
<1>4. ASSUME NEW y \in S, y # b
      PROVE  <<b, y>> \in R /\ Cardinality(Ahead(S, R, y)) \in Nat \ {0}
  <2>1. Cardinality(Ahead(S, R, y)) \in Nat
    BY FewerAhead, <1>1
  <2>2. <<y, b>> \notin R
    BY FewerAhead, <2>1, <1>3
  <2>3. <<b, y>> \in R
    BY <2>2, <1>4 DEF StrictOrder
  <2> QED
    BY <2>1, <2>3, <1>3, FewerAhead
<1>5. Best(S, R, 1) = {b}
  <2>1. ASSUME NEW x \in S PROVE Cardinality(Ahead(S, R, x)) < 1 <=> x = b
    <3>1. CASE x = b
      <4>1. Cardinality(Ahead(S, R, x)) = 0
        BY <1>3, <3>1
      <4> QED
        BY <3>1, <4>1
    <3>2. CASE x # b
      <4>1. Cardinality(Ahead(S, R, x)) \in Nat \ {0}
        BY <1>4, <3>2
      <4> QED
        BY <3>2, <4>1
    <3> QED
      BY <3>1, <3>2
  <2> QED
    BY <2>1 DEF Best
<1> QED
  BY <1>4, <1>5

\* A list of nothing and a list of one.
LEMMA ShortLists ==
  ASSUME NEW R
  PROVE  /\ Ordered({}, R) = <<>>
         /\ \A b : StrictOrder({b}, R) => Ordered({b}, R) = <<b>>
<1>1. Ordered({}, R) = <<>>
  BY FS_EmptySet DEF Ordered
<1>2. ASSUME NEW b, StrictOrder({b}, R) PROVE Ordered({b}, R) = <<b>>
  <2> DEFINE L == Ordered({b}, R)
  <2>1. IsFiniteSet({b}) /\ Cardinality({b}) = 1
    BY FS_Singleton
  <2>2. Lists(L, {b}, R)
    BY <2>1, <1>2, OrderedLists
  <2> HIDE DEF L
  <2>3. L \in Seq({b}) /\ Len(L) = 1 /\ L[1] = b
    BY <2>1, <2>2, ElementOfSeq DEF Lists
  <2>4. L = <<b>>
    BY <2>3
  <2> QED
    BY <2>4 DEF L
<1> QED
  BY <1>1, <1>2

\* Max is the greatest.
LEMMA MaxOfNats ==
  ASSUME NEW N \in Nat, NEW T \in SUBSET (0..N), T # {}
  PROVE  Max(T) \in T /\ \A m \in T : m <= Max(T)
<1>1. PICK n \in T : \A m \in T : m <= n
  BY GreatestOfNats
<1>2. n \in T /\ \A m \in T : n >= m
  BY <1>1
<1>3. Max(T) \in T /\ \A m \in T : Max(T) >= m
  BY <1>2 DEF Max
<1> QED
  BY <1>3

-----------------------------------------------------------------------------
(* replay *)

\* What the list of screenshots of a range is: the last one until its begin, if
\* there is one, and those in the range as they were taken.
LEMMA ScreenshotList ==
  ASSUME HistoryInv, NEW from \in Nat, NEW to \in Nat
  PROVE  LET list == Screenshots(from, to)
         IN  /\ list \in Seq(Screens(0, from) \cup Screens(from + 1, to))
             /\ \A y \in Screens(from + 1, to) : \E n \in DOMAIN list : list[n] = y
             /\ \A m, n \in DOMAIN list :
                  m < n => list[n] \in Screens(from + 1, to)
                           /\ (list[m] \in Screens(0, from) \/ <<list[m], list[n]>> \in Earlier)
             /\ Screens(0, from) # {} =>
                  /\ 1 \in DOMAIN list /\ list[1] \in Screens(0, from)
                  /\ \A y \in Screens(0, from) : y = list[1] \/ <<y, list[1]>> \in Earlier
<1> DEFINE B == Screens(0, from)
           I == Screens(from + 1, to)
           prior == Ordered(Best(B, Later, 1), Later)
           rest  == Ordered(I, Earlier)
           list  == prior \o rest
<1>1. B \in SUBSET Rowids /\ I \in SUBSET Rowids
  BY DEF Screens
<1> HIDE DEF B, I
<1>2. /\ IsFiniteSet(B) /\ StrictOrder(B, Later)
      /\ IsFiniteSet(I) /\ StrictOrder(I, Earlier)
  BY <1>1, RowOrders
<1>3. Lists(rest, I, Earlier)
  BY <1>2, OrderedLists
<1>4. CASE B = {}
  <2>1. Best(B, Later, 1) = {}
    BY <1>4 DEF Best
  <2>2. prior = <<>>
    BY <2>1, ShortLists
  <2> HIDE DEF prior, rest
  <2>3. list = rest /\ rest \in Seq(I)
    BY <1>3, <2>2 DEF Lists
  <2> HIDE DEF list
  <2>4. DOMAIN list = 1..Len(list) /\ \A n \in DOMAIN list : list[n] \in I
    BY <2>3, ElementOfSeq, LenProperties
  <2>5. list \in Seq(B \cup I)
    BY <2>3, <1>4
  <2>6. /\ \A y \in I : \E n \in DOMAIN list : list[n] = y
        /\ \A m, n \in DOMAIN list : m < n => <<list[m], list[n]>> \in Earlier
    BY <1>3, <2>3, <2>4 DEF Lists
  <2> QED
    BY <2>4, <2>5, <2>6, <1>4 DEF list, B, I, prior, rest, Screenshots
<1>5. CASE B # {}
  <2>1. PICK b \in B : Best(B, Later, 1) = {b} /\ \A y \in B : y = b \/ <<b, y>> \in Later
    BY <1>2, <1>5, BestIsFirst
  <2>2. {b} \in SUBSET Rowids /\ StrictOrder({b}, Later)
    BY <1>1, RowOrders
  <2>3. prior = <<b>>
    BY <2>1, <2>2, ShortLists
  <2> HIDE DEF prior, rest
  <2>4. rest \in Seq(I) /\ Len(rest) \in Nat
    BY <1>3, LenProperties DEF Lists
  <2>5. /\ list \in Seq(B \cup I) /\ Len(list) = Len(rest) + 1
        /\ \A n \in 1..(Len(rest) + 1) : list[n] = IF n = 1 THEN b ELSE rest[n - 1]
    <3>1. prior \in Seq(B \cup I) /\ rest \in Seq(B \cup I) /\ Len(prior) = 1 /\ prior[1] = b
      BY <2>1, <2>3, <2>4
    <3> DEFINE U == B \cup I
    <3> HIDE DEF U
    <3>2. /\ prior \o rest \in Seq(U) /\ Len(prior \o rest) = Len(prior) + Len(rest)
          /\ \A n \in 1..(Len(prior) + Len(rest)) :
               (prior \o rest)[n] = IF n <= Len(prior) THEN prior[n] ELSE rest[n - Len(prior)]
      BY <3>1, ConcatProperties DEF U
    <3> HIDE DEF list
    <3>3. /\ list \in Seq(U) /\ Len(list) = Len(prior) + Len(rest)
          /\ \A n \in 1..(Len(prior) + Len(rest)) :
               list[n] = IF n <= Len(prior) THEN prior[n] ELSE rest[n - Len(prior)]
      BY <3>2 DEF list
    <3> QED
      BY <2>4, <3>1, <3>3 DEF U
  <2> HIDE DEF list
  <2>6. DOMAIN list = 1..(Len(rest) + 1)
    BY <2>5, LenProperties
  <2>7. \A y \in B : y = b \/ <<y, b>> \in Earlier
    BY <1>1, <2>1 DEF Later
  <2>8. ASSUME NEW n \in DOMAIN list, n # 1
        PROVE  n - 1 \in 1..Len(rest) /\ list[n] = rest[n - 1] /\ list[n] \in I
    <3>1. n - 1 \in 1..Len(rest)
      BY <2>4, <2>6, <2>8
    <3> QED
      BY <2>4, <2>5, <2>6, <2>8, <3>1, ElementOfSeq
  <2>9. ASSUME NEW m \in DOMAIN list, NEW n \in DOMAIN list, m < n
        PROVE  list[n] \in I /\ (list[m] \in B \/ <<list[m], list[n]>> \in Earlier)
    <3>1. n # 1
      BY <2>6, <2>9
    <3>2. CASE m = 1
      BY <2>1, <2>4, <2>5, <2>8, <3>1, <3>2
    <3>3. CASE m # 1
      <4>1. m - 1 < n - 1
        BY <2>4, <2>6, <2>9
      <4> QED
        BY <1>3, <2>8, <3>1, <3>3, <4>1 DEF Lists
    <3> QED
      BY <3>2, <3>3
  <2>10. ASSUME NEW y \in I PROVE \E n \in DOMAIN list : list[n] = y
    <3>1. PICK n \in 1..Len(rest) : rest[n] = y
      BY <1>3 DEF Lists
    <3>2. n + 1 \in DOMAIN list /\ n + 1 # 1 /\ (n + 1) - 1 = n
      BY <2>4, <2>6
    <3> QED
      BY <2>8, <3>1, <3>2
  <2>11. 1 \in DOMAIN list /\ list[1] = b
    BY <2>4, <2>5, <2>6
  <2> QED
    BY <2>5, <2>7, <2>9, <2>10, <2>11, <2>1 DEF list, B, I, prior, rest, Screenshots
<1> QED
  BY <1>4, <1>5

\* activeByStart finds the last screenshot until a moment of the range.
LEMMA ShownIsLast ==
  ASSUME HistoryInv, NEW from \in Nat, NEW to \in Nat, from <= to, NEW at \in 0..(to - from)
  PROVE  LET taken == Ordered(Screens(0, from + at), Earlier)
             shown == Shown(from, to, at)
         IN  IF taken = <<>> THEN shown = 0
             ELSE shown > 0 /\ Screenshots(from, to)[shown] = Last(taken)
<1> DEFINE B == Screens(0, from)
           I == Screens(from + 1, to)
           S == Screens(0, from + at)
           list == Screenshots(from, to)
           T == {n \in DOMAIN list : OffsetStart(list[n], from) <= at}
<1>1. /\ list \in Seq(B \cup I)
      /\ \A y \in I : \E n \in DOMAIN list : list[n] = y
      /\ \A m, n \in DOMAIN list :
           m < n => list[n] \in I /\ (list[m] \in B \/ <<list[m], list[n]>> \in Earlier)
      /\ B # {} => /\ 1 \in DOMAIN list /\ list[1] \in B
                   /\ \A y \in B : y = list[1] \/ <<y, list[1]>> \in Earlier
  BY ScreenshotList
<1>2. /\ \A i \in B : i \in Rowids /\ At(i) \in Nat /\ At(i) <= from
      /\ \A i \in I : i \in Rowids /\ At(i) \in Nat /\ At(i) > from
      /\ \A i \in Rowids : i \in S <=> (i \in B \cup I) /\ At(i) <= from + at
      /\ S \subseteq Rowids
  <2>1. \A i \in Rowids : At(i) \in Nat
    BY RowOrders
  <2> QED
    BY <2>1 DEF Screens
<1>3. IsFiniteSet(S) /\ StrictOrder(S, Earlier)
  BY <1>2, RowOrders
<1>4. Lists(Ordered(S, Earlier), S, Earlier)
  BY <1>3, OrderedLists
<1>5. \A x, y \in S : <<x, y>> \in Earlier <=> At(x) < At(y) \/ (At(x) = At(y) /\ x < y)
  BY <1>2 DEF Earlier
<1>6. DOMAIN list = 1..Len(list) /\ Len(list) \in Nat /\ \A n \in DOMAIN list : list[n] \in B \cup I
  <2> HIDE DEF list
  <2> QED
    BY <1>1, ElementOfSeq, LenProperties
<1> HIDE DEF B, I, S, list
<1>7. ASSUME NEW n \in DOMAIN list
      PROVE  list[n] \in Rowids /\ (n \in T <=> list[n] \in S)
  <2>1. list[n] \in B \cup I /\ list[n] \in Rowids /\ At(list[n]) \in Nat
    BY <1>2, <1>6
  <2>2. OffsetStart(list[n], from) <= at <=> At(list[n]) <= from + at
    BY <2>1 DEF OffsetStart
  <2> QED
    BY <1>2, <2>1, <2>2
<1>8. Shown(from, to, at) = Recent(T)
  BY DEF Shown, list
<1> HIDE DEF T
<1>9. T \subseteq DOMAIN list /\ T \subseteq 0..Len(list)
  BY <1>6 DEF T
<1>10. CASE T = {}
  <2>1. ASSUME NEW y \in S PROVE FALSE
    <3>1. CASE y \in B
      BY <1>1, <1>2, <1>7, <1>10, <3>1
    <3>2. CASE y \in I
      BY <1>1, <1>7, <1>10, <3>2
    <3> QED
      BY <1>2, <3>1, <3>2
  <2>2. Ordered(S, Earlier) = <<>>
    BY <2>1, ShortLists
  <2>3. Recent(T) = 0
    BY <1>10 DEF Recent
  <2> QED
    BY <1>8, <2>2, <2>3 DEF S
<1>11. CASE T # {}
  <2> DEFINE m == Max(T)
  <2>1. m \in T /\ \A n \in T : n <= m
    BY <1>6, <1>9, <1>11, MaxOfNats
  <2>2. Shown(from, to, at) = m
    BY <1>8, <1>11 DEF Recent
  <2> HIDE DEF m
  <2>3. m \in DOMAIN list /\ m > 0 /\ list[m] \in S
    BY <2>1, <1>6, <1>7, <1>9
  <2>4. ASSUME NEW y \in S PROVE y = list[m] \/ <<y, list[m]>> \in Earlier
    <3>1. CASE y \in I
      <4>1. PICK n \in DOMAIN list : list[n] = y
        BY <1>1, <3>1
      <4>2. n <= m
        BY <1>7, <2>1, <4>1
      <4>3. CASE n = m
        BY <4>1, <4>3
      <4>4. CASE n < m
        <5>1. list[n] \notin B
          BY <4>1, <3>1, <1>2
        <5> QED
          BY <1>1, <2>3, <4>1, <4>4, <5>1
      <4> QED
        BY <1>6, <2>3, <4>2, <4>3, <4>4
    <3>2. CASE y \in B
      <4>1. /\ 1 \in DOMAIN list /\ list[1] \in B
            /\ y = list[1] \/ <<y, list[1]>> \in Earlier
        BY <1>1, <3>2
      <4>2. CASE m = 1
        BY <4>1, <4>2
      <4>3. CASE m # 1
        <5>0. 1 < m
          BY <1>6, <2>3, <4>3
        <5>1. list[m] \in I
          BY <1>1, <2>3, <4>1, <5>0
        <5>2. At(y) < At(list[m])
          BY <5>1, <3>2, <1>2
        <5> QED
          BY <1>5, <2>3, <5>2
      <4> QED
        BY <4>2, <4>3
    <3> QED
      BY <1>2, <3>1, <3>2
  <2>5. Ordered(S, Earlier) # <<>> /\ Last(Ordered(S, Earlier)) = list[m]
    BY <1>3, <1>4, <2>3, <2>4, LastOfList
  <2> QED
    BY <2>2, <2>3, <2>5 DEF S, list
<1> QED
  BY <1>10, <1>11

\* A complete chunk that overlaps what is left of a range is found and played in
\* step with its recording, to its end or that of the range.
LEMMA AudioInStep ==
  ASSUME HistoryInv, NEW from \in Nat, NEW to \in Nat, from <= to, NEW at \in 0..(to - from),
         NEW i \in Rowids, rows[i].bytes > 0, rows[i].end > from + at, rows[i].at <= to,
         at < to - from
  PROVE  /\ Contains(AudioOf(rows[i].kind, from, to), i)
         /\ Playable(i, from, to, at)
         /\ BlobPosition(i, from, at) = PlayStart(i, from, at) + from - rows[i].at
         /\ PlayStart(i, from, at) + PlayLength(i, from, to, at) = Min({rows[i].end, to}) - from
<1> DEFINE begin == rows[i].at
           end == rows[i].end
           S == {j \in Rowids : rows[j].kind = rows[i].kind /\ rows[j].end >= from /\ At(j) <= to}
<1>1. begin \in Nat /\ end \in Nat /\ begin <= end /\ At(i) = begin
  <2>1. rows[i] \in RowsOf(world)
    BY ElementOfSeq, LenProperties DEF HistoryInv, Rowids
  <2> QED
    BY <2>1 DEF RowsOf, HistoryInv, InTime, At
<1>2. Contains(AudioOf(rows[i].kind, from, to), i)
  <2>1. i \in S
    BY <1>1
  <2>2. IsFiniteSet(S) /\ StrictOrder(S, Earlier)
    <3>1. S \in SUBSET Rowids
      OBVIOUS
    <3> QED
      BY <3>1, RowOrders
  <2>3. AudioOf(rows[i].kind, from, to) = Ordered(S, Earlier)
    BY DEF AudioOf
  <2> HIDE DEF S
  <2> QED
    BY <2>1, <2>2, <2>3, OrderedLists DEF Lists, Contains
<1>3. Min({end, to}) = IF end < to THEN end ELSE to
  <2> HIDE DEF end
  <2>1. \E x \in {end, to} : \A y \in {end, to} : x <= y
    BY <1>1
  <2>2. Min({end, to}) \in {end, to} /\ \A y \in {end, to} : Min({end, to}) <= y
    BY <2>1 DEF Min
  <2> QED
    BY <1>1, <2>2
<1>4. PlayStart(i, from, at) = IF begin > from + at THEN begin - from ELSE at
  BY <1>1 DEF PlayStart, OffsetStart
<1>5. OffsetEnd(i, from, to) = IF end < to THEN end - from ELSE to - from
  BY <1>1 DEF OffsetEnd
<1>6. BlobStart(i, from) = (IF from > begin THEN from - begin ELSE 0)
      /\ OffsetStart(i, from) = (IF begin > from THEN begin - from ELSE 0)
  BY <1>1 DEF BlobStart, OffsetStart
<1> HIDE DEF begin, end
<1>7. Playable(i, from, to, at)
  BY <1>1, <1>5 DEF Playable, end
<1>8. BlobPosition(i, from, at) = (PlayStart(i, from, at) + from) - begin
  BY <1>1, <1>4, <1>6 DEF BlobPosition
<1>9. PlayStart(i, from, at) + PlayLength(i, from, to, at) = Min({end, to}) - from
  <2>1. end - begin - BlobPosition(i, from, at) = (end - from) - PlayStart(i, from, at)
    BY <1>1, <1>4, <1>8
  <2>2. PlayLength(i, from, to, at) = (IF end < to THEN end ELSE to) - from - PlayStart(i, from, at)
    BY <1>1, <1>4, <1>5, <2>1 DEF PlayLength, begin, end
  <2> QED
    BY <1>1, <1>3, <1>4, <2>2
<1>10. BlobPosition(i, from, at) = PlayStart(i, from, at) + from - begin
  BY <1>1, <1>4, <1>8
<1> QED
  BY <1>2, <1>7, <1>9, <1>10 DEF begin, end

\* A replay shows at every moment of its range the last screenshot taken until
\* then, and plays the audio of that moment in step.
THEOREM ReplayStaysInSync == Spec => []ReplayInSync
<1>1. HistoryInv => ReplayInSync
  <2> SUFFICES ASSUME HistoryInv,
                      NEW from \in 0..world.until, NEW to \in from..world.until,
                      NEW at \in 0..(to - from)
               PROVE  /\ LET taken == Ordered(Screens(0, from + at), Earlier)
                             shown == Shown(from, to, at)
                         IN  IF taken = <<>> THEN shown = 0
                             ELSE shown > 0 /\ Screenshots(from, to)[shown] = Last(taken)
                      /\ \A i \in DOMAIN rows :
                           (rows[i].kind # "screen" /\ rows[i].bytes > 0
                              /\ rows[i].end > from + at /\ rows[i].at <= to /\ at < to - from) =>
                             /\ Contains(AudioOf(rows[i].kind, from, to), i)
                             /\ Playable(i, from, to, at)
                             /\ BlobPosition(i, from, at)
                                  = PlayStart(i, from, at) + from - rows[i].at
                             /\ PlayStart(i, from, at) + PlayLength(i, from, to, at)
                                  = Min({rows[i].end, to}) - from
    BY DEF ReplayInSync
  <2>1. from \in Nat /\ to \in Nat /\ from <= to
    BY HistoryAssumption DEF HistoryInv
  <2> QED
    BY <2>1, ShownIsLast, AudioInStep DEF Rowids
<1> QED
  BY <1>1, HistoryIsSound, PTL

-----------------------------------------------------------------------------
(* Rankings. *)

\* An order puts smaller scores first.
Rises(S, R, score) ==
  /\ \A x \in S : score[x] \in Nat
  /\ \A x, y \in S : <<x, y>> \in R => score[x] <= score[y]

\* What has a score up to v, and what is in the first n places.
UpTo(S, score, v) == {x \in S : score[x] <= v}
Top(L, n) == {L[k] : k \in 1..n}

\* A list has different members, and so many of them in its first places.
LEMMA FirstPlaces ==
  ASSUME NEW S, IsFiniteSet(S), NEW R, StrictOrder(S, R), NEW L, Lists(L, S, R),
         NEW j \in Nat, j <= Len(L)
  PROVE  /\ \A m, n \in 1..Len(L) : L[m] = L[n] => m = n
         /\ IsFiniteSet(Top(L, j)) /\ Cardinality(Top(L, j)) = j
<1> DEFINE T == Top(L, j)
           f == [k \in 1..j |-> L[k]]
<1>1. Len(L) \in Nat /\ \A n \in 1..Len(L) : L[n] \in S
  BY ElementOfSeq, LenProperties DEF Lists
<1>2. ASSUME NEW m \in 1..Len(L), NEW n \in 1..Len(L), L[m] = L[n] PROVE m = n
  <2>1. CASE m < n
    BY <1>1, <1>2, <2>1 DEF Lists, StrictOrder
  <2>2. CASE n < m
    BY <1>1, <1>2, <2>2 DEF Lists, StrictOrder
  <2> QED
    BY <1>1, <2>1, <2>2
<1>3. \A k \in 1..j : k \in 1..Len(L)
  BY <1>1
<1>4. f \in [1..j -> T] /\ \A k \in 1..j : f[k] = L[k]
  BY DEF Top
<1>5. \A t \in T : \E k \in 1..j : f[k] = t
  BY <1>4 DEF Top
<1>6. f \in Bijection(1..j, T)
  <2> HIDE DEF f, T
  <2>1. f \in Injection(1..j, T)
    BY <1>2, <1>3, <1>4 DEF Injection, IsInjective
  <2>2. f \in Surjection(1..j, T)
    BY <1>4, <1>5 DEF Surjection
  <2> QED
    BY <2>1, <2>2 DEF Bijection
<1>7. IsFiniteSet(1..j) /\ Cardinality(1..j) = j
  <2>1. 1 \in Int /\ j \in Int /\ (1 > j => j = 0) /\ (j - 1) + 1 = j
    OBVIOUS
  <2> QED
    BY <2>1, FS_Interval
<1>8. IsFiniteSet(T) /\ Cardinality(T) = j
  <2> HIDE DEF f, T
  <2>1. ExistsBijection(1..j, T)
    BY <1>6 DEF ExistsBijection
  <2> QED
    BY <1>7, <2>1, FS_Bijection
<1> QED
  BY <1>2, <1>8

\* The score in a place of a ranking: it is at most v if so many have such a score.
LEMMA ScoreInPlace ==
  ASSUME NEW S, IsFiniteSet(S), NEW R, StrictOrder(S, R), NEW L, Lists(L, S, R),
         NEW score, Rises(S, R, score), NEW j \in 1..Len(L), NEW v \in Nat
  PROVE  score[L[j]] <= v <=> Cardinality(UpTo(S, score, v)) >= j
<1> DEFINE U == UpTo(S, score, v)
<1>1. Len(L) \in Nat /\ j \in Nat /\ j - 1 \in Nat /\ \A n \in 1..Len(L) : L[n] \in S
  BY ElementOfSeq, LenProperties DEF Lists
<1>2. \A x \in S : score[x] \in Nat
  BY DEF Rises
<1>3. U \subseteq S /\ IsFiniteSet(U) /\ Cardinality(U) \in Nat
  <2>1. U \subseteq S
    BY DEF UpTo
  <2> QED
    BY <2>1, FS_Subset, FS_CardinalityType
<1>4. \A m, n \in 1..Len(L) : m < n => score[L[m]] <= score[L[n]]
  BY <1>1 DEF Lists, Rises
<1>5. CASE score[L[j]] <= v
  <2>1. ASSUME NEW k \in 1..j PROVE L[k] \in U
    <3>1. k \in 1..Len(L) /\ (k < j \/ k = j)
      BY <1>1
    <3>2. score[L[k]] <= score[L[j]] /\ score[L[k]] \in Nat /\ score[L[j]] \in Nat
      BY <1>1, <1>2, <1>4, <3>1
    <3> QED
      BY <1>1, <1>5, <3>1, <3>2 DEF UpTo
  <2>2. Top(L, j) \subseteq U
    BY <2>1 DEF Top
  <2>3. Cardinality(Top(L, j)) = j
    BY <1>1, FirstPlaces
  <2> HIDE DEF U
  <2>4. Cardinality(Top(L, j)) <= Cardinality(U)
    BY <1>3, <2>2, FS_Subset
  <2> QED
    BY <1>1, <1>3, <1>5, <2>3, <2>4 DEF U
<1>6. CASE ~(score[L[j]] <= v)
  <2>1. ASSUME NEW x \in U PROVE x \in Top(L, j - 1)
    <3>1. x \in S /\ score[x] <= v
      BY DEF UpTo
    <3>2. PICK k \in 1..Len(L) : L[k] = x
      BY <3>1 DEF Lists
    <3>3. k < j
      <4>1. score[L[k]] \in Nat /\ score[L[j]] \in Nat
        BY <1>1, <1>2
      <4>2. CASE k = j
        BY <1>6, <3>1, <3>2, <4>2
      <4>3. CASE j < k
        <5>1. score[L[j]] <= score[L[k]]
          BY <1>4, <4>3
        <5> QED
          BY <1>6, <3>1, <3>2, <4>1, <5>1
      <4> QED
        BY <1>1, <4>2, <4>3
    <3>4. k \in 1..(j - 1)
      BY <1>1, <3>3
    <3> QED
      BY <3>2, <3>4 DEF Top
  <2>2. IsFiniteSet(Top(L, j - 1)) /\ Cardinality(Top(L, j - 1)) = j - 1
    <3>1. j - 1 <= Len(L)
      BY <1>1
    <3> QED
      BY <1>1, <3>1, FirstPlaces
  <2> HIDE DEF U
  <2>3. Cardinality(U) <= Cardinality(Top(L, j - 1))
    BY <2>1, <2>2, FS_Subset
  <2> QED
    BY <1>1, <1>3, <1>6, <2>2, <2>3 DEF U
<1> QED
  BY <1>5, <1>6

\* ORDER BY with LIMIT n has n of the set or all of it, and they come before the others.
LEMMA BestAreFirst ==
  ASSUME NEW S, IsFiniteSet(S), NEW R, StrictOrder(S, R), NEW n \in Nat
  PROVE  /\ Best(S, R, n) \subseteq S
         /\ Cardinality(S) <= n => Best(S, R, n) = S
         /\ Best(S, R, n) # S =>
              /\ Cardinality(Best(S, R, n)) = n
              /\ \A x \in S \ Best(S, R, n), y \in Best(S, R, n) : <<y, x>> \in R
<1> DEFINE B == Best(S, R, n)
           L == Ordered(S, R)
           ahead(x) == Cardinality(Ahead(S, R, x))
<1>1. Cardinality(S) \in Nat /\ \A x \in S : ahead(x) \in 0..(Cardinality(S) - 1)
  BY FS_CardinalityType, FewerAhead
<1>2. \A x, y \in S : <<x, y>> \in R <=> ahead(x) < ahead(y)
  BY FewerAhead
<1>3. B = {x \in S : ahead(x) < n}
  BY DEF Best
<1>4. Lists(L, S, R)
  BY OrderedLists
<1> HIDE DEF B, L, ahead
<1>5. Cardinality(S) <= n => B = S
  <2>1. ASSUME Cardinality(S) <= n, NEW x \in S PROVE ahead(x) < n
    BY <1>1, <2>1
  <2> QED
    BY <1>3, <2>1
<1>6. ASSUME B # S
      PROVE  /\ Cardinality(B) = n
             /\ \A x \in S \ B, y \in B : <<y, x>> \in R
  <2>1. PICK z \in S : ~(ahead(z) < n)
    BY <1>3, <1>6
  <2>2. n <= Cardinality(S) /\ Cardinality(S) = Len(L)
    BY <1>1, <1>4, <2>1 DEF Lists
  <2>3. Cardinality(Top(L, n)) = n
    BY <1>4, <2>2, FirstPlaces
  <2>4. \A k \in 1..Len(L) : L[k] \in S /\ ahead(L[k]) = k - 1
    BY <1>1, <2>2, EachPlace DEF L, Ordered, ahead
  <2>5. B = Top(L, n)
    <3>1. ASSUME NEW x \in B PROVE \E k \in 1..n : x = L[k]
      <4>1. PICK k \in 1..Len(L) : L[k] = x
        BY <1>3, <1>4 DEF Lists
      <4>2. k - 1 < n
        BY <1>3, <2>4, <4>1
      <4>3. k \in 1..n
        BY <1>1, <2>2, <4>2
      <4> QED
        BY <4>1, <4>3
    <3>2. ASSUME NEW k \in 1..n PROVE L[k] \in B
      <4>1. k \in 1..Len(L) /\ k - 1 < n
        BY <1>1, <2>2
      <4> QED
        BY <1>3, <2>4, <4>1
    <3> QED
      BY <3>1, <3>2 DEF Top
  <2>6. ASSUME NEW x \in S \ B, NEW y \in B PROVE <<y, x>> \in R
    <3>1. ahead(y) < n /\ ~(ahead(x) < n) /\ x \in S /\ y \in S
      BY <1>3
    <3>2. ahead(y) < ahead(x)
      BY <1>1, <3>1
    <3> QED
      BY <1>2, <3>1, <3>2
  <2> QED
    BY <2>3, <2>5, <2>6
<1> QED
  BY <1>3, <1>5, <1>6 DEF B

\* A table in an order of its scores, and a ranking of the best n of two of them.
Table(T, R, score) == IsFiniteSet(T) /\ StrictOrder(T, R) /\ Rises(T, R, score)
Merged(L, A, RA, B, RB, score, n) ==
  LET F == Best(A, RA, n) \cup Best(B, RB, n)
  IN  \E R : StrictOrder(F, R) /\ Rises(F, R, score) /\ Lists(L, F, R)

\* The best n of two tables, ranked together, have in the first n places the
\* scores of both tables ranked together.
LEMMA TopOfBoth ==
  ASSUME NEW A, NEW RA, NEW B, NEW RB, NEW score, Table(A, RA, score), Table(B, RB, score),
         NEW n \in Nat, NEW L, Merged(L, A, RA, B, RB, score, n),
         NEW all \in Nat, Cardinality(A) <= all, Cardinality(B) <= all,
         NEW M, Merged(M, A, RA, B, RB, score, all), NEW j \in 1..n
  PROVE  /\ j <= Len(L) <=> j <= Len(M)
         /\ j <= Len(L) => score[L[j]] = score[M[j]]
<1> DEFINE U == A \cup B
           F == Best(A, RA, n) \cup Best(B, RB, n)
<1>1. /\ IsFiniteSet(A) /\ StrictOrder(A, RA) /\ Rises(A, RA, score)
      /\ IsFiniteSet(B) /\ StrictOrder(B, RB) /\ Rises(B, RB, score)
  BY DEF Table
<1>2. PICK RF : StrictOrder(F, RF) /\ Rises(F, RF, score) /\ Lists(L, F, RF)
  BY DEF Merged
<1>3. Best(A, RA, all) = A /\ Best(B, RB, all) = B
  BY <1>1, BestAreFirst
<1>4. PICK RU : StrictOrder(U, RU) /\ Rises(U, RU, score) /\ Lists(M, U, RU)
  BY <1>3 DEF Merged
<1>5. IsFiniteSet(U) /\ F \subseteq U /\ IsFiniteSet(F)
  <2>1. IsFiniteSet(U)
    BY <1>1, FS_Union
  <2>2. F \subseteq U
    BY DEF Best
  <2> QED
    BY <2>1, <2>2, FS_Subset
<1>6. Best(A, RA, n) \subseteq F /\ Best(B, RB, n) \subseteq F
  OBVIOUS
<1> HIDE DEF U, F
<1>7. /\ Len(L) = Cardinality(F) /\ Len(M) = Cardinality(U)
      /\ Cardinality(F) \in Nat /\ Cardinality(U) \in Nat /\ Cardinality(F) <= Cardinality(U)
  BY <1>5, <1>2, <1>4, FS_CardinalityType, FS_Subset DEF Lists
<1>8. ASSUME NEW C \in {Best(A, RA, n), Best(B, RB, n)}, Cardinality(C) = n
      PROVE  C \subseteq F /\ IsFiniteSet(C)
  BY <1>5, <1>6, FS_Subset
<1>9. j <= Cardinality(F) <=> j <= Cardinality(U)
  <2>1. CASE F = U
    BY <2>1
  <2>2. CASE F # U
    <3>1. PICK C \in {Best(A, RA, n), Best(B, RB, n)} : Cardinality(C) = n
      BY <2>2, <1>1, BestAreFirst DEF U, F
    <3>2. n <= Cardinality(F)
      BY <1>5, <1>8, <3>1, FS_Subset
    <3> QED
      BY <1>7, <3>2
  <2> QED
    BY <2>1, <2>2
<1>10. ASSUME NEW v \in Nat
      PROVE  Cardinality(UpTo(F, score, v)) >= j <=> Cardinality(UpTo(U, score, v)) >= j
  <2> DEFINE FV == UpTo(F, score, v)
             UV == UpTo(U, score, v)
  <2>1. FV \subseteq UV /\ UV \subseteq U /\ FV \subseteq F
    BY <1>5 DEF UpTo
  <2> HIDE DEF FV, UV
  <2>2. /\ IsFiniteSet(UV) /\ IsFiniteSet(FV) /\ Cardinality(FV) <= Cardinality(UV)
        /\ Cardinality(FV) \in Nat /\ Cardinality(UV) \in Nat
    BY <1>5, <2>1, FS_Subset, FS_CardinalityType
  <2>3. CASE FV = UV
    BY <2>3 DEF FV, UV
  <2>4. CASE FV # UV
    <3>1. PICK x \in U : score[x] <= v /\ x \notin F
      BY <1>5, <2>1, <2>4 DEF FV, UV, UpTo
    <3>2. ASSUME NEW S, NEW R, IsFiniteSet(S), StrictOrder(S, R), Rises(S, R, score), x \in S,
                 Best(S, R, n) \subseteq F
          PROVE  n <= Cardinality(FV)
      <4> DEFINE C == Best(S, R, n)
      <4>1. /\ Cardinality(C) = n /\ C \subseteq S
            /\ \A y \in C : <<y, x>> \in R
        BY <3>1, <3>2, BestAreFirst
      <4> HIDE DEF C
      <4>2. ASSUME NEW y \in C PROVE score[y] <= v
        <5>1. score[y] <= score[x] /\ score[y] \in Nat /\ score[x] \in Nat
          BY <3>2, <4>1 DEF Rises
        <5> QED
          BY <5>1, <3>1
      <4>3. C \subseteq FV
        BY <4>2, <3>2 DEF FV, UpTo, C
      <4> QED
        BY <2>2, <4>1, <4>3, FS_Subset
    <3>3. n <= Cardinality(FV)
      <4>1. CASE x \in A
        BY <1>1, <1>6, <3>2, <4>1
      <4>2. CASE x \in B
        BY <1>1, <1>6, <3>2, <4>2
      <4> QED
        BY <4>1, <4>2 DEF U
    <3> QED
      BY <2>2, <3>3 DEF FV, UV
  <2> QED
    BY <2>3, <2>4
<1>11. ASSUME j <= Len(L) PROVE score[L[j]] = score[M[j]]
  <2>1. j \in 1..Len(L) /\ j \in 1..Len(M)
    BY <1>7, <1>9, <1>11
  <2>2. score[L[j]] \in Nat /\ score[M[j]] \in Nat
    BY <2>1, <1>2, <1>4, ElementOfSeq DEF Lists, Rises
  <2>3. \A v \in Nat : score[L[j]] <= v <=> score[M[j]] <= v
    <3>1. ASSUME NEW v \in Nat PROVE score[L[j]] <= v <=> score[M[j]] <= v
      <4>1. score[L[j]] <= v <=> Cardinality(UpTo(F, score, v)) >= j
        BY <1>5, <1>2, <2>1, ScoreInPlace
      <4>2. score[M[j]] <= v <=> Cardinality(UpTo(U, score, v)) >= j
        BY <1>5, <1>4, <2>1, ScoreInPlace
      <4> QED
        BY <1>10, <4>1, <4>2
    <3> QED
      BY <3>1
  <2>4. score[L[j]] <= score[M[j]] /\ score[M[j]] <= score[L[j]]
    BY <2>2, <2>3
  <2> QED
    BY <2>2, <2>4
<1> QED
  BY <1>7, <1>9, <1>11

\* A page of a list: what is in its places of the list.
LEMMA PageOfList ==
  ASSUME NEW S, NEW L \in Seq(S), NEW limit \in Nat, NEW offset \in Nat
  PROVE  LET page == Page(L, limit, offset)
         IN  /\ page \in Seq(S) /\ Len(page) <= limit
             /\ \A j \in Nat : j \in 1..Len(page) <=> j \in 1..limit /\ j + offset <= Len(L)
             /\ \A j \in 1..Len(page) : page[j] = L[j + offset] /\ j + offset \in 1..Len(L)
<1> DEFINE last == IF Len(L) < offset + limit THEN Len(L) ELSE offset + limit
           page == SubSeq(L, offset + 1, last)
<1>1. Len(L) \in Nat
  BY LenProperties
<1>2. last \in Nat /\ last <= Len(L) /\ last <= offset + limit
      /\ (last = Len(L) \/ last = offset + limit)
  BY <1>1
<1>3. Page(L, limit, offset) = page
  BY DEF Page
<1> HIDE DEF last
<1>4. \A i \in (offset + 1)..last : L[i] \in S
  BY <1>1, <1>2, ElementOfSeq
<1>5. /\ page \in Seq(S)
      /\ Len(page) = IF offset + 1 <= last THEN (last - (offset + 1)) + 1 ELSE 0
      /\ \A i \in 1..((last - (offset + 1)) + 1) : page[i] = L[((offset + 1) + i) - 1]
  BY <1>2, <1>4, SubSeqProperties
<1> HIDE DEF page
<1>6. Len(page) = IF offset < last THEN last - offset ELSE 0
  BY <1>2, <1>5
<1>7. ASSUME NEW j \in 1..Len(page)
      PROVE  page[j] = L[j + offset] /\ j + offset \in 1..Len(L)
  <2>1. j \in 1..((last - (offset + 1)) + 1) /\ ((offset + 1) + j) - 1 = j + offset
    BY <1>2, <1>6
  <2> QED
    BY <1>1, <1>2, <1>5, <1>6, <2>1
<1>8. \A j \in Nat : j \in 1..Len(page) <=> j \in 1..limit /\ j + offset <= Len(L)
  BY <1>1, <1>2, <1>6 DEF last
<1>9. Len(page) <= limit
  BY <1>2, <1>6
<1> QED
  BY <1>3, <1>5, <1>7, <1>8, <1>9

\* The same scores in the first n places.
SameScores(L, M, score, n) ==
  \A j \in 1..n : /\ j <= Len(L) <=> j <= Len(M)
                  /\ j <= Len(L) => score[L[j]] = score[M[j]]

\* Lists with the same scores in their first places have them on the pages of these.
LEMMA SamePages ==
  ASSUME NEW S, NEW L \in Seq(S), NEW M \in Seq(S), NEW score,
         NEW limit \in Nat, NEW offset \in Nat, SameScores(L, M, score, limit + offset)
  PROVE  Scores(Page(L, limit, offset), score) = Scores(Page(M, limit, offset), score)
<1> DEFINE p == Page(L, limit, offset)
           q == Page(M, limit, offset)
<1>1. /\ p \in Seq(S)
      /\ \A j \in Nat : j \in 1..Len(p) <=> j \in 1..limit /\ j + offset <= Len(L)
      /\ \A j \in 1..Len(p) : p[j] = L[j + offset] /\ j + offset \in 1..Len(L)
  BY PageOfList
<1>2. /\ q \in Seq(S)
      /\ \A j \in Nat : j \in 1..Len(q) <=> j \in 1..limit /\ j + offset <= Len(M)
      /\ \A j \in 1..Len(q) : q[j] = M[j + offset] /\ j + offset \in 1..Len(M)
  BY PageOfList
<1> HIDE DEF p, q
<1>3. DOMAIN p = 1..Len(p) /\ DOMAIN q = 1..Len(q) /\ Len(p) \in Nat /\ Len(q) \in Nat
  BY <1>1, <1>2, LenProperties
<1>4. \A j \in 1..limit : /\ j + offset <= Len(L) <=> j + offset <= Len(M)
                          /\ j + offset <= Len(L) => score[L[j + offset]] = score[M[j + offset]]
  <2>1. \A j \in 1..limit : j + offset \in 1..(limit + offset)
    OBVIOUS
  <2> QED
    BY <2>1 DEF SameScores
<1>5. DOMAIN p = DOMAIN q
  <2>1. \A j \in Nat : j \in 1..Len(p) <=> j \in 1..Len(q)
    BY <1>1, <1>2, <1>4
  <2>2. Len(p) \in Nat /\ Len(q) \in Nat
    BY <1>3
  <2>3. Len(p) <= Len(q) /\ Len(q) <= Len(p)
    BY <2>1, <2>2
  <2>4. Len(p) = Len(q)
    BY <2>2, <2>3
  <2> QED
    BY <1>3, <2>4
<1>6. ASSUME NEW j \in DOMAIN p PROVE score[p[j]] = score[q[j]]
  <2>1. j \in 1..limit /\ p[j] = L[j + offset] /\ q[j] = M[j + offset] /\ j + offset <= Len(L)
    BY <1>1, <1>2, <1>3, <1>5, <1>6
  <2> QED
    BY <1>4, <2>1
<1> QED
  BY <1>5, <1>6 DEF Scores, p, q

\* A page of a list without repetition is without repetition.
LEMMA PageWithoutRepetition ==
  ASSUME NEW S, NEW L \in Seq(S), \A m, n \in 1..Len(L) : L[m] = L[n] => m = n,
         NEW limit \in Nat, NEW offset \in Nat
  PROVE  LET page == Page(L, limit, offset)
         IN  Len(page) <= limit /\ Cardinality(ToSet(page)) = Len(page)
<1> DEFINE p == Page(L, limit, offset)
<1>1. /\ p \in Seq(S) /\ Len(p) <= limit
      /\ \A j \in 1..Len(p) : p[j] = L[j + offset] /\ j + offset \in 1..Len(L)
  BY PageOfList
<1> HIDE DEF p
<1>2. DOMAIN p = 1..Len(p) /\ Len(p) \in Nat
  BY <1>1, LenProperties
<1>3. \A m, n \in 1..Len(p) : p[m] = p[n] => m = n
  <2>1. ASSUME NEW m \in 1..Len(p), NEW n \in 1..Len(p), p[m] = p[n] PROVE m = n
    <3>1. m + offset = n + offset
      BY <1>1, <2>1
    <3> QED
      BY <3>1, <1>2
  <2> QED
    BY <2>1
<1>4. p \in Bijection(1..Len(p), ToSet(p))
  <2>1. p \in [1..Len(p) -> ToSet(p)] /\ \A t \in ToSet(p) : \E n \in 1..Len(p) : p[n] = t
    BY <1>1, <1>2 DEF ToSet
  <2>2. p \in Injection(1..Len(p), ToSet(p))
    BY <1>2, <1>3, <2>1 DEF Injection, IsInjective
  <2> QED
    BY <2>1, <2>2 DEF Surjection, Bijection
<1>5. Cardinality(ToSet(p)) = Len(p)
  BY <1>2, <1>4, FS_CountingElements DEF ExistsBijection
<1> QED
  BY <1>1, <1>5 DEF p

-----------------------------------------------------------------------------
(* search *)

\* The orders of results are orders, by their score first.
LEMMA ResultOrders ==
  ASSUME HistoryInv, NEW S \in SUBSET Results, NEW score, \A x \in S : score[x] \in Nat
  PROVE  /\ IsFiniteSet(S)
         /\ StrictOrder(S, Ranked(S, score)) /\ Rises(S, Ranked(S, score), score)
         /\ (\A x, y \in S : x[1] = y[1]) =>
              StrictOrder(S, InTable(S, score)) /\ Rises(S, InTable(S, score), score)
<1>1. IsFiniteSet(Rowids) /\ \A i \in Rowids : i \in Nat /\ At(i) \in Nat
  <2>1. Rowids = 1..Len(rows) /\ Len(rows) \in Nat
    BY LenProperties DEF HistoryInv, Rowids
  <2> QED
    BY <2>1, RowOrders
<1>2. IsFiniteSet(S)
  <2>1. IsFiniteSet({"segment", "chunk"})
    <3>1. {"segment", "chunk"} = {"segment"} \cup {"chunk"}
      OBVIOUS
    <3>2. IsFiniteSet({"segment"}) /\ IsFiniteSet({"chunk"})
      BY FS_Singleton
    <3>3. IsFiniteSet({"segment"} \cup {"chunk"})
      BY <3>2, FS_Union
    <3> QED
      BY <3>1, <3>3
  <2>2. IsFiniteSet(Results)
    BY <1>1, <2>1, FS_Product DEF Results
  <2> QED
    BY <2>2, FS_Subset
<1>3. \A x \in S : /\ x = <<x[1], x[2]>> /\ x[1] \in {"segment", "chunk"}
                   /\ x[2] \in Nat /\ At(x[2]) \in Nat
  BY <1>1 DEF Results
<1>4. \A x, y \in S : <<x, y>> \in InTable(S, score) <=>
        \/ score[x] < score[y]
        \/ score[x] = score[y] /\ x[2] < y[2]
  BY DEF InTable
<1>5. \A x, y \in S : <<x, y>> \in Ranked(S, score) <=>
        \/ score[x] < score[y]
        \/ /\ score[x] = score[y]
           /\ \/ At(x[2]) > At(y[2])
              \/ /\ At(x[2]) = At(y[2])
                 /\ \/ x[1] = "segment" /\ y[1] = "chunk"
                    \/ x[1] = y[1] /\ x[2] < y[2]
  BY DEF Ranked
<1>6. StrictOrder(S, Ranked(S, score))
  <2>1. \A x \in S : <<x, x>> \notin Ranked(S, score)
    BY <1>3, <1>5
  <2>2. ASSUME NEW x \in S, NEW y \in S, NEW z \in S,
               <<x, y>> \in Ranked(S, score), <<y, z>> \in Ranked(S, score)
        PROVE  <<x, z>> \in Ranked(S, score)
    <3>1. CASE score[x] < score[y] \/ score[y] < score[z]
      <4>1. score[x] < score[z]
        BY <1>5, <2>2, <3>1
      <4> QED
        BY <1>5, <4>1
    <3>2. CASE score[x] = score[y] /\ score[y] = score[z]
      BY <1>3, <1>5, <2>2, <3>2
    <3> QED
      BY <1>5, <2>2, <3>1, <3>2
  <2>3. ASSUME NEW x \in S, NEW y \in S, x # y
        PROVE  <<x, y>> \in Ranked(S, score) \/ <<y, x>> \in Ranked(S, score)
    <3>1. x[1] # y[1] \/ x[2] # y[2]
      BY <1>3, <2>3
    <3>2. score[x] \in Nat /\ score[y] \in Nat /\ x[2] \in Nat /\ y[2] \in Nat
          /\ At(x[2]) \in Nat /\ At(y[2]) \in Nat
          /\ x[1] \in {"segment", "chunk"} /\ y[1] \in {"segment", "chunk"}
      BY <1>3
    <3> QED
      BY <1>5, <3>1, <3>2
  <2> QED
    BY <2>1, <2>2, <2>3 DEF StrictOrder
<1>7. Rises(S, Ranked(S, score), score)
  BY <1>5 DEF Rises
<1>8. ASSUME \A x, y \in S : x[1] = y[1]
      PROVE  StrictOrder(S, InTable(S, score)) /\ Rises(S, InTable(S, score), score)
  <2>1. \A x, y \in S : x # y => x[2] # y[2]
    BY <1>3, <1>8
  <2>2. StrictOrder(S, InTable(S, score))
    BY <1>3, <1>4, <2>1 DEF StrictOrder
  <2> QED
    BY <1>4, <2>2 DEF Rises
<1> QED
  BY <1>2, <1>6, <1>7, <1>8

\* The rows that match, what each table has for them, and what a query takes of both.
Matches(filter) ==
  {i \in Rowids : rows[i].text # NoText /\ Bm25(rows[i].text) > 0 /\ Passes(filter, i)}
FtsSegments(filter) == Segments(Matches(filter))
FtsChunks(filter) == IF filter.source \in {"mic", "system"} THEN {} ELSE Chunks(Matches(filter))
FtsBest(filter, n) ==
  Best(FtsSegments(filter), InTable(FtsSegments(filter), TextRank), n)
    \cup Best(FtsChunks(filter), InTable(FtsChunks(filter), TextRank), n)

\* What a lexical search looks through: texts that match, in both tables.
LEMMA FtsTables ==
  ASSUME HistoryInv, NEW filter, NEW T \in {FtsSegments(filter), FtsChunks(filter)}
  PROVE  /\ T \subseteq Results /\ IsFiniteSet(T) /\ Cardinality(T) <= Cardinality(Rowids)
         /\ \A x \in T : TextRank[x] \in Nat
         /\ \A x, y \in T : x[1] = y[1]
<1>1. \A i \in Rowids : rows[i].text # NoText => Bm25(rows[i].text) \in Nat
  <2>1. \A i \in Rowids : rows[i] \in RowsOf(world)
    BY ElementOfSeq, LenProperties DEF HistoryInv, Rowids
  <2> QED
    BY <2>1, HistoryAssumption DEF RowsOf, HistoryInv
<1>2. T \subseteq Results /\ \A x, y \in T : x[1] = y[1]
  BY DEF FtsSegments, FtsChunks, Segments, Chunks, Matches, Results
<1>3. \A x \in T : x[2] \in Matches(filter) /\ x \in Results
  BY DEF FtsSegments, FtsChunks, Segments, Chunks, Matches, Results
<1>4. \A x \in T : TextRank[x] \in Nat
  BY <1>1, <1>3 DEF TextRank, Matches
<1>5. IsFiniteSet(T)
  BY <1>2, <1>4, ResultOrders
<1>6. Cardinality(T) <= Cardinality(Rowids)
  <2> DEFINE f == [x \in T |-> x[2]]
  <2>1. f \in [T -> Rowids]
    BY <1>2 DEF Results
  <2>2. \A x, y \in T : f[x] = f[y] => x = y
    BY <1>2 DEF Results
  <2>3. f \in Injection(T, Rowids)
    BY <2>1, <2>2 DEF Injection, IsInjective
  <2> HIDE DEF f
  <2>4. IsFiniteSet(Rowids)
    BY RowOrders
  <2> QED
    BY <2>3, <2>4, FS_Injection
<1> QED
  BY <1>2, <1>4, <1>5, <1>6

\* What has a vector, how many of the nearest are taken, and those that pass.
ScreenVectors == {i \in vectors : rows[i].kind = "screen"}
Reach(n) == IF n * OverFetch > MinFetch THEN n * OverFetch ELSE MinFetch
VecBest(k) ==
  Best(Segments(vectors), InTable(Segments(vectors), Nearness), k)
    \cup Best(Chunks(ScreenVectors), InTable(Chunks(ScreenVectors), Nearness), k)
VecFound(filter, k) == {x \in VecBest(k) : Passes(filter, x[2])}

\* And a semantic one: texts with a vector, of each in one table.
LEMMA VecTables ==
  ASSUME HistoryInv, NEW T \in {Segments(vectors), Chunks(ScreenVectors)}
  PROVE  /\ T \subseteq Results /\ IsFiniteSet(T) /\ Cardinality(T) <= Cardinality(Rowids)
         /\ \A x \in T : Nearness[x] \in Nat
         /\ \A x, y \in T : x[1] = y[1]
<1>1. \A i \in Rowids : rows[i].text # NoText => Distance(rows[i].text) \in Nat
  <2>1. \A i \in Rowids : rows[i] \in RowsOf(world)
    BY ElementOfSeq, LenProperties DEF HistoryInv, Rowids
  <2> QED
    BY <2>1, HistoryAssumption DEF RowsOf, HistoryInv
<1>2. \A i \in vectors : i \in Rowids /\ rows[i].text # NoText
  BY DEF HistoryInv
<1>3. T \subseteq Results /\ (\A x, y \in T : x[1] = y[1]) /\ \A x \in T : x[2] \in vectors
  BY <1>2 DEF ScreenVectors, Segments, Chunks, Results
<1>4. \A x \in T : Nearness[x] \in Nat
  BY <1>1, <1>2, <1>3 DEF Nearness
<1>5. IsFiniteSet(T)
  BY <1>3, <1>4, ResultOrders
<1>6. Cardinality(T) <= Cardinality(Rowids)
  <2> DEFINE f == [x \in T |-> x[2]]
  <2>1. f \in [T -> Rowids]
    BY <1>2, <1>3
  <2>2. \A x, y \in T : f[x] = f[y] => x = y
    BY <1>3 DEF Results
  <2>3. f \in Injection(T, Rowids)
    BY <2>1, <2>2 DEF Injection, IsInjective
  <2> HIDE DEF f
  <2>4. IsFiniteSet(Rowids)
    BY RowOrders
  <2> QED
    BY <2>3, <2>4, FS_Injection
<1> QED
  BY <1>3, <1>4, <1>5, <1>6

\* The results of a lexical search are a list of the best of both tables.
LEMMA FtsRanking ==
  ASSUME HistoryInv, NEW filter, NEW n \in Nat
  PROVE  LET F == FtsBest(filter, n) R == Ranked(F, TextRank)
         IN  /\ F \subseteq Results /\ IsFiniteSet(F)
             /\ StrictOrder(F, R) /\ Rises(F, R, TextRank)
             /\ Lists(FtsResults(filter, n), F, R)
<1> DEFINE F == FtsBest(filter, n)
           R == Ranked(F, TextRank)
<1>1. FtsResults(filter, n) = Ordered(F, R)
  BY DEF FtsResults, FtsBest, FtsSegments, FtsChunks, Matches
<1>2. F \subseteq FtsSegments(filter) \cup FtsChunks(filter)
  BY DEF FtsBest, Best
<1>3. F \in SUBSET Results /\ \A x \in F : TextRank[x] \in Nat
  BY <1>2, FtsTables
<1> HIDE DEF F
<1>4. IsFiniteSet(F) /\ StrictOrder(F, R) /\ Rises(F, R, TextRank)
  BY <1>3, ResultOrders
<1>5. Lists(Ordered(F, R), F, R)
  BY <1>4, OrderedLists
<1> QED
  BY <1>1, <1>3, <1>4, <1>5 DEF F

\* As the results of a semantic one are of the nearest in both, those that pass.
LEMMA VecRanking ==
  ASSUME HistoryInv, NEW filter, NEW n \in Nat
  PROVE  LET F == VecFound(filter, Reach(n)) R == Ranked(F, Nearness)
         IN  /\ F \subseteq Results /\ IsFiniteSet(F)
             /\ StrictOrder(F, R) /\ Rises(F, R, Nearness)
             /\ Lists(VectorResults(filter, n), F, R)
<1> DEFINE F == VecFound(filter, Reach(n))
           R == Ranked(F, Nearness)
<1>1. VectorResults(filter, n) = Ordered(F, R)
  <2> DEFINE k == Reach(n)
             nearest(S) == {x \in Best(S, InTable(S, Nearness), k) : Passes(filter, x[2])}
             results == nearest(Segments(vectors)) \cup nearest(Chunks(ScreenVectors))
  <2>1. VectorResults(filter, n) = Ordered(results, Ranked(results, Nearness))
    BY DEF VectorResults, Reach, ScreenVectors
  <2>2. results = F
    BY DEF VecFound, VecBest
  <2> HIDE DEF results, F
  <2> QED
    BY <2>1, <2>2
<1>2. F \subseteq Segments(vectors) \cup Chunks(ScreenVectors)
  BY DEF VecFound, VecBest, Best
<1>3. F \in SUBSET Results /\ \A x \in F : Nearness[x] \in Nat
  BY <1>2, VecTables
<1> HIDE DEF F
<1>4. IsFiniteSet(F) /\ StrictOrder(F, R) /\ Rises(F, R, Nearness)
  BY <1>3, ResultOrders
<1>5. Lists(Ordered(F, R), F, R)
  BY <1>4, OrderedLists
<1> QED
  BY <1>1, <1>3, <1>4, <1>5 DEF F

\* In its first n places a search for n results has the scores of the whole ranking.
LEMMA LexicalScores ==
  ASSUME HistoryInv, NEW filter, NEW n \in Nat, NEW all \in Nat, Cardinality(Rowids) <= all,
         NEW j \in 1..n
  PROVE  LET L == FtsResults(filter, n) M == FtsResults(filter, all)
         IN  /\ j <= Len(L) <=> j <= Len(M)
             /\ j <= Len(L) => TextRank[L[j]] = TextRank[M[j]]
<1> DEFINE A == FtsSegments(filter)
           B == FtsChunks(filter)
           RA == InTable(A, TextRank)
           RB == InTable(B, TextRank)
           F == FtsBest(filter, n)
           U == FtsBest(filter, all)
<1>1. /\ A \in SUBSET Results /\ IsFiniteSet(A) /\ Cardinality(A) <= Cardinality(Rowids)
      /\ B \in SUBSET Results /\ IsFiniteSet(B) /\ Cardinality(B) <= Cardinality(Rowids)
      /\ \A x \in A : TextRank[x] \in Nat
      /\ \A x \in B : TextRank[x] \in Nat
      /\ \A x, y \in A : x[1] = y[1]
      /\ \A x, y \in B : x[1] = y[1]
  BY FtsTables
<1>2. F = Best(A, RA, n) \cup Best(B, RB, n) /\ U = Best(A, RA, all) \cup Best(B, RB, all)
  BY DEF FtsBest
<1> HIDE DEF A, B
<1>3. Table(A, RA, TextRank) /\ Table(B, RB, TextRank)
  BY <1>1, ResultOrders DEF Table
<1> HIDE DEF RA, RB
<1>4. Cardinality(A) <= all /\ Cardinality(B) <= all
  <2>1. Cardinality(A) \in Nat /\ Cardinality(B) \in Nat /\ Cardinality(Rowids) \in Nat
    BY <1>1, RowOrders, FS_CardinalityType
  <2> QED
    BY <1>1, <2>1
<1>5. Merged(FtsResults(filter, n), A, RA, B, RB, TextRank, n)
  BY <1>2, FtsRanking DEF Merged
<1>6. Merged(FtsResults(filter, all), A, RA, B, RB, TextRank, all)
  BY <1>2, FtsRanking DEF Merged
<1> QED
  BY <1>3, <1>4, <1>5, <1>6, TopOfBoth

\* A semantic one too, when nothing is dropped from the nearest.
LEMMA SemanticScores ==
  ASSUME HistoryInv, NEW n \in Nat, NEW all \in Nat, Cardinality(Rowids) <= all,
         NEW j \in 1..n
  PROVE  LET any == [source |-> "any", app |-> "any"]
             L == VectorResults(any, n) M == VectorResults(any, all)
         IN  /\ j <= Len(L) <=> j <= Len(M)
             /\ j <= Len(L) => Nearness[L[j]] = Nearness[M[j]]
<1> DEFINE any == [source |-> "any", app |-> "any"]
           A == Segments(vectors)
           B == Chunks(ScreenVectors)
           RA == InTable(A, Nearness)
           RB == InTable(B, Nearness)
           F == VecFound(any, Reach(n))
           U == VecFound(any, Reach(all))
<1>1. /\ A \in SUBSET Results /\ IsFiniteSet(A) /\ Cardinality(A) <= Cardinality(Rowids)
      /\ B \in SUBSET Results /\ IsFiniteSet(B) /\ Cardinality(B) <= Cardinality(Rowids)
      /\ \A x \in A : Nearness[x] \in Nat
      /\ \A x \in B : Nearness[x] \in Nat
      /\ \A x, y \in A : x[1] = y[1]
      /\ \A x, y \in B : x[1] = y[1]
  BY VecTables
<1>2. /\ F = Best(A, RA, Reach(n)) \cup Best(B, RB, Reach(n))
      /\ U = Best(A, RA, Reach(all)) \cup Best(B, RB, Reach(all))
  <2>1. \A x : Passes(any, x)
    BY DEF Passes
  <2> QED
    BY <2>1 DEF VecFound, VecBest
<1>3. \A m \in Nat : Reach(m) \in Nat /\ m <= Reach(m)
  <2>1. ASSUME NEW m \in Nat PROVE Reach(m) \in Nat /\ m <= Reach(m)
    <3> DEFINE k == m * OverFetch
    <3>1. k \in Nat /\ m <= k
      <4>1. OverFetch \in Nat /\ OverFetch >= 1
        BY HistoryAssumption
      <4> QED
        BY <4>1
    <3>2. MinFetch \in Nat
      BY HistoryAssumption
    <3>3. Reach(m) = IF k > MinFetch THEN k ELSE MinFetch
      BY DEF Reach
    <3> HIDE DEF k
    <3> QED
      BY <3>1, <3>2, <3>3
  <2> QED
    BY <2>1
<1> HIDE DEF A, B
<1>4. Table(A, RA, Nearness) /\ Table(B, RB, Nearness)
  BY <1>1, ResultOrders DEF Table
<1> HIDE DEF RA, RB
<1>5. Cardinality(A) <= Reach(all) /\ Cardinality(B) <= Reach(all)
  <2>1. Cardinality(A) \in Nat /\ Cardinality(B) \in Nat /\ Cardinality(Rowids) \in Nat
    BY <1>1, RowOrders, FS_CardinalityType
  <2> QED
    BY <1>1, <1>3, <2>1
<1>6. Merged(VectorResults(any, n), A, RA, B, RB, Nearness, Reach(n))
  BY <1>2, VecRanking DEF Merged
<1>7. Merged(VectorResults(any, all), A, RA, B, RB, Nearness, Reach(all))
  BY <1>2, VecRanking DEF Merged
<1>8. Reach(n) \in Nat /\ Reach(all) \in Nat /\ j \in 1..Reach(n)
  BY <1>3
<1> HIDE DEF any
<1>9. /\ j <= Len(VectorResults(any, n)) <=> j <= Len(VectorResults(any, all))
      /\ j <= Len(VectorResults(any, n)) =>
           Nearness[VectorResults(any, n)[j]] = Nearness[VectorResults(any, all)[j]]
  BY <1>4, <1>5, <1>6, <1>7, <1>8, TopOfBoth
<1> QED
  BY <1>9 DEF any

\* Sums of reciprocals, as fractions: which are greater is an order of them, but
\* for equal ones.
Fractions == Nat \X (Nat \ {0})

LEMMA GreaterIsAnOrder ==
  /\ \A s, t \in Fractions : Greater(s, t) => ~Greater(t, s)
  /\ \A s, t, u \in Fractions : ~Greater(s, t) /\ ~Greater(t, u) => ~Greater(s, u)
<1>1. ASSUME NEW s \in Fractions, NEW t \in Fractions, Greater(s, t) PROVE ~Greater(t, s)
  <2> DEFINE a == s[1] * t[2]
             b == t[1] * s[2]
  <2>1. a \in Nat /\ b \in Nat
    BY DEF Fractions
  <2>2. (Greater(s, t) <=> a > b) /\ (Greater(t, s) <=> b > a)
    BY DEF Greater
  <2> HIDE DEF a, b
  <2> QED
    BY <1>1, <2>1, <2>2
<1>2. ASSUME NEW s \in Fractions, NEW t \in Fractions, NEW u \in Fractions,
             ~Greater(s, t), ~Greater(t, u)
      PROVE  ~Greater(s, u)
  <2> DEFINE s1 == s[1] s2 == s[2] t1 == t[1] t2 == t[2] u1 == u[1] u2 == u[2]
  <2>1. s1 \in Nat /\ s2 \in Nat /\ t1 \in Nat /\ t2 \in Nat \ {0} /\ u1 \in Nat /\ u2 \in Nat
    BY DEF Fractions
  <2>2. s1 * t2 <= t1 * s2 /\ t1 * u2 <= u1 * t2
    <3>1. ~(s1 * t2 > t1 * s2) /\ ~(t1 * u2 > u1 * t2)
      BY <1>2 DEF Greater
    <3> HIDE DEF s1, s2, t1, t2, u1, u2
    <3>2. s1 * t2 \in Nat /\ t1 * s2 \in Nat /\ t1 * u2 \in Nat /\ u1 * t2 \in Nat
      BY <2>1
    <3> QED
      BY <3>1, <3>2
  <2>3. Greater(s, u) <=> s1 * u2 > u1 * s2
    BY DEF Greater
  <2> HIDE DEF s1, s2, t1, t2, u1, u2
  <2>4. (s1 * t2) * u2 <= (t1 * s2) * u2
    <3> DEFINE a == s1 * t2
               b == t1 * s2
    <3>1. a \in Nat /\ b \in Nat /\ a <= b
      BY <2>1, <2>2
    <3> HIDE DEF a, b
    <3>2. a * u2 <= b * u2
      BY <2>1, <3>1
    <3> QED
      BY <3>2 DEF a, b
  <2>5. (t1 * u2) * s2 <= (u1 * t2) * s2
    <3> DEFINE a == t1 * u2
               b == u1 * t2
    <3>1. a \in Nat /\ b \in Nat /\ a <= b
      BY <2>1, <2>2
    <3> HIDE DEF a, b
    <3>2. a * s2 <= b * s2
      BY <2>1, <3>1
    <3> QED
      BY <3>2 DEF a, b
  <2>6. (s1 * u2) * t2 <= (u1 * s2) * t2
    <3>1. /\ (s1 * t2) * u2 = (s1 * u2) * t2
          /\ (t1 * s2) * u2 = (t1 * u2) * s2
          /\ (u1 * t2) * s2 = (u1 * s2) * t2
      BY <2>1
    <3>2. (s1 * u2) * t2 \in Nat /\ (t1 * u2) * s2 \in Nat /\ (u1 * s2) * t2 \in Nat
      BY <2>1
    <3> DEFINE a == (s1 * u2) * t2
               b == (t1 * u2) * s2
               c == (u1 * s2) * t2
    <3>3. a \in Nat /\ b \in Nat /\ c \in Nat /\ a <= b /\ b <= c
      BY <2>4, <2>5, <3>1, <3>2
    <3> HIDE DEF a, b, c
    <3>4. a <= c
      BY <3>3
    <3> QED
      BY <3>4 DEF a, c
  <2> DEFINE a == s1 * u2
             b == u1 * s2
  <2>7. a \in Nat /\ b \in Nat /\ a * t2 <= b * t2
    BY <2>1, <2>6
  <2>8. Greater(s, u) <=> a > b
    BY <2>3
  <2> HIDE DEF a, b
  <2>9. ~(a > b)
    <3>1. SUFFICES ASSUME a >= b + 1 PROVE FALSE
      BY <2>7
    <3>2. a * t2 >= (b + 1) * t2
      BY <2>1, <2>7, <3>1
    <3>3. (b + 1) * t2 = b * t2 + t2 /\ b * t2 \in Nat /\ a * t2 \in Nat /\ t2 >= 1
      BY <2>1, <2>7
    <3> DEFINE x == a * t2
               y == b * t2
    <3>4. x \in Nat /\ y \in Nat /\ x >= y + t2 /\ x <= y /\ t2 >= 1 /\ t2 \in Nat
      BY <2>1, <2>7, <3>2, <3>3
    <3> HIDE DEF x, y
    <3> QED
      BY <3>4
  <2> QED
    BY <2>8, <2>9
<1> QED
  BY <1>1, <1>2

\* The place of a result in a list.
LEMMA PositionInList ==
  ASSUME NEW S, NEW L \in Seq(S), NEW x
  PROVE  /\ Position(L, x) \in 0..Len(L)
         /\ Position(L, x) # 0 <=> x \in ToSet(L)
         /\ Position(L, x) # 0 => L[Position(L, x)] = x
<1>1. Len(L) \in Nat /\ DOMAIN L = 1..Len(L)
  BY LenProperties
<1>2. CASE x \in ToSet(L)
  <2>1. \E n \in DOMAIN L : L[n] = x
    BY <1>2, <1>1 DEF ToSet
  <2>2. Position(L, x) = CHOOSE n \in DOMAIN L : L[n] = x
    BY <1>2 DEF Position
  <2>3. Position(L, x) \in DOMAIN L /\ L[Position(L, x)] = x
    BY <2>1, <2>2
  <2> QED
    BY <1>1, <1>2, <2>3
<1>3. CASE x \notin ToSet(L)
  <2>1. Position(L, x) = 0
    BY <1>3 DEF Position
  <2> QED
    BY <1>1, <1>3, <2>1
<1> QED
  BY <1>2, <1>3

\* The entries that rrfFuse sorts, and how it compares them.
Entries(fts, vec) == {Entry(fts, vec, x) : x \in ToSet(fts) \cup ToSet(vec)}
Better(S) ==
  {p \in S \X S :
     LET a == p[1] b == p[2]
     IN  \/ Greater(a.rrf, b.rrf)
         \/ /\ ~Greater(b.rrf, a.rrf)
            /\ \/ At(a.result[2]) > At(b.result[2])
               \/ At(a.result[2]) = At(b.result[2]) /\ a.order < b.order}

\* An entry has a fraction for its score, and a place of its own.
LEMMA EntriesDiffer ==
  ASSUME NEW fts \in Seq(Results), NEW vec \in Seq(Results)
  PROVE  /\ \A e \in Entries(fts, vec) :
              /\ e.rrf \in Fractions /\ e.order \in Nat
              /\ e.result \in ToSet(fts) \cup ToSet(vec) /\ e = Entry(fts, vec, e.result)
         /\ \A d, e \in Entries(fts, vec) : d.order = e.order => d = e
<1> DEFINE results == ToSet(fts) \cup ToSet(vec)
<1>1. Len(fts) \in Nat /\ Len(vec) \in Nat /\ RrfK0 \in Nat
  BY LenProperties, HistoryAssumption
<1>2. ASSUME NEW L \in {fts, vec}, NEW x
      PROVE  /\ Contribution(L, x) \in Nat /\ (Contribution(L, x) # 0 <=> x \in ToSet(L))
             /\ Position(L, x) \in 0..Len(L) /\ (Position(L, x) # 0 <=> x \in ToSet(L))
             /\ Position(L, x) # 0 => L[Position(L, x)] = x
  <2>1. /\ Position(L, x) \in 0..Len(L) /\ (Position(L, x) # 0 <=> x \in ToSet(L))
        /\ Position(L, x) # 0 => L[Position(L, x)] = x
    BY PositionInList
  <2>2. Position(L, x) \in Nat
    BY <1>1, <2>1
  <2> QED
    BY <1>1, <2>1, <2>2 DEF Contribution
<1>3. ASSUME NEW x \in results
      PROVE  /\ Entry(fts, vec, x).result = x
             /\ Entry(fts, vec, x).rrf \in Fractions
             /\ Entry(fts, vec, x).order \in Nat
  <2> DEFINE a == Contribution(fts, x)
             b == Contribution(vec, x)
  <2>1. a \in Nat /\ b \in Nat /\ (a # 0 \/ b # 0)
    BY <1>2
  <2> HIDE DEF a, b
  <2>2. Sum(a, b) \in Fractions
    <3>1. CASE a = 0
      BY <2>1, <3>1 DEF Sum, Fractions
    <3>2. CASE a # 0 /\ b = 0
      BY <2>1, <3>2 DEF Sum, Fractions
    <3>3. CASE a # 0 /\ b # 0
      <4>1. a + b \in Nat /\ a * b \in Nat \ {0}
        BY <2>1, <3>3
      <4> QED
        BY <3>3, <4>1 DEF Sum, Fractions
    <3> QED
      BY <3>1, <3>2, <3>3
  <2>3. Position(fts, x) \in Nat /\ Position(vec, x) \in Nat
    BY <1>1, <1>2
  <2> QED
    BY <1>1, <2>2, <2>3 DEF Entry, a, b
<1>4. ASSUME NEW x \in results, NEW y \in results,
             Entry(fts, vec, x).order = Entry(fts, vec, y).order
      PROVE  x = y
  <2> DEFINE a == Position(fts, x)
             b == Position(vec, x)
             c == Position(fts, y)
             d == Position(vec, y)
             n == Len(fts)
  <2>1. /\ a \in 0..n /\ b \in Nat /\ (a # 0 \/ b # 0) /\ (a # 0 => fts[a] = x) /\ (b # 0 => vec[b] = x)
        /\ c \in 0..n /\ d \in Nat /\ (c # 0 \/ d # 0) /\ (c # 0 => fts[c] = y) /\ (d # 0 => vec[d] = y)
    BY <1>1, <1>2
  <2>2. (IF a # 0 THEN a ELSE n + b) = (IF c # 0 THEN c ELSE n + d)
    BY <1>4 DEF Entry
  <2>3. n \in Nat
    BY <1>1
  <2> HIDE DEF a, b, c, d, n
  <2>4. (a # 0 /\ c = a) \/ (a = 0 /\ c = 0 /\ b = d)
    BY <2>1, <2>2, <2>3
  <2> QED
    BY <2>1, <2>4
<1> QED
  BY <1>3, <1>4 DEF Entries

\* A hybrid search has no result twice.
LEMMA FusedWithoutRepetition ==
  ASSUME HistoryInv, NEW fts \in Seq(Results), NEW vec \in Seq(Results)
  PROVE  LET L == Fused(fts, vec)
         IN  L \in Seq(Results) /\ \A m, n \in 1..Len(L) : L[m] = L[n] => m = n
<1> DEFINE E == Entries(fts, vec)
           R == Better(E)
           list == Ordered(E, R)
<1>1. ToSet(fts) \subseteq Results /\ ToSet(vec) \subseteq Results
  <2>1. /\ \A n \in DOMAIN fts : fts[n] \in Results
        /\ \A n \in DOMAIN vec : vec[n] \in Results
    BY ElementOfSeq, LenProperties
  <2> QED
    BY <2>1 DEF ToSet
<1>2. IsFiniteSet(E)
  <2> DEFINE S == ToSet(fts) \cup ToSet(vec)
             f == [x \in S |-> Entry(fts, vec, x)]
  <2>1. IsFiniteSet(S)
    <3>1. S \in SUBSET Results
      BY <1>1
    <3>2. [x \in S |-> 0] \in [S -> Nat]
      OBVIOUS
    <3> HIDE DEF S
    <3>3. \A x \in S : [y \in S |-> 0][x] \in Nat
      BY <3>2
    <3> QED
      BY <3>1, <3>3, ResultOrders
  <2>2. f \in Surjection(S, E)
    BY DEF Surjection, Entries
  <2> HIDE DEF f, S, E
  <2> QED
    BY <2>1, <2>2, FS_Surjection
<1>3. /\ \A e \in E : /\ e.rrf \in Fractions /\ e.order \in Nat
                      /\ e.result \in Results /\ e = Entry(fts, vec, e.result)
                      /\ At(e.result[2]) \in Nat
      /\ \A d, e \in E : d.order = e.order => d = e
  <2>1. \A x \in Results : At(x[2]) \in Nat
    BY RowOrders DEF Results
  <2> QED
    BY <1>1, <2>1, EntriesDiffer
<1> HIDE DEF E
<1>4. \A a, b \in E : <<a, b>> \in R <=>
        \/ Greater(a.rrf, b.rrf)
        \/ /\ ~Greater(b.rrf, a.rrf)
           /\ \/ At(a.result[2]) > At(b.result[2])
              \/ At(a.result[2]) = At(b.result[2]) /\ a.order < b.order
  BY DEF Better
<1> HIDE DEF R
<1>5. StrictOrder(E, R)
  <2>1. ASSUME NEW a \in E PROVE <<a, a>> \notin R
    BY <1>3, <1>4, GreaterIsAnOrder
  <2>2. ASSUME NEW a \in E, NEW b \in E, NEW c \in E, <<a, b>> \in R, <<b, c>> \in R
        PROVE  <<a, c>> \in R
    <3> DEFINE G(x, y) == Greater(x.rrf, y.rrf)
    <3>1. /\ \A x, y \in E : G(x, y) => ~G(y, x)
          /\ \A x, y, z \in E : ~G(x, y) /\ ~G(y, z) => ~G(x, z)
      BY <1>3, GreaterIsAnOrder
    <3>2. ~G(b, a) /\ ~G(c, b)
      BY <1>4, <2>2, <3>1
    <3>3. ~G(c, a)
      BY <3>1, <3>2
    <3>4. CASE G(a, b) \/ G(b, c)
      <4>1. G(a, c)
        BY <3>1, <3>2, <3>4
      <4> QED
        BY <1>4, <4>1
    <3>5. CASE ~G(a, b) /\ ~G(b, c)
      <4>1. /\ \/ At(a.result[2]) > At(b.result[2])
               \/ At(a.result[2]) = At(b.result[2]) /\ a.order < b.order
            /\ \/ At(b.result[2]) > At(c.result[2])
               \/ At(b.result[2]) = At(c.result[2]) /\ b.order < c.order
        BY <1>4, <2>2, <3>5
      <4>2. \/ At(a.result[2]) > At(c.result[2])
            \/ At(a.result[2]) = At(c.result[2]) /\ a.order < c.order
        <5>1. /\ At(a.result[2]) \in Nat /\ At(b.result[2]) \in Nat /\ At(c.result[2]) \in Nat
              /\ a.order \in Nat /\ b.order \in Nat /\ c.order \in Nat
          BY <1>3
        <5> QED
          BY <4>1, <5>1
      <4> QED
        BY <1>4, <3>3, <4>2
    <3> QED
      BY <3>4, <3>5
  <2>3. ASSUME NEW a \in E, NEW b \in E, a # b PROVE <<a, b>> \in R \/ <<b, a>> \in R
    <3>1. a.order # b.order
      BY <1>3, <2>3
    <3>2. /\ At(a.result[2]) \in Nat /\ At(b.result[2]) \in Nat
          /\ a.order \in Nat /\ b.order \in Nat
      BY <1>3
    <3> QED
      BY <1>4, <3>1, <3>2
  <2> QED
    BY <2>1, <2>2, <2>3 DEF StrictOrder
<1>6. Lists(list, E, R)
  BY <1>2, <1>5, OrderedLists
<1>7. Fused(fts, vec) = [n \in DOMAIN list |-> list[n].result]
  BY DEF Fused, E, Entries, R, Better
<1> HIDE DEF list
<1>8. /\ DOMAIN list = 1..Len(list) /\ Len(list) \in Nat
      /\ \A n \in 1..Len(list) : list[n] \in E
  BY <1>6, ElementOfSeq, LenProperties DEF Lists
<1>9. \A m, n \in 1..Len(list) : list[m] = list[n] => m = n
  <2>1. Len(list) <= Len(list)
    BY <1>8
  <2> QED
    BY <1>2, <1>5, <1>6, <1>8, <2>1, FirstPlaces
<1> DEFINE L == Fused(fts, vec)
<1>10. L \in [1..Len(list) -> Results] /\ \A n \in 1..Len(list) : L[n] = list[n].result
  BY <1>3, <1>7, <1>8
<1>11. L \in Seq(Results) /\ Len(L) = Len(list)
  <2> HIDE DEF L
  <2> QED
    BY <1>8, <1>10
<1>12. ASSUME NEW m \in 1..Len(L), NEW n \in 1..Len(L), L[m] = L[n] PROVE m = n
  <2>1. list[m].result = list[n].result /\ list[m] \in E /\ list[n] \in E
    BY <1>8, <1>10, <1>11, <1>12
  <2>2. list[m] = list[n]
    BY <1>3, <2>1
  <2> QED
    BY <1>9, <1>11, <2>2
<1> QED
  BY <1>11, <1>12

\* A search is a list of results, and none of them is on a page twice.
LEMMA SearchWithoutRepetition ==
  ASSUME HistoryInv, NEW mode, NEW filter, NEW limit \in Nat, NEW offset \in Nat
  PROVE  LET page == Search(mode, filter, limit, offset)
         IN  Len(page) <= limit /\ Cardinality(ToSet(page)) = Len(page)
<1> DEFINE n == limit + offset
           fts == FtsResults(filter, n)
           vec == VectorResults(filter, n)
<1>1. n \in Nat
  OBVIOUS
<1> HIDE DEF n
<1>2. fts \in Seq(Results) /\ \A i, j \in 1..Len(fts) : fts[i] = fts[j] => i = j
  <2> DEFINE F == FtsBest(filter, n)
  <2>1. PICK R : F \subseteq Results /\ IsFiniteSet(F) /\ StrictOrder(F, R) /\ Lists(fts, F, R)
    BY <1>1, FtsRanking
  <2> HIDE DEF F, fts
  <2>2. fts \in Seq(Results) /\ Len(fts) \in Nat
    BY <2>1, LenProperties DEF Lists
  <2> QED
    BY <2>1, <2>2, FirstPlaces
<1>3. vec \in Seq(Results) /\ \A i, j \in 1..Len(vec) : vec[i] = vec[j] => i = j
  <2> DEFINE F == VecFound(filter, Reach(n))
  <2>1. PICK R : F \subseteq Results /\ IsFiniteSet(F) /\ StrictOrder(F, R) /\ Lists(vec, F, R)
    BY <1>1, VecRanking
  <2> HIDE DEF F, vec
  <2>2. vec \in Seq(Results) /\ Len(vec) \in Nat
    BY <2>1, LenProperties DEF Lists
  <2> QED
    BY <2>1, <2>2, FirstPlaces
<1>4. Search(mode, filter, limit, offset)
        = Page(CASE mode = "lexical" -> fts [] mode = "semantic" -> vec [] OTHER -> Fused(fts, vec),
               limit, offset)
  BY DEF Search, n
<1> HIDE DEF fts, vec
<1>5. PICK L \in Seq(Results) :
        /\ Search(mode, filter, limit, offset) = Page(L, limit, offset)
        /\ \A i, j \in 1..Len(L) : L[i] = L[j] => i = j
  <2>1. CASE mode = "lexical"
    BY <1>2, <1>4, <2>1
  <2>2. CASE mode = "semantic"
    BY <1>3, <1>4, <2>2
  <2>3. CASE mode # "lexical" /\ mode # "semantic"
    <3>1. Search(mode, filter, limit, offset) = Page(Fused(fts, vec), limit, offset)
      BY <1>4, <2>3
    <3> QED
      BY <1>2, <1>3, <3>1, FusedWithoutRepetition
  <2> QED
    BY <2>1, <2>2, <2>3
<1> QED
  BY <1>5, PageWithoutRepetition

\* Page by page a search shows the scores of the whole ranking, and no result
\* twice on a page.
THEOREM PagesAreOfRanking == Spec => []PagesFollowRanking
<1>1. HistoryInv => PagesFollowRanking
  <2> SUFFICES ASSUME HistoryInv, NEW filter \in world.filters,
                      NEW limit \in 1..2, NEW page \in 0..2
               PROVE  LET all      == 2 * world.rows
                          found    == FtsResults(filter, all)
                          nearest  == VectorResults(filter, all)
                          offset   == page * limit
                          lexical  == Search("lexical", filter, limit, offset)
                          semantic == Search("semantic", filter, limit, offset)
                          hybrid   == Search("hybrid", filter, limit, offset)
                      IN  /\ Scores(lexical, TextRank) = Scores(Page(found, limit, offset), TextRank)
                          /\ filter = [source |-> "any", app |-> "any"] =>
                               Scores(semantic, Nearness)
                                 = Scores(Page(nearest, limit, offset), Nearness)
                          /\ \A results \in {lexical, semantic, hybrid} :
                               Len(results) <= limit /\ Cardinality(ToSet(results)) = Len(results)
    BY DEF PagesFollowRanking
  <2> DEFINE all    == 2 * world.rows
             offset == page * limit
             n      == limit + offset
  <2>1. all \in Nat /\ Cardinality(Rowids) <= all
    <3>1. world.rows \in Nat /\ Len(rows) <= world.rows /\ Len(rows) \in Nat /\ Rowids = 1..Len(rows)
      BY HistoryAssumption, LenProperties DEF HistoryInv, Rowids
    <3>2. Cardinality(Rowids) = Len(rows)
      <4>1. 1 \in Int /\ (1 > Len(rows) => Len(rows) = 0) /\ (Len(rows) - 1) + 1 = Len(rows)
        BY <3>1
      <4> QED
        BY <3>1, <4>1, FS_Interval
    <3> QED
      BY <3>1, <3>2
  <2>2. limit \in Nat /\ offset \in Nat /\ n \in Nat
    <3>1. limit \in Nat /\ page \in Nat
      OBVIOUS
    <3> QED
      BY <3>1
  <2> HIDE DEF all, offset
  <2>3. Scores(Search("lexical", filter, limit, offset), TextRank)
          = Scores(Page(FtsResults(filter, all), limit, offset), TextRank)
    <3> DEFINE L == FtsResults(filter, n)
               M == FtsResults(filter, all)
    <3>1. Search("lexical", filter, limit, offset) = Page(L, limit, offset)
      BY DEF Search
    <3> HIDE DEF n
    <3>2. L \in Seq(Results) /\ M \in Seq(Results)
      BY <2>1, <2>2, FtsRanking DEF Lists
    <3>3. SameScores(L, M, TextRank, n)
      BY <2>1, <2>2, LexicalScores DEF SameScores
    <3> HIDE DEF L, M
    <3>4. Scores(Page(L, limit, offset), TextRank) = Scores(Page(M, limit, offset), TextRank)
      BY <2>2, <3>2, <3>3, SamePages DEF n
    <3> QED
      BY <3>1, <3>4 DEF M
  <2>4. ASSUME filter = [source |-> "any", app |-> "any"]
        PROVE  Scores(Search("semantic", filter, limit, offset), Nearness)
                 = Scores(Page(VectorResults(filter, all), limit, offset), Nearness)
    <3> DEFINE L == VectorResults(filter, n)
               M == VectorResults(filter, all)
    <3>1. Search("semantic", filter, limit, offset) = Page(L, limit, offset)
      BY DEF Search
    <3> HIDE DEF n
    <3>2. L \in Seq(Results) /\ M \in Seq(Results)
      BY <2>1, <2>2, VecRanking DEF Lists
    <3>3. SameScores(L, M, Nearness, n)
      BY <2>1, <2>2, <2>4, SemanticScores DEF SameScores
    <3> HIDE DEF L, M
    <3>4. Scores(Page(L, limit, offset), Nearness) = Scores(Page(M, limit, offset), Nearness)
      BY <2>2, <3>2, <3>3, SamePages DEF n
    <3> QED
      BY <3>1, <3>4 DEF M
  <2>5. \A mode \in {"lexical", "semantic", "hybrid"} :
          LET results == Search(mode, filter, limit, offset)
          IN  Len(results) <= limit /\ Cardinality(ToSet(results)) = Len(results)
    BY <2>2, SearchWithoutRepetition
  <2> QED
    BY <2>3, <2>4, <2>5 DEF all, offset
<1> QED
  BY <1>1, HistoryIsSound, PTL

-----------------------------------------------------------------------------
(* recent_activity: groups of rows. *)

\* The keys and the groups there can be.
KeySet == {Key(i) : i \in Rowids} \cup {AudioKey(i) : i \in Rowids}
GroupSet == [key : KeySet, start : Nat, end : Nat, rows : Seq(Rowids)]

\* The rows of a group.
Members(group) == ToSet(group.rows)

\* A group of some of the rows P spans what its rows span, and has none twice.
GroupOK(group, P) ==
  /\ Members(group) \subseteq P
  /\ \A k, l \in 1..Len(group.rows) : group.rows[k] = group.rows[l] => k = l
  /\ \A i \in Members(group) : group.start <= At(i) /\ rows[i].end <= group.end
  /\ \E i \in Members(group) : At(i) = group.start
  /\ \E i \in Members(group) : rows[i].end = group.end

\* Groups that have every row of P once.
GroupsOf(groups, P) ==
  /\ groups \in Seq(GroupSet)
  /\ \A n \in 1..Len(groups) : GroupOK(groups[n], P)
  /\ \A i \in P : \E n \in 1..Len(groups) : i \in Members(groups[n])
  /\ \A m, n \in 1..Len(groups) : \A i \in Members(groups[m]) : i \in Members(groups[n]) => m = n

\* The times of a row.
LEMMA TimesOfRow ==
  ASSUME HistoryInv, NEW i \in Rowids
  PROVE  /\ At(i) \in Nat /\ rows[i].at = At(i) /\ rows[i].end \in Nat /\ At(i) <= rows[i].end
         /\ rows[i].kind = "screen" => rows[i].end = At(i)
<1>1. rows[i] \in RowsOf(world) /\ InTime(rows[i])
  BY ElementOfSeq, LenProperties DEF HistoryInv, Rowids
<1> QED
  BY <1>1 DEF RowsOf, InTime, At

\* A row is appended to what a list has.
LEMMA AppendedMember ==
  ASSUME NEW S, NEW L \in Seq(S), NEW i \in S, \A k, l \in 1..Len(L) : L[k] = L[l] => k = l,
         i \notin ToSet(L)
  PROVE  LET M == Append(L, i)
         IN  /\ M \in Seq(S) /\ ToSet(M) = ToSet(L) \cup {i}
             /\ \A k, l \in 1..Len(M) : M[k] = M[l] => k = l
<1> DEFINE M == Append(L, i)
<1>1. /\ M \in Seq(S) /\ Len(M) = Len(L) + 1 /\ Len(L) \in Nat
      /\ \A k \in 1..Len(L) : M[k] = L[k]
      /\ M[Len(L) + 1] = i
  BY AppendProperties, LenProperties
<1> HIDE DEF M
<1>2. DOMAIN M = 1..Len(M) /\ DOMAIN L = 1..Len(L)
  BY <1>1, LenProperties
<1>3. \A k \in 1..Len(M) : k = Len(L) + 1 \/ k \in 1..Len(L)
  BY <1>1
<1>4. \A k \in 1..Len(L) : k \in 1..Len(M) /\ L[k] \in ToSet(L)
  BY <1>1, <1>2 DEF ToSet
<1>5. ToSet(M) = ToSet(L) \cup {i}
  <2>1. ASSUME NEW x \in ToSet(M) PROVE x \in ToSet(L) \cup {i}
    <3>1. PICK k \in 1..Len(M) : M[k] = x
      BY <1>2 DEF ToSet
    <3> QED
      BY <1>1, <1>3, <1>4, <3>1
  <2>2. ASSUME NEW x \in ToSet(L) PROVE x \in ToSet(M)
    <3>1. PICK k \in 1..Len(L) : L[k] = x
      BY <1>2 DEF ToSet
    <3> QED
      BY <1>1, <1>2, <1>4, <3>1 DEF ToSet
  <2>3. i \in ToSet(M)
    <3>1. Len(L) + 1 \in 1..Len(M)
      BY <1>1
    <3> QED
      BY <1>1, <1>2, <3>1 DEF ToSet
  <2> QED
    BY <2>1, <2>2, <2>3
<1>6. ASSUME NEW k \in 1..Len(M), NEW l \in 1..Len(M), M[k] = M[l] PROVE k = l
  BY <1>1, <1>3, <1>4, <1>6
<1> QED
  BY <1>1, <1>5, <1>6 DEF M

\* AddRow: the row is a member, and the span covers it.
LEMMA RowAdded ==
  ASSUME HistoryInv, NEW g \in GroupSet, NEW i \in Rowids, i \notin Members(g),
         \A k, l \in 1..Len(g.rows) : g.rows[k] = g.rows[l] => k = l
  PROVE  LET h == AddRow(g, i)
         IN  /\ h \in GroupSet /\ h.key = g.key /\ Members(h) = Members(g) \cup {i}
             /\ h.start = (IF At(i) < g.start THEN At(i) ELSE g.start)
             /\ h.end = (IF rows[i].end > g.end THEN rows[i].end ELSE g.end)
             /\ \A k, l \in 1..Len(h.rows) : h.rows[k] = h.rows[l] => k = l
<1> DEFINE h == AddRow(g, i)
<1>1. g.rows \in Seq(Rowids) /\ g.start \in Nat /\ g.end \in Nat /\ g.key \in KeySet
  BY DEF GroupSet
<1>2. At(i) \in Nat /\ rows[i].end \in Nat
  BY TimesOfRow
<1>3. /\ Append(g.rows, i) \in Seq(Rowids)
      /\ ToSet(Append(g.rows, i)) = Members(g) \cup {i}
      /\ \A k, l \in 1..Len(Append(g.rows, i)) : Append(g.rows, i)[k] = Append(g.rows, i)[l] => k = l
  BY <1>1, AppendedMember DEF Members
<1>4. /\ h.key = g.key /\ h.rows = Append(g.rows, i)
      /\ h.start = (IF At(i) < g.start THEN At(i) ELSE g.start)
      /\ h.end = (IF rows[i].end > g.end THEN rows[i].end ELSE g.end)
      /\ h = [key |-> h.key, start |-> h.start, end |-> h.end, rows |-> h.rows]
  <2> DEFINE start == IF At(i) < g.start THEN At(i) ELSE g.start
             end == IF rows[i].end > g.end THEN rows[i].end ELSE g.end
             list == Append(g.rows, i)
  <2>1. g = [key |-> g.key, start |-> g.start, end |-> g.end, rows |-> g.rows]
    BY DEF GroupSet
  <2>2. h = [g EXCEPT !.start = start, !.end = end, !.rows = list]
    BY DEF AddRow
  <2> HIDE DEF h, start, end, list
  <2>3. h = [key |-> g.key, start |-> start, end |-> end, rows |-> list]
    BY <2>1, <2>2
  <2>4. h.key = g.key /\ h.start = start /\ h.end = end /\ h.rows = list
    BY <2>3
  <2> QED
    BY <2>3, <2>4 DEF start, end, list
<1> HIDE DEF h
<1>5. h.start \in Nat /\ h.end \in Nat
  BY <1>1, <1>2, <1>4
<1>6. h \in GroupSet
  BY <1>1, <1>3, <1>4, <1>5 DEF GroupSet
<1> QED
  BY <1>3, <1>4, <1>6 DEF Members, h

\* A group of a row alone.
LEMMA NewGroup ==
  ASSUME HistoryInv, NEW i \in Rowids, NEW key \in KeySet
  PROVE  LET h == AddRow(EmptyGroup(i, key), i)
         IN  /\ h \in GroupSet /\ GroupOK(h, {i}) /\ Members(h) = {i}
             /\ h.key = key /\ h.start = At(i) /\ h.end = rows[i].end
<1> DEFINE g == EmptyGroup(i, key)
           h == AddRow(g, i)
<1>1. At(i) \in Nat /\ rows[i].end \in Nat
  BY TimesOfRow
<1>2. /\ g = [key |-> key, start |-> At(i), end |-> rows[i].end, rows |-> <<>>]
      /\ <<>> \in Seq(Rowids) /\ Len(<<>>) = 0 /\ ToSet(<<>>) = {}
  BY EmptySeq DEF EmptyGroup, ToSet
<1>3. /\ g \in GroupSet /\ g.key = key /\ g.start = At(i) /\ g.end = rows[i].end
      /\ g.rows = <<>> /\ Members(g) = {}
  BY <1>1, <1>2 DEF GroupSet, Members
<1> HIDE DEF g
<1>4. \A k, l \in 1..Len(g.rows) : g.rows[k] = g.rows[l] => k = l
  BY <1>2, <1>3
<1>5. /\ h \in GroupSet /\ h.key = g.key /\ Members(h) = Members(g) \cup {i}
      /\ h.start = (IF At(i) < g.start THEN At(i) ELSE g.start)
      /\ h.end = (IF rows[i].end > g.end THEN rows[i].end ELSE g.end)
      /\ \A k, l \in 1..Len(h.rows) : h.rows[k] = h.rows[l] => k = l
  BY <1>3, <1>4, RowAdded
<1> HIDE DEF h
<1>6. h.key = key /\ h.start = At(i) /\ h.end = rows[i].end /\ Members(h) = {i}
  BY <1>1, <1>3, <1>5
<1>7. GroupOK(h, {i})
  BY <1>1, <1>5, <1>6 DEF GroupOK
<1> QED
  BY <1>5, <1>6, <1>7 DEF g, h

\* A group with a row more.
LEMMA LongerGroup ==
  ASSUME HistoryInv, NEW P \in SUBSET Rowids, NEW g \in GroupSet, GroupOK(g, P),
         NEW i \in Rowids, i \notin P
  PROVE  LET h == AddRow(g, i)
         IN  /\ h \in GroupSet /\ GroupOK(h, P \cup {i}) /\ Members(h) = Members(g) \cup {i}
             /\ h.key = g.key
             /\ h.start = (IF At(i) < g.start THEN At(i) ELSE g.start)
             /\ h.end = (IF rows[i].end > g.end THEN rows[i].end ELSE g.end)
<1> DEFINE h == AddRow(g, i)
<1>1. /\ h \in GroupSet /\ h.key = g.key /\ Members(h) = Members(g) \cup {i}
      /\ h.start = (IF At(i) < g.start THEN At(i) ELSE g.start)
      /\ h.end = (IF rows[i].end > g.end THEN rows[i].end ELSE g.end)
      /\ \A k, l \in 1..Len(h.rows) : h.rows[k] = h.rows[l] => k = l
  BY RowAdded DEF GroupOK
<1> HIDE DEF h
<1>2. g.start \in Nat /\ g.end \in Nat /\ At(i) \in Nat /\ rows[i].end \in Nat
  BY TimesOfRow DEF GroupSet
<1>3. \A j \in Members(g) : At(j) \in Nat /\ rows[j].end \in Nat
  BY TimesOfRow DEF GroupOK
<1>4. /\ h.start <= At(i) /\ rows[i].end <= h.end /\ h.start <= g.start /\ g.end <= h.end
      /\ h.start \in Nat /\ h.end \in Nat
  BY <1>1, <1>2
<1>5. \A j \in Members(h) : h.start <= At(j) /\ rows[j].end <= h.end
  <2>1. ASSUME NEW j \in Members(g) PROVE h.start <= At(j) /\ rows[j].end <= h.end
    <3>1. g.start <= At(j) /\ rows[j].end <= g.end
      BY DEF GroupOK
    <3> QED
      BY <1>2, <1>3, <1>4, <3>1
  <2> QED
    BY <1>1, <1>4, <2>1
<1>6. \E j \in Members(h) : At(j) = h.start
  <2>1. PICK j \in Members(g) : At(j) = g.start
    BY DEF GroupOK
  <2> QED
    BY <1>1, <2>1
<1>7. \E j \in Members(h) : rows[j].end = h.end
  <2>1. PICK j \in Members(g) : rows[j].end = g.end
    BY DEF GroupOK
  <2> QED
    BY <1>1, <2>1
<1>8. Members(h) \subseteq P \cup {i}
  BY <1>1 DEF GroupOK
<1>9. GroupOK(h, P \cup {i})
  BY <1>1, <1>5, <1>6, <1>7, <1>8 DEF GroupOK
<1> QED
  BY <1>1, <1>9 DEF h

\* Row i is in group n of the new ones, or in one more with that key if n is 0;
\* the others stay.
Added(groups, new, n, i, key) ==
  LET at == IF n = 0 THEN Len(groups) + 1 ELSE n
  IN  /\ Len(new) = (IF n = 0 THEN Len(groups) + 1 ELSE Len(groups)) /\ at \in 1..Len(new)
      /\ \A m \in 1..Len(new) : m # at => m \in 1..Len(groups) /\ new[m] = groups[m]
      /\ Members(new[at]) = (IF n = 0 THEN {} ELSE Members(groups[n])) \cup {i}
      /\ n = 0 => new[at].key = key /\ new[at].start = At(i) /\ new[at].end = rows[i].end
      /\ n # 0 => /\ new[at].key = groups[n].key
                  /\ new[at].start = (IF At(i) < groups[n].start THEN At(i) ELSE groups[n].start)
                  /\ new[at].end = (IF rows[i].end > groups[n].end THEN rows[i].end ELSE groups[n].end)

\* AddTo: into a group that there is, or into a new one.
LEMMA AddedToGroups ==
  ASSUME HistoryInv, NEW P \in SUBSET Rowids, NEW groups, GroupsOf(groups, P),
         NEW i \in Rowids, i \notin P, NEW n \in 0..Len(groups), NEW key \in KeySet
  PROVE  LET new == AddTo(groups, n, i, key)
         IN  GroupsOf(new, P \cup {i}) /\ Added(groups, new, n, i, key)
<1> DEFINE new == AddTo(groups, n, i, key)
           at  == IF n = 0 THEN Len(groups) + 1 ELSE n
           Q   == P \cup {i}
           len == IF n = 0 THEN Len(groups) + 1 ELSE Len(groups)
<1>1. groups \in Seq(GroupSet) /\ Len(groups) \in Nat /\ \A m \in 1..Len(groups) : groups[m] \in GroupSet
  BY ElementOfSeq, LenProperties DEF GroupsOf
<1>2. at \in 1..len /\ \A m \in 1..len : m # at => m \in 1..Len(groups)
  BY <1>1
<1>3. /\ new \in Seq(GroupSet) /\ Len(new) = len
      /\ \A m \in 1..len : m # at => new[m] = groups[m]
      /\ GroupOK(new[at], Q)
      /\ Members(new[at]) = (IF n = 0 THEN {} ELSE Members(groups[n])) \cup {i}
      /\ n = 0 => new[at].key = key /\ new[at].start = At(i) /\ new[at].end = rows[i].end
      /\ n # 0 => /\ new[at].key = groups[n].key
                  /\ new[at].start = (IF At(i) < groups[n].start THEN At(i) ELSE groups[n].start)
                  /\ new[at].end = (IF rows[i].end > groups[n].end THEN rows[i].end ELSE groups[n].end)
  <2>1. CASE n = 0
    <3> DEFINE h == AddRow(EmptyGroup(i, key), i)
    <3>1. /\ h \in GroupSet /\ GroupOK(h, {i}) /\ Members(h) = {i}
          /\ h.key = key /\ h.start = At(i) /\ h.end = rows[i].end
      BY NewGroup
    <3>2. new = Append(groups, h)
      BY <2>1 DEF AddTo
    <3> HIDE DEF h, new
    <3>3. /\ new \in Seq(GroupSet) /\ Len(new) = len /\ new[at] = h
          /\ \A m \in 1..len : m # at => new[m] = groups[m]
      BY <1>1, <1>2, <2>1, <3>1, <3>2, AppendProperties
    <3>4. GroupOK(h, Q)
      BY <3>1 DEF GroupOK
    <3> QED
      BY <2>1, <3>1, <3>3, <3>4
  <2>2. CASE n # 0
    <3> DEFINE h == AddRow(groups[n], i)
    <3>0. n \in 1..Len(groups) /\ groups[n] \in GroupSet /\ GroupOK(groups[n], P)
      BY <1>1, <2>2 DEF GroupsOf
    <3>1. /\ h \in GroupSet /\ GroupOK(h, Q) /\ Members(h) = Members(groups[n]) \cup {i}
          /\ h.key = groups[n].key
          /\ h.start = (IF At(i) < groups[n].start THEN At(i) ELSE groups[n].start)
          /\ h.end = (IF rows[i].end > groups[n].end THEN rows[i].end ELSE groups[n].end)
      BY <3>0, LongerGroup
    <3>2. new = [groups EXCEPT ![n] = h]
      BY <2>2 DEF AddTo
    <3> HIDE DEF h, new, Q
    <3>3. /\ new \in Seq(GroupSet) /\ Len(new) = len /\ new[at] = h
          /\ \A m \in 1..len : m # at => new[m] = groups[m]
      BY <1>1, <1>2, <2>2, <3>0, <3>1, <3>2, ExceptSeq
    <3> QED
      BY <2>2, <3>1, <3>3
  <2> QED
    BY <2>1, <2>2
<1> HIDE DEF new
<1>4. ASSUME NEW m \in 1..len PROVE GroupOK(new[m], Q)
  <2>1. CASE m = at
    BY <1>3, <2>1
  <2>2. CASE m # at
    <3>1. GroupOK(groups[m], P) /\ new[m] = groups[m]
      BY <1>2, <1>3, <2>2 DEF GroupsOf
    <3> QED
      BY <3>1 DEF GroupOK
  <2> QED
    BY <2>1, <2>2
<1>5. \A m \in 1..Len(groups) : m \in 1..len /\ Members(groups[m]) \subseteq Members(new[m])
  <2>1. ASSUME NEW m \in 1..Len(groups)
        PROVE  m \in 1..len /\ Members(groups[m]) \subseteq Members(new[m])
    <3>1. m \in 1..len
      BY <1>1
    <3> QED
      BY <1>1, <1>2, <1>3, <3>1
  <2> QED
    BY <2>1
<1>6. ASSUME NEW j \in Q PROVE \E m \in 1..len : j \in Members(new[m])
  <2>1. CASE j = i
    BY <1>2, <1>3, <2>1
  <2>2. CASE j \in P
    BY <1>5, <2>2 DEF GroupsOf
  <2> QED
    BY <2>1, <2>2
<1>7. ASSUME NEW k \in 1..len, NEW m \in 1..len, NEW j, j \in Members(new[k]), j \in Members(new[m])
      PROVE  k = m
  <2>1. CASE j = i
    <3>1. \A l \in 1..Len(groups) : i \notin Members(groups[l])
      BY DEF GroupsOf, GroupOK
    <3> QED
      BY <1>2, <1>3, <1>7, <2>1, <3>1
  <2>2. CASE j # i
    <3>1. \A l \in 1..len : j \in Members(new[l]) => l \in 1..Len(groups) /\ j \in Members(groups[l])
      BY <1>1, <1>2, <1>3, <2>2
    <3> QED
      BY <1>7, <3>1 DEF GroupsOf
  <2> QED
    BY <2>1, <2>2
<1>8. GroupsOf(new, Q)
  BY <1>3, <1>4, <1>6, <1>7 DEF GroupsOf
<1>9. Added(groups, new, n, i, key)
  BY <1>2, <1>3 DEF Added
<1> QED
  BY <1>8, <1>9 DEF new

\* The latest of some groups, if there are any.
LEMMA RecentGroup ==
  ASSUME NEW N \in Nat, NEW T \in SUBSET (1..N)
  PROVE  /\ Recent(T) \in 0..N
         /\ T # {} => Recent(T) \in T /\ Recent(T) # 0 /\ \A m \in T : m <= Recent(T)
         /\ T = {} => Recent(T) = 0
<1>1. CASE T = {}
  <2>1. Recent(T) = 0
    BY <1>1 DEF Recent
  <2> QED
    BY <1>1, <2>1
<1>2. CASE T # {}
  <2>1. T \in SUBSET (0..N)
    OBVIOUS
  <2>2. Recent(T) \in T /\ \A m \in T : m <= Recent(T)
    BY <1>2, <2>1, MaxOfNats DEF Recent
  <2>3. \A m \in T : m \in 0..N /\ m # 0
    OBVIOUS
  <2> QED
    BY <1>2, <2>2, <2>3
<1> QED
  BY <1>1, <1>2

\* Rows of a window of which the later one is within reach of the earlier.
Near(i, j) ==
  /\ HasWindow(i) /\ HasWindow(j) /\ Key(i) = Key(j)
  /\ At(i) <= At(j) /\ At(j) - rows[i].end <= SessionGap

\* They are in one group.
Together(groups, P) ==
  \A i, j \in P : Near(i, j) =>
    \E n \in 1..Len(groups) : i \in Members(groups[n]) /\ j \in Members(groups[n])

\* The groups of the first loop: each of a key, and those of a window too far
\* apart for a row to be within reach of an earlier one when it is not of a
\* later one.
WindowInv(groups, P) ==
  /\ GroupsOf(groups, P)
  /\ \A n \in 1..Len(groups) : \A i \in Members(groups[n]) : Key(i) = groups[n].key
  /\ \A m, n \in 1..Len(groups) :
       (m < n /\ groups[m].key = groups[n].key /\ \E i \in Members(groups[m]) : HasWindow(i)) =>
         groups[n].start - groups[m].end > SessionGap
  /\ Together(groups, P)

\* The group of a row ends when the row does or later.
LEMMA GroupOfRow ==
  ASSUME HistoryInv, NEW P \in SUBSET Rowids, NEW groups, GroupsOf(groups, P), NEW i \in P
  PROVE  \E n \in 1..Len(groups) : /\ i \in Members(groups[n])
                                   /\ groups[n].start <= At(i) /\ rows[i].end <= groups[n].end
<1>1. PICK n \in 1..Len(groups) : i \in Members(groups[n])
  BY DEF GroupsOf
<1>2. GroupOK(groups[n], P)
  BY DEF GroupsOf
<1> QED
  BY <1>1, <1>2 DEF GroupOK

\* What a group has of times.
LEMMA GroupTimes ==
  ASSUME HistoryInv, NEW P \in SUBSET Rowids, NEW groups, GroupsOf(groups, P),
         NEW n \in 1..Len(groups)
  PROVE  /\ groups[n] \in GroupSet /\ groups[n].start \in Nat /\ groups[n].end \in Nat
         /\ groups[n].start <= groups[n].end
         /\ \E i \in Members(groups[n]) : i \in P /\ At(i) = groups[n].start
<1>1. groups[n] \in GroupSet /\ GroupOK(groups[n], P)
  BY ElementOfSeq DEF GroupsOf
<1>2. groups[n].start \in Nat /\ groups[n].end \in Nat
  BY <1>1 DEF GroupSet
<1>3. PICK i \in Members(groups[n]) : At(i) = groups[n].start
  BY <1>1 DEF GroupOK
<1>4. i \in P /\ rows[i].end <= groups[n].end
  BY <1>1 DEF GroupOK
<1>5. At(i) \in Nat /\ rows[i].end \in Nat /\ At(i) <= rows[i].end
  BY <1>4, TimesOfRow
<1> QED
  BY <1>1, <1>2, <1>3, <1>4, <1>5

\* A step of the first loop.
LEMMA PlacedInWindow ==
  ASSUME HistoryInv, NEW P \in SUBSET Rowids, NEW groups, WindowInv(groups, P),
         NEW j \in Rowids, j \notin P, \A i \in P : At(i) <= At(j)
  PROVE  WindowInv(PlaceWindowed(groups, j), P \cup {j})
<1> DEFINE found == {n \in DOMAIN groups : /\ HasWindow(j) /\ groups[n].key = Key(j)
                                           /\ Within(groups[n], j)}
           n   == Recent(found)
           new == AddTo(groups, n, j, Key(j))
           at  == IF n = 0 THEN Len(groups) + 1 ELSE n
           Q   == P \cup {j}
<1>0. PlaceWindowed(groups, j) = new
  BY DEF PlaceWindowed
<1>1. GroupsOf(groups, P) /\ Len(groups) \in Nat /\ DOMAIN groups = 1..Len(groups)
  BY LenProperties DEF WindowInv, GroupsOf
<1>2. /\ n \in 0..Len(groups)
      /\ n # 0 => n \in 1..Len(groups) /\ groups[n].key = Key(j) /\ Within(groups[n], j) /\ HasWindow(j)
      /\ \A m \in 1..Len(groups) :
           (HasWindow(j) /\ groups[m].key = Key(j) /\ Within(groups[m], j)) => m <= n /\ n # 0
  <2>1. found \in SUBSET (1..Len(groups))
    BY <1>1
  <2>2. /\ n \in 0..Len(groups)
        /\ found # {} => n \in found /\ n # 0 /\ \A m \in found : m <= n
        /\ found = {} => n = 0
    <3> HIDE DEF found
    <3> QED
      BY <1>1, <2>1, RecentGroup
  <2> HIDE DEF n
  <2>3. n # 0 => n \in found
    BY <2>2
  <2>4. \A m \in found : m <= n /\ n # 0
    BY <2>2
  <2> QED
    BY <1>1, <2>2, <2>3, <2>4
<1> HIDE DEF found, n
<1>3. Key(j) \in KeySet
  BY DEF KeySet
<1>4. GroupsOf(new, Q) /\ Added(groups, new, n, j, Key(j))
  BY <1>1, <1>2, <1>3, AddedToGroups
<1>5. /\ GroupsOf(new, Q)
      /\ Len(new) = (IF n = 0 THEN Len(groups) + 1 ELSE Len(groups)) /\ at \in 1..Len(new)
      /\ \A m \in 1..Len(new) : m # at => m \in 1..Len(groups) /\ new[m] = groups[m]
      /\ Members(new[at]) = (IF n = 0 THEN {} ELSE Members(groups[n])) \cup {j}
      /\ n = 0 => new[at].key = Key(j) /\ new[at].start = At(j) /\ new[at].end = rows[j].end
      /\ n # 0 => /\ new[at].key = groups[n].key
                  /\ new[at].start = (IF At(j) < groups[n].start THEN At(j) ELSE groups[n].start)
                  /\ new[at].end = (IF rows[j].end > groups[n].end THEN rows[j].end ELSE groups[n].end)
  BY <1>4 DEF Added
<1> HIDE DEF new
<1>6. At(j) \in Nat /\ rows[j].end \in Nat /\ At(j) <= rows[j].end /\ SessionGap \in Nat
  BY TimesOfRow, HistoryAssumption
<1>7. new[at].key = Key(j) /\ new[at].start <= At(j) /\ (n # 0 => new[at].start = groups[n].start)
  <2>1. CASE n = 0
    BY <1>5, <1>6, <2>1
  <2>2. CASE n # 0
    <3>1. groups[n].start \in Nat /\ \E i \in Members(groups[n]) : i \in P /\ At(i) = groups[n].start
      BY <1>1, <1>2, <2>2, GroupTimes
    <3>2. groups[n].start <= At(j)
      BY <3>1
    <3> QED
      BY <1>2, <1>5, <1>6, <2>2, <3>1, <3>2
  <2> QED
    BY <2>1, <2>2
<1>8. \A m \in 1..Len(new) : \A i \in Members(new[m]) : Key(i) = new[m].key
  <2>1. ASSUME NEW m \in 1..Len(new), NEW i \in Members(new[m]) PROVE Key(i) = new[m].key
    <3>1. CASE m # at
      BY <1>5, <2>1, <3>1 DEF WindowInv
    <3>2. CASE m = at
      <4>1. CASE i = j
        BY <1>7, <3>2, <4>1
      <4>2. CASE i # j
        BY <1>2, <1>5, <2>1, <3>2, <4>2 DEF WindowInv
      <4> QED
        BY <4>1, <4>2
    <3> QED
      BY <3>1, <3>2
  <2> QED
    BY <2>1
<1>9. \A i, k \in Rowids : (Key(i) = Key(k) /\ HasWindow(i)) => HasWindow(k)
  BY DEF Key
<1>10. \A m \in 1..Len(groups) : /\ groups[m].start \in Nat /\ groups[m].end \in Nat
                               /\ groups[m].start <= groups[m].end
                               /\ Members(groups[m]) # {} /\ Members(groups[m]) \subseteq P
  <2>1. \A m \in 1..Len(groups) : Members(groups[m]) \subseteq P
    BY <1>1 DEF GroupsOf, GroupOK
  <2> QED
    BY <1>1, <2>1, GroupTimes
<1>11. ASSUME NEW m \in 1..Len(new), NEW k \in 1..Len(new), m < k, new[m].key = new[k].key,
              NEW i \in Members(new[m]), HasWindow(i)
       PROVE  new[k].start - new[m].end > SessionGap
  <2>0. Key(i) = new[m].key /\ i \in Rowids
    BY <1>5, <1>8 DEF GroupsOf, GroupOK
  <2>1. CASE m # at /\ k # at
    <3>1. m \in 1..Len(groups) /\ new[m] = groups[m] /\ k \in 1..Len(groups) /\ new[k] = groups[k]
      BY <1>5, <2>1
    <3> QED
      BY <1>11, <3>1 DEF WindowInv
  <2>2. CASE m # at /\ k = at
    <3>1. m \in 1..Len(groups) /\ new[m] = groups[m] /\ groups[m].key = Key(j)
      BY <1>5, <1>7, <1>11, <2>2
    <3>2. CASE n = 0
      <4>1. HasWindow(j)
        BY <1>9, <1>11, <2>0, <3>1
      <4>2. ~Within(groups[m], j)
        BY <1>2, <3>1, <3>2, <4>1
      <4> QED
        BY <1>5, <1>6, <1>10, <2>2, <3>1, <3>2, <4>2 DEF Within
    <3>3. CASE n # 0
      <4>1. k = n /\ groups[m].key = groups[n].key /\ new[k].start = groups[n].start
        BY <1>2, <1>7, <2>2, <3>1, <3>3
      <4> QED
        BY <1>2, <1>11, <3>1, <3>3, <4>1 DEF WindowInv
    <3> QED
      BY <3>2, <3>3
  <2>3. CASE m = at
    <3>1. n # 0 /\ m = n
      BY <1>1, <1>5, <1>11, <2>3
    <3>2. k \in 1..Len(groups) /\ new[k] = groups[k] /\ groups[k].key = Key(j) /\ n < k
      BY <1>5, <1>7, <1>11, <2>3, <3>1
    <3>3. PICK p \in Members(groups[n]) : p \in Rowids /\ Key(p) = Key(j)
      BY <1>2, <1>10, <3>1 DEF WindowInv
    <3>4. HasWindow(j) /\ HasWindow(p)
      BY <1>2, <1>9, <3>1, <3>3
    <3>5. groups[k].start - groups[n].end > SessionGap
      BY <1>2, <3>1, <3>2, <3>3, <3>4 DEF WindowInv
    <3>6. ~Within(groups[k], j) /\ Within(groups[n], j)
      BY <1>2, <3>1, <3>2, <3>4
    <3> QED
      <4>1. /\ groups[k].start \in Nat /\ groups[k].end \in Nat /\ groups[n].end \in Nat
            /\ groups[k].start <= groups[k].end
        BY <1>2, <1>10, <3>1, <3>2
      <4>2. At(j) - groups[k].end > SessionGap /\ At(j) - groups[n].end <= SessionGap
        BY <1>6, <3>6, <4>1 DEF Within
      <4>3. \A time, start, end, past, gap \in Nat :
              (time - end > gap /\ time - past <= gap /\ start <= end) => ~(start - past > gap)
        OBVIOUS
      <4> QED
        BY <1>6, <3>5, <4>1, <4>2, <4>3
  <2> QED
    BY <2>1, <2>2, <2>3
<1>12. \A m \in 1..Len(groups) : m \in 1..Len(new) /\ Members(groups[m]) \subseteq Members(new[m])
  <2>1. ASSUME NEW m \in 1..Len(groups)
        PROVE  m \in 1..Len(new) /\ Members(groups[m]) \subseteq Members(new[m])
    <3>1. m \in 1..Len(new)
      BY <1>1, <1>5
    <3>2. CASE m # at
      BY <1>5, <3>1, <3>2
    <3>3. CASE m = at
      <4>1. n # 0
        BY <1>1, <3>3
      <4> QED
        BY <1>5, <3>1, <3>3, <4>1
    <3> QED
      BY <3>1, <3>2, <3>3
  <2> QED
    BY <2>1
<1>13. ASSUME NEW p \in P, HasWindow(p), Key(p) = Key(j), At(j) - rows[p].end <= SessionGap
       PROVE  p \in Members(new[at])
  <2>1. PICK m \in 1..Len(groups) : p \in Members(groups[m]) /\ rows[p].end <= groups[m].end
    BY <1>1, GroupOfRow
  <2>2. groups[m].key = Key(j) /\ HasWindow(j)
    BY <1>9, <1>13, <2>1 DEF WindowInv
  <2>3. rows[p].end \in Nat /\ groups[m].end \in Nat
    BY <1>10, TimesOfRow
  <2>4. Within(groups[m], j)
    BY <1>6, <1>13, <2>1, <2>3 DEF Within
  <2>5. m <= n /\ n # 0
    BY <1>2, <2>2, <2>4
  <2>6. ~(m < n)
    <3>1. ASSUME m < n PROVE FALSE
      <4>1. groups[n].start - groups[m].end > SessionGap
        BY <1>2, <1>13, <2>1, <2>2, <2>5, <3>1 DEF WindowInv
      <4>2. groups[n].start <= At(j) /\ groups[n].start \in Nat
        BY <1>2, <1>7, <1>10, <2>5
      <4> QED
        BY <1>6, <2>3, <2>4, <4>1, <4>2 DEF Within
    <3> QED
      BY <3>1
  <2>7. m = n
    BY <1>2, <2>5, <2>6
  <2> QED
    BY <1>5, <2>1, <2>5, <2>7
<1>14. ASSUME NEW i \in Q, NEW k \in Q, Near(i, k)
       PROVE  \E m \in 1..Len(new) : i \in Members(new[m]) /\ k \in Members(new[m])
  <2>1. CASE i \in P /\ k \in P
    <3>1. PICK m \in 1..Len(groups) : i \in Members(groups[m]) /\ k \in Members(groups[m])
      BY <1>14, <2>1 DEF WindowInv, Together
    <3> QED
      BY <1>12, <3>1
  <2>2. CASE i \in P /\ k = j
    BY <1>5, <1>13, <1>14, <2>2 DEF Near
  <2>3. CASE i = j /\ k \in P
    <3>1. At(j) <= At(k) /\ At(k) <= At(j)
      BY <1>14, <2>3 DEF Near
    <3>2. At(k) \in Nat /\ rows[k].end \in Nat /\ At(k) <= rows[k].end
      BY <2>3, TimesOfRow
    <3>3. At(j) - rows[k].end <= SessionGap
      BY <1>6, <3>1, <3>2
    <3>4. HasWindow(k) /\ Key(k) = Key(j)
      BY <1>14, <2>3 DEF Near
    <3> QED
      BY <1>5, <1>13, <2>3, <3>3, <3>4
  <2>4. CASE i = j /\ k = j
    BY <1>5, <2>4
  <2> QED
    BY <2>1, <2>2, <2>3, <2>4
<1>15. Together(new, Q)
  BY <1>14 DEF Together
<1>16. WindowInv(new, Q)
  <2> HIDE DEF Q
  <2> QED
    BY <1>5, <1>8, <1>11, <1>15 DEF WindowInv
<1> QED
  BY <1>0, <1>16

\* The first loop, step by step.
LEMMA WindowSteps ==
  ASSUME NEW list, Len(list) \in Nat
  PROVE  \E f : /\ f = [n \in 0..Len(list) |-> IF n = 0 THEN <<>> ELSE PlaceWindowed(f[n - 1], list[n])]
               /\ WindowGroups(list) = f[Len(list)]
<1> DEFINE Fits(f, m) == f = [n \in 0..m |-> IF n = 0 THEN <<>> ELSE PlaceWindowed(f[n - 1], list[n])]
           T == {m \in Nat : \E f : Fits(f, m)}
<1>1. 0 \in T
  <2> DEFINE f == [n \in 0..0 |-> <<>>]
  <2>1. Fits(f, 0)
    <3>1. \A n \in 0..0 : n = 0
      OBVIOUS
    <3> QED
      BY <3>1
  <2> QED
    BY <2>1
<1>2. ASSUME NEW m \in Nat, m \in T PROVE m + 1 \in T
  <2>1. PICK f : Fits(f, m)
    BY <1>2
  <2> DEFINE g == [n \in 0..(m + 1) |-> IF n = m + 1 THEN PlaceWindowed(f[m], list[m + 1]) ELSE f[n]]
  <2>2. \A n \in 0..m : g[n] = f[n]
    OBVIOUS
  <2>3. ASSUME NEW n \in 0..(m + 1)
        PROVE  g[n] = IF n = 0 THEN <<>> ELSE PlaceWindowed(g[n - 1], list[n])
    <3>1. CASE n = m + 1
      <4>1. g[n] = PlaceWindowed(f[m], list[m + 1]) /\ n # 0 /\ n - 1 = m /\ m \in 0..m
        BY <3>1
      <4>2. g[n - 1] = f[m]
        BY <4>1, <2>2
      <4> HIDE DEF g
      <4> QED
        BY <3>1, <4>1, <4>2
    <3>2. CASE n = 0
      <4>1. 0 \in 0..m /\ f[0] = <<>>
        BY <2>1
      <4> QED
        BY <3>2, <2>2, <4>1
    <3>3. CASE n # 0 /\ n # m + 1
      <4>1. n \in 0..m /\ n - 1 \in 0..m
        BY <3>3
      <4>2. f[n] = PlaceWindowed(f[n - 1], list[n])
        BY <2>1, <3>3, <4>1
      <4>3. g[n] = f[n] /\ g[n - 1] = f[n - 1]
        BY <2>2, <4>1
      <4> HIDE DEF g
      <4> QED
        BY <3>3, <4>2, <4>3
    <3> QED
      BY <3>1, <3>2, <3>3
  <2>4. Fits(g, m + 1)
    <3>1. g = [n \in 0..(m + 1) |-> g[n]]
      OBVIOUS
    <3> HIDE DEF g
    <3> QED
      BY <2>3, <3>1
  <2>5. m + 1 \in Nat
    OBVIOUS
  <2> HIDE DEF Fits, g
  <2> QED
    BY <2>4, <2>5
<1>3. Nat \subseteq T
  <2> HIDE DEF T
  <2> QED
    BY <1>1, <1>2, SetInduction
<1>4. PICK g : Fits(g, Len(list))
  BY <1>3
<1> DEFINE f == CHOOSE f : Fits(f, Len(list))
<1>5. Fits(f, Len(list))
  <2> HIDE DEF Fits
  <2> QED
    BY <1>4
<1>6. WindowGroups(list) = f[Len(list)]
  BY DEF WindowGroups
<1> HIDE DEF f
<1> QED
  BY <1>5, <1>6

\* The second loop, step by step.
LEMMA AudioSteps ==
  ASSUME NEW groups, NEW list, Len(list) \in Nat
  PROVE  \E f : /\ f = [n \in 0..Len(list) |-> IF n = 0 THEN groups ELSE PlaceAudio(f[n - 1], list[n])]
               /\ AudioGroups(groups, list) = f[Len(list)]
<1> DEFINE Fits(f, m) == f = [n \in 0..m |-> IF n = 0 THEN groups ELSE PlaceAudio(f[n - 1], list[n])]
           T == {m \in Nat : \E f : Fits(f, m)}
<1>1. 0 \in T
  <2> DEFINE f == [n \in 0..0 |-> groups]
  <2>1. Fits(f, 0)
    <3>1. \A n \in 0..0 : n = 0
      OBVIOUS
    <3> QED
      BY <3>1
  <2> QED
    BY <2>1
<1>2. ASSUME NEW m \in Nat, m \in T PROVE m + 1 \in T
  <2>1. PICK f : Fits(f, m)
    BY <1>2
  <2> DEFINE g == [n \in 0..(m + 1) |-> IF n = m + 1 THEN PlaceAudio(f[m], list[m + 1]) ELSE f[n]]
  <2>2. \A n \in 0..m : g[n] = f[n]
    OBVIOUS
  <2>3. ASSUME NEW n \in 0..(m + 1)
        PROVE  g[n] = IF n = 0 THEN groups ELSE PlaceAudio(g[n - 1], list[n])
    <3>1. CASE n = m + 1
      <4>1. g[n] = PlaceAudio(f[m], list[m + 1]) /\ n # 0 /\ n - 1 = m /\ m \in 0..m
        BY <3>1
      <4>2. g[n - 1] = f[m]
        BY <4>1, <2>2
      <4> HIDE DEF g
      <4> QED
        BY <3>1, <4>1, <4>2
    <3>2. CASE n = 0
      <4>1. 0 \in 0..m /\ f[0] = groups
        BY <2>1
      <4> QED
        BY <3>2, <2>2, <4>1
    <3>3. CASE n # 0 /\ n # m + 1
      <4>1. n \in 0..m /\ n - 1 \in 0..m
        BY <3>3
      <4>2. f[n] = PlaceAudio(f[n - 1], list[n])
        BY <2>1, <3>3, <4>1
      <4>3. g[n] = f[n] /\ g[n - 1] = f[n - 1]
        BY <2>2, <4>1
      <4> HIDE DEF g
      <4> QED
        BY <3>3, <4>2, <4>3
    <3> QED
      BY <3>1, <3>2, <3>3
  <2>4. Fits(g, m + 1)
    <3>1. g = [n \in 0..(m + 1) |-> g[n]]
      OBVIOUS
    <3> HIDE DEF g
    <3> QED
      BY <2>3, <3>1
  <2>5. m + 1 \in Nat
    OBVIOUS
  <2> HIDE DEF Fits, g
  <2> QED
    BY <2>4, <2>5
<1>3. Nat \subseteq T
  <2> HIDE DEF T
  <2> QED
    BY <1>1, <1>2, SetInduction
<1>4. PICK g : Fits(g, Len(list))
  BY <1>3
<1> DEFINE f == CHOOSE f : Fits(f, Len(list))
<1>5. Fits(f, Len(list))
  <2> HIDE DEF Fits
  <2> QED
    BY <1>4
<1>6. AudioGroups(groups, list) = f[Len(list)]
  BY DEF AudioGroups
<1> HIDE DEF f
<1> QED
  BY <1>5, <1>6

\* A list is gone through from the first to the last of what it has.
LEMMA TopGrows ==
  ASSUME NEW S, IsFiniteSet(S), NEW R, StrictOrder(S, R), NEW L, Lists(L, S, R)
  PROVE  /\ Len(L) \in Nat /\ Top(L, 0) = {} /\ Top(L, Len(L)) = S
         /\ \A n \in Nat : n + 1 <= Len(L) =>
              /\ Top(L, n) \in SUBSET S /\ L[n + 1] \in S /\ L[n + 1] \notin Top(L, n)
              /\ Top(L, n + 1) = Top(L, n) \cup {L[n + 1]}
              /\ \A x \in Top(L, n) : <<x, L[n + 1]>> \in R
<1>1. /\ Len(L) \in Nat /\ \A n \in 1..Len(L) : L[n] \in S
      /\ \A m, n \in 1..Len(L) : L[m] = L[n] => m = n
  BY ElementOfSeq, LenProperties, FirstPlaces DEF Lists
<1>2. Top(L, 0) = {}
  BY DEF Top
<1>3. Top(L, Len(L)) = S
  BY <1>1 DEF Top, Lists
<1>4. ASSUME NEW n \in Nat, n + 1 <= Len(L)
      PROVE  /\ Top(L, n) \in SUBSET S /\ L[n + 1] \in S /\ L[n + 1] \notin Top(L, n)
             /\ Top(L, n + 1) = Top(L, n) \cup {L[n + 1]}
             /\ \A x \in Top(L, n) : <<x, L[n + 1]>> \in R
  <2>1. n + 1 \in 1..Len(L) /\ \A k \in 1..n : k \in 1..Len(L) /\ k < n + 1
    BY <1>1, <1>4
  <2>2. \A x \in Top(L, n) : \E k \in 1..n : x = L[k]
    BY DEF Top
  <2>3. Top(L, n) \in SUBSET S /\ L[n + 1] \in S /\ L[n + 1] \notin Top(L, n)
    BY <1>1, <2>1, <2>2
  <2>4. \A x \in Top(L, n) : <<x, L[n + 1]>> \in R
    BY <2>1, <2>2 DEF Lists
  <2>5. Top(L, n + 1) = Top(L, n) \cup {L[n + 1]}
    <3>1. \A k : k \in 1..(n + 1) <=> k \in 1..n \/ k = n + 1
      OBVIOUS
    <3> QED
      BY <3>1 DEF Top
  <2> QED
    BY <2>3, <2>4, <2>5
<1> QED
  BY <1>1, <1>2, <1>3, <1>4

\* What comes sooner is not later.
LEMMA OldestIsFirst ==
  ASSUME HistoryInv, NEW i \in Rowids, NEW j \in Rowids, <<i, j>> \in OldestFirst
  PROVE  At(i) <= At(j)
<1>1. At(i) \in Nat /\ At(j) \in Nat
  BY TimesOfRow
<1> QED
  BY <1>1 DEF OldestFirst

\* The first loop.
LEMMA WindowLoop ==
  ASSUME HistoryInv, NEW W \in SUBSET Rowids, NEW L, Lists(L, W, OldestFirst)
  PROVE  WindowInv(WindowGroups(L), W)
<1>1. IsFiniteSet(W) /\ StrictOrder(W, OldestFirst)
  BY RowOrders
<1>2. /\ Len(L) \in Nat /\ Top(L, 0) = {} /\ Top(L, Len(L)) = W
      /\ \A n \in Nat : n + 1 <= Len(L) =>
           /\ Top(L, n) \in SUBSET W /\ L[n + 1] \in W /\ L[n + 1] \notin Top(L, n)
           /\ Top(L, n + 1) = Top(L, n) \cup {L[n + 1]}
           /\ \A x \in Top(L, n) : <<x, L[n + 1]>> \in OldestFirst
  BY <1>1, TopGrows
<1>3. PICK f : /\ f = [n \in 0..Len(L) |-> IF n = 0 THEN <<>> ELSE PlaceWindowed(f[n - 1], L[n])]
               /\ WindowGroups(L) = f[Len(L)]
  BY <1>2, WindowSteps
<1> DEFINE T == {n \in Nat : n <= Len(L) => WindowInv(f[n], Top(L, n))}
<1>4. 0 \in T
  <2>1. f[0] = <<>>
    <3>1. 0 \in 0..Len(L)
      BY <1>2
    <3> QED
      BY <1>3, <3>1
  <2>2. GroupsOf(<<>>, {})
    BY EmptySeq DEF GroupsOf
  <2>3. WindowInv(<<>>, {})
    BY <2>2, EmptySeq DEF WindowInv, Together
  <2> QED
    BY <1>2, <2>1, <2>3
<1>5. ASSUME NEW n \in Nat, n \in T PROVE n + 1 \in T
  <2>1. SUFFICES ASSUME n + 1 <= Len(L) PROVE WindowInv(f[n + 1], Top(L, n + 1))
    BY <1>2
  <2>2. n <= Len(L) /\ n + 1 \in 0..Len(L) /\ n + 1 # 0 /\ (n + 1) - 1 = n
    BY <1>2, <2>1
  <2>3. WindowInv(f[n], Top(L, n))
    BY <1>5, <2>2
  <2>4. f[n + 1] = PlaceWindowed(f[n], L[n + 1])
    BY <1>3, <2>2
  <2>5. /\ Top(L, n) \in SUBSET Rowids /\ L[n + 1] \in Rowids /\ L[n + 1] \notin Top(L, n)
        /\ Top(L, n + 1) = Top(L, n) \cup {L[n + 1]}
        /\ \A x \in Top(L, n) : <<x, L[n + 1]>> \in OldestFirst
    BY <1>2, <2>1
  <2>6. \A x \in Top(L, n) : At(x) <= At(L[n + 1])
    BY <2>5, OldestIsFirst
  <2> HIDE DEF T
  <2> QED
    BY <2>3, <2>4, <2>5, <2>6, PlacedInWindow
<1>6. Nat \subseteq T
  <2> HIDE DEF T
  <2> QED
    BY <1>4, <1>5, SetInduction
<1>7. WindowInv(f[Len(L)], Top(L, Len(L)))
  BY <1>2, <1>6
<1> QED
  BY <1>2, <1>3, <1>7

\* The groups of the second loop, when W are the rows of the first and A those
\* of the second that are done: audio is with a screenshot taken while it ran.
AudioInv(groups, W, A) ==
  /\ GroupsOf(groups, W \cup A)
  /\ Together(groups, W)
  /\ \A i \in A, j \in W : (rows[j].kind = "screen" /\ At(j) \in At(i)..rows[i].end) =>
       \E n \in 1..Len(groups) : i \in Members(groups[n]) /\ HasScreen(groups[n])

\* A step of the second loop.
LEMMA PlacedAudio ==
  ASSUME HistoryInv, NEW W \in SUBSET Rowids, NEW A \in SUBSET Rowids, NEW groups,
         AudioInv(groups, W, A), NEW i \in Rowids, i \notin W, i \notin A
  PROVE  AudioInv(PlaceAudio(groups, i), W, A \cup {i})
<1> DEFINE screens == {n \in DOMAIN groups : HasScreen(groups[n]) /\ Overlaps(groups[n], i)}
           sources == {n \in DOMAIN groups : groups[n].key = AudioKey(i) /\ Within(groups[n], i)}
           n   == IF Recent(screens) # 0 THEN Recent(screens) ELSE Recent(sources)
           new == AddTo(groups, n, i, AudioKey(i))
           at  == IF n = 0 THEN Len(groups) + 1 ELSE n
           P   == W \cup A
<1>1. PlaceAudio(groups, i) = new
  BY DEF PlaceAudio
<1>2. GroupsOf(groups, P) /\ Len(groups) \in Nat /\ DOMAIN groups = 1..Len(groups)
  BY LenProperties DEF AudioInv, GroupsOf
<1>3. /\ n \in 0..Len(groups)
      /\ screens # {} => n \in screens /\ n # 0
  <2>1. screens \in SUBSET (1..Len(groups)) /\ sources \in SUBSET (1..Len(groups))
    BY <1>2
  <2> HIDE DEF screens, sources
  <2>2. /\ Recent(screens) \in 0..Len(groups) /\ Recent(sources) \in 0..Len(groups)
        /\ screens # {} => Recent(screens) \in screens /\ Recent(screens) # 0
    BY <1>2, <2>1, RecentGroup
  <2> QED
    BY <2>2
<1>4. \A m \in 1..Len(groups) :
        (HasScreen(groups[m]) /\ Overlaps(groups[m], i)) => n # 0 /\ HasScreen(groups[n])
  BY <1>2, <1>3
<1> HIDE DEF screens, sources, n
<1>5. AudioKey(i) \in KeySet /\ P \in SUBSET Rowids /\ i \notin P
  BY DEF KeySet
<1> HIDE DEF P
<1>6. GroupsOf(new, P \cup {i}) /\ Added(groups, new, n, i, AudioKey(i))
  BY <1>2, <1>3, <1>5, AddedToGroups
<1> HIDE DEF new
<1>7. /\ Len(new) = (IF n = 0 THEN Len(groups) + 1 ELSE Len(groups)) /\ at \in 1..Len(new)
      /\ \A m \in 1..Len(new) : m # at => m \in 1..Len(groups) /\ new[m] = groups[m]
      /\ Members(new[at]) = (IF n = 0 THEN {} ELSE Members(groups[n])) \cup {i}
  BY <1>6 DEF Added
<1>8. \A m \in 1..Len(groups) : m \in 1..Len(new) /\ Members(groups[m]) \subseteq Members(new[m])
  <2>1. ASSUME NEW m \in 1..Len(groups)
        PROVE  m \in 1..Len(new) /\ Members(groups[m]) \subseteq Members(new[m])
    <3>1. m \in 1..Len(new)
      BY <1>2, <1>7
    <3>2. CASE m # at
      BY <1>7, <3>1, <3>2
    <3>3. CASE m = at
      <4>1. n # 0
        BY <1>2, <3>3
      <4> QED
        BY <1>7, <3>1, <3>3, <4>1
    <3> QED
      BY <3>1, <3>2, <3>3
  <2> QED
    BY <2>1
<1>9. \A m \in 1..Len(groups) : HasScreen(groups[m]) => HasScreen(new[m])
  BY <1>8 DEF HasScreen, Members
<1>10. Together(new, W)
  <2>1. ASSUME NEW j \in W, NEW k \in W, Near(j, k)
        PROVE  \E m \in 1..Len(new) : j \in Members(new[m]) /\ k \in Members(new[m])
    <3>1. PICK m \in 1..Len(groups) : j \in Members(groups[m]) /\ k \in Members(groups[m])
      BY <2>1 DEF AudioInv, Together
    <3> QED
      BY <1>8, <3>1
  <2> QED
    BY <2>1 DEF Together
<1>11. ASSUME NEW k \in A \cup {i}, NEW j \in W, rows[j].kind = "screen", At(j) \in At(k)..rows[k].end
       PROVE  \E m \in 1..Len(new) : k \in Members(new[m]) /\ HasScreen(new[m])
  <2>1. CASE k \in A
    <3>1. PICK m \in 1..Len(groups) : k \in Members(groups[m]) /\ HasScreen(groups[m])
      BY <1>11, <2>1 DEF AudioInv
    <3> QED
      BY <1>8, <1>9, <3>1
  <2>2. CASE k = i
    <3>1. j \in P /\ j \in Rowids /\ k \in Rowids
      BY <2>2 DEF P
    <3>2. PICK m \in 1..Len(groups) : /\ j \in Members(groups[m])
                                     /\ groups[m].start <= At(j) /\ rows[j].end <= groups[m].end
      BY <1>2, <1>5, <3>1, GroupOfRow
    <3>3. /\ rows[j].end = At(j) /\ At(j) \in Nat /\ At(i) \in Nat /\ rows[i].end \in Nat
          /\ groups[m].start \in Nat /\ groups[m].end \in Nat
      BY <1>2, <1>5, <1>11, <3>1, TimesOfRow, GroupTimes
    <3>4. Overlaps(groups[m], i)
      BY <1>11, <2>2, <3>2, <3>3 DEF Overlaps
    <3>5. HasScreen(groups[m])
      BY <1>11, <3>2 DEF HasScreen, Members
    <3>6. n # 0 /\ HasScreen(groups[n])
      BY <1>4, <3>4, <3>5
    <3>7. at = n /\ n \in 1..Len(groups) /\ HasScreen(new[n]) /\ i \in Members(new[n])
      BY <1>3, <1>7, <1>9, <3>6
    <3> QED
      BY <1>7, <2>2, <3>7
  <2> QED
    BY <2>1, <2>2
<1>12. W \cup (A \cup {i}) = P \cup {i}
  BY DEF P
<1>13. AudioInv(new, W, A \cup {i})
  BY <1>6, <1>10, <1>11, <1>12 DEF AudioInv
<1> QED
  BY <1>1, <1>13

\* The second loop.
LEMMA AudioLoop ==
  ASSUME HistoryInv, NEW W \in SUBSET Rowids, NEW A \in SUBSET Rowids, W \cap A = {},
         NEW groups, WindowInv(groups, W), NEW L, Lists(L, A, OldestFirst)
  PROVE  AudioInv(AudioGroups(groups, L), W, A)
<1>1. IsFiniteSet(A) /\ StrictOrder(A, OldestFirst)
  BY RowOrders
<1>2. /\ Len(L) \in Nat /\ Top(L, 0) = {} /\ Top(L, Len(L)) = A
      /\ \A n \in Nat : n + 1 <= Len(L) =>
           /\ Top(L, n) \in SUBSET A /\ L[n + 1] \in A /\ L[n + 1] \notin Top(L, n)
           /\ Top(L, n + 1) = Top(L, n) \cup {L[n + 1]}
  BY <1>1, TopGrows
<1>3. PICK f : /\ f = [n \in 0..Len(L) |-> IF n = 0 THEN groups ELSE PlaceAudio(f[n - 1], L[n])]
               /\ AudioGroups(groups, L) = f[Len(L)]
  BY <1>2, AudioSteps
<1> DEFINE T == {n \in Nat : n <= Len(L) => AudioInv(f[n], W, Top(L, n))}
<1>4. 0 \in T
  <2>1. f[0] = groups
    <3>1. 0 \in 0..Len(L)
      BY <1>2
    <3> QED
      BY <1>3, <3>1
  <2>2. AudioInv(groups, W, {})
    <3>1. W \cup {} = W
      OBVIOUS
    <3> QED
      BY <3>1 DEF WindowInv, AudioInv
  <2> QED
    BY <1>2, <2>1, <2>2
<1>5. ASSUME NEW n \in Nat, n \in T PROVE n + 1 \in T
  <2>1. SUFFICES ASSUME n + 1 <= Len(L) PROVE AudioInv(f[n + 1], W, Top(L, n + 1))
    BY <1>2
  <2>2. n <= Len(L) /\ n + 1 \in 0..Len(L) /\ n + 1 # 0 /\ (n + 1) - 1 = n
    BY <1>2, <2>1
  <2>3. AudioInv(f[n], W, Top(L, n))
    BY <1>5, <2>2
  <2>4. f[n + 1] = PlaceAudio(f[n], L[n + 1])
    BY <1>3, <2>2
  <2>5. /\ Top(L, n) \in SUBSET Rowids /\ L[n + 1] \in Rowids
        /\ L[n + 1] \notin W /\ L[n + 1] \notin Top(L, n)
        /\ Top(L, n + 1) = Top(L, n) \cup {L[n + 1]}
    BY <1>2, <2>1
  <2> HIDE DEF T
  <2> QED
    BY <2>3, <2>4, <2>5, PlacedAudio
<1>6. Nat \subseteq T
  <2> HIDE DEF T
  <2> QED
    BY <1>4, <1>5, SetInduction
<1>7. AudioInv(f[Len(L)], W, Top(L, Len(L)))
  BY <1>2, <1>6
<1> QED
  BY <1>2, <1>3, <1>7

\* Sorting keeps the groups, and makes their starts rise.
LEMMA SortedGroups ==
  ASSUME HistoryInv, NEW P \in SUBSET Rowids, NEW groups, GroupsOf(groups, P)
  PROVE  LET sorted == ByStart(groups)
         IN  /\ GroupsOf(sorted, P)
             /\ \A n \in 1..Len(sorted) : n > 1 => sorted[n - 1].start <= sorted[n].start
             /\ \A m \in 1..Len(groups) : \E n \in 1..Len(sorted) : sorted[n] = groups[m]
<1> DEFINE N == Len(groups)
           sooner == {p \in (DOMAIN groups) \X (DOMAIN groups) :
                        \/ groups[p[1]].start < groups[p[2]].start
                        \/ groups[p[1]].start = groups[p[2]].start /\ p[1] < p[2]}
           number == Ordered(DOMAIN groups, sooner)
           sorted == [n \in DOMAIN groups |-> groups[number[n]]]
<1>1. groups \in Seq(GroupSet) /\ N \in Nat /\ DOMAIN groups = 1..N
  BY LenProperties DEF GroupsOf
<1>2. \A n \in 1..N : groups[n] \in GroupSet /\ groups[n].start \in Nat
  BY GroupTimes
<1>3. \A m, n \in 1..N : <<m, n>> \in sooner <=>
        (groups[m].start < groups[n].start \/ (groups[m].start = groups[n].start /\ m < n))
  BY <1>1
<1>4. ByStart(groups) = sorted
  BY DEF ByStart
<1> HIDE DEF sooner
<1>5. StrictOrder(1..N, sooner)
  <2> DEFINE S == 1..N
             start(n) == groups[n].start
  <2>1. /\ \A n \in S : n \in Nat /\ start(n) \in Nat
        /\ \A m, n \in S : <<m, n>> \in sooner <=> (start(m) < start(n) \/ (start(m) = start(n) /\ m < n))
    BY <1>1, <1>2, <1>3
  <2> HIDE DEF S, start
  <2>2. StrictOrder(S, sooner)
    BY <2>1 DEF StrictOrder
  <2> QED
    BY <2>2 DEF S
<1>6. IsFiniteSet(1..N) /\ Cardinality(1..N) = N
  <2>1. 1 \in Int /\ N \in Int /\ (1 > N => N = 0) /\ (N - 1) + 1 = N
    BY <1>1
  <2> QED
    BY <2>1, FS_Interval
<1>7. Lists(number, 1..N, sooner)
  BY <1>1, <1>5, <1>6, OrderedLists
<1>8. /\ Len(number) = N /\ \A n \in 1..N : number[n] \in 1..N
      /\ \A m, n \in 1..N : number[m] = number[n] => m = n
      /\ \A m \in 1..N : \E n \in 1..N : number[n] = m
      /\ \A m, n \in 1..N : m < n => <<number[m], number[n]>> \in sooner
  <2> HIDE DEF number
  <2>1. Len(number) = N /\ \A n \in 1..N : number[n] \in 1..N
    BY <1>6, <1>7, ElementOfSeq DEF Lists
  <2>2. \A m, n \in 1..N : number[m] = number[n] => m = n
    BY <1>5, <1>6, <1>7, <2>1, FirstPlaces
  <2> QED
    BY <1>7, <2>1, <2>2 DEF Lists
<1> HIDE DEF number
<1>9. sorted \in Seq(GroupSet) /\ Len(sorted) = N /\ \A n \in 1..N : sorted[n] = groups[number[n]]
  <2>1. sorted \in [1..N -> GroupSet] /\ \A n \in 1..N : sorted[n] = groups[number[n]]
    BY <1>1, <1>2, <1>8
  <2> HIDE DEF sorted
  <2> QED
    BY <1>1, <2>1, IsASeq, LenProperties
<1> HIDE DEF sorted
<1>10. ASSUME NEW m \in 1..N PROVE \E n \in 1..N : sorted[n] = groups[m]
  <2>1. PICK n \in 1..N : number[n] = m
    BY <1>8
  <2> QED
    BY <1>9, <2>1
<1>11. ASSUME NEW n \in 1..N, n > 1 PROVE sorted[n - 1].start <= sorted[n].start
  <2>1. n - 1 \in 1..N /\ n - 1 < n
    BY <1>1, <1>11
  <2>2. <<number[n - 1], number[n]>> \in sooner /\ number[n - 1] \in 1..N /\ number[n] \in 1..N
    BY <1>8, <2>1
  <2>3. /\ groups[number[n - 1]].start \in Nat /\ groups[number[n]].start \in Nat
        /\ \/ groups[number[n - 1]].start < groups[number[n]].start
           \/ groups[number[n - 1]].start = groups[number[n]].start
    BY <1>2, <1>3, <2>2
  <2>4. sorted[n - 1] = groups[number[n - 1]] /\ sorted[n] = groups[number[n]]
    BY <1>9, <2>1
  <2> QED
    BY <2>3, <2>4
<1>12. GroupsOf(sorted, P)
  <2>1. \A n \in 1..N : GroupOK(sorted[n], P)
    BY <1>8, <1>9 DEF GroupsOf
  <2>2. \A i \in P : \E n \in 1..N : i \in Members(sorted[n])
    BY <1>10 DEF GroupsOf
  <2>3. ASSUME NEW m \in 1..N, NEW n \in 1..N, NEW i \in Members(sorted[m]), i \in Members(sorted[n])
        PROVE  m = n
    <3>1. /\ sorted[m] = groups[number[m]] /\ sorted[n] = groups[number[n]]
          /\ number[m] \in 1..N /\ number[n] \in 1..N
      BY <1>8, <1>9
    <3>2. number[m] = number[n]
      BY <2>3, <3>1 DEF GroupsOf
    <3> QED
      BY <1>8, <3>2
  <2> QED
    BY <1>9, <2>1, <2>2, <2>3 DEF GroupsOf
<1> QED
  BY <1>4, <1>9, <1>10, <1>11, <1>12

\* The span of a group, as its rows have it, and how many they are.
LEMMA GroupSpan ==
  ASSUME HistoryInv, NEW P \in SUBSET Rowids, NEW group \in GroupSet, GroupOK(group, P)
  PROVE  LET members == ToSet(group.rows)
         IN  /\ Len(group.rows) = Cardinality(members) /\ members \subseteq P
             /\ group.start = Min({rows[i].at : i \in members})
             /\ group.end = Max({rows[i].end : i \in members})
<1> DEFINE members == ToSet(group.rows)
           starts  == {rows[i].at : i \in members}
           ends    == {rows[i].end : i \in members}
           list    == group.rows
<1>1. list \in Seq(Rowids) /\ group.start \in Nat /\ group.end \in Nat
  BY DEF GroupSet
<1>2. /\ members \subseteq P /\ \A k, l \in 1..Len(list) : list[k] = list[l] => k = l
      /\ \A i \in members : group.start <= At(i) /\ rows[i].end <= group.end
      /\ \E i \in members : At(i) = group.start
      /\ \E i \in members : rows[i].end = group.end
  BY DEF GroupOK, Members
<1>3. Len(list) = Cardinality(members)
  <2> HIDE DEF list
  <2>1. Len(list) \in Nat /\ DOMAIN list = 1..Len(list)
    BY <1>1, LenProperties
  <2>2. list \in [1..Len(list) -> members] /\ \A t \in members : \E n \in 1..Len(list) : list[n] = t
    BY <1>1, <2>1 DEF ToSet, list
  <2> HIDE DEF members
  <2>3. list \in Bijection(1..Len(list), members)
    BY <1>2, <2>2 DEF Injection, IsInjective, Surjection, Bijection
  <2> QED
    BY <2>1, <2>3, FS_CountingElements DEF ExistsBijection
<1> HIDE DEF list, members
<1>4. \A i \in members : /\ rows[i].at = At(i) /\ At(i) \in Nat /\ rows[i].end \in Nat
  BY <1>2, TimesOfRow
<1>5. /\ group.start \in starts /\ \A t \in starts : t \in Nat /\ group.start <= t
      /\ group.end \in ends /\ \A t \in ends : t \in Nat /\ t <= group.end
  BY <1>2, <1>4
<1> HIDE DEF starts, ends
<1>6. /\ Min(starts) \in starts /\ \A t \in starts : Min(starts) <= t
  BY <1>5 DEF Min
<1>7. /\ Max(ends) \in ends /\ \A t \in ends : Max(ends) >= t
  <2>1. \A t \in ends : group.end >= t
    BY <1>1, <1>5
  <2> QED
    BY <1>5, <2>1 DEF Max
<1>8. group.start = Min(starts) /\ group.end = Max(ends)
  BY <1>1, <1>5, <1>6, <1>7
<1> QED
  BY <1>2, <1>3, <1>8 DEF starts, ends, members, list

\* What recent_activity returns of the rows it has selected.
LEMMA ActivityOfRows ==
  ASSUME HistoryInv, NEW P \in SUBSET Rowids
  PROVE  LET groups == ActivityGroups(P)
         IN  /\ GroupsOf(groups, P) /\ Together(groups, {i \in P : IsWindowed(i)})
             /\ \A n \in 1..Len(groups) : n > 1 => groups[n - 1].start <= groups[n].start
             /\ \A i, j \in P : (~IsWindowed(i) /\ rows[j].kind = "screen" /\ At(j) \in At(i)..rows[i].end) =>
                  \E n \in 1..Len(groups) : i \in Members(groups[n]) /\ HasScreen(groups[n])
<1> DEFINE W == {i \in P : IsWindowed(i)}
           A == P \ W
           first  == WindowGroups(Ordered(W, OldestFirst))
           second == AudioGroups(first, Ordered(A, OldestFirst))
           sorted == ByStart(second)
<1>1. ActivityGroups(P) = sorted
  BY DEF ActivityGroups
<1>2. W \in SUBSET Rowids /\ A \in SUBSET Rowids /\ W \cap A = {} /\ W \cup A = P
  OBVIOUS
<1>3. \A i \in P : ~IsWindowed(i) => i \in A
  OBVIOUS
<1>4. \A j \in P : rows[j].kind = "screen" => j \in W
  BY DEF IsWindowed
<1> HIDE DEF W, A
<1>5. /\ Lists(Ordered(W, OldestFirst), W, OldestFirst)
      /\ Lists(Ordered(A, OldestFirst), A, OldestFirst)
  BY <1>2, RowOrders, OrderedLists
<1>6. WindowInv(first, W)
  BY <1>2, <1>5, WindowLoop
<1> HIDE DEF first
<1>7. AudioInv(second, W, A)
  BY <1>2, <1>5, <1>6, AudioLoop
<1> HIDE DEF second
<1>8. GroupsOf(second, P)
  BY <1>2, <1>7 DEF AudioInv
<1>9. /\ GroupsOf(sorted, P)
      /\ \A n \in 1..Len(sorted) : n > 1 => sorted[n - 1].start <= sorted[n].start
      /\ \A m \in 1..Len(second) : \E n \in 1..Len(sorted) : sorted[n] = second[m]
  BY <1>8, SortedGroups
<1> HIDE DEF sorted
<1>10. Together(sorted, W)
  <2>1. ASSUME NEW i \in W, NEW j \in W, Near(i, j)
        PROVE  \E n \in 1..Len(sorted) : i \in Members(sorted[n]) /\ j \in Members(sorted[n])
    <3>1. PICK m \in 1..Len(second) : i \in Members(second[m]) /\ j \in Members(second[m])
      BY <1>7, <2>1 DEF AudioInv, Together
    <3>2. PICK n \in 1..Len(sorted) : sorted[n] = second[m]
      BY <1>9
    <3> QED
      BY <3>1, <3>2
  <2> QED
    BY <2>1 DEF Together
<1>11. ASSUME NEW i \in P, NEW j \in P, ~IsWindowed(i), rows[j].kind = "screen",
              At(j) \in At(i)..rows[i].end
       PROVE  \E n \in 1..Len(sorted) : i \in Members(sorted[n]) /\ HasScreen(sorted[n])
  <2>1. PICK m \in 1..Len(second) : i \in Members(second[m]) /\ HasScreen(second[m])
    BY <1>3, <1>4, <1>7, <1>11 DEF AudioInv
  <2>2. PICK n \in 1..Len(sorted) : sorted[n] = second[m]
    BY <1>9
  <2> QED
    BY <2>1, <2>2
<1> QED
  BY <1>1, <1>9, <1>10, <1>11 DEF W, sorted

\* recent_activity shows every row it has selected, once, in groups whose span
\* is that of their rows, and rows of a window that are close, and audio and the
\* screenshots taken while it ran, are together.
THEOREM ActivityIsCovered == Spec => []ActivityCovers
<1>1. ASSUME HistoryInv, NEW selected \in SUBSET Rowids
      PROVE  LET groups == ActivityGroups(selected)
                 groupOf(i) == {n \in DOMAIN groups : i \in ToSet(groups[n].rows)}
             IN  /\ \A i \in selected : Cardinality(groupOf(i)) = 1
                 /\ \A n \in DOMAIN groups :
                      LET members == ToSet(groups[n].rows)
                      IN  /\ Len(groups[n].rows) = Cardinality(members) /\ members \subseteq selected
                          /\ groups[n].start = Min({rows[i].at : i \in members})
                          /\ groups[n].end = Max({rows[i].end : i \in members})
                          /\ n > 1 => groups[n - 1].start <= groups[n].start
                 /\ \A i, j \in selected :
                      /\ /\ HasWindow(i) /\ HasWindow(j) /\ Key(i) = Key(j)
                         /\ rows[i].at <= rows[j].at /\ rows[j].at - rows[i].end <= SessionGap
                         => groupOf(i) = groupOf(j)
                      /\ /\ ~IsWindowed(i) /\ rows[j].kind = "screen"
                         /\ rows[j].at \in rows[i].at..rows[i].end
                         => \A n \in groupOf(i) : HasScreen(groups[n])
  <2> DEFINE groups == ActivityGroups(selected)
             groupOf(i) == {n \in DOMAIN groups : i \in ToSet(groups[n].rows)}
             W == {i \in selected : IsWindowed(i)}
  <2>1. /\ GroupsOf(groups, selected) /\ Together(groups, W)
        /\ \A n \in 1..Len(groups) : n > 1 => groups[n - 1].start <= groups[n].start
        /\ \A i, j \in selected :
             (~IsWindowed(i) /\ rows[j].kind = "screen" /\ At(j) \in At(i)..rows[i].end) =>
               \E n \in 1..Len(groups) : i \in Members(groups[n]) /\ HasScreen(groups[n])
    BY <1>1, ActivityOfRows
  <2>2. \A i \in selected : HasWindow(i) => i \in W
    BY DEF IsWindowed
  <2> HIDE DEF groups, W
  <2>3. DOMAIN groups = 1..Len(groups)
    BY <2>1, LenProperties DEF GroupsOf
  <2>4. \A i \in selected : \A n \in 1..Len(groups) : i \in Members(groups[n]) => groupOf(i) = {n}
    <3>1. ASSUME NEW i \in selected, NEW n \in 1..Len(groups), i \in Members(groups[n])
          PROVE  groupOf(i) = {n}
      <4>1. \A m \in 1..Len(groups) : i \in Members(groups[m]) => m = n
        BY <2>1, <3>1 DEF GroupsOf
      <4> QED
        BY <2>3, <3>1, <4>1 DEF Members
    <3> QED
      BY <3>1
  <2>5. \A i \in selected : \E n \in 1..Len(groups) : i \in Members(groups[n])
    BY <2>1 DEF GroupsOf
  <2> HIDE DEF groupOf
  <2>6. \A i \in selected : Cardinality(groupOf(i)) = 1
    <3>1. ASSUME NEW i \in selected PROVE Cardinality(groupOf(i)) = 1
      <4>1. PICK n \in 1..Len(groups) : groupOf(i) = {n}
        BY <2>4, <2>5
      <4> QED
        BY <4>1, FS_Singleton
    <3> QED
      BY <3>1
  <2>7. ASSUME NEW n \in 1..Len(groups)
        PROVE  LET members == ToSet(groups[n].rows)
               IN  /\ Len(groups[n].rows) = Cardinality(members) /\ members \subseteq selected
                   /\ groups[n].start = Min({rows[i].at : i \in members})
                   /\ groups[n].end = Max({rows[i].end : i \in members})
                   /\ n > 1 => groups[n - 1].start <= groups[n].start
    <3>1. groups[n] \in GroupSet /\ GroupOK(groups[n], selected)
      BY <2>1, ElementOfSeq DEF GroupsOf
    <3> QED
      BY <1>1, <2>1, <3>1, GroupSpan
  <2>8. ASSUME NEW i \in selected, NEW j \in selected,
               HasWindow(i), HasWindow(j), Key(i) = Key(j),
               rows[i].at <= rows[j].at, rows[j].at - rows[i].end <= SessionGap
        PROVE  groupOf(i) = groupOf(j)
    <3>1. Near(i, j) /\ i \in W /\ j \in W
      BY <2>2, <2>8 DEF Near, At
    <3>2. PICK n \in 1..Len(groups) : i \in Members(groups[n]) /\ j \in Members(groups[n])
      BY <2>1, <3>1 DEF Together
    <3> QED
      BY <2>4, <3>2
  <2>9. ASSUME NEW i \in selected, NEW j \in selected,
               ~IsWindowed(i), rows[j].kind = "screen", rows[j].at \in rows[i].at..rows[i].end
        PROVE  \A n \in groupOf(i) : HasScreen(groups[n])
    <3>1. At(j) \in At(i)..rows[i].end
      BY <2>9 DEF At
    <3>2. PICK n \in 1..Len(groups) : i \in Members(groups[n]) /\ HasScreen(groups[n])
      BY <2>1, <2>9, <3>1
    <3>3. groupOf(i) = {n}
      BY <2>4, <3>2
    <3> QED
      BY <3>2, <3>3
  <2> QED
    BY <2>3, <2>6, <2>7, <2>8, <2>9 DEF groups, groupOf
<1>2. HistoryInv => ActivityCovers
  <2> SUFFICES ASSUME HistoryInv PROVE ActivityCovers
    OBVIOUS
  <2>1. \A includeEmpty, rawLimit : Selected(includeEmpty, rawLimit) \in SUBSET Rowids
    BY DEF Selected, Best
  <2> QED
    BY <1>1, <2>1 DEF ActivityCovers
<1> QED
  BY <1>2, HistoryIsSound, PTL
=============================================================================
