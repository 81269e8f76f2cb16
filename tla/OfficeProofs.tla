---------------------------- MODULE OfficeProofs ----------------------------
(***************************************************************************)
(* The office for every number of users, requests, learners and folders,   *)
(* and for every file that is imported: its tables stay whole, what a      *)
(* handler holds across an await stays true, and a learner on a board      *)
(* stays on one.  Last, the imports: every row of a file is accounted for, *)
(* and the order of the columns does not matter.                           *)
(***************************************************************************)
EXTENDS Office, FiniteSetTheorems, WellFoundedInduction, TLAPS

-----------------------------------------------------------------------------
(* Numbers, and the order of a finite set of them.                          *)

LEMMA NatMin ==
  ASSUME NEW T \in SUBSET Nat, T # {}
  PROVE  \E x \in T : \A y \in T : x <= y
<1>1. IsWellFoundedOn(OpToRel(<, Nat), Nat)
  BY NatLessThanWellFounded
<1>2. PICK x \in T : \A y \in T : ~ (<<y, x>> \in OpToRel(<, Nat))
  BY <1>1, WFMin
<1>3. \A y \in T : ~ (y < x)
  BY <1>2 DEF OpToRel
<1>4. QED
  BY <1>3

\* A finite set of numbers has an order: its least member comes first, and
\* then the others in theirs.
LEMMA OrderedOne ==
  ASSUME NEW n \in Nat, NEW S \in SUBSET Nat, IsFiniteSet(S), Cardinality(S) = n + 1,
         \A R \in SUBSET Nat : IsFiniteSet(R) /\ Cardinality(R) = n =>
            \E s \in [1..n -> R] : \A i, j \in 1..n : i < j => s[i] < s[j]
  PROVE  \E s \in [1..n + 1 -> S] : \A i, j \in 1..n + 1 : i < j => s[i] < s[j]
<1>1. S # {}
  BY FS_EmptySet
<1>2. PICK x \in S : \A y \in S : x <= y
  BY <1>1, NatMin
<1>3. IsFiniteSet(S \ {x}) /\ Cardinality(S \ {x}) = n
  <2>1. IsFiniteSet(S \ {x})
    BY FS_RemoveElement
  <2>2. Cardinality(S \ {x}) = Cardinality(S) - 1
    BY FS_RemoveElement
  <2>3. QED
    BY <2>1, <2>2
<1>4. PICK s \in [1..n -> S \ {x}] : \A i, j \in 1..n : i < j => s[i] < s[j]
  BY <1>3
<1>. DEFINE t == [i \in 1..n + 1 |-> IF i = 1 THEN x ELSE s[i - 1]]
<1>5. \A i \in 1..n + 1 : i # 1 => i - 1 \in 1..n
  OBVIOUS
<1>6. t \in [1..n + 1 -> S]
  BY <1>4, <1>5
<1>7. ASSUME NEW i \in 1..n + 1, NEW j \in 1..n + 1, i < j
      PROVE  t[i] < t[j]
  <2>1. j # 1 /\ j - 1 \in 1..n /\ t[j] = s[j - 1] /\ s[j - 1] \in S \ {x}
    BY <1>4, <1>5, <1>7
  <2>2. CASE i = 1
    <3>1. t[i] = x /\ x <= s[j - 1] /\ x # s[j - 1]
      BY <1>2, <2>1, <2>2
    <3>2. x \in Nat /\ s[j - 1] \in Nat
      BY <2>1
    <3>3. QED
      BY <2>1, <3>1, <3>2
  <2>3. CASE i # 1
    <3>1. i - 1 \in 1..n /\ t[i] = s[i - 1] /\ i - 1 < j - 1
      BY <1>5, <1>7, <2>3
    <3>2. QED
      BY <1>4, <2>1, <3>1
  <2>4. QED
    BY <2>2, <2>3
<1>8. QED
  BY <1>6, <1>7

LEMMA OrderExists ==
  ASSUME NEW S \in SUBSET Nat, IsFiniteSet(S)
  PROVE  \E s \in [1..Cardinality(S) -> S] : \A i, j \in 1..Cardinality(S) : i < j => s[i] < s[j]
<1>. DEFINE Has(n) == \A R \in SUBSET Nat : IsFiniteSet(R) /\ Cardinality(R) = n =>
                         \E s \in [1..n -> R] : \A i, j \in 1..n : i < j => s[i] < s[j]
            T == {n \in Nat : ~ Has(n)}
<1>1. Cardinality(S) \in Nat
  BY FS_CardinalityType
<1>2. Has(0)
  <2>1. ASSUME NEW R \in SUBSET Nat
        PROVE  \E s \in [1..0 -> R] : \A i, j \in 1..0 : i < j => s[i] < s[j]
    <3>1. 1..0 = {}
      OBVIOUS
    <3>2. [i \in 1..0 |-> 0] \in [1..0 -> R]
      BY <3>1
    <3>3. \A i, j \in 1..0 : i < j => [k \in 1..0 |-> 0][i] < [k \in 1..0 |-> 0][j]
      BY <3>1
    <3>4. QED
      BY <3>2, <3>3
  <2>2. QED
    BY <2>1
<1>3. ASSUME NEW n \in Nat, Has(n)
      PROVE  Has(n + 1)
  BY <1>3, OrderedOne
<1>4. T = {}
  <2>1. SUFFICES ASSUME T # {}
                 PROVE  FALSE
    OBVIOUS
  <2>2. PICK n \in T : \A m \in T : n <= m
    BY <2>1, NatMin
  <2>. HIDE DEF Has
  <2>3. n \in Nat /\ ~ Has(n) /\ n # 0
    BY <1>2, <2>2
  <2>4. n - 1 \in Nat /\ n - 1 \notin T
    BY <2>2, <2>3
  <2>5. Has(n - 1 + 1) /\ n - 1 + 1 = n
    BY <1>3, <2>3, <2>4
  <2>6. QED
    BY <2>3, <2>5
<1>5. Has(Cardinality(S))
  BY <1>1, <1>4
<1>6. QED
  BY <1>5

LEMMA SeqOfMore ==
  ASSUME NEW S, NEW T, S \subseteq T, NEW s \in Seq(S)
  PROVE  s \in Seq(T)
  OBVIOUS

LEMMA TailLeft ==
  ASSUME NEW S, NEW s \in Seq(S), s # <<>>, Len(s) # 1
  PROVE  Tail(s) \in Seq(S) /\ Tail(s) # <<>>
<1>1. Len(s) \in Nat /\ Len(s) # 0
  OBVIOUS
<1>2. Tail(s) \in Seq(S) /\ Len(Tail(s)) = Len(s) - 1
  BY <1>1
<1>3. Len(Tail(s)) # 0
  BY <1>1, <1>2
<1>4. QED
  BY <1>2, <1>3

LEMMA OrderedType ==
  ASSUME NEW S \in SUBSET Nat, IsFiniteSet(S)
  PROVE  /\ Ordered(S) \in Seq(S)
         /\ S # {} => Ordered(S) # <<>>
<1>1. /\ Cardinality(S) \in Nat
      /\ S # {} => Cardinality(S) # 0
  BY FS_CardinalityType, FS_EmptySet
<1>2. Ordered(S) \in [1..Cardinality(S) -> S]
  <2>1. \E s \in [1..Cardinality(S) -> S] : \A i, j \in DOMAIN s : i < j => s[i] < s[j]
    BY OrderExists
  <2>2. QED
    BY <2>1 DEF Ordered
<1>3. QED
  BY <1>1, <1>2

-----------------------------------------------------------------------------
(* What is read of a file: a valid record has an e-mail address, and any    *)
(* cell for a mobile number.                                                *)

LEMMA MappingsOfEmail ==
  \A j \in DOMAIN LearnerMappings :
     LearnerMappings[j].field = "email" =>
        LearnerMappings[j].required /\ LearnerMappings[j].type = "email"
<1>1. DOMAIN LearnerMappings = 1..11
  BY DEF LearnerMappings
<1>2. /\ LearnerMappings[1].field # "email" /\ LearnerMappings[3].field # "email"
      /\ LearnerMappings[4].field # "email" /\ LearnerMappings[5].field # "email"
      /\ LearnerMappings[6].field # "email" /\ LearnerMappings[7].field # "email"
  BY DEF LearnerMappings, Field
<1>3. /\ LearnerMappings[8].field # "email" /\ LearnerMappings[9].field # "email"
      /\ LearnerMappings[10].field # "email" /\ LearnerMappings[11].field # "email"
  BY DEF LearnerMappings, Field
<1>4. LearnerMappings[2].required /\ LearnerMappings[2].type = "email"
  BY DEF LearnerMappings, Field
<1>5. QED
  BY <1>1, <1>2, <1>3, <1>4

LEMMA MappingsOfMobile ==
  \A j \in DOMAIN LearnerMappings :
     LearnerMappings[j].field = "mobile_number" => LearnerMappings[j].type = "string"
<1>1. DOMAIN LearnerMappings = 1..11
  BY DEF LearnerMappings
<1>2. /\ LearnerMappings[1].field # "mobile_number" /\ LearnerMappings[2].field # "mobile_number"
      /\ LearnerMappings[3].field # "mobile_number" /\ LearnerMappings[5].field # "mobile_number"
      /\ LearnerMappings[6].field # "mobile_number" /\ LearnerMappings[7].field # "mobile_number"
  BY DEF LearnerMappings, Field
<1>3. /\ LearnerMappings[8].field # "mobile_number" /\ LearnerMappings[9].field # "mobile_number"
      /\ LearnerMappings[10].field # "mobile_number"
      /\ LearnerMappings[11].field # "mobile_number"
  BY DEF LearnerMappings, Field
<1>4. LearnerMappings[4].type = "string"
  BY DEF LearnerMappings, Field
<1>5. QED
  BY <1>1, <1>2, <1>3, <1>4

\* The two fields of a learner the office looks at have a mapping.
LEMMA MappingOf ==
  ASSUME NEW f \in {"email", "mobile_number"}
  PROVE  /\ f \in {LearnerMappings[i].field : i \in DOMAIN LearnerMappings}
         /\ LET i == CHOOSE j \in DOMAIN LearnerMappings : LearnerMappings[j].field = f
            IN  i \in DOMAIN LearnerMappings /\ LearnerMappings[i].field = f
<1>1. \E j \in DOMAIN LearnerMappings : LearnerMappings[j].field = f
  <2>1. LearnerMappings[2].field = "email" /\ LearnerMappings[4].field = "mobile_number"
    BY DEF LearnerMappings, Field
  <2>2. 2 \in DOMAIN LearnerMappings /\ 4 \in DOMAIN LearnerMappings
    BY DEF LearnerMappings
  <2>3. QED
    BY <2>1, <2>2
<1>2. QED
  BY <1>1

LEMMA ValueType ==
  ASSUME NEW row \in Seq(Cell), NEW column
  PROVE  ValueOf(row, column) \in Cell
  BY DEF ValueOf, Cell

LEMMA BriefType ==
  ASSUME NEW row \in Seq(Cell), NEW columns, NEW number, RowErrors(row, columns, number) = {}
  PROVE  Brief(LearnerOf(row, columns)) \in LearnerRow
<1>. DEFINE Of(f) == CHOOSE j \in DOMAIN LearnerMappings : LearnerMappings[j].field = f
            Value(i) == ValueOf(row, columns[i])
<1>1. ASSUME NEW f \in {"email", "mobile_number"}
      PROVE  /\ Of(f) \in DOMAIN LearnerMappings /\ LearnerMappings[Of(f)].field = f
             /\ LearnerOf(row, columns)[f] = Transform(Value(Of(f)), LearnerMappings[Of(f)])
  BY MappingOf DEF LearnerOf
<1>2. \A i \in DOMAIN LearnerMappings : Problem(Value(i), LearnerMappings[i]) = "none"
  BY DEF RowErrors
<1>3. \A i : Value(i) \in Cell
  BY ValueType
<1>. HIDE DEF Of, Value
<1>4. LearnerOf(row, columns)["email"] \in Email
  <2>. DEFINE i == Of("email")
  <2>1. /\ i \in DOMAIN LearnerMappings
        /\ LearnerMappings[i].required /\ LearnerMappings[i].type = "email"
    BY <1>1, MappingsOfEmail
  <2>2. Problem(Value(i), LearnerMappings[i]) = "none"
    BY <1>2, <2>1
  <2>3. Value(i) \in Email
    BY <2>1, <2>2 DEF Problem
  <2>4. LearnerOf(row, columns)["email"] = Value(i)
    BY <1>1, <2>1 DEF Transform
  <2>5. QED
    BY <2>3, <2>4
<1>5. LearnerOf(row, columns)["mobile_number"] \in Cell
  <2>. DEFINE i == Of("mobile_number")
  <2>1. LearnerMappings[i].type = "string"
    BY <1>1, MappingsOfMobile
  <2>2. LearnerOf(row, columns)["mobile_number"] = Value(i)
    BY <1>1, <2>1 DEF Transform
  <2>3. QED
    BY <1>3, <2>2
<1>6. QED
  BY <1>4, <1>5 DEF Brief, LearnerRow

\* Every valid record of a file is a learner.
LEMMA ValidType ==
  ASSUME NEW u \in Uploads
  PROVE  /\ [k \in DOMAIN Processed[u].valid |-> Brief(Processed[u].valid[k])] \in Seq(LearnerRow)
         /\ DOMAIN Processed[u].valid = {} => Processed[u].valid = <<>>
<1>. DEFINE columns == Columns(u.headers)
            good == {k \in DOMAIN u.rows : RowErrors(u.rows[k], columns, k + 1) = {}}
            right == Ordered(good)
            valid == Processed[u].valid
<1>1. u.rows \in Seq(Seq(Cell))
  BY RecordsAssumption
<1>2. Processed[u] = NotParsed \/ Processed[u] = ProcessLearnerCSV(u.headers, u.rows)
  BY DEF Processed
<1>3. \/ valid = <<>>
      \/ valid = [k \in DOMAIN right |-> LearnerOf(u.rows[right[k]], columns)]
  <2>. DEFINE wrong == [k \in DOMAIN u.rows |-> RowErrors(u.rows[k], columns, k + 1)]
              places == {k \in DOMAIN u.rows : wrong[k] = {}}
              read == [k \in DOMAIN Ordered(places) |-> LearnerOf(u.rows[Ordered(places)[k]], columns)]
  <2>1. places = good
    OBVIOUS
  <2>2. \/ \E e : Processed[u] = [valid |-> <<>>, errors |-> e]
        \/ \E e : Processed[u] = [valid |-> read, errors |-> e]
    BY <1>2 DEF ProcessLearnerCSV, NotParsed
  <2>. HIDE DEF read
  <2>3. valid = <<>> \/ valid = read
    <3>1. ASSUME NEW v, NEW e, Processed[u] = [valid |-> v, errors |-> e]
          PROVE  valid = v
      BY <3>1
    <3>2. QED
      BY <2>2, <3>1, Zenon
  <2>. HIDE DEF places, good
  <2>4. QED
    BY <2>1, <2>3 DEF read
<1>4. right \in Seq(good)
  <2>1. DOMAIN u.rows = 1..Len(u.rows) /\ Len(u.rows) \in Nat
    BY <1>1
  <2>2. IsFiniteSet(DOMAIN u.rows) /\ DOMAIN u.rows \subseteq Nat
    BY <2>1, FS_Interval
  <2>3. good \in SUBSET Nat /\ IsFiniteSet(good)
    BY <2>2, FS_Subset
  <2>4. QED
    BY <2>3, OrderedType
<1>5. ASSUME NEW k \in DOMAIN right
      PROVE  Brief(LearnerOf(u.rows[right[k]], columns)) \in LearnerRow
  <2>1. right[k] \in good
    <3>. HIDE DEF right, good
    <3>1. QED
      BY <1>4
  <2>2. u.rows[right[k]] \in Seq(Cell)
    <3>1. right[k] \in DOMAIN u.rows
      BY <2>1
    <3>. HIDE DEF right
    <3>2. QED
      BY <1>1, <3>1
  <2>3. RowErrors(u.rows[right[k]], columns, right[k] + 1) = {}
    BY <2>1
  <2>4. QED
    BY <2>2, <2>3, BriefType
<1>. DEFINE brief == [k \in DOMAIN valid |-> Brief(valid[k])]
<1>6. ASSUME valid = <<>>
      PROVE  brief \in Seq(LearnerRow)
  <2>1. DOMAIN valid = {} /\ brief = <<>>
    BY <1>6
  <2>2. QED
    BY <2>1
<1>7. ASSUME valid = [k \in DOMAIN right |-> LearnerOf(u.rows[right[k]], columns)]
      PROVE  brief \in Seq(LearnerRow)
  <2>1. /\ DOMAIN valid = DOMAIN right
        /\ \A k \in DOMAIN right : valid[k] = LearnerOf(u.rows[right[k]], columns)
    BY <1>7
  <2>. HIDE DEF valid, right, columns
  <2>2. \A k \in DOMAIN right : brief[k] \in LearnerRow
    BY <1>5, <2>1
  <2>3. DOMAIN right = 1..Len(right) /\ Len(right) \in Nat
    BY <1>4
  <2>4. brief \in [1..Len(right) -> LearnerRow]
    BY <2>1, <2>2, <2>3
  <2>. HIDE DEF brief
  <2>5. QED
    BY <2>3, <2>4
<1>8. ASSUME DOMAIN valid = {}
      PROVE  valid = <<>>
  <2>. HIDE DEF valid, right
  <2>1. ASSUME valid = [k \in DOMAIN right |-> LearnerOf(u.rows[right[k]], columns)]
        PROVE  valid = <<>>
    <3>1. DOMAIN right = {}
      BY <1>8, <2>1
    <3>2. QED
      BY <2>1, <3>1
  <2>2. QED
    BY <1>3, <2>1
<1>. HIDE DEF brief
<1>9. brief \in Seq(LearnerRow)
  BY <1>3, <1>6, <1>7
<1>10. QED
  BY <1>8, <1>9 DEF brief

-----------------------------------------------------------------------------
(* The tree of folders.                                                     *)

OlderParents == \A f \in DOMAIN folders : Row(folders, f) => folders[f].parent \in Nat /\ folders[f].parent < f

\* g goes with f: it is f, or its parent goes.
Goes(h, f, g) == Row(folders, g) /\ (g = f \/ (folders[g].parent # 0 /\ h[folders[g].parent]))

\* The recursion of Below ends, as a parent is older than what is in it.
LEMMA BelowExists ==
  ASSUME folders \in Seq(FolderRow \cup {Gone}), OlderParents, NEW f
  PROVE  \E h \in [DOMAIN folders -> BOOLEAN] : \A g \in DOMAIN folders : h[g] = Goes(h, f, g)
<1>. DEFINE Has(n) == \E h \in [1..n -> BOOLEAN] : \A g \in 1..n : h[g] = Goes(h, f, g)
            T == {n \in 0..Len(folders) : ~ Has(n)}
<1>1. DOMAIN folders = 1..Len(folders) /\ Len(folders) \in Nat
  OBVIOUS
<1>2. Has(0)
  <2>1. 1..0 = {}
    OBVIOUS
  <2>2. [g \in 1..0 |-> FALSE] \in [1..0 -> BOOLEAN]
    BY <2>1
  <2>3. QED
    BY <2>1, <2>2
<1>3. ASSUME NEW n \in Nat, n + 1 <= Len(folders), Has(n)
      PROVE  Has(n + 1)
  <2>1. PICK h \in [1..n -> BOOLEAN] : \A g \in 1..n : h[g] = Goes(h, f, g)
    BY <1>3
  <2>. DEFINE k == [g \in 1..n + 1 |-> IF g = n + 1 THEN Goes(h, f, g) ELSE h[g]]
  <2>2. k \in [1..n + 1 -> BOOLEAN]
    <3>1. \A g \in 1..n + 1 : g # n + 1 => g \in 1..n
      OBVIOUS
    <3>2. \A g \in 1..n : h[g] \in BOOLEAN
      BY <2>1
    <3>3. \A g : Goes(h, f, g) \in BOOLEAN
      BY DEF Goes
    <3>4. ASSUME NEW g \in 1..n + 1
          PROVE  k[g] \in BOOLEAN
      <4>1. CASE g = n + 1
        BY <3>3, <4>1
      <4>2. CASE g # n + 1
        BY <3>1, <3>2, <4>2
      <4>3. QED
        BY <4>1, <4>2
    <3>5. k = [g \in 1..n + 1 |-> k[g]]
      OBVIOUS
    <3>. HIDE DEF k
    <3>6. QED
      BY <3>4, <3>5
  <2>3. ASSUME NEW g \in 1..n + 1
        PROVE  Goes(k, f, g) = Goes(h, f, g)
    <3>1. CASE ~ Row(folders, g)
      BY <3>1 DEF Goes
    <3>2. CASE Row(folders, g)
      <4>1. g \in DOMAIN folders
        BY <1>1, <1>3
      <4>2. folders[g].parent \in Nat /\ folders[g].parent < g
        BY <3>2, <4>1 DEF OlderParents
      <4>3. folders[g].parent # 0 => folders[g].parent \in 1..n /\ folders[g].parent # n + 1
        BY <4>2
      <4>4. folders[g].parent # 0 => k[folders[g].parent] = h[folders[g].parent]
        BY <4>3
      <4>. HIDE DEF k
      <4>5. QED
        BY <4>4 DEF Goes
    <3>3. QED
      BY <3>1, <3>2
  <2>4. ASSUME NEW g \in 1..n + 1
        PROVE  k[g] = Goes(k, f, g)
    <3>1. CASE g = n + 1
      BY <2>3, <3>1
    <3>2. CASE g # n + 1
      <4>1. g \in 1..n
        BY <3>2
      <4>2. k[g] = h[g]
        BY <3>2
      <4>3. QED
        BY <2>1, <2>3, <4>1, <4>2
    <3>3. QED
      BY <3>1, <3>2
  <2>5. QED
    BY <2>2, <2>4
<1>4. T = {}
  <2>1. SUFFICES ASSUME T # {}
                 PROVE  FALSE
    OBVIOUS
  <2>. HIDE DEF Has
  <2>2. T \in SUBSET Nat
    BY <1>1
  <2>3. PICK n \in T : \A m \in T : n <= m
    BY <2>1, <2>2, NatMin
  <2>4. n \in Nat /\ n <= Len(folders) /\ ~ Has(n) /\ n # 0
    BY <1>1, <1>2, <2>3
  <2>5. n - 1 \in 0..Len(folders) /\ n - 1 \notin T
    BY <1>1, <2>3, <2>4
  <2>6. Has(n - 1 + 1) /\ n - 1 + 1 = n
    BY <1>1, <1>3, <2>4, <2>5
  <2>7. QED
    BY <2>4, <2>6
<1>5. Has(Len(folders))
  BY <1>1, <1>4
<1>6. QED
  BY <1>1, <1>5

\* A folder goes with the one it is below, and one that stays is in none
\* that goes.
LEMMA BelowClosed ==
  ASSUME folders \in Seq(FolderRow \cup {Gone}), OlderParents, NEW f
  PROVE  \A g \in DOMAIN folders :
            Row(folders, g) /\ folders[g].parent # 0 /\ folders[g].parent \in Below(f) => g \in Below(f)
<1>1. PICK h \in [DOMAIN folders -> BOOLEAN] : \A g \in DOMAIN folders : h[g] = Goes(h, f, g)
  BY BelowExists
<1>2. h = [g \in DOMAIN folders |->
             Row(folders, g) /\ (g = f \/ (folders[g].parent # 0 /\ h[folders[g].parent]))]
  BY <1>1 DEF Goes
<1>3. PICK in : /\ in = [g \in DOMAIN folders |->
                      Row(folders, g) /\ (g = f \/ (folders[g].parent # 0 /\ in[folders[g].parent]))]
                /\ Below(f) = {g \in DOMAIN folders : in[g]}
  BY <1>2 DEF Below
<1>4. QED
  BY <1>3

-----------------------------------------------------------------------------
(* How a step moves the state.  No table forgets a row but by marking it,   *)
(* no file goes, and a learner leaves a board for a later one only.         *)

Only(r) ==
    /\ DOMAIN req' = Request
    /\ \A s \in Request \ {r} : req'[s] = req[s]

Grows ==
    /\ DOMAIN learners \subseteq DOMAIN learners'
    /\ \A id \in DOMAIN learners : learners'[id] = learners[id] \/ learners'[id] = Gone
    /\ boards["inductor"] \subseteq boards'["inductor"]
    /\ boards["accessor"] \subseteq boards'["accessor"] \cup boards'["inductor"]
    /\ files \subseteq files' /\ Len(folders) <= Len(folders')

TablesTyped ==
    /\ learners \in Seq(LearnerRow \cup {Gone})
    /\ boards \in [Board -> SUBSET (DOMAIN learners)]
    /\ folders \in Seq(FolderRow \cup {Gone})
    /\ documents \in Seq(DocumentRow \cup {Gone})
    /\ files \subseteq File /\ trashed \subseteq Log

\* What the proofs use of a handler: the names of its locals and their truth.
Local(r) == DOMAIN req[r] = DOMAIN Fresh /\ RequestTrue(r)

LEMMA Parts ==
  OfficeInv <=> /\ TablesTyped /\ TablesTrue
                /\ DOMAIN req = Request /\ \A r \in Request : Local(r)
  BY DEF OfficeInv, TypeOK, TablesTyped, Local

\* The names of the locals.
LEMMA Names ==
  DOMAIN Fresh = {"call", "pc", "id", "row", "dirty", "rest", "before", "upload", "valid", "errors", "kept"}
  BY DEF Fresh

\* Whatever the others do, what a handler holds stays true.
LEMMA StaysTrue ==
  ASSUME OfficeInv, Grows, NEW s \in Request, req'[s] = req[s]
  PROVE  Local(s)'
<1>1. Local(s) /\ DOMAIN req'[s] = DOMAIN Fresh
  BY Parts DEF Local
<1>2. MoveTrue(req[s])'
  BY <1>1 DEF Local, RequestTrue, MoveTrue, Grows
<1>3. FilingTrue(req[s], s)'
  <2>1. ASSUME req[s].pc = "folder"
        PROVE  req[s].row.parent <= Len(folders')
    <3>1. req[s].row.parent \in Nat /\ req[s].row.parent <= Len(folders)
      BY <1>1, <2>1 DEF Local, RequestTrue, FilingTrue, FolderRow
    <3>2. QED
      BY <3>1 DEF Grows
  <2>2. QED
    BY <1>1, <2>1 DEF Local, RequestTrue, FilingTrue, Grows
<1>4. ImportTrue(req[s])'
  BY <1>1 DEF Local, RequestTrue, ImportTrue, Unknown, Row, Grows
<1>5. QED
  BY <1>1, <1>2, <1>3, <1>4 DEF Local, RequestTrue

\* One handler has gone on, and what it holds is true.
LEMMA Concluded ==
  ASSUME OfficeInv, NEW r \in Request, Only(r), Grows, TablesTyped', TablesTrue', Local(r)'
  PROVE  OfficeInv'
<1>1. \A s \in Request : Local(s)'
  BY StaysTrue DEF Only
<1>2. DOMAIN req' = Request
  BY DEF Only
<1>3. (TablesTyped /\ TablesTrue /\ DOMAIN req = Request /\ \A s \in Request : Local(s))'
  BY <1>1, <1>2
<1>4. QED
  BY <1>3 DEF OfficeInv, TypeOK, TablesTyped, Local

LEMMA TablesSame ==
  ASSUME OfficeInv, UNCHANGED tables
  PROVE  Grows /\ TablesTyped' /\ TablesTrue'
<1>1. TablesTyped /\ TablesTrue
  BY Parts
<1>2. TablesTyped'
  BY <1>1 DEF tables, TablesTyped
<1>3. TablesTrue'
  BY <1>1 DEF tables, TablesTrue, DocumentsHaveFiles, TreeIsWhole, InFolder, Row
<1>4. Grows
  BY <1>1 DEF tables, Grows, TablesTyped
<1>5. QED
  BY <1>2, <1>3, <1>4

LEMMA Quiet ==
  ASSUME OfficeInv, NEW r \in Request, Only(r), UNCHANGED tables, Local(r)'
  PROVE  OfficeInv'
  BY TablesSame, Concluded

\* The handler of r holds q.
LEMMA Holds ==
  ASSUME OfficeInv, NEW r \in Request, NEW q, req' = [req EXCEPT ![r] = q]
  PROVE  Only(r) /\ req'[r] = q
  BY Parts DEF Only

\* A handler that is over holds nothing of the tables.
LEMMA Ended ==
  ASSUME OfficeInv, NEW r \in Request, NEW q, req' = [req EXCEPT ![r] = q],
         DOMAIN q = DOMAIN Fresh, q.pc \in {"idle", "over", "answered"}
  PROVE  Only(r) /\ Local(r)'
<1>1. Only(r) /\ req'[r] = q
  BY Holds
<1>2. RequestTrue(r)'
  BY <1>1 DEF RequestTrue, MoveTrue, ImportTrue, FilingTrue
<1>3. QED
  BY <1>1, <1>2 DEF Local

LEMMA OverEnded ==
  ASSUME NEW q
  PROVE  DOMAIN Over(q) = DOMAIN Fresh /\ Over(q).pc = "over"
<1>1. DOMAIN [Fresh EXCEPT !.call = q.call, !.pc = "over"] = DOMAIN Fresh
  OBVIOUS
<1>2. QED
  BY <1>1, Names DEF Over

LEMMA Returned ==
  ASSUME OfficeInv, NEW r \in Request, Return(r)
  PROVE  Only(r) /\ Local(r)'
<1>. DEFINE q == Over(req[r])
<1>1. req' = [req EXCEPT ![r] = q]
  BY DEF Return
<1>2. DOMAIN q = DOMAIN Fresh /\ q.pc = "over"
  BY OverEnded
<1>. HIDE DEF q
<1>3. QED
  BY <1>1, <1>2, Ended

\* A handler that goes on holds what it held.
LEMMA Went ==
  ASSUME OfficeInv, NEW r \in Request, NEW p, Goto(r, p)
  PROVE  /\ Only(r) /\ DOMAIN req'[r] = DOMAIN Fresh /\ req'[r].pc = p
         /\ req'[r].call = req[r].call /\ req'[r].id = req[r].id /\ req'[r].row = req[r].row
         /\ req'[r].rest = req[r].rest
<1>1. DOMAIN req = Request /\ DOMAIN req[r] = DOMAIN Fresh
  BY Parts DEF Local
<1>2. req'[r] = [req[r] EXCEPT !.pc = p] /\ Only(r)
  BY <1>1 DEF Goto, Only
<1>3. QED
  BY <1>1, <1>2, Names

\* A handler is called with its locals.
LEMMA Entered ==
  ASSUME OfficeInv, NEW r \in Request, NEW name, NEW q, Enter(r, name, q), DOMAIN q = DOMAIN Fresh
  PROVE  /\ Only(r) /\ DOMAIN req'[r] = DOMAIN Fresh /\ req'[r].pc = q.pc
         /\ req'[r].id = q.id /\ req'[r].row = q.row /\ req'[r].call = name
         /\ req'[r].rest = q.rest /\ req'[r].before = q.before /\ req'[r].valid = q.valid
         /\ req'[r].kept = q.kept
<1>1. req' = [req EXCEPT ![r] = [q EXCEPT !.call = name]]
  BY DEF Enter
<1>2. Only(r) /\ req'[r] = [q EXCEPT !.call = name]
  BY <1>1, Holds
<1>3. QED
  BY <1>2, Names

\* A handler that is called and holds a place and an id, or a place and a row.
LEMMA EnteredId ==
  ASSUME OfficeInv, NEW r \in Request, NEW name, NEW p, NEW i,
         Enter(r, name, [Fresh EXCEPT !.pc = p, !.id = i])
  PROVE  /\ Only(r) /\ DOMAIN req'[r] = DOMAIN Fresh
         /\ req'[r].pc = p /\ req'[r].id = i
<1>. DEFINE q == [Fresh EXCEPT !.pc = p, !.id = i]
<1>1. DOMAIN q = DOMAIN Fresh /\ q.pc = p /\ q.id = i
  BY Names
<1>2. Enter(r, name, q)
  OBVIOUS
<1>. HIDE DEF q
<1>3. QED
  BY <1>1, <1>2, Entered

LEMMA EnteredRow ==
  ASSUME OfficeInv, NEW r \in Request, NEW name, NEW p, NEW row,
         Enter(r, name, [Fresh EXCEPT !.pc = p, !.row = row])
  PROVE  /\ Only(r) /\ DOMAIN req'[r] = DOMAIN Fresh
         /\ req'[r].pc = p /\ req'[r].row = row
<1>. DEFINE q == [Fresh EXCEPT !.pc = p, !.row = row]
<1>1. DOMAIN q = DOMAIN Fresh /\ q.pc = p /\ q.row = row
  BY Names
<1>2. Enter(r, name, q)
  OBVIOUS
<1>. HIDE DEF q
<1>3. QED
  BY <1>1, <1>2, Entered

LEMMA EnteredOver ==
  ASSUME OfficeInv, NEW r \in Request, NEW name, Enter(r, name, [Fresh EXCEPT !.pc = "over"])
  PROVE  Only(r) /\ Local(r)'
<1>. DEFINE q == [Fresh EXCEPT !.pc = "over"]
<1>1. DOMAIN q = DOMAIN Fresh /\ q.pc = "over"
  BY Names
<1>2. Enter(r, name, q)
  OBVIOUS
<1>. HIDE DEF q
<1>3. Only(r) /\ DOMAIN req'[r] = DOMAIN Fresh /\ req'[r].pc = "over"
  BY <1>1, <1>2, Entered
<1>4. RequestTrue(r)'
  BY <1>3 DEF RequestTrue, MoveTrue, ImportTrue, FilingTrue
<1>5. QED
  BY <1>3, <1>4 DEF Local

\* An await with nothing to hold but an id that is not looked at.
LEMMA HoldsNothing ==
  ASSUME NEW r \in Request, DOMAIN req'[r] = DOMAIN Fresh,
         req'[r].pc \in {"remove", "folder.delete", "document.delete"}
  PROVE  Local(r)'
  BY DEF Local, RequestTrue, MoveTrue, ImportTrue, FilingTrue

-----------------------------------------------------------------------------
(* The moves of a learner between the boards.                               *)

LEMMA HoldsMove ==
  ASSUME NEW r \in Request, DOMAIN req'[r] = DOMAIN Fresh,
         req'[r].pc \in {"move.select", "move.insert", "move.delete"}, MoveTrue(req[r])'
  PROVE  Local(r)'
  BY DEF Local, RequestTrue, ImportTrue, FilingTrue

LEMMA MoveCall ==
  ASSUME OfficeInv, NEW r \in Request, BoardCall(r)
  PROVE  OfficeInv'
<1>1. ASSUME NEW name, NEW ids \in SUBSET (DOMAIN learners), Move(r, name, ids)
      PROVE  OfficeInv'
  <2>1. PICK id \in ids : Enter(r, name, [Fresh EXCEPT !.pc = "move.select", !.id = id])
    BY <1>1 DEF Move
  <2>2. /\ Only(r) /\ DOMAIN req'[r] = DOMAIN Fresh
        /\ req'[r].pc = "move.select" /\ req'[r].id = id
    BY <2>1, EnteredId
  <2>3. UNCHANGED tables
    BY <1>1 DEF Move
  <2>4. MoveTrue(req[r])'
    BY <2>2, <2>3 DEF MoveTrue, tables
  <2>5. QED
    BY <2>2, <2>3, <2>4, HoldsMove, Quiet
<1>2. boards \in [Board -> SUBSET (DOMAIN learners)]
  BY Parts DEF TablesTyped
<1>3. /\ {id \in DOMAIN learners : Row(learners, id)} \in SUBSET (DOMAIN learners)
      /\ boards["bksd"] \in SUBSET (DOMAIN learners)
      /\ boards["accessor"] \in SUBSET (DOMAIN learners)
  BY <1>2 DEF Board
<1>4. QED
  BY <1>1, <1>3 DEF BoardCall, MoveStudent, MoveStudentToAccessor, MoveStudentToInductor

LEMMA BoardsMoved ==
  ASSUME OfficeInv, UNCHANGED <<learners, folders, documents, files, trashed>>,
         boards' \in [Board -> SUBSET (DOMAIN learners)],
         boards["inductor"] \subseteq boards'["inductor"],
         boards["accessor"] \subseteq boards'["accessor"] \cup boards'["inductor"]
  PROVE  Grows /\ TablesTyped' /\ TablesTrue'
<1>1. TablesTyped /\ TablesTrue
  BY Parts
<1>2. TablesTyped'
  BY <1>1 DEF TablesTyped
<1>3. TablesTrue'
  BY <1>1 DEF TablesTrue, DocumentsHaveFiles, TreeIsWhole, InFolder, Row
<1>4. Grows
  BY <1>1 DEF Grows, TablesTyped
<1>5. QED
  BY <1>2, <1>3, <1>4

\* A handler that moves goes on with the learner it moves.
LEMMA Moving ==
  ASSUME OfficeInv, NEW r \in Request,
         req[r].pc \in {"move.select", "move.insert", "move.delete"}
  PROVE  /\ boards \in [Board -> SUBSET (DOMAIN learners)]
         /\ req[r].id \in DOMAIN learners /\ MoveTrue(req[r])
  BY Parts DEF TablesTyped, Local, RequestTrue, MoveTrue

LEMMA MoveSelectStep ==
  ASSUME OfficeInv, NEW r \in Request, MoveSelect(r)
  PROVE  OfficeInv'
<1>. DEFINE p == IF req[r].id \in boards[Target(r)] THEN "move.delete" ELSE "move.insert"
<1>1. req[r].pc = "move.select" /\ Goto(r, p) /\ UNCHANGED tables
  BY DEF MoveSelect, At
<1>2. req[r].id \in DOMAIN learners
  BY <1>1, Moving
<1>3. /\ p \in {"move.delete", "move.insert"}
      /\ p = "move.delete" => req[r].id \in boards[Target(r)]
  OBVIOUS
<1>. HIDE DEF p
<1>4. /\ Only(r) /\ DOMAIN req'[r] = DOMAIN Fresh /\ req'[r].pc = p
      /\ req'[r].call = req[r].call /\ req'[r].id = req[r].id
  BY <1>1, Went
<1>5. MoveTrue(req[r])'
  BY <1>1, <1>2, <1>3, <1>4 DEF MoveTrue, Target, tables
<1>6. QED
  BY <1>1, <1>3, <1>4, <1>5, HoldsMove, Quiet

LEMMA MoveInsertStep ==
  ASSUME OfficeInv, NEW r \in Request, MoveInsert(r)
  PROVE  OfficeInv'
<1>1. /\ req[r].pc = "move.insert"
      /\ boards' = [boards EXCEPT ![Target(r)] = @ \cup {req[r].id}]
      /\ UNCHANGED <<learners, folders, documents, files, trashed>>
      /\ IF req[r].id \in boards[Target(r)] THEN Return(r) ELSE Goto(r, "move.delete")
  BY DEF MoveInsert, At
<1>2. boards \in [Board -> SUBSET (DOMAIN learners)] /\ req[r].id \in DOMAIN learners
  BY <1>1, Moving
<1>3. Target(r) \in Board
  BY DEF Target, Board
<1>4. /\ boards' \in [Board -> SUBSET (DOMAIN learners)]
      /\ \A b \in Board : boards[b] \subseteq boards'[b]
      /\ req[r].id \in boards'[Target(r)]
  BY <1>1, <1>2, <1>3
<1>5. Grows /\ TablesTyped' /\ TablesTrue'
  BY <1>1, <1>4, BoardsMoved DEF Board
<1>6. CASE Return(r)
  BY <1>5, <1>6, Returned, Concluded
<1>7. CASE Goto(r, "move.delete")
  <2>1. /\ Only(r) /\ DOMAIN req'[r] = DOMAIN Fresh /\ req'[r].pc = "move.delete"
        /\ req'[r].call = req[r].call /\ req'[r].id = req[r].id
    BY <1>7, Went
  <2>2. MoveTrue(req[r])'
    BY <1>1, <1>2, <1>4, <2>1 DEF MoveTrue, Target
  <2>3. QED
    BY <1>5, <2>1, <2>2, HoldsMove, Concluded
<1>8. QED
  BY <1>1, <1>6, <1>7

\* The learner that is deleted from a board is on a later one.
LEMMA MoveDeleteMoves ==
  ASSUME OfficeInv, NEW r \in Request, MoveDelete(r)
  PROVE  /\ boards' \in [Board -> SUBSET (DOMAIN learners)]
         /\ boards["inductor"] \subseteq boards'["inductor"]
         /\ boards["accessor"] \subseteq boards'["accessor"] \cup boards'["inductor"]
         /\ boards["bksd"] \subseteq boards'["bksd"] \cup boards'["accessor"] \cup boards'["inductor"]
<1>1. /\ req[r].pc = "move.delete"
      /\ boards' = [b \in Board |-> IF b = Origin(r) THEN boards[b] \ {req[r].id} ELSE boards[b]]
  BY DEF MoveDelete, At
<1>2. boards \in [Board -> SUBSET (DOMAIN learners)] /\ MoveTrue(req[r])
  BY <1>1, Moving
<1>3. boards' \in [Board -> SUBSET (DOMAIN learners)]
  BY <1>1, <1>2
<1>4. /\ boards'["bksd"] = IF "bksd" = Origin(r) THEN boards["bksd"] \ {req[r].id} ELSE boards["bksd"]
      /\ boards'["accessor"] = IF "accessor" = Origin(r) THEN boards["accessor"] \ {req[r].id}
                               ELSE boards["accessor"]
      /\ boards'["inductor"] = IF "inductor" = Origin(r) THEN boards["inductor"] \ {req[r].id}
                               ELSE boards["inductor"]
  BY <1>1 DEF Board
<1>5. CASE req[r].call = "moveStudentToAccessor"
  <2>1. Origin(r) = "bksd" /\ req[r].id \in boards["accessor"] \cup boards["inductor"]
    BY <1>1, <1>2, <1>5 DEF Origin, MoveTrue
  <2>2. QED
    BY <1>3, <1>4, <2>1
<1>6. CASE req[r].call = "moveStudentToInductor"
  <2>1. Origin(r) = "accessor" /\ req[r].id \in boards["inductor"]
    BY <1>1, <1>2, <1>6 DEF Origin, MoveTrue
  <2>2. QED
    BY <1>3, <1>4, <2>1
<1>7. CASE req[r].call \notin {"moveStudentToAccessor", "moveStudentToInductor"}
  <2>1. Origin(r) = "recruiter"
    BY <1>7 DEF Origin
  <2>2. QED
    BY <1>3, <1>4, <2>1
<1>8. QED
  BY <1>5, <1>6, <1>7

LEMMA MoveDeleteStep ==
  ASSUME OfficeInv, NEW r \in Request, MoveDelete(r)
  PROVE  OfficeInv'
<1>1. Return(r) /\ UNCHANGED <<learners, folders, documents, files, trashed>>
  BY DEF MoveDelete
<1>2. Grows /\ TablesTyped' /\ TablesTrue'
  BY <1>1, MoveDeleteMoves, BoardsMoved
<1>3. QED
  BY <1>1, <1>2, Returned, Concluded

-----------------------------------------------------------------------------
(* The learners, one at a time and imported.                                *)

LEMMA LearnersMoved ==
  ASSUME OfficeInv, LearnerUnchanged, learners' \in Seq(LearnerRow \cup {Gone}),
         DOMAIN learners \subseteq DOMAIN learners',
         \A id \in DOMAIN learners : learners'[id] = learners[id] \/ learners'[id] = Gone
  PROVE  Grows /\ TablesTyped' /\ TablesTrue'
<1>1. TablesTyped /\ TablesTrue
  BY Parts
<1>2. boards \in [Board -> SUBSET (DOMAIN learners')]
  BY <1>1 DEF TablesTyped
<1>3. TablesTyped'
  BY <1>1, <1>2 DEF TablesTyped, LearnerUnchanged
<1>4. TablesTrue'
  BY <1>1 DEF TablesTrue, DocumentsHaveFiles, TreeIsWhole, InFolder, Row, LearnerUnchanged
<1>5. Grows
  BY <1>1 DEF Grows, TablesTyped, LearnerUnchanged
<1>6. QED
  BY <1>3, <1>4, <1>5

LEMMA CreateLearnerStep ==
  ASSUME OfficeInv, NEW r \in Request, CreateLearner(r)
  PROVE  OfficeInv'
<1>1. UNCHANGED tables
  BY DEF CreateLearner
<1>2. PICK e \in Email, m \in Mobile :
         LET row == [email |-> e, mobile |-> m]
         IN  Enter(r, "createLearner", IF Exists(row) THEN [Fresh EXCEPT !.pc = "over"]
                                       ELSE [Fresh EXCEPT !.pc = "create", !.row = row])
  BY DEF CreateLearner
<1>. DEFINE row == [email |-> e, mobile |-> m]
<1>3. row \in LearnerRow
  BY DEF LearnerRow, Cell
<1>4. CASE Exists(row)
  <2>1. Enter(r, "createLearner", [Fresh EXCEPT !.pc = "over"])
    BY <1>2, <1>4
  <2>2. QED
    BY <1>1, <2>1, EnteredOver, Quiet
<1>5. CASE ~ Exists(row)
  <2>1. Enter(r, "createLearner", [Fresh EXCEPT !.pc = "create", !.row = row])
    BY <1>2, <1>5
  <2>. HIDE DEF row
  <2>2. /\ Only(r) /\ DOMAIN req'[r] = DOMAIN Fresh
        /\ req'[r].pc = "create" /\ req'[r].row = row
    BY <2>1, EnteredRow
  <2>3. Local(r)'
    BY <1>3, <2>2 DEF Local, RequestTrue, MoveTrue, ImportTrue, FilingTrue
  <2>4. QED
    BY <1>1, <2>2, <2>3, Quiet
<1>6. QED
  BY <1>4, <1>5

LEMMA CreateInsertStep ==
  ASSUME OfficeInv, NEW r \in Request, CreateInsert(r)
  PROVE  OfficeInv'
<1>1. /\ req[r].pc = "create" /\ learners' = Append(learners, req[r].row)
      /\ Return(r) /\ LearnerUnchanged
  BY DEF CreateInsert, At
<1>2. req[r].row \in LearnerRow /\ learners \in Seq(LearnerRow \cup {Gone})
  BY <1>1, Parts DEF Local, RequestTrue, ImportTrue, TablesTyped
<1>3. /\ learners' \in Seq(LearnerRow \cup {Gone})
      /\ DOMAIN learners \subseteq DOMAIN learners'
      /\ \A id \in DOMAIN learners : learners'[id] = learners[id]
  BY <1>1, <1>2
<1>4. QED
  BY <1>1, <1>3, LearnersMoved, Returned, Concluded

LEMMA DeleteStudentStep ==
  ASSUME OfficeInv, NEW r \in Request, DeleteStudent(r)
  PROVE  OfficeInv'
<1>1. UNCHANGED tables
  BY DEF DeleteStudent
<1>2. PICK id \in DOMAIN learners :
         Enter(r, "deleteStudent", [Fresh EXCEPT !.pc = "remove", !.id = id])
  BY DEF DeleteStudent
<1>3. Only(r) /\ DOMAIN req'[r] = DOMAIN Fresh /\ req'[r].pc = "remove"
  BY <1>2, EnteredId
<1>4. QED
  BY <1>1, <1>3, HoldsNothing, Quiet

LEMMA DeleteStudentRowStep ==
  ASSUME OfficeInv, NEW r \in Request, DeleteStudentRow(r)
  PROVE  OfficeInv'
<1>1. /\ learners' = [learners EXCEPT ![req[r].id] = Gone]
      /\ Return(r) /\ LearnerUnchanged
  BY DEF DeleteStudentRow
<1>2. learners \in [1..Len(learners) -> LearnerRow \cup {Gone}] /\ Len(learners) \in Nat
  BY Parts DEF TablesTyped
<1>3. /\ learners' \in [1..Len(learners) -> LearnerRow \cup {Gone}]
      /\ DOMAIN learners \subseteq DOMAIN learners'
      /\ \A id \in DOMAIN learners : learners'[id] = learners[id] \/ learners'[id] = Gone
  BY <1>1, <1>2
<1>4. learners' \in Seq(LearnerRow \cup {Gone})
  BY <1>2, <1>3
<1>5. QED
  BY <1>1, <1>3, <1>4, LearnersMoved, Returned, Concluded

LEMMA EditInformationStep ==
  ASSUME OfficeInv, NEW r \in Request, EditInformation(r)
  PROVE  OfficeInv'
<1>1. UNCHANGED tables
  BY DEF EditInformation
<1>2. PICK id \in DOMAIN learners :
         /\ Row(learners, id)
         /\ \E e \in Email : \E m \in Mobile \cup {learners[id].mobile} :
               Enter(r, "editInformation",
                  [Fresh EXCEPT !.pc = "edit.select", !.id = id, !.row = [email |-> e, mobile |-> m]])
  BY DEF EditInformation
<1>3. PICK e \in Email, m \in Mobile \cup {learners[id].mobile} :
         Enter(r, "editInformation",
            [Fresh EXCEPT !.pc = "edit.select", !.id = id, !.row = [email |-> e, mobile |-> m]])
  BY <1>2
<1>. DEFINE row == [email |-> e, mobile |-> m]
<1>4. row \in LearnerRow
  <2>1. learners[id] \in LearnerRow
    BY <1>2, Parts DEF TablesTyped, Row
  <2>2. m \in Cell
    BY <2>1 DEF LearnerRow, Cell
  <2>3. QED
    BY <2>2 DEF LearnerRow
<1>. DEFINE q == [Fresh EXCEPT !.pc = "edit.select", !.id = id, !.row = row]
<1>. HIDE DEF row
<1>5. DOMAIN q = DOMAIN Fresh /\ q.pc = "edit.select" /\ q.id = id /\ q.row = row
  BY Names
<1>6. Enter(r, "editInformation", q)
  BY <1>3 DEF row
<1>. HIDE DEF q
<1>7. /\ Only(r) /\ DOMAIN req'[r] = DOMAIN Fresh
      /\ req'[r].pc = "edit.select" /\ req'[r].id = id /\ req'[r].row = row
  BY <1>5, <1>6, Entered
<1>8. Local(r)'
  BY <1>1, <1>4, <1>7 DEF Local, RequestTrue, MoveTrue, ImportTrue, FilingTrue, tables
<1>9. QED
  BY <1>1, <1>7, <1>8, Quiet

\* An edit goes on with a learner there was.
LEMMA Editing ==
  ASSUME OfficeInv, NEW r \in Request, req[r].pc \in {"edit.select", "edit.insert", "edit.update"}
  PROVE  /\ DOMAIN req[r] = DOMAIN Fresh /\ learners \in Seq(LearnerRow \cup {Gone})
         /\ req[r].id \in DOMAIN learners /\ req[r].row \in LearnerRow
  BY Parts DEF TablesTyped, Local, RequestTrue, ImportTrue

LEMMA EditSelectStep ==
  ASSUME OfficeInv, NEW r \in Request, EditSelect(r)
  PROVE  OfficeInv'
<1>1. req[r].pc = "edit.select" /\ UNCHANGED tables
  BY DEF EditSelect, At
<1>2. PICK q : /\ q \in { [req[r] EXCEPT !.pc = "edit.update", !.dirty = Dirty(req[r].row, learners[req[r].id])],
                          [req[r] EXCEPT !.pc = "edit.insert"] }
               /\ req' = [req EXCEPT ![r] = q]
  BY DEF EditSelect
<1>3. /\ DOMAIN req[r] = DOMAIN Fresh
      /\ req[r].id \in DOMAIN learners /\ req[r].row \in LearnerRow
  BY <1>1, Editing
<1>4. /\ DOMAIN q = DOMAIN Fresh /\ q.pc \in {"edit.insert", "edit.update"}
      /\ q.id = req[r].id /\ q.row = req[r].row
  BY <1>2, <1>3, Names
<1>5. Only(r) /\ req'[r] = q
  BY <1>2, Holds
<1>6. Local(r)'
  BY <1>1, <1>3, <1>4, <1>5 DEF Local, RequestTrue, MoveTrue, ImportTrue, FilingTrue, tables
<1>7. QED
  BY <1>1, <1>5, <1>6, Quiet

\* A learner is written: what the others hold stays true, as the imports no
\* longer count the learner as one they have looked for.
LEMMA Written ==
  ASSUME OfficeInv, NEW r \in Request, NEW row \in LearnerRow, Write(r, row), LearnerUnchanged,
         req[r].id \in DOMAIN learners
  PROVE  OfficeInv'
<1>. DEFINE id == req[r].id
<1>1. /\ learners \in Seq(LearnerRow \cup {Gone}) /\ boards \in [Board -> SUBSET (DOMAIN learners)]
      /\ TablesTyped /\ TablesTrue
  BY Parts DEF TablesTyped
<1>2. learners' = [learners EXCEPT ![id] = row]
  BY DEF Write
<1>3. /\ learners' \in Seq(LearnerRow \cup {Gone}) /\ DOMAIN learners' = DOMAIN learners
      /\ \A i \in DOMAIN learners : i # id => learners'[i] = learners[i]
      /\ learners'[id] = row
  BY <1>1, <1>2
<1>4. TablesTyped'
  BY <1>1, <1>3 DEF TablesTyped, LearnerUnchanged
<1>5. TablesTrue'
  BY <1>1 DEF TablesTrue, DocumentsHaveFiles, TreeIsWhole, InFolder, Row, LearnerUnchanged
<1>6. PICK changed :
         /\ changed = IF learners[id] = row THEN {} ELSE {id}
         /\ req' = [q \in Request |-> IF q = r THEN Over(req[r]) ELSE [req[q] EXCEPT !.before = @ \ changed]]
  BY DEF Write
<1>7. Local(r)'
  <2>1. req'[r] = Over(req[r])
    BY <1>6
  <2>2. DOMAIN req'[r] = DOMAIN Fresh /\ req'[r].pc = "over"
    BY <2>1, OverEnded
  <2>3. QED
    BY <2>2 DEF Local, RequestTrue, MoveTrue, ImportTrue, FilingTrue
<1>8. ASSUME NEW s \in Request, s # r
      PROVE  Local(s)'
  <2>1. Local(s) /\ DOMAIN req[s] = DOMAIN Fresh
    BY Parts DEF Local
  <2>2. req'[s] = [req[s] EXCEPT !.before = @ \ changed]
    BY <1>6, <1>8
  <2>3. /\ DOMAIN req'[s] = DOMAIN Fresh /\ req'[s].before = req[s].before \ changed
        /\ req'[s].pc = req[s].pc /\ req'[s].call = req[s].call /\ req'[s].id = req[s].id
        /\ req'[s].row = req[s].row /\ req'[s].rest = req[s].rest /\ req'[s].valid = req[s].valid
        /\ req'[s].kept = req[s].kept
    BY <2>1, <2>2, Names
  <2>4. MoveTrue(req[s])'
    BY <1>3, <2>1, <2>3 DEF Local, RequestTrue, MoveTrue, LearnerUnchanged
  <2>5. FilingTrue(req[s], s)'
    BY <2>1, <2>3 DEF Local, RequestTrue, FilingTrue, LearnerUnchanged
  <2>6. ASSUME NEW i, Unknown(req[s], i), req[s].before \subseteq DOMAIN learners
        PROVE  Unknown(req[s], i)'
    <3>1. ASSUME NEW k \in req'[s].before
          PROVE  k \in req[s].before /\ learners'[k] = learners[k]
      BY <1>3, <1>6, <2>3, <2>6, <3>1
    <3>2. QED
      BY <1>3, <2>3, <2>6, <3>1 DEF Unknown, Row
  <2>7. ImportTrue(req[s])'
    <3>1. ImportTrue(req[s])
      BY <2>1 DEF Local, RequestTrue
    <3>2. ASSUME req[s].pc \in {"import.check", "import.insert"}
          PROVE  \A i \in DOMAIN req[s].rest : req[s].rest[i] = "free" => Unknown(req[s], i)'
      BY <2>6, <3>1, <3>2 DEF ImportTrue
    <3>. HIDE DEF id
    <3>3. QED
      BY <1>3, <2>3, <3>1, <3>2 DEF ImportTrue
  <2>8. QED
    BY <2>3, <2>4, <2>5, <2>7 DEF Local, RequestTrue
<1>9. DOMAIN req' = Request
  BY <1>6
<1>10. (TablesTyped /\ TablesTrue /\ DOMAIN req = Request /\ \A s \in Request : Local(s))'
  BY <1>4, <1>5, <1>7, <1>8, <1>9
<1>11. QED
  BY <1>10 DEF OfficeInv, TypeOK, TablesTyped, Local

\* Nothing is written and the handler returns.
LEMMA NotWritten ==
  ASSUME OfficeInv, NEW r \in Request, Return(r), UNCHANGED learners, LearnerUnchanged
  PROVE  OfficeInv'
<1>1. UNCHANGED tables
  BY DEF tables, LearnerUnchanged
<1>2. QED
  BY <1>1, Returned, Quiet

LEMMA EditInsertStep ==
  ASSUME OfficeInv, NEW r \in Request, EditInsert(r)
  PROVE  OfficeInv'
<1>1. /\ req[r].pc = "edit.insert" /\ LearnerUnchanged
      /\ (Return(r) /\ UNCHANGED learners) \/ Write(r, req[r].row)
  BY DEF EditInsert, At
<1>2. req[r].id \in DOMAIN learners /\ req[r].row \in LearnerRow
  BY <1>1, Editing
<1>3. QED
  BY <1>1, <1>2, Written, NotWritten

LEMMA EditUpdateStep ==
  ASSUME OfficeInv, NEW r \in Request, EditUpdate(r)
  PROVE  OfficeInv'
<1>. DEFINE row == WriteBack(learners[req[r].id], req[r].row, req[r].dirty)
<1>1. /\ req[r].pc = "edit.update" /\ LearnerUnchanged
      /\ (Return(r) /\ UNCHANGED learners) \/ (Row(learners, req[r].id) /\ Write(r, row))
  BY DEF EditUpdate, At
<1>2. /\ req[r].id \in DOMAIN learners /\ req[r].row \in LearnerRow
      /\ learners \in Seq(LearnerRow \cup {Gone})
  BY <1>1, Editing
<1>3. Row(learners, req[r].id) => row \in LearnerRow
  <2>1. SUFFICES ASSUME Row(learners, req[r].id)
                 PROVE  row \in LearnerRow
    OBVIOUS
  <2>2. learners[req[r].id] \in LearnerRow
    BY <1>2, <2>1 DEF Row
  <2>3. DOMAIN learners[req[r].id] = {"email", "mobile"}
    BY <2>2 DEF LearnerRow
  <2>4. /\ learners[req[r].id]["email"] \in Email /\ learners[req[r].id]["mobile"] \in Cell
        /\ req[r].row["email"] \in Email /\ req[r].row["mobile"] \in Cell
    BY <1>2, <2>2 DEF LearnerRow
  <2>5. /\ DOMAIN row = {"email", "mobile"} /\ row["email"] \in Email /\ row["mobile"] \in Cell
        /\ row = [c \in {"email", "mobile"} |-> row[c]]
    BY <2>3, <2>4 DEF WriteBack
  <2>. HIDE DEF row
  <2>6. row = [email |-> row["email"], mobile |-> row["mobile"]]
    BY <2>5
  <2>7. QED
    BY <2>5, <2>6 DEF LearnerRow
<1>. HIDE DEF row
<1>4. QED
  BY <1>1, <1>2, <1>3, Written, NotWritten

LEMMA AnsweredEnded ==
  ASSUME NEW q, NEW kept, DOMAIN q = DOMAIN Fresh
  PROVE  DOMAIN Answered(q, kept) = DOMAIN Fresh /\ Answered(q, kept).pc = "answered"
<1>1. DOMAIN Answered(q, kept) = DOMAIN q
  BY DEF Answered
<1>2. QED
  BY <1>1, Names DEF Answered

LEMMA ImportLearnersStep ==
  ASSUME OfficeInv, NEW r \in Request, ImportLearners(r)
  PROVE  OfficeInv'
<1>1. UNCHANGED tables
  BY DEF ImportLearners
<1>2. PICK u \in Uploads :
         LET result == Processed[u]
             local == [ Fresh EXCEPT !.pc = "import.check", !.upload = u, !.errors = result.errors,
                          !.valid = [k \in DOMAIN result.valid |-> Brief(result.valid[k])],
                          !.before = {id \in DOMAIN learners : Row(learners, id)} ]
         IN  Enter(r, "importLearners", IF result.valid = <<>> THEN Answered(local, <<>>) ELSE local)
  BY DEF ImportLearners
<1>. DEFINE result == Processed[u]
            brief == [k \in DOMAIN result.valid |-> Brief(result.valid[k])]
            there == {id \in DOMAIN learners : Row(learners, id)}
            local == [ Fresh EXCEPT !.pc = "import.check", !.upload = u, !.errors = result.errors,
                         !.valid = brief, !.before = there ]
<1>3. brief \in Seq(LearnerRow)
  BY ValidType
<1>4. DOMAIN brief = DOMAIN result.valid
  OBVIOUS
<1>5. there \subseteq DOMAIN learners
  OBVIOUS
<1>6. Enter(r, "importLearners", IF result.valid = <<>> THEN Answered(local, <<>>) ELSE local)
  BY <1>2
<1>. HIDE DEF brief, there
<1>7. /\ DOMAIN local = DOMAIN Fresh /\ local.pc = "import.check" /\ local.valid = brief
      /\ local.before = there /\ local.rest = <<>>
  BY DEF Fresh
<1>. HIDE DEF local
<1>8. CASE result.valid = <<>>
  <2>1. Enter(r, "importLearners", Answered(local, <<>>))
    BY <1>6, <1>8
  <2>2. /\ DOMAIN Answered(local, <<>>) = DOMAIN Fresh
        /\ Answered(local, <<>>).pc = "answered"
    BY <1>7, AnsweredEnded
  <2>3. Only(r) /\ DOMAIN req'[r] = DOMAIN Fresh /\ req'[r].pc = "answered"
    BY <2>1, <2>2, Entered
  <2>4. Local(r)'
    BY <2>3 DEF Local, RequestTrue, MoveTrue, ImportTrue, FilingTrue
  <2>5. QED
    BY <1>1, <2>3, <2>4, Quiet
<1>9. CASE result.valid # <<>>
  <2>1. Enter(r, "importLearners", local)
    BY <1>6, <1>9
  <2>2. /\ Only(r) /\ DOMAIN req'[r] = DOMAIN Fresh /\ req'[r].pc = "import.check"
        /\ req'[r].valid = brief /\ req'[r].before = there /\ req'[r].rest = <<>>
    BY <1>7, <2>1, Entered
  <2>3. Len(brief) > 0
    <3>1. brief # <<>>
      <4>1. SUFFICES ASSUME brief = <<>>
                     PROVE  FALSE
        OBVIOUS
      <4>2. DOMAIN result.valid = {}
        BY <1>4, <4>1
      <4>3. result.valid = <<>>
        BY <4>2, ValidType
      <4>4. QED
        BY <1>9, <4>3
    <3>2. QED
      BY <1>3, <3>1
  <2>4. ImportTrue(req[r])'
    BY <1>1, <1>3, <1>5, <2>2, <2>3 DEF ImportTrue, tables
  <2>5. Local(r)'
    BY <2>2, <2>4 DEF Local, RequestTrue, MoveTrue, FilingTrue
  <2>6. QED
    BY <1>1, <2>2, <2>5, Quiet
<1>10. QED
  BY <1>8, <1>9

LEMMA Importing ==
  ASSUME OfficeInv, NEW r \in Request, req[r].pc \in {"import.check", "import.insert"}
  PROVE  /\ DOMAIN req[r] = DOMAIN Fresh /\ ImportTrue(req[r])
         /\ learners \in Seq(LearnerRow \cup {Gone})
  BY Parts DEF TablesTyped, Local, RequestTrue

\* One more record is looked up, and after the last what is imported is taken
\* from those that were found to be free or whose lookup failed.
LEMMA CheckRecordStep ==
  ASSUME OfficeInv, NEW r \in Request, CheckRecord(r)
  PROVE  OfficeInv'
<1>1. req[r].pc = "import.check" /\ UNCHANGED tables
  BY DEF CheckRecord, At
<1>2. PICK found \in {"failed", IF Exists(req[r].valid[Looked(r)]) THEN "duplicate" ELSE "free"} :
         LET local == [req[r] EXCEPT !.rest = Append(@, found)]
         IN  req' = [req EXCEPT ![r] = IF Len(local.rest) = Len(local.valid) THEN CheckOver(local)
                                       ELSE local]
  BY DEF CheckRecord
<1>. DEFINE rest == Append(req[r].rest, found)
            local == [req[r] EXCEPT !.rest = rest]
            q == IF Len(rest) = Len(local.valid) THEN CheckOver(local) ELSE local
<1>3. /\ DOMAIN req[r] = DOMAIN Fresh /\ req[r].valid \in Seq(LearnerRow)
      /\ req[r].before \subseteq DOMAIN learners
      /\ req[r].rest \in Seq({"failed", "duplicate", "free"})
      /\ Len(req[r].rest) < Len(req[r].valid)
      /\ \A i \in DOMAIN req[r].rest : req[r].rest[i] = "free" => Unknown(req[r], i)
  BY <1>1, Importing DEF ImportTrue
<1>4. /\ DOMAIN local = DOMAIN Fresh /\ local.pc = "import.check" /\ local.rest = rest
      /\ local.valid = req[r].valid /\ local.before = req[r].before
  BY <1>1, <1>3, Names
<1>5. Only(r) /\ req'[r] = q
  <2>1. req' = [req EXCEPT ![r] = q]
    BY <1>2, <1>4
  <2>. HIDE DEF q
  <2>2. QED
    BY <2>1, Holds
<1>6. found \in {"failed", "duplicate", "free"}
  OBVIOUS
<1>7. /\ rest \in Seq({"failed", "duplicate", "free"}) /\ Len(rest) = Len(req[r].rest) + 1
      /\ Len(rest) <= Len(req[r].valid)
      /\ \A i \in DOMAIN rest : \/ i \in DOMAIN req[r].rest /\ rest[i] = req[r].rest[i]
                                \/ i = Looked(r) /\ rest[i] = found
  <2>1. /\ rest \in Seq({"failed", "duplicate", "free"}) /\ Len(rest) = Len(req[r].rest) + 1
        /\ Len(req[r].rest) \in Nat
    BY <1>3, <1>6
  <2>2. Len(req[r].valid) \in Nat
    BY <1>3
  <2>3. Len(rest) <= Len(req[r].valid)
    BY <1>3, <2>1, <2>2
  <2>4. ASSUME NEW i \in DOMAIN rest
        PROVE  \/ i \in DOMAIN req[r].rest /\ rest[i] = req[r].rest[i]
               \/ i = Looked(r) /\ rest[i] = found
    BY <1>3, <1>6, <2>1 DEF Looked
  <2>5. QED
    BY <2>1, <2>3, <2>4
<1>8. found = "free" => Unknown(req[r], Looked(r))
  BY <1>3 DEF Exists, Unknown, Looked
<1>. HIDE DEF rest, local
<1>9. \A i \in DOMAIN rest : rest[i] = "free" => Unknown(req[r], i)
  BY <1>3, <1>7, <1>8
<1>10. CASE Len(rest) # Len(local.valid)
  <2>1. req'[r] = local
    BY <1>5, <1>10
  <2>2. ImportTrue(req[r])'
    BY <1>1, <1>3, <1>4, <1>7, <1>9, <1>10, <2>1 DEF ImportTrue, Unknown, tables
  <2>3. Local(r)'
    BY <1>4, <2>1, <2>2 DEF Local, RequestTrue, MoveTrue, FilingTrue
  <2>4. QED
    BY <1>1, <1>5, <2>3, Quiet
<1>11. CASE Len(rest) = Len(local.valid)
  <2>. DEFINE kept == Ordered(ImportedIndices(local))
              done == [local EXCEPT !.errors = Reported(local), !.kept = kept]
  <2>1. req'[r] = IF kept = <<>> THEN Answered(done, <<>>) ELSE [done EXCEPT !.pc = "import.insert"]
    BY <1>5, <1>11 DEF CheckOver
  <2>2. kept \in Seq({i \in DOMAIN rest : rest[i] # "duplicate"})
    <3>. DEFINE free == {i \in DOMAIN rest : rest[i] # "duplicate"}
    <3>1. ImportedIndices(local) \subseteq free
      BY <1>4, <1>7 DEF ImportedIndices
    <3>2. DOMAIN rest = 1..Len(rest) /\ Len(rest) \in Nat
      BY <1>7
    <3>3. IsFiniteSet(DOMAIN rest) /\ DOMAIN rest \subseteq Nat
      BY <3>2, FS_Interval
    <3>4. ImportedIndices(local) \in SUBSET Nat /\ IsFiniteSet(ImportedIndices(local))
      BY <3>1, <3>3, FS_Subset
    <3>5. kept \in Seq(ImportedIndices(local))
      BY <3>4, OrderedType
    <3>. HIDE DEF kept, free
    <3>6. kept \in Seq(free)
      BY <3>1, <3>5
    <3>7. QED
      BY <3>6 DEF free
  <2>. HIDE DEF kept
  <2>3. /\ DOMAIN done = DOMAIN Fresh /\ done.rest = rest /\ done.valid = req[r].valid
        /\ done.before = req[r].before /\ done.kept = kept
    BY <1>4, Names
  <2>. HIDE DEF done
  <2>4. CASE kept = <<>>
    <3>1. DOMAIN req'[r] = DOMAIN Fresh /\ req'[r].pc = "answered"
      BY <2>1, <2>3, <2>4, AnsweredEnded
    <3>2. Local(r)'
      BY <3>1 DEF Local, RequestTrue, MoveTrue, ImportTrue, FilingTrue
    <3>3. QED
      BY <1>1, <1>5, <3>2, Quiet
  <2>5. CASE kept # <<>>
    <3>1. /\ DOMAIN req'[r] = DOMAIN Fresh /\ req'[r].pc = "import.insert" /\ req'[r].rest = rest
          /\ req'[r].valid = req[r].valid /\ req'[r].before = req[r].before /\ req'[r].kept = kept
      BY <2>1, <2>3, <2>5, Names
    <3>2. ImportTrue(req[r])'
      BY <1>1, <1>3, <1>7, <1>9, <2>2, <3>1 DEF ImportTrue, Unknown, tables
    <3>3. Local(r)'
      BY <3>1, <3>2 DEF Local, RequestTrue, MoveTrue, FilingTrue
    <3>4. QED
      BY <1>1, <1>5, <3>3, Quiet
  <2>6. QED
    BY <2>4, <2>5
<1>12. QED
  BY <1>10, <1>11

LEMMA ImportInsertStep ==
  ASSUME OfficeInv, NEW r \in Request, ImportInsert(r)
  PROVE  OfficeInv'
<1>. DEFINE rows == [k \in DOMAIN req[r].kept |-> req[r].valid[req[r].kept[k]]]
            q == Answered(req[r], req[r].kept)
<1>1. /\ req[r].pc = "import.insert" /\ learners' = learners \o rows
      /\ req' = [req EXCEPT ![r] = q] /\ LearnerUnchanged
  BY DEF ImportInsert, At
<1>2. /\ DOMAIN req[r] = DOMAIN Fresh /\ req[r].valid \in Seq(LearnerRow)
      /\ req[r].rest \in Seq({"failed", "duplicate", "free"})
      /\ Len(req[r].rest) <= Len(req[r].valid)
      /\ req[r].kept \in Seq(DOMAIN req[r].rest)
      /\ learners \in Seq(LearnerRow \cup {Gone})
  <2>1. /\ req[r].kept \in Seq({i \in DOMAIN req[r].rest : req[r].rest[i] # "duplicate"})
        /\ DOMAIN req[r] = DOMAIN Fresh /\ req[r].valid \in Seq(LearnerRow)
        /\ req[r].rest \in Seq({"failed", "duplicate", "free"})
        /\ Len(req[r].rest) <= Len(req[r].valid)
        /\ learners \in Seq(LearnerRow \cup {Gone})
    BY <1>1, Importing DEF ImportTrue
  <2>2. {i \in DOMAIN req[r].rest : req[r].rest[i] # "duplicate"} \subseteq DOMAIN req[r].rest
    OBVIOUS
  <2>3. QED
    BY <2>1, <2>2
<1>3. rows \in Seq(LearnerRow)
  <2>1. DOMAIN req[r].rest \subseteq DOMAIN req[r].valid
    BY <1>2
  <2>2. \A k \in DOMAIN req[r].kept : req[r].kept[k] \in DOMAIN req[r].valid
    BY <1>2, <2>1
  <2>3. \A k \in DOMAIN req[r].kept : rows[k] \in LearnerRow
    BY <1>2, <2>2
  <2>4. DOMAIN req[r].kept = 1..Len(req[r].kept) /\ Len(req[r].kept) \in Nat
    BY <1>2
  <2>5. rows \in [1..Len(req[r].kept) -> LearnerRow]
    BY <2>3, <2>4
  <2>. HIDE DEF rows
  <2>6. QED
    BY <2>4, <2>5
<1>. HIDE DEF rows
<1>4. /\ learners' \in Seq(LearnerRow \cup {Gone})
      /\ DOMAIN learners \subseteq DOMAIN learners'
      /\ \A id \in DOMAIN learners : learners'[id] = learners[id]
  BY <1>1, <1>2, <1>3
<1>5. DOMAIN q = DOMAIN Fresh /\ q.pc = "answered"
  BY <1>2, AnsweredEnded
<1>. HIDE DEF q
<1>6. Only(r) /\ Local(r)'
  BY <1>1, <1>5, Ended
<1>7. QED
  BY <1>1, <1>4, <1>6, LearnersMoved, Concluded

-----------------------------------------------------------------------------
(* Folders, documents and their files, and the log.                         *)

LEMMA Filing ==
  ASSUME OfficeInv, NEW r \in Request
  PROVE  /\ DOMAIN req[r] = DOMAIN Fresh /\ FilingTrue(req[r], r)
         /\ TablesTyped /\ TablesTrue
  BY Parts DEF Local, RequestTrue

LEMMA HoldsFiling ==
  ASSUME NEW r \in Request, DOMAIN req'[r] = DOMAIN Fresh, FilingTrue(req[r], r)',
         req'[r].pc \in {"folder", "upload", "document", "assign.students", "assign.save",
                         "trash.find", "trash.save"}
  PROVE  Local(r)'
  BY DEF Local, RequestTrue, MoveTrue, ImportTrue

\* Neither the learners nor their boards move.
LEMMA FilesGrow ==
  ASSUME OfficeInv, UNCHANGED <<learners, boards>>, files \subseteq files',
         Len(folders) <= Len(folders')
  PROVE  Grows
  BY Parts DEF Grows, TablesTyped

LEMMA LibraryTyped ==
  ASSUME OfficeInv, LibraryUnchanged, folders' \in Seq(FolderRow \cup {Gone}),
         documents' \in Seq(DocumentRow \cup {Gone})
  PROVE  TablesTyped'
  BY Parts DEF TablesTyped, LibraryUnchanged

LEMMA CreateFolderStep ==
  ASSUME OfficeInv, NEW r \in Request, CreateFolder(r)
  PROVE  OfficeInv'
<1>1. UNCHANGED tables
  BY DEF CreateFolder
<1>2. PICK u \in User, p \in {0} \cup {f \in DOMAIN folders : Row(folders, f)} :
         Enter(r, "createFolder", [Fresh EXCEPT !.pc = "folder", !.row = [owner |-> u, parent |-> p]])
  BY DEF CreateFolder
<1>. DEFINE row == [owner |-> u, parent |-> p]
<1>3. row \in FolderRow /\ row.parent <= Len(folders)
  <2>1. DOMAIN folders = 1..Len(folders) /\ Len(folders) \in Nat
    BY Parts DEF TablesTyped
  <2>2. p \in 0..Len(folders)
    BY <2>1
  <2>3. QED
    BY <2>1, <2>2 DEF FolderRow
<1>. HIDE DEF row
<1>4. /\ Only(r) /\ DOMAIN req'[r] = DOMAIN Fresh
      /\ req'[r].pc = "folder" /\ req'[r].row = row
  BY <1>2, EnteredRow DEF row
<1>5. FilingTrue(req[r], r)'
  BY <1>1, <1>3, <1>4 DEF FilingTrue, tables
<1>6. QED
  BY <1>1, <1>4, <1>5, HoldsFiling, Quiet

\* The new folder is in one that is still there, or the INSERT is refused.
LEMMA InsertFolderStep ==
  ASSUME OfficeInv, NEW r \in Request, InsertFolder(r)
  PROVE  OfficeInv'
<1>. DEFINE row == req[r].row
<1>1. /\ req[r].pc = "folder" /\ Return(r) /\ UNCHANGED documents /\ LibraryUnchanged
      /\ folders' = IF FolderThere(row.parent) THEN Append(folders, row) ELSE folders
  BY DEF InsertFolder, At
<1>2. CASE ~ FolderThere(row.parent)
  <2>1. UNCHANGED tables
    BY <1>1, <1>2 DEF LibraryUnchanged, tables
  <2>2. QED
    BY <1>1, <2>1, Returned, Quiet
<1>3. CASE FolderThere(row.parent)
  <2>1. /\ TablesTyped /\ TablesTrue
        /\ row \in FolderRow /\ row.parent <= Len(folders)
    BY <1>1, Filing DEF FilingTrue
  <2>2. /\ folders \in Seq(FolderRow \cup {Gone}) /\ Len(folders) \in Nat
        /\ documents \in Seq(DocumentRow \cup {Gone}) /\ row.parent \in Nat
    BY <2>1 DEF TablesTyped, FolderRow
  <2>. HIDE DEF row
  <2>3. /\ folders' \in Seq(FolderRow \cup {Gone}) /\ Len(folders') = Len(folders) + 1
        /\ DOMAIN folders' = DOMAIN folders \cup {Len(folders) + 1}
        /\ \A f \in DOMAIN folders : folders'[f] = folders[f]
        /\ folders'[Len(folders) + 1] = row
    BY <1>1, <1>3, <2>1, <2>2
  <2>4. \A f : InFolder(f) => InFolder(f)'
    BY <2>3 DEF InFolder, Row
  <2>5. InFolder(row.parent)
    BY <1>3 DEF FolderThere, InFolder
  <2>6. TreeIsWhole'
    <3>1. ASSUME NEW f \in DOMAIN folders', Row(folders, f)'
          PROVE  InFolder(folders[f].parent)'
      <4>1. CASE f \in DOMAIN folders
        BY <2>1, <2>3, <2>4, <3>1, <4>1 DEF TablesTrue, TreeIsWhole, Row
      <4>2. CASE f = Len(folders) + 1
        BY <2>3, <2>4, <2>5, <4>2
      <4>3. QED
        BY <2>3, <4>1, <4>2
    <3>2. ASSUME NEW d \in DOMAIN documents, Row(documents, d)
          PROVE  InFolder(documents[d].folder)'
      BY <1>1, <2>1, <2>3, <3>2 DEF TablesTrue, TreeIsWhole, InFolder, Row
    <3>3. QED
      BY <1>1, <3>1, <3>2 DEF TreeIsWhole, InFolder, Row
  <2>7. \A f \in DOMAIN folders' : Row(folders, f)' => folders'[f].parent < f
    <3>1. \A f \in DOMAIN folders : Row(folders, f) => folders[f].parent < f
      BY <2>1 DEF TablesTrue
    <3>2. ASSUME NEW f \in DOMAIN folders', Row(folders, f)'
          PROVE  folders'[f].parent < f
      <4>1. CASE f \in DOMAIN folders
        BY <2>3, <3>1, <3>2, <4>1 DEF Row
      <4>2. CASE f = Len(folders) + 1
        BY <2>1, <2>2, <2>3, <4>2
      <4>3. QED
        BY <2>3, <4>1, <4>2
    <3>3. QED
      BY <3>2
  <2>8. TablesTrue'
    BY <1>1, <2>1, <2>6, <2>7 DEF TablesTrue, DocumentsHaveFiles, LibraryUnchanged, Row
  <2>9. TablesTyped' /\ Grows
    BY <1>1, <2>2, <2>3, LibraryTyped, FilesGrow DEF LibraryUnchanged
  <2>10. QED
    BY <1>1, <2>8, <2>9, Returned, Concluded
<1>4. QED
  BY <1>2, <1>3

LEMMA DeleteFolderStep ==
  ASSUME OfficeInv, NEW r \in Request, DeleteFolder(r)
  PROVE  OfficeInv'
<1>1. UNCHANGED tables
  BY DEF DeleteFolder
<1>2. PICK f \in DOMAIN folders :
         Enter(r, "deleteFolder", [Fresh EXCEPT !.pc = "folder.delete", !.id = f])
  BY DEF DeleteFolder
<1>3. Only(r) /\ DOMAIN req'[r] = DOMAIN Fresh /\ req'[r].pc = "folder.delete"
  BY <1>2, EnteredId
<1>4. QED
  BY <1>1, <1>3, HoldsNothing, Quiet

\* What is below the folder goes with it, and its documents are in none.
LEMMA DeleteFolderRowStep ==
  ASSUME OfficeInv, NEW r \in Request, DeleteFolderRow(r)
  PROVE  OfficeInv'
<1>. DEFINE deleted == Below(req[r].id)
<1>1. /\ folders' = [f \in DOMAIN folders |-> IF f \in deleted THEN Gone ELSE folders[f]]
      /\ documents' = [d \in DOMAIN documents |->
           IF documents[d] # Gone /\ documents[d].folder \in deleted
           THEN [documents[d] EXCEPT !.folder = 0] ELSE documents[d]]
      /\ Return(r) /\ LibraryUnchanged
  BY DEF DeleteFolderRow
<1>2. TablesTyped /\ TablesTrue
  BY Parts
<1>3. /\ folders \in [1..Len(folders) -> FolderRow \cup {Gone}] /\ Len(folders) \in Nat
      /\ folders \in Seq(FolderRow \cup {Gone})
      /\ documents \in [1..Len(documents) -> DocumentRow \cup {Gone}] /\ Len(documents) \in Nat
  BY <1>2 DEF TablesTyped
<1>4. OlderParents
  BY <1>2, <1>3 DEF OlderParents, TablesTrue, FolderRow, Row
<1>5. \A g \in DOMAIN folders :
         Row(folders, g) /\ folders[g].parent # 0 /\ folders[g].parent \in deleted => g \in deleted
  BY <1>3, <1>4, BelowClosed
<1>. HIDE DEF deleted
<1>6. /\ DOMAIN folders' = DOMAIN folders /\ DOMAIN documents' = DOMAIN documents
      /\ folders' \in [1..Len(folders) -> FolderRow \cup {Gone}]
      /\ \A f \in DOMAIN folders : Row(folders, f)' => /\ f \notin deleted /\ Row(folders, f)
                                                      /\ folders'[f] = folders[f]
  BY <1>1, <1>3 DEF Row
<1>7. ASSUME NEW d \in DOMAIN documents
      PROVE  /\ documents'[d] \in DocumentRow \cup {Gone}
             /\ Row(documents, d)' =>
                  /\ Row(documents, d) /\ documents'[d].file = documents[d].file
                  /\ documents'[d].folder = 0 \/ /\ documents[d].folder \notin deleted
                                                 /\ documents'[d].folder = documents[d].folder
  <2>1. CASE documents[d] = Gone
    BY <1>1, <2>1 DEF Row
  <2>2. CASE documents[d] # Gone
    <3>1. documents[d] \in DocumentRow
      BY <1>3, <2>2
    <3>2. /\ [documents[d] EXCEPT !.folder = 0] \in DocumentRow
          /\ [documents[d] EXCEPT !.folder = 0].folder = 0
          /\ [documents[d] EXCEPT !.folder = 0].file = documents[d].file
      BY <3>1 DEF DocumentRow
    <3>3. QED
      BY <1>1, <2>2, <3>1, <3>2 DEF Row
  <2>3. QED
    BY <2>1, <2>2
<1>8. \A f \in Nat : InFolder(f) /\ f \notin deleted => InFolder(f)'
  <2>1. \A f \in DOMAIN folders : f \notin deleted => folders'[f] = folders[f]
    BY <1>1
  <2>2. QED
    BY <1>6, <2>1 DEF InFolder, Row
<1>9. TreeIsWhole'
  <2>1. ASSUME NEW f \in DOMAIN folders, Row(folders, f)'
        PROVE  InFolder(folders[f].parent)'
    <3>1. f \notin deleted /\ Row(folders, f) /\ folders'[f] = folders[f]
      BY <1>6, <2>1
    <3>2. folders[f].parent \in Nat /\ InFolder(folders[f].parent)
      BY <1>2, <1>4, <3>1 DEF TablesTrue, TreeIsWhole, OlderParents
    <3>3. CASE folders[f].parent = 0
      BY <3>1, <3>3 DEF InFolder
    <3>4. CASE folders[f].parent # 0
      BY <1>5, <1>8, <3>1, <3>2, <3>4
    <3>5. QED
      BY <3>3, <3>4
  <2>2. ASSUME NEW d \in DOMAIN documents, Row(documents, d)'
        PROVE  InFolder(documents[d].folder)'
    <3>1. CASE documents'[d].folder = 0
      BY <3>1 DEF InFolder
    <3>2. CASE /\ documents[d].folder \notin deleted
               /\ documents'[d].folder = documents[d].folder
      <4>1. Row(documents, d) /\ documents[d] \in DocumentRow
        BY <1>3, <1>7, <2>2 DEF Row
      <4>2. InFolder(documents[d].folder) /\ documents[d].folder \in Nat
        BY <1>2, <4>1 DEF TablesTrue, TreeIsWhole, DocumentRow
      <4>3. QED
        BY <1>8, <3>2, <4>2
    <3>3. QED
      BY <1>7, <2>2, <3>1, <3>2
  <2>3. QED
    BY <1>6, <2>1, <2>2 DEF TreeIsWhole
<1>10. \A f \in DOMAIN folders' : Row(folders, f)' => folders'[f].parent < f
  BY <1>2, <1>6 DEF TablesTrue
<1>11. DocumentsHaveFiles'
  BY <1>1, <1>2, <1>6, <1>7 DEF TablesTrue, DocumentsHaveFiles, LibraryUnchanged
<1>12. TablesTrue'
  BY <1>9, <1>10, <1>11 DEF TablesTrue
<1>13. /\ folders' \in Seq(FolderRow \cup {Gone}) /\ Len(folders') = Len(folders)
  BY <1>3, <1>6
<1>14. documents' \in Seq(DocumentRow \cup {Gone})
  <2>1. documents' \in [1..Len(documents) -> DocumentRow \cup {Gone}]
    BY <1>1, <1>3, <1>7
  <2>2. QED
    BY <1>3, <2>1
<1>15. TablesTyped' /\ Grows
  BY <1>1, <1>3, <1>13, <1>14, LibraryTyped, FilesGrow DEF LibraryUnchanged
<1>16. QED
  BY <1>1, <1>12, <1>15, Returned, Concluded

\* Documents are added or deleted, and the folders stay.
LEMMA DocumentsMoved ==
  ASSUME OfficeInv, UNCHANGED <<learners, boards, folders, trashed>>,
         files \subseteq files', files' \subseteq File,
         documents' \in Seq(DocumentRow \cup {Gone}),
         \A d \in DOMAIN documents' : Row(documents, d)' =>
            /\ documents'[d].file \in files' \cup {"elsewhere"}
            /\ InFolder(documents[d].folder)'
  PROVE  Grows /\ TablesTyped' /\ TablesTrue'
<1>1. TablesTyped /\ TablesTrue
  BY Parts
<1>2. TablesTyped'
  BY <1>1 DEF TablesTyped
<1>3. TreeIsWhole'
  <2>1. \A f : InFolder(f)' <=> InFolder(f)
    BY DEF InFolder, Row
  <2>2. \A f \in DOMAIN folders' : Row(folders, f)' => InFolder(folders[f].parent)'
    BY <1>1 DEF TablesTrue, TreeIsWhole, InFolder, Row
  <2>3. QED
    BY <2>2 DEF TreeIsWhole
<1>4. TablesTrue'
  BY <1>1, <1>3 DEF TablesTrue, DocumentsHaveFiles, Row
<1>5. Grows
  BY <1>1 DEF Grows, TablesTyped
<1>6. QED
  BY <1>2, <1>3, <1>4, <1>5

\* A document that links to a file and is in a folder, or in none, is added.
LEMMA Inserted ==
  ASSUME OfficeInv, LibraryUnchanged, UNCHANGED folders,
         NEW row \in DocumentRow, Insert(row), FolderThere(row.folder),
         row.file \in files \cup {"elsewhere"}
  PROVE  Grows /\ TablesTyped' /\ TablesTrue'
<1>1. TablesTyped /\ TablesTrue
  BY Parts
<1>2. /\ documents \in Seq(DocumentRow \cup {Gone}) /\ documents' = Append(documents, row)
      /\ Len(documents) \in Nat /\ files \subseteq File
  BY <1>1 DEF TablesTyped, Insert
<1>3. /\ documents' \in Seq(DocumentRow \cup {Gone})
      /\ DOMAIN documents' = DOMAIN documents \cup {Len(documents) + 1}
      /\ \A d \in DOMAIN documents : documents'[d] = documents[d]
      /\ documents'[Len(documents) + 1] = row
  BY <1>2
<1>4. ASSUME NEW d \in DOMAIN documents', Row(documents, d)'
      PROVE  /\ documents'[d].file \in files' \cup {"elsewhere"}
             /\ InFolder(documents[d].folder)'
  <2>1. CASE d \in DOMAIN documents
    <3>1. Row(documents, d) /\ documents'[d] = documents[d]
      BY <1>3, <1>4, <2>1 DEF Row
    <3>2. documents[d].file \in files \cup {"elsewhere"} /\ InFolder(documents[d].folder)
      BY <1>1, <2>1, <3>1 DEF TablesTrue, DocumentsHaveFiles, TreeIsWhole
    <3>3. QED
      BY <3>1, <3>2 DEF LibraryUnchanged, InFolder, Row
  <2>2. CASE d = Len(documents) + 1
    BY <1>3, <2>2 DEF LibraryUnchanged, InFolder, FolderThere, Row
  <2>3. QED
    BY <1>3, <2>1, <2>2
<1>5. QED
  BY <1>2, <1>3, <1>4, DocumentsMoved DEF LibraryUnchanged

\* The calls that take a document, or a file for one.
LEMMA FileCallStep ==
  ASSUME OfficeInv, NEW r \in Request, NEW name, NEW p, NEW row \in DocumentRow,
         Enter(r, name, [Fresh EXCEPT !.pc = p, !.row = row]), UNCHANGED tables,
         \/ p = "upload" /\ row.file = r
         \/ p \in {"document", "assign.students"} /\ row.file \in files \cup {"elsewhere"}
  PROVE  OfficeInv'
<1>1. /\ Only(r) /\ DOMAIN req'[r] = DOMAIN Fresh
      /\ req'[r].pc = p /\ req'[r].row = row
  BY EnteredRow
<1>2. FilingTrue(req[r], r)'
  BY <1>1 DEF FilingTrue, tables
<1>3. QED
  BY <1>1, <1>2, HoldsFiling, Quiet

LEMMA FoldersNumbered ==
  ASSUME OfficeInv
  PROVE  DOMAIN folders \subseteq Nat
  BY Parts DEF TablesTyped

LEMMA CreateDocumentStep ==
  ASSUME OfficeInv, NEW r \in Request, CreateDocument(r)
  PROVE  OfficeInv'
<1>1. PICK f \in DOMAIN folders, link \in files \cup {"elsewhere"} :
         Enter(r, "createDocument",
               [Fresh EXCEPT !.pc = "document", !.row = [folder |-> f, student |-> 0, file |-> link]])
  BY DEF CreateDocument
<1>. DEFINE row == [folder |-> f, student |-> 0, file |-> link]
<1>2. row \in DocumentRow /\ row.file \in files \cup {"elsewhere"}
  <2>1. files \subseteq File
    BY Parts DEF TablesTyped
  <2>2. f \in Nat /\ link \in File \cup {"elsewhere"}
    BY <2>1, FoldersNumbered
  <2>3. QED
    BY <2>2 DEF DocumentRow
<1>3. Enter(r, "createDocument", [Fresh EXCEPT !.pc = "document", !.row = row]) /\ UNCHANGED tables
  BY <1>1 DEF CreateDocument
<1>. HIDE DEF row
<1>4. QED
  BY <1>2, <1>3, FileCallStep

LEMMA UploadType ==
  ASSUME NEW f \in Nat, NEW r \in Request
  PROVE  [folder |-> f, student |-> 0, file |-> r] \in DocumentRow
  BY DEF DocumentRow, File

LEMMA UploadDocumentToFolderStep ==
  ASSUME OfficeInv, NEW r \in Request, UploadDocumentToFolder(r)
  PROVE  OfficeInv'
<1>1. PICK u \in User, f \in DOMAIN folders :
         Enter(r, "uploadDocumentToFolder", IF folders[f].owner # u THEN [Fresh EXCEPT !.pc = "over"]
               ELSE [Fresh EXCEPT !.pc = "upload", !.row = [folder |-> f, student |-> 0, file |-> r]])
  BY DEF UploadDocumentToFolder
<1>. DEFINE row == [folder |-> f, student |-> 0, file |-> r]
<1>2. row \in DocumentRow /\ row.file = r
  BY UploadType, FoldersNumbered
<1>3. UNCHANGED tables
  BY DEF UploadDocumentToFolder
<1>4. CASE folders[f].owner # u
  <2>1. Enter(r, "uploadDocumentToFolder", [Fresh EXCEPT !.pc = "over"])
    BY <1>1, <1>4
  <2>2. QED
    BY <1>3, <2>1, EnteredOver, Quiet
<1>5. CASE folders[f].owner = u
  <2>1. Enter(r, "uploadDocumentToFolder", [Fresh EXCEPT !.pc = "upload", !.row = row])
    BY <1>1, <1>5
  <2>. HIDE DEF row
  <2>2. QED
    BY <1>2, <1>3, <2>1, FileCallStep
<1>6. QED
  BY <1>4, <1>5

LEMMA UploadUnfiledStep ==
  ASSUME OfficeInv, NEW r \in Request, NEW name, UploadUnfiled(r, name)
  PROVE  OfficeInv'
<1>. DEFINE row == [folder |-> 0, student |-> 0, file |-> r]
<1>1. row \in DocumentRow /\ row.file = r
  BY UploadType
<1>2. Enter(r, name, [Fresh EXCEPT !.pc = "upload", !.row = row]) /\ UNCHANGED tables
  BY DEF UploadUnfiled
<1>. HIDE DEF row
<1>3. QED
  BY <1>1, <1>2, FileCallStep

LEMMA UploadStep ==
  ASSUME OfficeInv, NEW r \in Request, Upload(r)
  PROVE  OfficeInv'
<1>1. /\ req[r].pc = "upload" /\ files' = files \cup {r} /\ Goto(r, "document")
      /\ UNCHANGED <<learners, boards, folders, documents, trashed>>
  BY DEF Upload, At
<1>2. /\ TablesTyped /\ TablesTrue
      /\ req[r].row \in DocumentRow /\ req[r].row.file = r
  BY <1>1, Filing DEF FilingTrue
<1>3. /\ Only(r) /\ DOMAIN req'[r] = DOMAIN Fresh /\ req'[r].pc = "document"
      /\ req'[r].row = req[r].row
  BY <1>1, Went
<1>4. FilingTrue(req[r], r)'
  BY <1>1, <1>2, <1>3 DEF FilingTrue
<1>5. files \subseteq files' /\ files' \subseteq File
  BY <1>1, <1>2 DEF TablesTyped, File
<1>6. \A d \in DOMAIN documents' : Row(documents, d)' =>
         /\ documents'[d].file \in files' \cup {"elsewhere"}
         /\ InFolder(documents[d].folder)'
  BY <1>1, <1>2 DEF TablesTrue, DocumentsHaveFiles, TreeIsWhole, InFolder, Row
<1>7. documents' \in Seq(DocumentRow \cup {Gone})
  BY <1>1, <1>2 DEF TablesTyped
<1>8. Grows /\ TablesTyped' /\ TablesTrue'
  BY <1>1, <1>5, <1>6, <1>7, DocumentsMoved
<1>9. QED
  BY <1>3, <1>4, <1>8, HoldsFiling, Concluded

LEMMA InsertDocumentStep ==
  ASSUME OfficeInv, NEW r \in Request, InsertDocument(r)
  PROVE  OfficeInv'
<1>1. /\ req[r].pc = "document" /\ Return(r) /\ UNCHANGED folders /\ LibraryUnchanged
      /\ IF FolderThere(req[r].row.folder) THEN Insert(req[r].row) ELSE UNCHANGED documents
  BY DEF InsertDocument, At
<1>2. req[r].row \in DocumentRow /\ req[r].row.file \in files \cup {"elsewhere"}
  BY <1>1, Filing DEF FilingTrue
<1>3. CASE FolderThere(req[r].row.folder)
  BY <1>1, <1>2, <1>3, Inserted, Returned, Concluded
<1>4. CASE ~ FolderThere(req[r].row.folder)
  <2>1. UNCHANGED tables
    BY <1>1, <1>4 DEF LibraryUnchanged, tables
  <2>2. QED
    BY <1>1, <2>1, Returned, Quiet
<1>5. QED
  BY <1>3, <1>4

LEMMA DeleteDocumentStep ==
  ASSUME OfficeInv, NEW r \in Request, DeleteDocument(r)
  PROVE  OfficeInv'
<1>1. UNCHANGED tables
  BY DEF DeleteDocument
<1>2. PICK d \in DOMAIN documents :
         Enter(r, "deleteDocument", [Fresh EXCEPT !.pc = "document.delete", !.id = d])
  BY DEF DeleteDocument
<1>3. Only(r) /\ DOMAIN req'[r] = DOMAIN Fresh /\ req'[r].pc = "document.delete"
  BY <1>2, EnteredId
<1>4. QED
  BY <1>1, <1>3, HoldsNothing, Quiet

LEMMA DeleteDocumentRowStep ==
  ASSUME OfficeInv, NEW r \in Request, DeleteDocumentRow(r)
  PROVE  OfficeInv'
<1>1. /\ documents' = [documents EXCEPT ![req[r].id] = Gone]
      /\ Return(r) /\ UNCHANGED folders /\ LibraryUnchanged
  BY DEF DeleteDocumentRow
<1>2. TablesTyped /\ TablesTrue
  BY Parts
<1>3. documents \in [1..Len(documents) -> DocumentRow \cup {Gone}] /\ Len(documents) \in Nat
  BY <1>2 DEF TablesTyped
<1>4. /\ documents' \in [1..Len(documents) -> DocumentRow \cup {Gone}]
      /\ DOMAIN documents' = DOMAIN documents
      /\ \A d \in DOMAIN documents : documents'[d] = documents[d] \/ documents'[d] = Gone
  BY <1>1, <1>3
<1>5. documents' \in Seq(DocumentRow \cup {Gone})
  BY <1>3, <1>4
<1>6. \A d \in DOMAIN documents' : Row(documents, d)' =>
         /\ documents'[d].file \in files' \cup {"elsewhere"}
         /\ InFolder(documents[d].folder)'
  BY <1>1, <1>2, <1>4 DEF TablesTrue, DocumentsHaveFiles, TreeIsWhole, InFolder, Row,
     LibraryUnchanged
<1>7. files \subseteq files' /\ files' \subseteq File
  BY <1>1, <1>2 DEF TablesTyped, LibraryUnchanged
<1>8. Grows /\ TablesTyped' /\ TablesTrue'
  BY <1>1, <1>5, <1>6, <1>7, DocumentsMoved DEF LibraryUnchanged
<1>9. QED
  BY <1>1, <1>8, Returned, Concluded

LEMMA AssignCallStep ==
  ASSUME OfficeInv, NEW r \in Request, AssignDocumentToStudents(r)
  PROVE  OfficeInv'
<1>1. PICK d \in DOMAIN documents :
         /\ Row(documents, d)
         /\ Enter(r, "assignDocumentToStudents",
                  [Fresh EXCEPT !.pc = "assign.students", !.row = documents[d]])
  BY DEF AssignDocumentToStudents
<1>2. UNCHANGED tables
  BY DEF AssignDocumentToStudents
<1>3. documents[d] \in DocumentRow /\ documents[d].file \in files \cup {"elsewhere"}
  BY <1>1, Parts DEF TablesTyped, TablesTrue, DocumentsHaveFiles, Row
<1>4. QED
  BY <1>1, <1>2, <1>3, FileCallStep

LEMMA AssignStudentsStep ==
  ASSUME OfficeInv, NEW r \in Request, AssignStudents(r)
  PROVE  OfficeInv'
<1>1. req[r].pc = "assign.students" /\ UNCHANGED tables
  BY DEF AssignStudents, At
<1>2. PICK ids \in (SUBSET DOMAIN learners) \ {{}} :
         IF \E id \in ids : ~ Row(learners, id) THEN Return(r)
         ELSE req' = [req EXCEPT ![r].pc = "assign.save", ![r].rest = Ordered(ids)]
  BY DEF AssignStudents
<1>3. CASE Return(r)
  BY <1>1, <1>3, Returned, Quiet
<1>. DEFINE rest == Ordered(ids)
<1>4. CASE req' = [req EXCEPT ![r].pc = "assign.save", ![r].rest = rest]
  <2>1. rest \in Seq(Nat) /\ rest # <<>>
    <3>1. DOMAIN learners = 1..Len(learners) /\ Len(learners) \in Nat
      BY Parts DEF TablesTyped
    <3>2. DOMAIN learners \subseteq Nat /\ IsFiniteSet(DOMAIN learners)
      BY <3>1, FS_Interval
    <3>3. ids \in SUBSET Nat /\ IsFiniteSet(ids) /\ ids # {}
      BY <3>2, FS_Subset
    <3>4. rest \in Seq(ids) /\ rest # <<>>
      BY <3>3, OrderedType
    <3>. HIDE DEF rest
    <3>5. QED
      BY <3>3, <3>4, SeqOfMore
  <2>. HIDE DEF rest
  <2>2. /\ DOMAIN req = Request /\ DOMAIN req[r] = DOMAIN Fresh
        /\ req[r].row \in DocumentRow /\ req[r].row.file \in files \cup {"elsewhere"}
    BY <1>1, Parts, Filing DEF FilingTrue
  <2>3. Only(r) /\ req'[r] = [req[r] EXCEPT !.pc = "assign.save", !.rest = rest]
    BY <1>4, <2>2 DEF Only
  <2>4. /\ DOMAIN req'[r] = DOMAIN Fresh /\ req'[r].pc = "assign.save"
        /\ req'[r].rest = rest /\ req'[r].row = req[r].row
    BY <2>2, <2>3, Names
  <2>5. FilingTrue(req[r], r)'
    BY <1>1, <2>1, <2>2, <2>4 DEF FilingTrue, tables
  <2>6. QED
    BY <1>1, <2>3, <2>4, <2>5, HoldsFiling, Quiet
<1>5. QED
  BY <1>2, <1>3, <1>4

\* One more copy, or none where its save has failed.
LEMMA AssignSaveStep ==
  ASSUME OfficeInv, NEW r \in Request, AssignSave(r)
  PROVE  OfficeInv'
<1>. DEFINE row == [req[r].row EXCEPT !.student = Head(req[r].rest)]
<1>1. /\ req[r].pc = "assign.save" /\ UNCHANGED folders /\ LibraryUnchanged
      /\ (FolderThere(req[r].row.folder) /\ Insert(row)) \/ UNCHANGED documents
      /\ IF Len(req[r].rest) = 1 THEN Return(r) ELSE req' = [req EXCEPT ![r].rest = Tail(@)]
  BY DEF AssignSave, At
<1>2. /\ req[r].row \in DocumentRow /\ req[r].row.file \in files \cup {"elsewhere"}
      /\ req[r].rest \in Seq(Nat) /\ req[r].rest # <<>> /\ DOMAIN req[r] = DOMAIN Fresh
  BY <1>1, Filing DEF FilingTrue
<1>3. Grows /\ TablesTyped' /\ TablesTrue'
  <2>1. CASE UNCHANGED documents
    <3>1. UNCHANGED tables
      BY <1>1, <2>1 DEF LibraryUnchanged, tables
    <3>2. QED
      BY <3>1, TablesSame
  <2>2. CASE FolderThere(req[r].row.folder) /\ Insert(row)
    <3>1. Head(req[r].rest) \in Nat
      BY <1>2
    <3>2. row \in DocumentRow /\ row.file = req[r].row.file /\ row.folder = req[r].row.folder
      BY <1>2, <3>1 DEF DocumentRow
    <3>. HIDE DEF row
    <3>3. QED
      BY <1>1, <1>2, <2>2, <3>2, Inserted
  <2>3. QED
    BY <1>1, <2>1, <2>2
<1>4. CASE Return(r)
  BY <1>3, <1>4, Returned, Concluded
<1>5. CASE Len(req[r].rest) # 1 /\ req' = [req EXCEPT ![r].rest = Tail(@)]
  <2>. DEFINE rest == Tail(req[r].rest)
  <2>1. rest \in Seq(Nat) /\ rest # <<>>
    BY <1>2, <1>5, TailLeft
  <2>2. Only(r) /\ req'[r] = [req[r] EXCEPT !.rest = rest]
    BY <1>5, Parts DEF Only
  <2>. HIDE DEF rest
  <2>3. /\ DOMAIN req'[r] = DOMAIN Fresh /\ req'[r].pc = "assign.save"
        /\ req'[r].rest = rest /\ req'[r].row = req[r].row
    BY <1>1, <1>2, <2>2, Names
  <2>4. FilingTrue(req[r], r)'
    BY <1>1, <1>2, <2>1, <2>3 DEF FilingTrue, LibraryUnchanged
  <2>5. QED
    BY <1>3, <2>2, <2>3, <2>4, HoldsFiling, Concluded
<1>6. QED
  BY <1>1, <1>4, <1>5

\* The process dies, and no handler holds anything any more.
LEMMA Died ==
  ASSUME OfficeInv, ProcessDies, UNCHANGED tables
  PROVE  OfficeInv'
<1>1. Grows /\ TablesTyped' /\ TablesTrue'
  BY TablesSame
<1>2. DOMAIN req' = Request
  BY DEF ProcessDies
<1>3. ASSUME NEW s \in Request
      PROVE  Local(s)'
  <2>1. CASE s \in Running
    <3>1. req'[s] = Over(req[s])
      BY <2>1 DEF ProcessDies
    <3>2. DOMAIN req'[s] = DOMAIN Fresh /\ req'[s].pc = "over"
      BY <3>1, OverEnded
    <3>3. QED
      BY <3>2 DEF Local, RequestTrue, MoveTrue, ImportTrue, FilingTrue
  <2>2. CASE s \notin Running
    <3>1. req'[s] = req[s]
      BY <2>2 DEF ProcessDies
    <3>2. QED
      BY <1>1, <3>1, StaysTrue
  <2>3. QED
    BY <2>1, <2>2
<1>4. (TablesTyped /\ TablesTrue /\ DOMAIN req = Request /\ \A s \in Request : Local(s))'
  BY <1>1, <1>2, <1>3
<1>5. QED
  BY <1>4 DEF OfficeInv, TypeOK, TablesTyped, Local

LEMMA MoveToTrashStep ==
  ASSUME OfficeInv, NEW r \in Request, MoveToTrash(r)
  PROVE  OfficeInv'
<1>1. UNCHANGED tables
  BY DEF MoveToTrash
<1>2. PICK l \in Log \cup {None} :
         Enter(r, "moveToTrash", [Fresh EXCEPT !.pc = "trash.find", !.row = l])
  BY DEF MoveToTrash
<1>3. /\ Only(r) /\ DOMAIN req'[r] = DOMAIN Fresh
      /\ req'[r].pc = "trash.find" /\ req'[r].row = l
  BY <1>2, EnteredRow
<1>4. FilingTrue(req[r], r)'
  BY <1>3 DEF FilingTrue
<1>5. QED
  BY <1>1, <1>3, <1>4, HoldsFiling, Quiet

LEMMA TrashFindStep ==
  ASSUME OfficeInv, NEW r \in Request, TrashFind(r)
  PROVE  OfficeInv'
<1>1. /\ req[r].pc = "trash.find" /\ UNCHANGED tables
      /\ IF req[r].row = None THEN ProcessDies ELSE Goto(r, "trash.save")
  BY DEF TrashFind, At
<1>2. CASE ProcessDies
  BY <1>1, <1>2, Died
<1>3. CASE req[r].row # None /\ Goto(r, "trash.save")
  <2>1. req[r].row \in Log
    BY <1>1, <1>3, Filing DEF FilingTrue
  <2>2. /\ Only(r) /\ DOMAIN req'[r] = DOMAIN Fresh /\ req'[r].pc = "trash.save"
        /\ req'[r].row = req[r].row
    BY <1>3, Went
  <2>3. FilingTrue(req[r], r)'
    BY <2>1, <2>2 DEF FilingTrue
  <2>4. QED
    BY <1>1, <2>2, <2>3, HoldsFiling, Quiet
<1>4. QED
  BY <1>1, <1>2, <1>3

LEMMA TrashSaveStep ==
  ASSUME OfficeInv, NEW r \in Request, TrashSave(r)
  PROVE  OfficeInv'
<1>1. /\ req[r].pc = "trash.save" /\ trashed' = trashed \cup {req[r].row} /\ Return(r)
      /\ UNCHANGED <<learners, boards, folders, documents, files>>
  BY DEF TrashSave, At
<1>2. TablesTyped /\ TablesTrue /\ req[r].row \in Log
  BY <1>1, Filing DEF FilingTrue
<1>3. TablesTyped'
  BY <1>1, <1>2 DEF TablesTyped
<1>4. TablesTrue'
  BY <1>1, <1>2 DEF TablesTrue, DocumentsHaveFiles, TreeIsWhole, InFolder, Row
<1>5. Grows
  BY <1>1, <1>2 DEF Grows, TablesTyped
<1>6. QED
  BY <1>1, <1>3, <1>4, <1>5, Returned, Concluded

-----------------------------------------------------------------------------
(* The theorems.                                                            *)

LEMMA InitOffice == Init => OfficeInv
<1>. SUFFICES ASSUME Init
              PROVE  OfficeInv
  OBVIOUS
<1>1. learners \in Seq(LearnerRow \cup {Gone})
  <2>1. \A e \in Email, m \in Mobile \cup {None} : [email |-> e, mobile |-> m] \in LearnerRow
    BY DEF LearnerRow, Cell
  <2>2. CASE learners = <<>>
    BY <2>2
  <2>3. CASE learners \in {<<[email |-> e, mobile |-> m]>> : e \in Email, m \in Mobile \cup {None}}
    <3>1. PICK row \in LearnerRow : learners = <<row>>
      BY <2>1, <2>3
    <3>2. QED
      BY <3>1
  <2>4. QED
    BY <2>2, <2>3 DEF Init
<1>2. /\ folders \in Seq(FolderRow \cup {Gone}) /\ documents \in Seq(DocumentRow \cup {Gone})
      /\ DocumentsHaveFiles /\ TreeIsWhole
      /\ \A f \in DOMAIN folders : Row(folders, f) => folders[f].parent < f
  <2>1. CASE folders = <<>> /\ documents = <<>>
    BY <2>1 DEF DocumentsHaveFiles, TreeIsWhole
  <2>2. CASE /\ folders \in {<<[owner |-> u, parent |-> 0]>> : u \in User}
             /\ documents = <<[folder |-> 1, student |-> 0, file |-> None]>>
    <3>. DEFINE file == [folder |-> 1, student |-> 0, file |-> None]
    <3>1. PICK u \in User : folders = <<[owner |-> u, parent |-> 0]>>
      BY <2>2
    <3>. DEFINE top == [owner |-> u, parent |-> 0]
    <3>2. top \in FolderRow /\ top.parent = 0 /\ top # Gone
      BY GoneAssumption DEF FolderRow
    <3>3. file \in DocumentRow /\ file.folder = 1 /\ file.file = None
      BY DEF DocumentRow, File
    <3>. HIDE DEF top, file
    <3>4. /\ folders \in Seq(FolderRow \cup {Gone}) /\ DOMAIN folders = {1} /\ folders[1] = top
          /\ documents \in Seq(DocumentRow \cup {Gone}) /\ DOMAIN documents = {1}
          /\ documents[1] = file
      BY <2>2, <3>1, <3>2, <3>3 DEF top, file
    <3>5. QED
      BY <3>2, <3>3, <3>4 DEF Init, DocumentsHaveFiles, TreeIsWhole, InFolder, Row
  <2>3. QED
    BY <2>1, <2>2 DEF Init
<1>3. boards \in [Board -> SUBSET (DOMAIN learners)] /\ files \subseteq File /\ trashed \subseteq Log
  BY DEF Init, File
<1>4. DOMAIN req = Request /\ \A r \in Request : Local(r)
  <2>1. \A r \in Request : req[r] = Fresh /\ Fresh.pc = "idle"
    BY DEF Init, Fresh
  <2>2. QED
    BY <2>1 DEF Init, Local, RequestTrue, MoveTrue, ImportTrue, FilingTrue
<1>5. TablesTyped /\ TablesTrue
  BY <1>1, <1>2, <1>3 DEF TablesTyped, TablesTrue
<1>6. QED
  BY <1>4, <1>5, Parts

LEMMA LibrarySteps ==
  ASSUME OfficeInv, NEW r \in Request, LibraryCall(r) \/ LibraryStep(r)
  PROVE  OfficeInv'
<1>1. CASE LibraryCall(r)
  BY <1>1, CreateFolderStep, DeleteFolderStep, CreateDocumentStep, UploadDocumentToFolderStep,
     UploadUnfiledStep, DeleteDocumentStep, AssignCallStep, MoveToTrashStep
     DEF LibraryCall, UploadDocument, SaveSchoolDocument
<1>2. CASE LibraryStep(r)
  BY <1>2, InsertFolderStep, DeleteFolderRowStep, UploadStep, InsertDocumentStep,
     DeleteDocumentRowStep, AssignStudentsStep, AssignSaveStep, TrashFindStep, TrashSaveStep
     DEF LibraryStep
<1>3. QED
  BY <1>1, <1>2

LEMMA NextOffice == OfficeInv /\ [Next]_vars => OfficeInv'
<1>. SUFFICES ASSUME OfficeInv, [Next]_vars
              PROVE  OfficeInv'
  OBVIOUS
<1>1. ASSUME NEW r \in Request, ClientCall(r) \/ HandlerStep(r)
      PROVE  OfficeInv'
  <2>1. CASE LearnerCall(r) \/ LearnerStep(r)
    BY <2>1, CreateLearnerStep, EditInformationStep, DeleteStudentStep, ImportLearnersStep,
       CreateInsertStep, EditSelectStep, EditInsertStep, EditUpdateStep, DeleteStudentRowStep,
       CheckRecordStep, ImportInsertStep DEF LearnerCall, LearnerStep
  <2>2. CASE BoardCall(r) \/ BoardStep(r)
    BY <2>2, MoveCall, MoveSelectStep, MoveInsertStep, MoveDeleteStep DEF BoardStep
  <2>3. QED
    BY <1>1, <2>1, <2>2, LibrarySteps DEF ClientCall, HandlerStep
<1>2. ASSUME NEW r \in Request, Fail(r)
      PROVE  OfficeInv'
  <2>1. UNCHANGED tables /\ (ProcessDies \/ Return(r))
    BY <1>2 DEF Fail
  <2>2. QED
    BY <2>1, Died, Returned, Quiet
<1>3. CASE UNCHANGED vars
  <2>1. TablesTyped /\ TablesTrue /\ DOMAIN req = Request /\ \A r \in Request : Local(r)
    BY Parts
  <2>2. UNCHANGED tables /\ req' = req
    BY <1>3 DEF vars, tables
  <2>3. Grows /\ TablesTyped' /\ TablesTrue'
    BY <2>2, TablesSame
  <2>4. \A r \in Request : Local(r)'
    BY <2>2, <2>3, StaysTrue
  <2>5. QED
    BY <2>1, <2>2, <2>3, <2>4 DEF OfficeInv, TypeOK, TablesTyped, Local
<1>4. QED
  BY <1>1, <1>2, <1>3 DEF Next

\* Only the moves touch the boards.
LEMMA OthersLeaveBoards ==
  ASSUME [Next]_vars, ~ \E r \in Request : MoveDelete(r) \/ MoveInsert(r)
  PROVE  UNCHANGED boards
<1>1. ASSUME NEW r \in Request, LearnerCall(r) \/ LearnerStep(r)
      PROVE  UNCHANGED boards
  BY <1>1 DEF LearnerCall, LearnerStep, CreateLearner, EditInformation, DeleteStudent, ImportLearners,
     CreateInsert, EditSelect, EditInsert, EditUpdate, DeleteStudentRow, CheckRecord, ImportInsert,
     LearnerUnchanged, tables
<1>2. ASSUME NEW r \in Request, BoardCall(r) \/ BoardStep(r)
      PROVE  UNCHANGED boards
  BY <1>2 DEF BoardCall, BoardStep, MoveStudent, MoveStudentToAccessor, MoveStudentToInductor, Move,
     MoveSelect, tables
<1>3. ASSUME NEW r \in Request, LibraryCall(r)
      PROVE  UNCHANGED boards
  BY <1>3 DEF LibraryCall, CreateFolder, DeleteFolder, CreateDocument, UploadDocumentToFolder,
     UploadDocument, SaveSchoolDocument, UploadUnfiled, DeleteDocument, AssignDocumentToStudents,
     MoveToTrash, tables
<1>4. ASSUME NEW r \in Request, LibraryStep(r)
      PROVE  UNCHANGED boards
  BY <1>4 DEF LibraryStep, InsertFolder, DeleteFolderRow, Upload, InsertDocument, DeleteDocumentRow,
     AssignStudents, AssignSave, TrashFind, TrashSave, LibraryUnchanged, tables
<1>5. QED
  BY <1>1, <1>2, <1>3, <1>4 DEF Next, ClientCall, HandlerStep, Fail, vars, tables

\* The inductive invariant of the office: its tables are whole, and what a
\* handler holds of them at an await is true, whatever ran meanwhile.
THEOREM OfficeInvariant == Spec => []OfficeInv
  BY InitOffice, NextOffice, PTL DEF Spec

\* Every table and every request stays of its type, for every file imported.
THEOREM OfficeTypeCorrect == Spec => []TypeOK
<1>1. OfficeInv => TypeOK
  BY DEF OfficeInv
<1>2. QED
  BY <1>1, OfficeInvariant, PTL

\* Every document, and every copy of one, links to a file in the storage or to
\* where it was told to, in whatever order uploads, copies and deletes come.
THEOREM DocumentsKeepTheirFiles == Spec => []DocumentsHaveFiles
<1>1. OfficeInv => DocumentsHaveFiles
  BY DEF OfficeInv, TablesTrue
<1>2. QED
  BY <1>1, OfficeInvariant, PTL

\* No folder or document is left in a folder that is gone, however deep the
\* tree is and whatever was being created in it when it was deleted.
THEOREM TheTreeStaysWhole == Spec => []TreeIsWhole
<1>1. OfficeInv => TreeIsWhole
  BY DEF OfficeInv, TablesTrue
<1>2. QED
  BY <1>1, OfficeInvariant, PTL

\* No import takes in a learner it could have found at its call and that
\* nobody has edited since, for every file, unless the lookup of that record
\* failed.
THEOREM TheKnownAreNotImported == Spec => []KnownAreNotImported
<1>1. OfficeInv => KnownAreNotImported
  <2>. SUFFICES ASSUME OfficeInv, NEW r \in Request, At(r, "import.insert"),
                       NEW k \in DOMAIN req[r].kept, req[r].rest[req[r].kept[k]] # "failed"
                PROVE  Unknown(req[r], req[r].kept[k])
    BY DEF KnownAreNotImported, Unknown
  <2>. DEFINE found == {i \in DOMAIN req[r].rest : req[r].rest[i] # "duplicate"}
  <2>1. /\ req[r].kept \in Seq(found)
        /\ req[r].rest \in Seq({"failed", "duplicate", "free"})
        /\ \A i \in DOMAIN req[r].rest : req[r].rest[i] = "free" => Unknown(req[r], i)
    BY Importing DEF ImportTrue, At
  <2>2. req[r].kept[k] \in found
    <3>. HIDE DEF found
    <3>1. QED
      BY <2>1
  <2>3. QED
    BY <2>1, <2>2
<1>2. QED
  BY <1>1, OfficeInvariant, PTL

\* A learner leaves a board only for another, at every step of every move, for
\* every number of moves at once and of crashes between their statements.
THEOREM LearnersStayOnBoards == Spec => StayOnBoards
<1>. DEFINE Stay == \A id \in UNION {boards[b] : b \in Board} : \E b \in Board : id \in boards'[b]
<1>1. ASSUME OfficeInv, [Next]_vars
      PROVE  [Stay]_boards
  <2>1. \A b \in Board : boards[b] \subseteq boards'["bksd"] \cup boards'["accessor"] \cup boards'["inductor"]
        \/ UNCHANGED boards
    <3>1. CASE \E r \in Request : MoveDelete(r)
      BY <1>1, <3>1, MoveDeleteMoves DEF Board
    <3>2. CASE \E r \in Request : MoveInsert(r)
      <4>1. PICK r \in Request : MoveInsert(r)
        BY <3>2
      <4>2. req[r].pc = "move.insert" /\ boards' = [boards EXCEPT ![Target(r)] = @ \cup {req[r].id}]
        BY <4>1 DEF MoveInsert, At
      <4>3. boards \in [Board -> SUBSET (DOMAIN learners)]
        BY <1>1, <4>2, Moving
      <4>4. \A b \in Board : boards[b] \subseteq boards'[b]
        BY <4>2, <4>3
      <4>5. QED
        BY <4>4 DEF Board
    <3>3. CASE ~ \E r \in Request : MoveDelete(r) \/ MoveInsert(r)
      BY <1>1, <3>3, OthersLeaveBoards
    <3>4. QED
      BY <3>1, <3>2, <3>3
  <2>2. QED
    BY <2>1 DEF Board
<1>2. QED
  BY <1>1, OfficeInvariant, PTL DEF Spec, StayOnBoards

-----------------------------------------------------------------------------
(* The places of an ordered set.                                            *)

LEMMA Interval ==
  \A n \in Nat : IsFiniteSet(1..n) /\ Cardinality(1..n) = n
  BY FS_Interval

\* Every number of the set has a place.
LEMMA OrderedCovers ==
  ASSUME NEW n \in Nat, NEW S \in SUBSET (1..n)
  PROVE  /\ Ordered(S) \in Seq(S) /\ Range(Ordered(S)) = S
         /\ \A x \in S : \E i \in DOMAIN Ordered(S) : Ordered(S)[i] = x
<1>. DEFINE c == Cardinality(S)
<1>1. IsFiniteSet(S) /\ S \in SUBSET Nat
  <2>1. IsFiniteSet(1..n)
    BY Interval
  <2>2. IsFiniteSet(S)
    BY <2>1, FS_Subset
  <2>3. QED
    BY <2>2
<1>2. c \in Nat
  BY <1>1, FS_CardinalityType
<1>3. PICK s : s = Ordered(S)
  OBVIOUS
<1>4. s \in [1..c -> S] /\ \A i, j \in 1..c : i < j => s[i] < s[j]
  <2>1. \E t \in [1..c -> S] : \A i, j \in DOMAIN t : i < j => t[i] < t[j]
    BY <1>1, OrderExists
  <2>2. QED
    BY <1>3, <2>1 DEF Ordered
<1>. HIDE DEF c
<1>5. s \in Injection(1..c, S)
  <2>1. \A i, j \in 1..c : s[i] = s[j] => i = j
    <3>1. ASSUME NEW i \in 1..c, NEW j \in 1..c, i < j
          PROVE  s[i] # s[j]
      <4>1. s[i] \in Nat /\ s[j] \in Nat /\ s[i] < s[j]
        BY <1>1, <1>4, <3>1
      <4>2. QED
        BY <4>1
    <3>2. \A i, j \in 1..c : i < j \/ j < i \/ i = j
      BY <1>2
    <3>3. QED
      BY <3>1, <3>2
  <2>2. QED
    BY <1>4, <2>1 DEF Injection, IsInjective
<1>6. Cardinality(1..c) = Cardinality(S)
  BY <1>2, Interval DEF c
<1>7. s \in Surjection(1..c, S)
  BY <1>1, <1>5, <1>6, FS_Injection
<1>8. \A x \in S : \E i \in 1..c : s[i] = x
  BY <1>7 DEF Surjection
<1>9. s \in Seq(S) /\ DOMAIN s = 1..c
  BY <1>2, <1>4
<1>10. Range(s) = S
  BY <1>4, <1>8, <1>9 DEF Range
<1>11. QED
  BY <1>3, <1>8, <1>9, <1>10

-----------------------------------------------------------------------------
(* What is read of a file.                                                  *)

\* The fields of the errors that the lookups of an import report.
LookupFields == {"none", "email or mobile number"}

LEMMA FieldsOfLearners ==
  \A j \in DOMAIN LearnerMappings : LearnerMappings[j].field \notin LookupFields
<1>1. DOMAIN LearnerMappings = 1..11
  BY DEF LearnerMappings
<1>2. /\ LearnerMappings[1].field \notin LookupFields
      /\ LearnerMappings[2].field \notin LookupFields
      /\ LearnerMappings[3].field \notin LookupFields
      /\ LearnerMappings[4].field \notin LookupFields
  BY DEF LearnerMappings, Field, LookupFields
<1>3. /\ LearnerMappings[5].field \notin LookupFields
      /\ LearnerMappings[6].field \notin LookupFields
      /\ LearnerMappings[7].field \notin LookupFields
      /\ LearnerMappings[8].field \notin LookupFields
  BY DEF LearnerMappings, Field, LookupFields
<1>4. /\ LearnerMappings[9].field \notin LookupFields
      /\ LearnerMappings[10].field \notin LookupFields
      /\ LearnerMappings[11].field \notin LookupFields
  BY DEF LearnerMappings, Field, LookupFields
<1>5. QED
  BY <1>1, <1>2, <1>3, <1>4

LEMMA ErrorsOfRow ==
  ASSUME NEW row, NEW columns, NEW number, NEW e \in RowErrors(row, columns, number)
  PROVE  e.row = number /\ e.field \notin LookupFields
  BY FieldsOfLearners DEF RowErrors

\* The rows of a file that have no errors, and the errors of the others.
Right(rows, columns) == {k \in DOMAIN rows : RowErrors(rows[k], columns, k + 1) = {}}
Wrong(rows, columns) == UNION {RowErrors(rows[k], columns, k + 1) : k \in DOMAIN rows}
TooFew(headers) == UsePositional(headers) /\ \E i \in Required : i > Len(headers)

LEMMA ReadNothing ==
  ASSUME NEW headers, NEW rows, TooFew(headers)
  PROVE  /\ ProcessLearnerCSV(headers, rows).valid = <<>>
         /\ \E e \in ProcessLearnerCSV(headers, rows).errors : e.type = "MISSING_COLUMN"
<1>. DEFINE error == [row |-> 1, field |-> "none", type |-> "MISSING_COLUMN"]
<1>1. ProcessLearnerCSV(headers, rows) = [valid |-> <<>>, errors |-> {error}]
  BY DEF ProcessLearnerCSV, TooFew
<1>2. error.type = "MISSING_COLUMN"
  OBVIOUS
<1>. HIDE DEF error
<1>3. /\ ProcessLearnerCSV(headers, rows).valid = <<>>
      /\ ProcessLearnerCSV(headers, rows).errors = {error}
  BY <1>1
<1>4. QED
  BY <1>2, <1>3

LEMMA ReadAll ==
  ASSUME NEW headers, NEW rows, ~ TooFew(headers)
  PROVE  ProcessLearnerCSV(headers, rows) =
           [ valid |-> [k \in DOMAIN Ordered(Right(rows, Columns(headers))) |->
                          LearnerOf(rows[Ordered(Right(rows, Columns(headers)))[k]], Columns(headers))],
             errors |-> Wrong(rows, Columns(headers)) ]
<1>. DEFINE columns == Columns(headers)
            wrong == [k \in DOMAIN rows |-> RowErrors(rows[k], columns, k + 1)]
            places == {k \in DOMAIN rows : wrong[k] = {}}
            valid == [k \in DOMAIN Ordered(places) |-> LearnerOf(rows[Ordered(places)[k]], columns)]
            errors == UNION {wrong[k] : k \in DOMAIN rows}
<1>1. ProcessLearnerCSV(headers, rows) = [valid |-> valid, errors |-> errors]
  BY DEF ProcessLearnerCSV, TooFew
<1>2. places = Right(rows, columns)
  BY DEF Right
<1>3. errors = Wrong(rows, columns)
  <2>1. \A k \in DOMAIN rows : wrong[k] = RowErrors(rows[k], columns, k + 1)
    OBVIOUS
  <2>2. {wrong[k] : k \in DOMAIN rows} = {RowErrors(rows[k], columns, k + 1) : k \in DOMAIN rows}
    BY <2>1
  <2>3. QED
    BY <2>2 DEF Wrong
<1>. HIDE DEF places, errors
<1>4. valid = [k \in DOMAIN Ordered(Right(rows, columns)) |->
                 LearnerOf(rows[Ordered(Right(rows, columns))[k]], columns)]
  BY <1>2
<1>5. QED
  BY <1>1, <1>3, <1>4

LEMMA ReadRows ==
  ASSUME NEW headers, NEW rows, ~ TooFew(headers)
  PROVE  /\ ProcessLearnerCSV(headers, rows).errors = Wrong(rows, Columns(headers))
         /\ ProcessLearnerCSV(headers, rows).valid =
              [k \in DOMAIN Ordered(Right(rows, Columns(headers))) |->
                 LearnerOf(rows[Ordered(Right(rows, Columns(headers)))[k]], Columns(headers))]
<1>. DEFINE columns == Columns(headers)
            right == Ordered(Right(rows, columns))
            valid == [k \in DOMAIN right |-> LearnerOf(rows[right[k]], columns)]
<1>1. ProcessLearnerCSV(headers, rows) = [valid |-> valid, errors |-> Wrong(rows, columns)]
  BY ReadAll
<1>. HIDE DEF valid
<1>2. QED
  BY <1>1 DEF valid

LEMMA ValidSequence ==
  ASSUME NEW u \in Uploads
  PROVE  \/ Processed[u].valid = <<>>
         \/ /\ Len(Processed[u].valid) \in Nat
            /\ DOMAIN Processed[u].valid = 1..Len(Processed[u].valid)
<1>. DEFINE right == Right(u.rows, Columns(u.headers))
<1>1. CASE ~ Parses(u.headers, u.rows)
  BY <1>1 DEF Processed, NotParsed
<1>2. CASE Parses(u.headers, u.rows) /\ TooFew(u.headers)
  BY <1>2, ReadNothing DEF Processed
<1>3. CASE Parses(u.headers, u.rows) /\ ~ TooFew(u.headers)
  <2>1. Processed[u].valid = [k \in DOMAIN Ordered(right) |->
                                LearnerOf(u.rows[Ordered(right)[k]], Columns(u.headers))]
    BY <1>3, ReadRows DEF Processed
  <2>2. DOMAIN u.rows = 1..Len(u.rows) /\ Len(u.rows) \in Nat
    BY RecordsAssumption
  <2>3. right \in SUBSET (1..Len(u.rows)) /\ right \in SUBSET Nat
    BY <2>2 DEF Right
  <2>. HIDE DEF right
  <2>4. Ordered(right) \in Seq(right)
    BY <2>2, <2>3, OrderedCovers
  <2>5. DOMAIN Processed[u].valid = 1..Len(Ordered(right)) /\ Len(Ordered(right)) \in Nat
    BY <2>1, <2>4
  <2>6. QED
    BY <2>1, <2>5
<1>4. QED
  BY <1>1, <1>2, <1>3

\* The record at place i is that of row k, and a row has its record or an
\* error of its own.
RecordOf(u, i, k) ==
    ValidRows(u)[i] = k /\ Processed[u].valid[i] = LearnerOf(u.rows[k], Columns(u.headers))
Refused(errors) == \E e \in errors : e.type \in {"CSV_PARSE_ERROR", "MISSING_COLUMN"}
RowRead(u, k) ==
    \/ \E e \in Processed[u].errors : e.row = k + 1
    \/ \E i \in DOMAIN Processed[u].valid : RecordOf(u, i, k)

\* A file is refused, or every row of it is read.
LEMMA RowsRead ==
  ASSUME NEW u \in Uploads
  PROVE  \/ Processed[u].valid = <<>> /\ Refused(Processed[u].errors)
         \/ /\ \A e \in Processed[u].errors : e.field \notin LookupFields
            /\ \A k \in DOMAIN u.rows : RowRead(u, k)
<1>. DEFINE columns == Columns(u.headers)
            right == Right(u.rows, columns)
            errors == Wrong(u.rows, columns)
<1>1. CASE ~ Parses(u.headers, u.rows)
  <2>. DEFINE error == [row |-> 1, field |-> "none", type |-> "CSV_PARSE_ERROR"]
  <2>1. error.type = "CSV_PARSE_ERROR"
    OBVIOUS
  <2>. HIDE DEF error
  <2>2. Processed[u].valid = <<>> /\ Processed[u].errors = {error}
    BY <1>1 DEF Processed, NotParsed, error
  <2>3. QED
    BY <2>1, <2>2 DEF Refused
<1>2. CASE Parses(u.headers, u.rows) /\ TooFew(u.headers)
  <2>1. Processed[u] = ProcessLearnerCSV(u.headers, u.rows)
    BY <1>2 DEF Processed
  <2>2. QED
    BY <1>2, <2>1, ReadNothing DEF Refused
<1>3. CASE Parses(u.headers, u.rows) /\ ~ TooFew(u.headers)
  <2>1. Processed[u] = ProcessLearnerCSV(u.headers, u.rows)
    BY <1>3 DEF Processed
  <2>2. /\ Processed[u].errors = errors
        /\ Processed[u].valid = [i \in DOMAIN Ordered(right) |-> LearnerOf(u.rows[Ordered(right)[i]], columns)]
    BY <1>3, <2>1, ReadRows
  <2>3. DOMAIN u.rows = 1..Len(u.rows) /\ Len(u.rows) \in Nat
    BY RecordsAssumption
  <2>4. right \in SUBSET (1..Len(u.rows))
    BY <2>3 DEF Right
  <2>5. \A e \in errors : e.field \notin LookupFields
    BY ErrorsOfRow DEF Wrong
  <2>6. \A k \in DOMAIN u.rows : k \in right <=> \A e \in errors : e.row # k + 1
    <3>1. ASSUME NEW k \in DOMAIN u.rows, k \in right, NEW e \in errors
          PROVE  e.row # k + 1
      <4>1. PICK j \in DOMAIN u.rows : e \in RowErrors(u.rows[j], columns, j + 1)
        BY DEF Wrong
      <4>2. e.row = j + 1 /\ j # k
        BY <3>1, <4>1, ErrorsOfRow DEF Right
      <4>3. QED
        BY <2>3, <4>2
    <3>2. ASSUME NEW k \in DOMAIN u.rows, k \notin right
          PROVE  \E e \in errors : e.row = k + 1
      <4>1. PICK e \in RowErrors(u.rows[k], columns, k + 1) : TRUE
        BY <3>2 DEF Right
      <4>2. e.row = k + 1 /\ e \in errors
        BY <4>1, ErrorsOfRow DEF Wrong
      <4>3. QED
        BY <4>2
    <3>. HIDE DEF right, errors
    <3>3. QED
      BY <3>1, <3>2
  <2>7. right \subseteq DOMAIN u.rows
    BY DEF Right
  <2>. HIDE DEF right, errors, columns
  <2>8. ValidRows(u) = Ordered(right)
    <3>1. {k \in DOMAIN u.rows : \A e \in Processed[u].errors : e.row # k + 1} = right
      BY <2>2, <2>6, <2>7
    <3>2. QED
      BY <3>1 DEF ValidRows
  <2>9. ASSUME NEW k \in DOMAIN u.rows
        PROVE  RowRead(u, k)
    <3>1. CASE k \notin right
      BY <2>2, <2>6, <3>1 DEF RowRead
    <3>2. CASE k \in right
      <4>1. PICK i \in DOMAIN Ordered(right) : Ordered(right)[i] = k
        BY <2>3, <2>4, <3>2, OrderedCovers
      <4>2. i \in DOMAIN Processed[u].valid /\ RecordOf(u, i, k)
        BY <2>2, <2>8, <4>1 DEF RecordOf, columns
      <4>3. QED
        BY <4>2 DEF RowRead
    <3>3. QED
      BY <3>1, <3>2
  <2>10. QED
    BY <2>2, <2>5, <2>9
<1>4. QED
  BY <1>1, <1>2, <1>3

-----------------------------------------------------------------------------
(* What an import answers.                                                  *)

LEMMA SilentTrue ==
  ASSUME NEW q, q.upload = None, q.pc \notin {"import.check", "import.insert", "answered"}
  PROVE  AnswerTrue(q)
  BY DEF AnswerTrue

LEMMA OverSilent ==
  ASSUME NEW q
  PROVE  AnswerTrue(Over(q))
<1>1. Over(q).upload = None /\ Over(q).pc = "over"
  BY DEF Over, Fresh
<1>2. QED
  BY <1>1, SilentTrue

LEMMA CalledTrue ==
  ASSUME NEW q, NEW name, DOMAIN q = DOMAIN Fresh, AnswerTrue(q)
  PROVE  AnswerTrue([q EXCEPT !.call = name])
<1>. DEFINE p == [q EXCEPT !.call = name]
<1>1. /\ p.pc = q.pc /\ p.upload = q.upload /\ p.errors = q.errors
      /\ p.valid = q.valid /\ p.kept = q.kept
  BY Names
<1>. HIDE DEF p
<1>2. AnswerTrue(p)
  BY <1>1 DEF AnswerTrue, Accounts
<1>3. QED
  BY <1>2 DEF p

LEMMA OneAnswers ==
  ASSUME ImportsInv, NEW r \in Request, Only(r), AnswerTrue(req'[r])
  PROVE  ImportsInv'
<1>1. \A s \in Request : AnswerTrue(req'[s])
  BY DEF ImportsInv, Only
<1>2. QED
  BY <1>1 DEF ImportsInv

LEMMA ReturnAnswers ==
  ASSUME OfficeInv, ImportsInv, NEW r \in Request, Return(r)
  PROVE  ImportsInv'
<1>1. Only(r) /\ req'[r] = Over(req[r])
  BY Holds DEF Return
<1>2. QED
  BY <1>1, OverSilent, OneAnswers

\* A handler that is not an import goes on.
LEMMA GotoAnswers ==
  ASSUME OfficeInv, ImportsInv, NEW r \in Request, NEW p, Goto(r, p),
         {req[r].pc, p} \cap {"import.check", "import.insert", "answered"} = {}
  PROVE  ImportsInv'
<1>1. DOMAIN req[r] = DOMAIN Fresh /\ DOMAIN req = Request
  BY Parts DEF Local
<1>2. Only(r) /\ req'[r] = [req[r] EXCEPT !.pc = p]
  BY <1>1 DEF Goto, Only
<1>3. req[r].upload = None
  BY DEF ImportsInv, AnswerTrue
<1>4. req'[r].upload = None /\ req'[r].pc = p
  BY <1>1, <1>2, <1>3, Names
<1>5. QED
  BY <1>2, <1>4, SilentTrue, OneAnswers

LEMMA EnterAnswers ==
  ASSUME OfficeInv, ImportsInv, NEW r \in Request, NEW name, NEW q, Enter(r, name, q),
         DOMAIN q = DOMAIN Fresh, AnswerTrue(q)
  PROVE  ImportsInv'
<1>1. req' = [req EXCEPT ![r] = [q EXCEPT !.call = name]]
  BY DEF Enter
<1>2. Only(r) /\ req'[r] = [q EXCEPT !.call = name]
  BY <1>1, Holds
<1>3. AnswerTrue([q EXCEPT !.call = name])
  BY CalledTrue
<1>4. QED
  BY <1>2, <1>3, OneAnswers

\* A handler other than an import is called.
LEMMA EnterIdAnswers ==
  ASSUME OfficeInv, ImportsInv, NEW r \in Request, NEW name, NEW p, NEW i,
         Enter(r, name, [Fresh EXCEPT !.pc = p, !.id = i]),
         p \notin {"import.check", "import.insert", "answered"}
  PROVE  ImportsInv'
<1>. DEFINE q == [Fresh EXCEPT !.pc = p, !.id = i]
<1>1. DOMAIN q = DOMAIN Fresh /\ q.pc = p /\ q.upload = None
  BY Names DEF Fresh
<1>2. Enter(r, name, q)
  OBVIOUS
<1>. HIDE DEF q
<1>3. QED
  BY <1>1, <1>2, SilentTrue, EnterAnswers

LEMMA EnterRowAnswers ==
  ASSUME OfficeInv, ImportsInv, NEW r \in Request, NEW name, NEW p, NEW row,
         Enter(r, name, [Fresh EXCEPT !.pc = p, !.row = row]),
         p \notin {"import.check", "import.insert", "answered"}
  PROVE  ImportsInv'
<1>. DEFINE q == [Fresh EXCEPT !.pc = p, !.row = row]
<1>1. DOMAIN q = DOMAIN Fresh /\ q.pc = p /\ q.upload = None
  BY Names DEF Fresh
<1>2. Enter(r, name, q)
  OBVIOUS
<1>. HIDE DEF q
<1>3. QED
  BY <1>1, <1>2, SilentTrue, EnterAnswers

LEMMA EnterOverAnswers ==
  ASSUME OfficeInv, ImportsInv, NEW r \in Request, NEW name,
         Enter(r, name, [Fresh EXCEPT !.pc = "over"])
  PROVE  ImportsInv'
<1>. DEFINE q == [Fresh EXCEPT !.pc = "over"]
<1>1. DOMAIN q = DOMAIN Fresh /\ q.pc = "over" /\ q.upload = None
  BY Names DEF Fresh
<1>2. Enter(r, name, q)
  OBVIOUS
<1>. HIDE DEF q
<1>3. QED
  BY <1>1, <1>2, SilentTrue, EnterAnswers

LEMMA DeathAnswers ==
  ASSUME ImportsInv, ProcessDies
  PROVE  ImportsInv'
<1>1. \A s \in Request : AnswerTrue(req'[s])
  BY OverSilent DEF ProcessDies, ImportsInv
<1>2. QED
  BY <1>1 DEF ImportsInv

LEMMA ImportCallAnswers ==
  ASSUME OfficeInv, ImportsInv, NEW r \in Request, ImportLearners(r)
  PROVE  ImportsInv'
<1>1. PICK u \in Uploads :
         LET result == Processed[u]
             local == [ Fresh EXCEPT !.pc = "import.check", !.upload = u, !.errors = result.errors,
                          !.valid = [k \in DOMAIN result.valid |-> Brief(result.valid[k])],
                          !.before = {id \in DOMAIN learners : Row(learners, id)} ]
         IN  Enter(r, "importLearners", IF result.valid = <<>> THEN Answered(local, <<>>) ELSE local)
  BY DEF ImportLearners
<1>. DEFINE result == Processed[u]
            brief == [k \in DOMAIN result.valid |-> Brief(result.valid[k])]
            there == {id \in DOMAIN learners : Row(learners, id)}
            local == [ Fresh EXCEPT !.pc = "import.check", !.upload = u, !.errors = result.errors,
                         !.valid = brief, !.before = there ]
<1>2. Enter(r, "importLearners", IF result.valid = <<>> THEN Answered(local, <<>>) ELSE local)
  BY <1>1
<1>3. brief \in Seq(LearnerRow) /\ DOMAIN brief = DOMAIN result.valid
  BY ValidType
<1>4. result.valid # <<>> => DOMAIN result.valid # {}
  BY ValidType
<1>. HIDE DEF brief, there
<1>5. /\ DOMAIN local = DOMAIN Fresh /\ local.pc = "import.check" /\ local.upload = u
      /\ local.errors = result.errors /\ local.valid = brief /\ local.kept = <<>>
  BY DEF Fresh
<1>. HIDE DEF local
<1>6. CASE result.valid = <<>>
  <2>. DEFINE q == Answered(local, <<>>)
  <2>1. /\ DOMAIN q = DOMAIN Fresh /\ q.pc = "answered" /\ q.upload = u
        /\ q.errors = result.errors /\ q.kept = <<>>
    BY <1>5, Names DEF Answered
  <2>2. DOMAIN result.valid = {}
    BY <1>6
  <2>3. \/ Refused(result.errors)
        \/ \A k \in DOMAIN u.rows : \E e \in result.errors : e.row = k + 1
    BY <2>2, RowsRead DEF RowRead
  <2>. HIDE DEF q, result
  <2>4. AnswerTrue(q)
    BY <2>1, <2>3 DEF AnswerTrue, Accounts, Refused, result
  <2>5. QED
    BY <1>2, <1>6, <2>1, <2>4, EnterAnswers DEF q
<1>7. CASE result.valid # <<>>
  <2>1. Len(brief) = Len(result.valid) /\ brief # <<>>
    <3>1. DOMAIN brief = 1..Len(brief) /\ Len(brief) \in Nat
      BY <1>3
    <3>2. brief # <<>>
      BY <1>3, <1>4, <1>7
    <3>3. Len(result.valid) = Len(brief)
      <4>1. \/ result.valid = <<>>
            \/ Len(result.valid) \in Nat /\ DOMAIN result.valid = 1..Len(result.valid)
        BY ValidSequence
      <4>2. QED
        BY <1>3, <1>7, <3>1, <4>1
    <3>4. QED
      BY <3>2, <3>3
  <2>2. AnswerTrue(local)
    BY <1>5, <2>1 DEF AnswerTrue
  <2>3. QED
    BY <1>2, <1>5, <1>7, <2>2, EnterAnswers
<1>8. QED
  BY <1>6, <1>7

\* Every record that was not found to be free has an error of its own, which
\* none of the file is.
LEMMA LookupsAnswered ==
  ASSUME NEW local, local.rest \in Seq({"failed", "duplicate", "free"}),
         NEW i \in DOMAIN local.rest, local.rest[i] # "free"
  PROVE  \E e \in LookupErrors(local) : e.row = i + 1 /\ e.field \in LookupFields
<1>1. local.rest[i] \in {"failed", "duplicate"}
  OBVIOUS
<1>2. CASE local.rest[i] = "failed"
  <2>. DEFINE e == [row |-> i + 1, field |-> "none", type |-> "INVALID_VALUE"]
  <2>1. e \in LookupErrors(local)
    BY <1>2 DEF LookupErrors
  <2>2. e.row = i + 1 /\ e.field \in LookupFields
    BY DEF LookupFields
  <2>3. QED
    BY <2>1, <2>2
<1>3. CASE local.rest[i] = "duplicate"
  <2>. DEFINE e == [row |-> i + 1, field |-> "email or mobile number", type |-> "DUPLICATE"]
  <2>1. e \in LookupErrors(local)
    BY <1>3 DEF LookupErrors
  <2>2. e.row = i + 1 /\ e.field \in LookupFields
    BY DEF LookupFields
  <2>3. QED
    BY <2>1, <2>2
<1>4. QED
  BY <1>1, <1>2, <1>3

LEMMA CheckRecordAnswers ==
  ASSUME OfficeInv, ImportsInv, NEW r \in Request, CheckRecord(r)
  PROVE  ImportsInv'
<1>1. req[r].pc = "import.check"
  BY DEF CheckRecord, At
<1>2. PICK found \in {"failed", IF Exists(req[r].valid[Looked(r)]) THEN "duplicate" ELSE "free"} :
         LET local == [req[r] EXCEPT !.rest = Append(@, found)]
         IN  req' = [req EXCEPT ![r] = IF Len(local.rest) = Len(local.valid) THEN CheckOver(local)
                                       ELSE local]
  BY DEF CheckRecord
<1>. DEFINE u == req[r].upload
            result == Processed[u]
            rest == Append(req[r].rest, found)
            local == [req[r] EXCEPT !.rest = rest]
            q == IF Len(rest) = Len(local.valid) THEN CheckOver(local) ELSE local
<1>3. /\ DOMAIN req[r] = DOMAIN Fresh /\ req[r].valid \in Seq(LearnerRow)
      /\ req[r].rest \in Seq({"failed", "duplicate", "free"})
  BY <1>1, Importing DEF ImportTrue
<1>4. /\ u \in Uploads /\ req[r].errors = result.errors
      /\ Len(req[r].valid) = Len(result.valid) /\ req[r].valid # <<>>
  BY <1>1 DEF ImportsInv, AnswerTrue
<1>5. /\ DOMAIN local = DOMAIN Fresh /\ local.pc = "import.check" /\ local.rest = rest
      /\ local.valid = req[r].valid /\ local.upload = u /\ local.errors = result.errors
  BY <1>1, <1>3, <1>4, Names
<1>6. Only(r) /\ req'[r] = q
  <2>1. req' = [req EXCEPT ![r] = q]
    BY <1>2, <1>5
  <2>. HIDE DEF q
  <2>2. QED
    BY <2>1, Holds
<1>7. rest \in Seq({"failed", "duplicate", "free"})
  BY <1>3
<1>. HIDE DEF rest, local, result, u
<1>8. AnswerTrue(local)
  BY <1>4, <1>5 DEF AnswerTrue, result
<1>9. CASE Len(rest) # Len(local.valid)
  BY <1>6, <1>8, <1>9, OneAnswers
<1>10. CASE Len(rest) = Len(local.valid)
  <2>. DEFINE m == Len(rest)
              kept == Ordered(ImportedIndices(local))
              done == [local EXCEPT !.errors = Reported(local), !.kept = kept]
  <2>1. req'[r] = IF kept = <<>> THEN Answered(done, <<>>) ELSE [done EXCEPT !.pc = "import.insert"]
    BY <1>6, <1>10 DEF CheckOver
  <2>2. m \in Nat /\ DOMAIN rest = 1..m /\ m = Len(result.valid) /\ m > 0
    <3>1. Len(req[r].valid) \in Nat /\ Len(req[r].valid) > 0
      BY <1>3, <1>4
    <3>2. QED
      BY <1>4, <1>5, <1>7, <1>10, <3>1
  <2>3. DOMAIN result.valid = 1..m
    BY <1>4, <2>2, ValidSequence DEF result
  <2>4. /\ \A e \in result.errors : e.field \notin LookupFields
        /\ \A k \in DOMAIN u.rows : RowRead(u, k)
    <3>1. result.valid # <<>>
      BY <2>2
    <3>2. QED
      BY <1>4, <3>1, RowsRead DEF result
  <2>5. /\ result.errors \subseteq Reported(local)
        /\ \A i \in 1..m : \/ i \in Range(kept)
                           \/ \E e \in Reported(local) \ result.errors : e.row = i + 1
    <3>1. Range(kept) = ImportedIndices(local)
      <4>1. ImportedIndices(local) \in SUBSET (1..m)
        BY <1>5, <2>2 DEF ImportedIndices
      <4>2. QED
        BY <2>2, <4>1, OrderedCovers
    <3>. HIDE DEF kept
    <3>2. CASE ~ \E i \in DOMAIN rest : rest[i] = "duplicate"
      BY <1>5, <2>2, <3>1, <3>2 DEF ImportedIndices, Reported
    <3>3. CASE \E i \in DOMAIN rest : rest[i] = "duplicate"
      <4>1. /\ ImportedIndices(local) = {i \in DOMAIN rest : rest[i] = "free"}
            /\ Reported(local) = result.errors \cup LookupErrors(local)
        BY <1>5, <3>3 DEF ImportedIndices, Reported
      <4>2. ASSUME NEW i \in 1..m, rest[i] # "free"
            PROVE  \E e \in Reported(local) \ result.errors : e.row = i + 1
        <5>1. PICK e \in LookupErrors(local) : e.row = i + 1 /\ e.field \in LookupFields
          BY <1>5, <1>7, <2>2, <4>2, LookupsAnswered
        <5>2. e \notin result.errors
          BY <2>4, <5>1
        <5>3. QED
          BY <4>1, <5>1, <5>2
      <4>3. QED
        BY <2>2, <3>1, <4>1, <4>2
    <3>4. QED
      BY <3>2, <3>3
  <2>. HIDE DEF kept
  <2>6. /\ DOMAIN done = DOMAIN Fresh /\ done.upload = u /\ done.errors = Reported(local)
        /\ done.kept = kept
    BY <1>5, Names
  <2>. HIDE DEF done
  <2>7. /\ req'[r].upload = u /\ req'[r].errors = Reported(local) /\ req'[r].kept = kept
        /\ req'[r].pc \in {"import.insert", "answered"}
    <3>1. CASE kept = <<>>
      BY <2>1, <2>6, <3>1, Names DEF Answered
    <3>2. CASE kept # <<>>
      BY <2>1, <2>6, <3>2, Names
    <3>3. QED
      BY <3>1, <3>2
  <2>8. Accounts(req'[r])
    <3>1. ASSUME NEW k \in DOMAIN u.rows
          PROVE  \/ \E e \in Reported(local) \cap result.errors : e.row = k + 1
                 \/ \E i \in DOMAIN result.valid :
                       /\ RecordOf(u, i, k)
                       /\ \/ i \in Range(kept)
                          \/ \E e \in Reported(local) \ result.errors : e.row = i + 1
      <4>1. \/ \E e \in result.errors : e.row = k + 1
            \/ \E i \in DOMAIN result.valid : RecordOf(u, i, k)
        BY <2>4 DEF RowRead, result
      <4>2. QED
        BY <2>3, <2>5, <4>1
    <3>2. QED
      BY <2>7, <3>1 DEF Accounts, RecordOf, result
  <2>9. AnswerTrue(req'[r])
    BY <1>4, <2>7, <2>8 DEF AnswerTrue
  <2>10. QED
    BY <1>6, <2>9, OneAnswers
<1>11. QED
  BY <1>9, <1>10

LEMMA ImportInsertAnswers ==
  ASSUME OfficeInv, ImportsInv, NEW r \in Request, ImportInsert(r)
  PROVE  ImportsInv'
<1>. DEFINE q == Answered(req[r], req[r].kept)
<1>1. req[r].pc = "import.insert" /\ req' = [req EXCEPT ![r] = q]
  BY DEF ImportInsert, At
<1>2. DOMAIN req[r] = DOMAIN Fresh
  BY Parts DEF Local
<1>3. /\ q.pc = "answered" /\ q.upload = req[r].upload /\ q.errors = req[r].errors
      /\ q.kept = req[r].kept
  BY <1>2, Names DEF Answered
<1>4. req[r].upload \in Uploads /\ Accounts(req[r])
  BY <1>1 DEF ImportsInv, AnswerTrue
<1>. HIDE DEF q
<1>5. AnswerTrue(q)
  BY <1>3, <1>4 DEF AnswerTrue, Accounts
<1>6. Only(r) /\ req'[r] = q
  BY <1>1, Holds
<1>7. QED
  BY <1>5, <1>6, OneAnswers

\* The history of an import is no part of its answer.
LEMMA WriteAnswers ==
  ASSUME OfficeInv, ImportsInv, NEW r \in Request, NEW row, Write(r, row)
  PROVE  ImportsInv'
<1>1. PICK changed :
         req' = [q \in Request |-> IF q = r THEN Over(req[r]) ELSE [req[q] EXCEPT !.before = @ \ changed]]
  BY DEF Write
<1>2. AnswerTrue(req'[r])
  BY <1>1, OverSilent
<1>3. ASSUME NEW s \in Request, s # r
      PROVE  AnswerTrue(req'[s])
  <2>1. DOMAIN req[s] = DOMAIN Fresh
    BY Parts DEF Local
  <2>2. req'[s] = [req[s] EXCEPT !.before = @ \ changed]
    BY <1>1, <1>3
  <2>3. /\ req'[s].pc = req[s].pc /\ req'[s].upload = req[s].upload
        /\ req'[s].errors = req[s].errors /\ req'[s].valid = req[s].valid
        /\ req'[s].kept = req[s].kept
    BY <2>1, <2>2, Names
  <2>4. AnswerTrue(req[s])
    BY DEF ImportsInv
  <2>5. PICK p, q : p = req[s] /\ q = req'[s]
    OBVIOUS
  <2>6. Accounts(p) => Accounts(q)
    BY <2>3, <2>5 DEF Accounts
  <2>7. AnswerTrue(q)
    BY <2>3, <2>4, <2>5, <2>6 DEF AnswerTrue
  <2>8. QED
    BY <2>5, <2>7
<1>4. QED
  BY <1>2, <1>3 DEF ImportsInv

LEMMA LearnersAnswer ==
  ASSUME OfficeInv, ImportsInv, NEW r \in Request, LearnerCall(r) \/ LearnerStep(r)
  PROVE  ImportsInv'
<1>1. CASE CreateLearner(r)
  <2>1. PICK e \in Email, m \in Mobile :
           LET row == [email |-> e, mobile |-> m]
           IN  Enter(r, "createLearner", IF Exists(row) THEN [Fresh EXCEPT !.pc = "over"]
                                         ELSE [Fresh EXCEPT !.pc = "create", !.row = row])
    BY <1>1 DEF CreateLearner
  <2>. DEFINE row == [email |-> e, mobile |-> m]
  <2>2. CASE Enter(r, "createLearner", [Fresh EXCEPT !.pc = "over"])
    BY <2>2, EnterOverAnswers
  <2>3. CASE Enter(r, "createLearner", [Fresh EXCEPT !.pc = "create", !.row = row])
    <3>1. PICK name, value : Enter(r, name, [Fresh EXCEPT !.pc = "create", !.row = value])
      BY <2>3, Zenon
    <3>2. QED
      BY <3>1, EnterRowAnswers
  <2>4. QED
    BY <2>1, <2>2, <2>3
<1>2. CASE DeleteStudent(r)
  <2>1. PICK name, id : Enter(r, name, [Fresh EXCEPT !.pc = "remove", !.id = id])
    BY <1>2, Zenon DEF DeleteStudent
  <2>2. QED
    BY <2>1, EnterIdAnswers
<1>3. CASE EditInformation(r)
  <2>1. PICK name, id, row : Enter(r, name, [Fresh EXCEPT !.pc = "edit.select", !.id = id, !.row = row])
    BY <1>3, Zenon DEF EditInformation
  <2>. DEFINE q == [Fresh EXCEPT !.pc = "edit.select", !.id = id, !.row = row]
  <2>2. DOMAIN q = DOMAIN Fresh /\ q.pc = "edit.select" /\ q.upload = None
    BY Names DEF Fresh
  <2>3. Enter(r, name, q)
    BY <2>1
  <2>. HIDE DEF q
  <2>4. QED
    BY <2>2, <2>3, SilentTrue, EnterAnswers
<1>4. CASE EditSelect(r)
  <2>1. req[r].pc = "edit.select"
    BY <1>4 DEF EditSelect, At
  <2>2. PICK q : /\ req' = [req EXCEPT ![r] = q]
                 /\ q \in {[req[r] EXCEPT !.pc = "edit.update", !.dirty = Dirty(req[r].row, learners[req[r].id])],
                           [req[r] EXCEPT !.pc = "edit.insert"]}
    BY <1>4 DEF EditSelect
  <2>3. Only(r) /\ req'[r] = q
    BY <2>2, Holds
  <2>4. DOMAIN req[r] = DOMAIN Fresh /\ req[r].upload = None
    BY <2>1, Editing DEF ImportsInv, AnswerTrue
  <2>5. q.upload = None /\ q.pc \in {"edit.update", "edit.insert"}
    BY <2>2, <2>4, Names
  <2>6. QED
    BY <2>3, <2>5, SilentTrue, OneAnswers
<1>5. CASE CreateInsert(r) \/ DeleteStudentRow(r)
  BY <1>5, ReturnAnswers DEF CreateInsert, DeleteStudentRow
<1>6. CASE EditInsert(r) \/ EditUpdate(r)
  BY <1>6, ReturnAnswers, WriteAnswers DEF EditInsert, EditUpdate
<1>7. QED
  BY <1>1, <1>2, <1>3, <1>4, <1>5, <1>6, ImportCallAnswers, CheckRecordAnswers, ImportInsertAnswers
     DEF LearnerCall, LearnerStep

LEMMA BoardsAnswer ==
  ASSUME OfficeInv, ImportsInv, NEW r \in Request, BoardCall(r) \/ BoardStep(r)
  PROVE  ImportsInv'
<1>1. CASE BoardCall(r)
  <2>1. PICK name, id : Enter(r, name, [Fresh EXCEPT !.pc = "move.select", !.id = id])
    BY <1>1 DEF BoardCall, MoveStudent, MoveStudentToAccessor, MoveStudentToInductor, Move
  <2>2. QED
    BY <2>1, EnterIdAnswers
<1>2. CASE MoveSelect(r)
  <2>1. PICK p \in {"move.delete", "move.insert"} : Goto(r, p)
    BY <1>2 DEF MoveSelect
  <2>2. QED
    BY <1>2, <2>1, GotoAnswers DEF MoveSelect, At
<1>3. CASE MoveInsert(r)
  BY <1>3, ReturnAnswers, GotoAnswers DEF MoveInsert, At
<1>4. CASE MoveDelete(r)
  BY <1>4, ReturnAnswers DEF MoveDelete
<1>5. QED
  BY <1>1, <1>2, <1>3, <1>4 DEF BoardStep

LEMMA LibraryCallsAnswer ==
  ASSUME OfficeInv, ImportsInv, NEW r \in Request, LibraryCall(r)
  PROVE  ImportsInv'
<1>1. CASE CreateFolder(r) \/ CreateDocument(r) \/ AssignDocumentToStudents(r) \/ MoveToTrash(r)
  <2>1. PICK name, p, row : /\ Enter(r, name, [Fresh EXCEPT !.pc = p, !.row = row])
                            /\ p \in {"folder", "document", "assign.students", "trash.find"}
    BY <1>1, Zenon DEF CreateFolder, CreateDocument, AssignDocumentToStudents, MoveToTrash
  <2>2. p \notin {"import.check", "import.insert", "answered"}
    BY <2>1
  <2>3. QED
    BY <2>1, <2>2, EnterRowAnswers
<1>2. CASE DeleteFolder(r) \/ DeleteDocument(r)
  <2>1. PICK name, p, id : /\ Enter(r, name, [Fresh EXCEPT !.pc = p, !.id = id])
                           /\ p \in {"folder.delete", "document.delete"}
    BY <1>2, Zenon DEF DeleteFolder, DeleteDocument
  <2>2. p \notin {"import.check", "import.insert", "answered"}
    BY <2>1
  <2>3. QED
    BY <2>1, <2>2, EnterIdAnswers
<1>3. CASE UploadDocument(r) \/ SaveSchoolDocument(r)
  <2>1. PICK name, row : Enter(r, name, [Fresh EXCEPT !.pc = "upload", !.row = row])
    BY <1>3, Zenon DEF UploadDocument, SaveSchoolDocument, UploadUnfiled
  <2>2. QED
    BY <2>1, EnterRowAnswers
<1>4. CASE UploadDocumentToFolder(r)
  <2>1. PICK u \in User, f \in DOMAIN folders :
           Enter(r, "uploadDocumentToFolder", IF folders[f].owner # u THEN [Fresh EXCEPT !.pc = "over"]
                 ELSE [Fresh EXCEPT !.pc = "upload", !.row = [folder |-> f, student |-> 0, file |-> r]])
    BY <1>4 DEF UploadDocumentToFolder
  <2>. DEFINE row == [folder |-> f, student |-> 0, file |-> r]
  <2>2. CASE Enter(r, "uploadDocumentToFolder", [Fresh EXCEPT !.pc = "over"])
    BY <2>2, EnterOverAnswers
  <2>3. CASE Enter(r, "uploadDocumentToFolder", [Fresh EXCEPT !.pc = "upload", !.row = row])
    <3>1. PICK name, value : Enter(r, name, [Fresh EXCEPT !.pc = "upload", !.row = value])
      BY <2>3, Zenon
    <3>2. QED
      BY <3>1, EnterRowAnswers
  <2>4. QED
    BY <2>1, <2>2, <2>3
<1>5. QED
  BY <1>1, <1>2, <1>3, <1>4 DEF LibraryCall

\* The two steps of an assignment keep the place and the rest of the locals.
LEMMA AssigningAnswers ==
  ASSUME OfficeInv, ImportsInv, NEW r \in Request, AssignStudents(r) \/ AssignSave(r)
  PROVE  ImportsInv'
<1>1. DOMAIN req = Request /\ DOMAIN req[r] = DOMAIN Fresh
  BY Parts DEF Local
<1>2. req[r].pc \in {"assign.students", "assign.save"}
  BY DEF AssignStudents, AssignSave, At
<1>3. req[r].upload = None
  BY <1>2 DEF ImportsInv, AnswerTrue
<1>4. CASE Return(r)
  BY <1>4, ReturnAnswers
<1>5. CASE ~ Return(r)
  <2>1. \/ \E ids : req' = [req EXCEPT ![r].pc = "assign.save", ![r].rest = Ordered(ids)]
        \/ req' = [req EXCEPT ![r].rest = Tail(@)]
    BY <1>5 DEF AssignStudents, AssignSave
  <2>2. Only(r) /\ \E p, s : req'[r] = [req[r] EXCEPT !.pc = p, !.rest = s] /\ p \in {req[r].pc, "assign.save"}
    <3>1. CASE \E ids : req' = [req EXCEPT ![r].pc = "assign.save", ![r].rest = Ordered(ids)]
      BY <1>1, <3>1 DEF Only
    <3>2. CASE req' = [req EXCEPT ![r].rest = Tail(@)]
      <4>1. Only(r) /\ req'[r] = [req[r] EXCEPT !.rest = Tail(req[r].rest)]
        BY <1>1, <3>2 DEF Only
      <4>2. [req[r] EXCEPT !.rest = Tail(req[r].rest)]
              = [req[r] EXCEPT !.pc = req[r].pc, !.rest = Tail(req[r].rest)]
        BY <1>1, Names
      <4>3. QED
        BY <4>1, <4>2
    <3>3. QED
      BY <2>1, <3>1, <3>2
  <2>3. PICK p, s : req'[r] = [req[r] EXCEPT !.pc = p, !.rest = s] /\ p \in {req[r].pc, "assign.save"}
    BY <2>2
  <2>4. req'[r].upload = None /\ req'[r].pc = p
    BY <1>1, <1>3, <2>3, Names
  <2>5. QED
    BY <1>2, <2>2, <2>3, <2>4, SilentTrue, OneAnswers
<1>6. QED
  BY <1>4, <1>5

LEMMA LibraryStepsAnswer ==
  ASSUME OfficeInv, ImportsInv, NEW r \in Request, LibraryStep(r)
  PROVE  ImportsInv'
<1>1. CASE InsertFolder(r) \/ DeleteFolderRow(r) \/ InsertDocument(r) \/ DeleteDocumentRow(r) \/ TrashSave(r)
  BY <1>1, ReturnAnswers DEF InsertFolder, DeleteFolderRow, InsertDocument, DeleteDocumentRow, TrashSave
<1>2. CASE Upload(r)
  BY <1>2, GotoAnswers DEF Upload, At
<1>3. CASE TrashFind(r)
  BY <1>3, DeathAnswers, GotoAnswers DEF TrashFind, At
<1>4. QED
  BY <1>1, <1>2, <1>3, AssigningAnswers DEF LibraryStep

LEMMA InitImports == Init => ImportsInv
<1>1. Fresh.upload = None /\ Fresh.pc = "idle"
  BY DEF Fresh
<1>2. QED
  BY <1>1, SilentTrue DEF Init, ImportsInv

LEMMA NextImports == OfficeInv /\ ImportsInv /\ [Next]_vars => ImportsInv'
<1>. SUFFICES ASSUME OfficeInv, ImportsInv, [Next]_vars
              PROVE  ImportsInv'
  OBVIOUS
<1>1. ASSUME NEW r \in Request, ClientCall(r) \/ HandlerStep(r)
      PROVE  ImportsInv'
  BY <1>1, LearnersAnswer, BoardsAnswer, LibraryCallsAnswer, LibraryStepsAnswer
     DEF ClientCall, HandlerStep
<1>2. ASSUME NEW r \in Request, Fail(r)
      PROVE  ImportsInv'
  BY <1>2, DeathAnswers, ReturnAnswers DEF Fail
<1>3. CASE UNCHANGED vars
  BY <1>3 DEF ImportsInv, vars
<1>4. QED
  BY <1>1, <1>2, <1>3 DEF Next

\* What an import has found so far accounts for every row of its file, for
\* every file and whatever the lookups find or fail to.
THEOREM ImportsAccount == Spec => []ImportsInv
<1>1. Spec => []OfficeInv
  BY OfficeInvariant
<1>2. QED
  BY <1>1, InitImports, NextImports, PTL DEF Spec

\* Every row of every file that is not refused is imported, or the answer has
\* an error for it and for no other row.
THEOREM EveryRowIsAnswered == Spec => []RowsAreAnswered
<1>1. ImportsInv => RowsAreAnswered
  BY DEF ImportsInv, AnswerTrue, RowsAreAnswered, At
<1>2. QED
  BY <1>1, ImportsAccount, PTL

-----------------------------------------------------------------------------
(* The columns of a file in another order.                                  *)

\* What is found at the places of a set, if it has one member or none.
LEMMA FirstOf ==
  /\ First({}) = 0
  /\ \A i \in Nat : First({i}) = i
<1>1. \A i \in Nat : Min({i}) = i
  BY DEF Min
<1>2. QED
  BY <1>1 DEF First

\* An order of the columns: each comes from one place, and goes to one.
IsOrder(order, n) ==
    /\ order \in [1..n -> 1..n]
    /\ \A i, j \in 1..n : order[i] = order[j] => i = j
    /\ \A i \in 1..n : \E j \in 1..n : order[j] = i

\* The places A of at most one column, and its places B in the other order.
Shifted(A, B, order, n) ==
    /\ A \in SUBSET (1..n) /\ B \in SUBSET (1..n)
    /\ \A i, j \in A : i = j
    /\ \A i \in 1..n : i \in B <=> order[i] \in A
SamePlace(A, B, order, n) ==
    \/ A = {} /\ B = {} /\ First(A) = 0 /\ First(B) = 0
    \/ A # {} /\ B # {} /\ First(A) \in 1..n /\ First(B) \in 1..n /\ order[First(B)] = First(A)

\* The one place there is, or none, before and after.
LEMMA PlaceMoves ==
  ASSUME NEW n \in Nat, NEW order, IsOrder(order, n), NEW A, NEW B, Shifted(A, B, order, n)
  PROVE  SamePlace(A, B, order, n)
<1>. USE DEF Shifted, SamePlace
<1>1. /\ order \in [1..n -> 1..n]
      /\ \A i, j \in 1..n : order[i] = order[j] => i = j
      /\ \A i \in 1..n : \E j \in 1..n : order[j] = i
  BY DEF IsOrder
<1>2. CASE A = {}
  <2>1. B = {}
    BY <1>2
  <2>2. QED
    BY <1>2, <2>1, FirstOf
<1>3. CASE A # {}
  <2>1. PICK i \in A : TRUE
    BY <1>3
  <2>2. i \in 1..n /\ i \in Nat /\ A = {i}
    <3>1. \A x \in A : x = i
      BY <2>1
    <3>2. i \in 1..n
      BY <2>1
    <3>3. A = {i}
      BY <2>1, <3>1, Zenon
    <3>4. QED
      BY <3>2, <3>3
  <2>3. PICK j \in 1..n : order[j] = i
    BY <1>1, <2>2
  <2>4. j \in B /\ \A x \in B : x = j
    <3>1. \A x \in B : x \in 1..n /\ order[x] = i
      BY <2>2
    <3>2. QED
      BY <1>1, <2>2, <2>3, <3>1
  <2>5. B = {j}
    BY <2>4, Zenon
  <2>6. First(A) = i /\ First(B) = j
    <3>1. j \in Nat
      BY <2>3
    <3>2. QED
      BY <2>2, <2>5, <3>1, FirstOf
  <2>7. QED
    BY <1>3, <2>2, <2>3, <2>4, <2>6
<1>4. QED
  BY <1>2, <1>3

\* The place of a field's column moves with the column.
LEMMA HeaderMoves ==
  ASSUME NEW n \in Nat, NEW headers, DOMAIN headers = 1..n, NEW order, IsOrder(order, n),
         \A i, j \in 1..n : i # j => headers[i][1] # headers[j][1] /\ headers[i][2] # headers[j][2],
         NEW aliases
  PROVE  LET from == FindMatchingHeader(headers, aliases)
             to   == FindMatchingHeader(InOrder(headers, order), aliases)
         IN  \/ from = 0 /\ to = 0
             \/ from \in 1..n /\ to \in 1..n /\ order[to] = from
<1>2. \A A, B : Shifted(A, B, order, n) => SamePlace(A, B, order, n)
  BY PlaceMoves
<1>. DEFINE moved == InOrder(headers, order)
            At1(a) == {i \in DOMAIN headers : headers[i][1] = aliases[a][1]}
            At2(a) == {i \in DOMAIN headers : headers[i][2] = aliases[a][2]}
            To1(a) == {i \in DOMAIN moved : moved[i][1] = aliases[a][1]}
            To2(a) == {i \in DOMAIN moved : moved[i][2] = aliases[a][2]}
            alias == First({a \in DOMAIN aliases : At2(a) # {}})
            alias2 == First({a \in DOMAIN aliases : To2(a) # {}})
<1>1. DOMAIN moved = 1..n /\ \A i \in 1..n : moved[i] = headers[order[i]] /\ order[i] \in 1..n
  BY DEF InOrder, IsOrder
<1>. HIDE DEF moved
<1>3. \A a : Shifted(At1(a), To1(a), order, n) /\ Shifted(At2(a), To2(a), order, n)
  BY <1>1 DEF Shifted
<1>. HIDE DEF At1, At2, To1, To2
<1>4. \A a : SamePlace(At1(a), To1(a), order, n) /\ SamePlace(At2(a), To2(a), order, n)
  BY <1>2, <1>3
<1>. USE DEF SamePlace
<1>5. alias = alias2
  BY <1>4
<1>6. FindMatchingHeader(headers, aliases) =
        IF alias = 0 THEN 0 ELSE IF At1(alias) # {} THEN First(At1(alias)) ELSE First(At2(alias))
  BY DEF FindMatchingHeader, At1, At2
<1>7. FindMatchingHeader(moved, aliases) =
        IF alias2 = 0 THEN 0 ELSE IF To1(alias2) # {} THEN First(To1(alias2)) ELSE First(To2(alias2))
  BY DEF FindMatchingHeader, To1, To2
<1>. HIDE DEF alias, alias2
<1>8. CASE alias = 0
  BY <1>5, <1>6, <1>7, <1>8 DEF moved
<1>9. CASE alias # 0 /\ At1(alias) # {}
  BY <1>4, <1>5, <1>6, <1>7, <1>9 DEF moved
<1>10. CASE alias # 0 /\ At1(alias) = {}
  BY <1>4, <1>5, <1>6, <1>7, <1>10 DEF moved
<1>11. QED
  BY <1>8, <1>9, <1>10

\* A field found in no column, or in one column before and after.
Moved(columns, others, order, n) ==
    \A i \in DOMAIN LearnerMappings :
       \/ columns[i] = 0 /\ others[i] = 0
       \/ columns[i] \in 1..n /\ others[i] \in 1..n /\ order[others[i]] = columns[i]

LEMMA ColumnsMove ==
  ASSUME NEW n \in Nat, NEW headers, DOMAIN headers = 1..n, NEW order, IsOrder(order, n),
         \A i, j \in 1..n : i # j => headers[i][1] # headers[j][1] /\ headers[i][2] # headers[j][2],
         ~ UsePositional(headers)
  PROVE  /\ ~ UsePositional(InOrder(headers, order))
         /\ Moved(Columns(headers), Columns(InOrder(headers, order)), order, n)
<1>. DEFINE moved == InOrder(headers, order)
<1>1. \A aliases : LET from == FindMatchingHeader(headers, aliases)
                       to   == FindMatchingHeader(moved, aliases)
                   IN  \/ from = 0 /\ to = 0
                       \/ from \in 1..n /\ to \in 1..n /\ order[to] = from
  BY HeaderMoves
<1>. HIDE DEF moved
<1>2. \A i \in DOMAIN LearnerMappings :
         \/ Named(headers)[i] = 0 /\ Named(moved)[i] = 0
         \/ Named(headers)[i] \in 1..n /\ Named(moved)[i] \in 1..n /\ order[Named(moved)[i]] = Named(headers)[i]
  BY <1>1 DEF Named
<1>3. ~ UsePositional(moved)
  <2>1. \A i \in Required : i \in DOMAIN LearnerMappings /\ Named(headers)[i] # 0
    BY DEF UsePositional, Required
  <2>2. \A i \in Required : Named(moved)[i] # 0
    BY <1>2, <2>1
  <2>3. QED
    BY <2>2 DEF UsePositional
<1>4. Columns(headers) = Named(headers) /\ Columns(moved) = Named(moved)
  BY <1>3 DEF Columns
<1>5. QED
  BY <1>2, <1>3, <1>4 DEF Moved, moved

\* The fields of a row are read as they were.
LEMMA RowMoves ==
  ASSUME NEW n \in Nat, NEW row, DOMAIN row = 1..n, NEW order, IsOrder(order, n),
         NEW columns, NEW others, Moved(columns, others, order, n), NEW number
  PROVE  /\ RowErrors(InOrder(row, order), others, number) = RowErrors(row, columns, number)
         /\ LearnerOf(InOrder(row, order), others) = LearnerOf(row, columns)
<1>. DEFINE moved == InOrder(row, order)
<1>1. DOMAIN moved = 1..n /\ \A i \in 1..n : moved[i] = row[order[i]]
  BY DEF InOrder
<1>. HIDE DEF moved
<1>2. \A i \in DOMAIN LearnerMappings : ValueOf(moved, others[i]) = ValueOf(row, columns[i])
  BY <1>1 DEF Moved, ValueOf
<1>3. RowErrors(moved, others, number) = RowErrors(row, columns, number)
  BY <1>2 DEF RowErrors
<1>4. LearnerOf(moved, others) = LearnerOf(row, columns)
  <2>. DEFINE fields == {LearnerMappings[i].field : i \in DOMAIN LearnerMappings}
              place(f) == CHOOSE j \in DOMAIN LearnerMappings : LearnerMappings[j].field = f
              of(f) == Transform(ValueOf(row, columns[place(f)]), LearnerMappings[place(f)])
              mf(f) == Transform(ValueOf(moved, others[place(f)]), LearnerMappings[place(f)])
  <2>1. LearnerOf(row, columns) = [f \in fields |-> of(f)] /\ LearnerOf(moved, others) = [f \in fields |-> mf(f)]
    BY DEF LearnerOf
  <2>2. \A f \in fields : place(f) \in DOMAIN LearnerMappings
    OBVIOUS
  <2>3. \A f \in fields : of(f) = mf(f)
    BY <1>2, <2>2
  <2>. HIDE DEF fields, of, mf
  <2>4. QED
    BY <2>1, <2>3
<1>5. QED
  BY <1>3, <1>4 DEF moved

\* A file whose columns are found by name, each with a header of its own, gives
\* the same learners and errors with its columns in any other order.
THEOREM ColumnsInAnyOrder ==
  ASSUME NEW headers \in Seq(STRING \X STRING), NEW rows \in Seq(Seq(Cell)),
         OwnColumns(headers), Parses(headers, rows), ~ UsePositional(headers),
         NEW order, IsOrder(order, Len(headers))
  PROVE  ProcessLearnerCSV(InOrder(headers, order), [k \in DOMAIN rows |-> InOrder(rows[k], order)])
           = ProcessLearnerCSV(headers, rows)
<1>. DEFINE n == Len(headers)
            moved == InOrder(headers, order)
            others == [k \in DOMAIN rows |-> InOrder(rows[k], order)]
            c == Columns(headers)
            d == Columns(moved)
<1>1. n \in Nat /\ DOMAIN headers = 1..n
  OBVIOUS
<1>2. \A k \in DOMAIN rows : DOMAIN rows[k] = 1..n
  <2>1. \A k \in DOMAIN rows : rows[k] \in Seq(Cell)
    OBVIOUS
  <2>2. QED
    BY <2>1 DEF Parses
<1>3. ~ UsePositional(moved) /\ Moved(c, d, order, n)
  BY <1>1, ColumnsMove DEF OwnColumns
<1>. HIDE DEF n, moved, c, d
<1>4. \A k \in DOMAIN rows :
         /\ RowErrors(InOrder(rows[k], order), d, k + 1) = RowErrors(rows[k], c, k + 1)
         /\ LearnerOf(InOrder(rows[k], order), d) = LearnerOf(rows[k], c)
  BY <1>1, <1>2, <1>3, RowMoves DEF n
<1>5. DOMAIN others = DOMAIN rows /\ \A k \in DOMAIN rows : others[k] = InOrder(rows[k], order)
  OBVIOUS
<1>. HIDE DEF others
<1>6. Right(others, d) = Right(rows, c) /\ Right(rows, c) \subseteq DOMAIN rows
  BY <1>4, <1>5 DEF Right
<1>7. Wrong(others, d) = Wrong(rows, c)
  BY <1>4, <1>5 DEF Wrong
<1>8. ~ TooFew(headers) /\ ~ TooFew(moved)
  BY <1>3 DEF TooFew
<1>. DEFINE right == Ordered(Right(rows, c))
<1>9. \A k \in DOMAIN right : right[k] \in DOMAIN rows
  <2>. DEFINE S == Right(rows, c)
  <2>1. S \in SUBSET (1..Len(rows)) /\ S \in SUBSET Nat /\ Len(rows) \in Nat
    BY <1>6
  <2>. HIDE DEF S
  <2>2. Ordered(S) \in Seq(S)
    BY <2>1, OrderedCovers
  <2>3. QED
    BY <2>1, <2>2 DEF S
<1>. HIDE DEF right
<1>10. ProcessLearnerCSV(headers, rows) =
         [valid |-> [k \in DOMAIN right |-> LearnerOf(rows[right[k]], c)], errors |-> Wrong(rows, c)]
  BY <1>8, ReadAll DEF c, right
<1>11. ProcessLearnerCSV(moved, others) =
         [valid |-> [k \in DOMAIN right |-> LearnerOf(others[right[k]], d)], errors |-> Wrong(others, d)]
  BY <1>6, <1>8, ReadAll DEF d, right
<1>12. [k \in DOMAIN right |-> LearnerOf(others[right[k]], d)] = [k \in DOMAIN right |-> LearnerOf(rows[right[k]], c)]
  BY <1>4, <1>5, <1>9
<1>13. QED
  BY <1>7, <1>10, <1>11, <1>12 DEF moved, others

\* An import finds the learners it would find with its columns the other way
\* round, whatever the files, if those whose columns are found by name have a
\* header of its own for each.
THEOREM TheOrderOfColumnsIsFree ==
  ASSUME NamedOwnColumns
  PROVE  Spec => []ColumnOrderIsFree
<1>1. OfficeInv /\ ImportsInv => ColumnOrderIsFree
  <2>. SUFFICES ASSUME OfficeInv, ImportsInv, NEW r \in Request, At(r, "import.check"),
                       ~ UsePositional(req[r].upload.headers)
                PROVE  Processed[req[r].upload] = Backwards[req[r].upload]
    BY DEF ColumnOrderIsFree
  <2>. DEFINE u == req[r].upload
              n == Len(u.headers)
              order == [i \in DOMAIN u.headers |-> Len(u.headers) + 1 - i]
  <2>1. u \in Uploads /\ Parses(u.headers, u.rows)
    <3>1. /\ u \in Uploads /\ req[r].valid \in Seq(LearnerRow) /\ req[r].valid # <<>>
          /\ Len(req[r].valid) = Len(Processed[u].valid)
      BY Importing DEF ImportsInv, AnswerTrue, At, ImportTrue
    <3>. HIDE DEF u
    <3>2. CASE ~ Parses(u.headers, u.rows)
      <4>1. Processed[u].valid = <<>>
        BY <3>1, <3>2 DEF Processed, NotParsed
      <4>2. QED
        BY <3>1, <4>1
    <3>3. QED
      BY <3>1, <3>2
  <2>. HIDE DEF u
  <2>2. u.headers \in Seq(STRING \X STRING) /\ u.rows \in Seq(Seq(Cell))
    BY <2>1, RecordsAssumption
  <2>3. n \in Nat /\ DOMAIN u.headers = 1..n
    BY <2>2
  <2>. HIDE DEF n
  <2>4. order = [i \in 1..n |-> n + 1 - i]
    BY <2>3 DEF n
  <2>. HIDE DEF order
  <2>5. IsOrder(order, n)
    <3>1. order \in [1..n -> 1..n] /\ \A i, j \in 1..n : order[i] = order[j] => i = j
      BY <2>3, <2>4
    <3>2. \A i \in 1..n : n + 1 - i \in 1..n /\ order[n + 1 - i] = i
      BY <2>3, <2>4
    <3>3. QED
      BY <3>1, <3>2 DEF IsOrder
  <2>6. ~ UsePositional(u.headers) /\ OwnColumns(u.headers)
    BY <2>1 DEF NamedOwnColumns, u
  <2>7. Backwards[u] = ProcessLearnerCSV(InOrder(u.headers, order), [k \in DOMAIN u.rows |-> InOrder(u.rows[k], order)])
    BY <2>1 DEF Backwards, order
  <2>8. Processed[u] = ProcessLearnerCSV(u.headers, u.rows)
    BY <2>1 DEF Processed
  <2>9. QED
    BY <2>1, <2>2, <2>5, <2>6, <2>7, <2>8, ColumnsInAnyOrder DEF u, n
<1>2. QED
  BY <1>1, OfficeInvariant, ImportsAccount, PTL
=============================================================================
