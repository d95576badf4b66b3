---------------------------- MODULE ListingProofs ----------------------------
(***************************************************************************)
(* Paged reading for every set of rows, every page size, any number of     *)
(* changes and any instants they commit with: a listing read undisturbed   *)
(* is exact, and a row that is missed was missed for a cause.              *)
(***************************************************************************)
EXTENDS Listing, SequenceTheorems, FiniteSetTheorems, TLAPS

-----------------------------------------------------------------------------
(* The order of a listing *)

(* The rows of S that stand no later than i. *)
UpTo(S, i) == {j \in S : j = i \/ Precedes(j, i)}

LEMMA RowFields ==
  ASSUME TypeOK, NEW i \in Existing
  PROVE  i \in Rows /\ i \in Nat /\ table[i] \in RowType /\ table[i].at \in Int
  <1>1. i \in Rows /\ table[i] # NoRow
    BY DEF Existing, Exists
  <1>2. table[i] \in RowType
    BY <1>1 DEF TypeOK
  <1>3. table[i].at \in Int
    BY <1>2 DEF RowType
  <1> QED BY <1>1, <1>2, <1>3, ListingAssumption

(* Instant and key together order the rows totally. *)
LEMMA PrecedesOrder ==
  ASSUME TypeOK, NEW i \in Existing, NEW j \in Existing, NEW k \in Existing
  PROVE  /\ ~Precedes(i, i)
         /\ i # j => Precedes(i, j) \/ Precedes(j, i)
         /\ ~(Precedes(i, j) /\ Precedes(j, i))
         /\ Precedes(i, j) /\ Precedes(j, k) => Precedes(i, k)
  <1>1. /\ i \in Nat /\ table[i].at \in Int
        /\ j \in Nat /\ table[j].at \in Int
        /\ k \in Nat /\ table[k].at \in Int
    BY RowFields
  <1> QED BY <1>1 DEF Precedes

LEMMA FiniteRows ==
  ASSUME NEW S \in SUBSET Rows
  PROVE  IsFiniteSet(S) /\ Cardinality(S) \in Nat
  BY ListingAssumption, FS_Subset, FS_CardinalityType

LEMMA PlaceRange ==
  ASSUME NEW S \in SUBSET Rows, NEW i \in S
  PROVE  Place(S, i) \in 1 .. Cardinality(S) /\ Place(S, i) = Cardinality(UpTo(S, i))
  <1>1. UpTo(S, i) \in SUBSET S /\ {i} \in SUBSET UpTo(S, i)
    BY DEF UpTo
  <1>2. IsFiniteSet(S) /\ Cardinality(S) \in Nat
    BY FiniteRows
  <1>3. /\ IsFiniteSet(UpTo(S, i))
        /\ Cardinality(UpTo(S, i)) <= Cardinality(S)
        /\ Cardinality(UpTo(S, i)) \in Nat
    BY <1>1, <1>2, FS_Subset, FS_CardinalityType
  <1>4. Cardinality({i}) <= Cardinality(UpTo(S, i))
    BY <1>1, <1>3, FS_Subset
  <1>5. Cardinality({i}) = 1
    BY FS_Singleton
  <1>6. Place(S, i) = Cardinality(UpTo(S, i))
    BY DEF Place, UpTo
  <1> HIDE DEF UpTo, Place
  <1> QED BY <1>2, <1>3, <1>4, <1>5, <1>6

(* A row that precedes another has the smaller place. *)
LEMMA PlaceMonotone ==
  ASSUME TypeOK, NEW S \in SUBSET Existing, NEW i \in S, NEW j \in S, Precedes(i, j)
  PROVE  Place(S, i) < Place(S, j)
  <1>0. S \in SUBSET Rows
    BY DEF Existing
  <1>1. UpTo(S, i) \in SUBSET UpTo(S, j)
    BY PrecedesOrder DEF UpTo
  <1>2. j \in UpTo(S, j) /\ j \notin UpTo(S, i)
    BY PrecedesOrder DEF UpTo
  <1>3. IsFiniteSet(UpTo(S, j))
    BY <1>0, FiniteRows DEF UpTo
  <1>4. /\ Cardinality(UpTo(S, i)) <= Cardinality(UpTo(S, j))
        /\ Cardinality(UpTo(S, i)) # Cardinality(UpTo(S, j))
    BY <1>1, <1>2, <1>3, FS_Subset
  <1>5. /\ Place(S, i) = Cardinality(UpTo(S, i)) /\ Place(S, i) \in Int
        /\ Place(S, j) = Cardinality(UpTo(S, j)) /\ Place(S, j) \in Int
    BY <1>0, PlaceRange
  <1> HIDE DEF UpTo, Place
  <1> QED BY <1>4, <1>5

(* Every place from the first to the last is taken by one row. *)
LEMMA PlaceBijective ==
  ASSUME TypeOK, NEW S \in SUBSET Existing
  PROVE  /\ \A i, j \in S : Place(S, i) = Place(S, j) => i = j
         /\ \A k \in 1 .. Cardinality(S) : \E i \in S : Place(S, i) = k
  <1> DEFINE N == 1 .. Cardinality(S)
             f == [i \in S |-> Place(S, i)]
  <1>0. S \in SUBSET Rows /\ IsFiniteSet(S) /\ Cardinality(S) \in Nat
    BY FiniteRows DEF Existing
  <1>1. ASSUME NEW i \in S, NEW j \in S, Place(S, i) = Place(S, j)
        PROVE  i = j
    <2>1. Place(S, i) \in Int
      BY <1>0, PlaceRange
    <2>2. ~Precedes(i, j) /\ ~Precedes(j, i)
      <3>1. ~(Place(S, i) < Place(S, j)) /\ ~(Place(S, j) < Place(S, i))
        BY <1>1, <2>1
      <3> QED BY <3>1, PlaceMonotone
    <2> QED BY <2>2, PrecedesOrder
  <1>2. f \in [S -> N]
    BY <1>0, PlaceRange
  <1>3. f \in Injection(S, N)
    BY <1>1, <1>2 DEF Injection, IsInjective
  <1>4. IsFiniteSet(N) /\ Cardinality(N) = Cardinality(S)
    <2>1. 1 \in Int /\ Cardinality(S) \in Int
      BY <1>0
    <2>2. IsFiniteSet(N) /\ Cardinality(N) = IF 1 > Cardinality(S) THEN 0 ELSE Cardinality(S) - 1 + 1
      BY <2>1, FS_Interval
    <2> HIDE DEF N
    <2> QED BY <2>2, <1>0
  <1>5. f \in Surjection(S, N)
    BY <1>3, <1>4, FS_Injection
  <1>6. \A k \in N : \E i \in S : f[i] = k
    BY <1>5 DEF Surjection
  <1> QED BY <1>1, <1>6

(* What Sorted lists: each row of S exactly once, in the order of the query. *)
LEMMA SortedFacts ==
  ASSUME TypeOK, NEW S \in SUBSET Existing
  PROVE  /\ Sorted(S) \in Seq(Rows)
         /\ Len(Sorted(S)) = Cardinality(S)
         /\ \A k \in 1 .. Cardinality(S) : Sorted(S)[k] \in S /\ Place(S, Sorted(S)[k]) = k
         /\ \A i \in S : Sorted(S)[Place(S, i)] = i
  <1>0. S \in SUBSET Rows /\ Cardinality(S) \in Nat
    BY FiniteRows DEF Existing
  <1>1. ASSUME NEW k \in 1 .. Cardinality(S)
        PROVE  Sorted(S)[k] \in S /\ Place(S, Sorted(S)[k]) = k
    <2>1. \E i \in S : Place(S, i) = k
      BY PlaceBijective
    <2>2. Sorted(S)[k] = CHOOSE i \in S : Place(S, i) = k
      BY DEF Sorted
    <2> HIDE DEF Place, Sorted
    <2> QED BY <2>1, <2>2
  <1>2. Sorted(S) \in [1 .. Cardinality(S) -> Rows]
    <2>1. Sorted(S) = [k \in 1 .. Cardinality(S) |-> Sorted(S)[k]]
      BY DEF Sorted
    <2> HIDE DEF Sorted
    <2> QED BY <2>1, <1>1, <1>0
  <1>3. Sorted(S) \in Seq(Rows) /\ Len(Sorted(S)) = Cardinality(S)
    <2> HIDE DEF Sorted
    <2> QED BY <1>0, <1>2
  <1>4. ASSUME NEW i \in S
        PROVE  Sorted(S)[Place(S, i)] = i
    <2>1. Place(S, i) \in 1 .. Cardinality(S)
      BY <1>0, PlaceRange
    <2>2. Sorted(S)[Place(S, i)] \in S /\ Place(S, Sorted(S)[Place(S, i)]) = Place(S, i)
      BY <1>1, <2>1
    <2> QED BY <2>2, PlaceBijective
  <1> QED BY <1>1, <1>3, <1>4

(* Sorted neither repeats a row nor drops one, and no row stands before one that *)
(* precedes it: what the ORDER BY of the queries promises.                       *)
THEOREM SortedIsExact ==
  ASSUME TypeOK, NEW S \in SUBSET Existing
  PROVE  /\ {Sorted(S)[k] : k \in DOMAIN Sorted(S)} = S
         /\ \A k, m \in DOMAIN Sorted(S) :
              k < m => Sorted(S)[k] # Sorted(S)[m] /\ Precedes(Sorted(S)[k], Sorted(S)[m])
  <1> DEFINE row == Sorted(S)
  <1>0. S \in SUBSET Rows /\ Cardinality(S) \in Nat
    BY FiniteRows DEF Existing
  <1>1. DOMAIN row = 1 .. Cardinality(S)
    BY DEF Sorted
  <1>2. \A k \in DOMAIN row : row[k] \in S /\ Place(S, row[k]) = k
    BY <1>1, SortedFacts
  <1>3. \A i \in S : Place(S, i) \in DOMAIN row /\ row[Place(S, i)] = i
    BY <1>0, <1>1, SortedFacts, PlaceRange
  <1> HIDE DEF row
  <1>4. {row[k] : k \in DOMAIN row} = S
    BY <1>2, <1>3
  <1>5. ASSUME NEW k \in DOMAIN row, NEW m \in DOMAIN row, k < m
        PROVE  row[k] # row[m] /\ Precedes(row[k], row[m])
    <2>1. /\ row[k] \in S /\ Place(S, row[k]) = k
          /\ row[m] \in S /\ Place(S, row[m]) = m
      BY <1>2
    <2>2. k \in Int /\ m \in Int
      BY <1>0, <1>1
    <2>3. row[k] # row[m]
      BY <2>1, <2>2, <1>5
    <2>4. ~Precedes(row[m], row[k])
      BY <2>1, <2>2, <1>5, PlaceMonotone
    <2> QED BY <2>1, <2>3, <2>4, PrecedesOrder
  <1> QED BY <1>4, <1>5 DEF row

-----------------------------------------------------------------------------
(* Pages *)

LEMMA SliceFacts ==
  ASSUME NEW M \in Seq(Rows), NEW n \in Nat, NEW a \in Nat
  PROVE  /\ Slice(M, n, a) \in Seq(Rows)
         /\ \A k \in a + 1 .. a + n : k <= Len(M) => /\ k - a \in 1 .. Len(Slice(M, n, a))
                                                   /\ Slice(M, n, a)[k - a] = M[k]
         /\ a <= Len(M) => Len(Slice(M, n, a)) = IF a + n < Len(M) THEN n ELSE Len(M) - a
  <1> DEFINE b == IF a + n < Len(M) THEN a + n ELSE Len(M)
  <1>1. Len(M) \in Nat /\ a + 1 \in Int /\ b \in Int
    BY LenProperties
  <1>2. \A k \in a + 1 .. b : M[k] \in Rows
    BY <1>1, ElementOfSeq
  <1>3. Slice(M, n, a) = SubSeq(M, a + 1, b)
    BY DEF Slice
  <1> HIDE DEF Slice
  <1>4. /\ Slice(M, n, a) \in Seq(Rows)
        /\ Len(Slice(M, n, a)) = IF a + 1 <= b THEN b - (a + 1) + 1 ELSE 0
        /\ \A i \in 1 .. b - (a + 1) + 1 : Slice(M, n, a)[i] = M[a + 1 + i - 1]
    <2> HIDE DEF b
    <2> QED BY <1>1, <1>2, <1>3, SubSeqProperties
  <1>5. ASSUME NEW k \in a + 1 .. a + n, k <= Len(M)
        PROVE  k - a \in 1 .. Len(Slice(M, n, a)) /\ Slice(M, n, a)[k - a] = M[k]
    <2>1. k - a \in 1 .. b - (a + 1) + 1 /\ a + 1 <= b /\ a + 1 + (k - a) - 1 = k
      BY <1>1, <1>5
    <2>2. Slice(M, n, a)[k - a] = M[a + 1 + (k - a) - 1]
      BY <1>4, <2>1
    <2> HIDE DEF b
    <2> QED BY <1>4, <2>1, <2>2
  <1> QED BY <1>1, <1>4, <1>5

(* A page put behind what was read so far. *)
LEMMA SliceExtends ==
  ASSUME NEW M \in Seq(Rows), NEW n \in Nat, NEW a \in 0 .. Len(M)
  PROVE  SubSeq(M, 1, a) \o Slice(M, n, a) =
           SubSeq(M, 1, IF a + n < Len(M) THEN a + n ELSE Len(M))
  <1> DEFINE b == IF a + n < Len(M) THEN a + n ELSE Len(M)
  <1>1. Len(M) \in Nat
    BY LenProperties
  <1>2. 1 \in 1 .. Len(M) + 1 /\ a \in 1 - 1 .. Len(M) /\ b \in a .. Len(M)
    BY <1>1
  <1> HIDE DEF b
  <1>3. SubSeq(M, 1, a) \o SubSeq(M, a + 1, b) = SubSeq(M, 1, b)
    BY <1>2, ConcatAdjacentSubSeq
  <1> QED BY <1>3 DEF Slice, b

(* The probe of tokopediaSearch: a page and a row more, of which the page is kept. *)
LEMMA ProbeFacts ==
  ASSUME NEW M \in Seq(Rows), NEW n \in Nat \ {0}, NEW a \in 0 .. Len(M)
  PROVE  /\ Len(Slice(M, n + 1, a)) > n <=> a + n < Len(M)
         /\ a + n < Len(M) => SubSeq(Slice(M, n + 1, a), 1, n) = Slice(M, n, a)
         /\ a + n >= Len(M) => Slice(M, n + 1, a) = Slice(M, n, a)
  <1>1. Len(M) \in Nat /\ a \in Nat /\ n + 1 \in Nat
    BY LenProperties
  <1>2. Len(Slice(M, n + 1, a)) = IF a + (n + 1) < Len(M) THEN n + 1 ELSE Len(M) - a
    <2> DEFINE m == n + 1
    <2>1. m \in Nat /\ a <= Len(M)
      BY <1>1
    <2> HIDE DEF m
    <2>2. Len(Slice(M, m, a)) = IF a + m < Len(M) THEN m ELSE Len(M) - a
      BY <1>1, <2>1, SliceFacts
    <2> QED BY <2>2 DEF m
  <1>3. ASSUME a + n < Len(M)
        PROVE  SubSeq(Slice(M, n + 1, a), 1, n) = Slice(M, n, a)
    <2> DEFINE b == IF a + (n + 1) < Len(M) THEN a + (n + 1) ELSE Len(M)
    <2>1. b = a + n + 1
      BY <1>1, <1>3
    <2>2. /\ a + 1 \in 1 .. Len(M) /\ b \in 1 .. Len(M)
          /\ 1 \in 1 .. b - (a + 1) + 1 /\ n \in 1 .. b - (a + 1) + 1
          /\ (a + 1) + 1 - 1 = a + 1 /\ (a + 1) + n - 1 = a + n
      BY <1>1, <1>3, <2>1
    <2> HIDE DEF b
    <2>3. SubSeq(SubSeq(M, a + 1, b), 1, n) = SubSeq(M, (a + 1) + 1 - 1, (a + 1) + n - 1)
      BY <2>2, SubSeqOfSubSeq
    <2>4. SubSeq(SubSeq(M, a + 1, b), 1, n) = SubSeq(M, a + 1, a + n)
      BY <2>2, <2>3
    <2>5. Slice(M, n + 1, a) = SubSeq(M, a + 1, b)
      BY DEF Slice, b
    <2>6. Slice(M, n, a) = SubSeq(M, a + 1, a + n)
      BY <1>3 DEF Slice
    <2> QED BY <2>4, <2>5, <2>6
  <1>4. ASSUME a + n >= Len(M)
        PROVE  Slice(M, n + 1, a) = Slice(M, n, a)
    <2>1. ~(a + n < Len(M)) /\ ~(a + (n + 1) < Len(M))
      BY <1>1, <1>4
    <2> QED BY <2>1 DEF Slice
  <1>5. Len(Slice(M, n + 1, a)) > n <=> a + n < Len(M)
    <2> HIDE DEF Slice
    <2> QED BY <1>1, <1>2
  <1> QED BY <1>3, <1>4, <1>5

(* What is read of a page before the read fails: its first rows; what is kept from the *)
(* client is behind them.                                                              *)
LEMMA PrefixFacts ==
  ASSUME NEW rows \in Seq(Rows), NEW n \in 0 .. Len(rows)
  PROVE  /\ SubSeq(rows, 1, n) \in Seq(Rows) /\ Len(SubSeq(rows, 1, n)) = n
         /\ \A k \in 1 .. n : SubSeq(rows, 1, n)[k] = rows[k]
         /\ Behind(rows, n) \subseteq Rows
         /\ \A k \in 1 .. Len(rows) : k > n => rows[k] \in Behind(rows, n)
  <1>1. Len(rows) \in Nat /\ n \in Int /\ n <= Len(rows) /\ 0 <= n
    BY LenProperties
  <1>2. \A k \in 1 .. n : rows[k] \in Rows
    BY <1>1, ElementOfSeq
  <1>3. /\ SubSeq(rows, 1, n) \in Seq(Rows)
        /\ Len(SubSeq(rows, 1, n)) = IF 1 <= n THEN n - 1 + 1 ELSE 0
        /\ \A k \in 1 .. n - 1 + 1 : SubSeq(rows, 1, n)[k] = rows[1 + k - 1]
    BY <1>1, <1>2, SubSeqProperties
  <1>4. /\ Len(SubSeq(rows, 1, n)) = n
        /\ \A k \in 1 .. n : SubSeq(rows, 1, n)[k] = rows[k]
    BY <1>1, <1>3
  <1>5. Behind(rows, n) \subseteq Rows
    <2>1. \A k \in n + 1 .. Len(rows) : k \in 1 .. Len(rows)
      BY <1>1
    <2> QED BY <2>1, ElementOfSeq DEF Behind
  <1>6. \A k \in 1 .. Len(rows) : k > n => rows[k] \in Behind(rows, n)
    BY <1>1 DEF Behind
  <1> QED BY <1>3, <1>4, <1>5, <1>6

-----------------------------------------------------------------------------
(* Type correctness *)

LEMMA MatchingType ==
  ASSUME TypeOK
  PROVE  /\ Found \in SUBSET Existing /\ Found \in SUBSET Rows
         /\ Matching \in Seq(Rows)
         /\ Len(Matching) = Cardinality(Found) /\ Len(Matching) \in Nat
  <1>1. Found \in SUBSET Existing /\ Found \in SUBSET Rows
    BY DEF Found, Existing
  <1>2. Cardinality(Found) \in Nat
    BY <1>1, FiniteRows
  <1> HIDE DEF Found
  <1> QED BY <1>1, <1>2, SortedFacts DEF Matching

LEMMA ReaderFields ==
  ASSUME TypeOK
  PROVE  /\ reader.page \in Nat \ {0} /\ reader.total \in Nat /\ reader.got \in Seq(Rows)
         /\ DecodeToken(reader.token) \in Nat
         /\ Reading => PageSize \in Nat \ {0} /\ Offset(reader.page) \in Nat
  <1>1. /\ reader.page \in Nat \ {0} /\ reader.total \in Nat /\ reader.got \in Seq(Rows)
        /\ reader.token \in {<< >>} \cup ({"base64"} \X Nat)
        /\ reader.pc # "refused" => PageSize \in 1 .. 100
    BY DEF TypeOK
  <1>2. DecodeToken(reader.token) \in Nat
    BY <1>1 DEF DecodeToken
  <1>3. Reading => PageSize \in Nat \ {0}
    <2>1. Reading => PageSize \in 1 .. 100
      BY <1>1, Zenon DEF Reading
    <2> QED BY <2>1
  <1>4. Reading => Offset(reader.page) \in Nat
    <2>1. reader.page - 1 \in Nat
      BY <1>1
    <2> HIDE DEF PageSize
    <2> QED BY <2>1, <1>3 DEF Offset
  <1> QED BY <1>1, <1>2, <1>3, <1>4

(* One offset further is one page on. *)
LEMMA OffsetStep ==
  ASSUME TypeOK, Reading
  PROVE  /\ Offset(reader.page + 1) = Offset(reader.page) + PageSize
         /\ reader.page * PageSize = Offset(reader.page) + PageSize
  <1>1. reader.page \in Nat \ {0} /\ PageSize \in Nat
    BY ReaderFields
  <1> HIDE DEF PageSize
  <1> QED BY <1>1 DEF Offset

LEMMA InitialTableType ==
  ASSUME NEW listing, query.listing = listing, NEW status \in InitialTables(listing), NEW apart \in {0, 1}
  PROVE  [i \in Rows |-> IF i \in DOMAIN status THEN [status |-> status[i], at |-> apart * i] ELSE NoRow]
           \in [Rows -> RowType \cup {NoRow}]
  <1>1. \A i \in DOMAIN status : status[i] \in StatusesOf(listing)
    BY ListingAssumption DEF InitialTables, StatusesOf
  <1>2. \A i \in Rows : apart * i \in Int
    BY ListingAssumption
  <1> QED BY <1>1, <1>2 DEF RowType

LEMMA TypeInit ==
  Init => TypeOK
  <1> SUFFICES ASSUME Init PROVE TypeOK
    OBVIOUS
  <1>1. PICK listing \in Listings :
          /\ query \in [listing : {listing}, filter : FiltersOf(listing), size : Sizes]
          /\ \E status \in InitialTables(listing), apart \in {0, 1} :
               table = [i \in Rows |-> IF i \in DOMAIN status
                                       THEN [status |-> status[i], at |-> apart * i] ELSE NoRow]
    BY DEF Init
  <1>2. query.listing = listing /\ query.filter \in FiltersOf(query.listing) /\ query.size \in Sizes
    BY <1>1
  <1>3. table \in [Rows -> RowType \cup {NoRow}]
    BY <1>1, <1>2, InitialTableType
  <1>4. reader = [pc |-> IF ~Accepted THEN "refused" ELSE IF ByToken(query.listing) THEN "search" ELSE "count",
                  page |-> 1, token |-> << >>, total |-> 0, got |-> << >>]
    BY DEF Init
  <1>5. reader \in [pc : {"refused", "count", "page", "search", "done", "failed"}, page : Nat \ {0},
                   token : {<< >>} \cup ({"base64"} \X Nat), total : Nat, got : Seq(Rows)]
    BY <1>4, EmptySeq
  <1>6. reader.pc # "refused" => PageSize \in 1 .. 100
    BY <1>4 DEF Accepted
  <1>7. start \subseteq Rows /\ touched \subseteq Rows /\ lost \subseteq Rows
    BY DEF Init, Found
  <1>8. shrank \in BOOLEAN /\ setback \in BOOLEAN /\ outgrown \in BOOLEAN /\ changes \in 0 .. MaxChanges
    <2>1. shrank = FALSE /\ setback = FALSE /\ outgrown = FALSE /\ changes = 0
      BY DEF Init
    <2>2. shrank \in BOOLEAN /\ setback \in BOOLEAN /\ outgrown \in BOOLEAN
      BY <2>1, Zenon
    <2>3. changes \in 0 .. MaxChanges
      BY <2>1, ListingAssumption
    <2> QED BY <2>2, <2>3
  <1> QED BY <1>1, <1>2, <1>3, <1>5, <1>6, <1>7, <1>8 DEF TypeOK

(* A change leaves the table's rows what they should be and the client alone. *)
LEMMA ChangeTypeOK ==
  ASSUME TypeOK, Change, NEW new \in [Rows -> RowType \cup {NoRow}], Observed(new),
         touched' \subseteq Rows
  PROVE  TypeOK'
  <1>1. UNCHANGED <<query, reader, start, outgrown, lost>> /\ changes < MaxChanges /\ changes' = changes + 1
    BY DEF Change
  <1>2. table' \in [Rows -> RowType' \cup {NoRow}]
    BY <1>1 DEF Observed, RowType
  <1>3. shrank' \in BOOLEAN /\ setback' \in BOOLEAN
    <2>1. shrank \in BOOLEAN /\ setback \in BOOLEAN
      BY DEF TypeOK
    <2>2. shrank' = (shrank \/ ~(Found \subseteq Found'))
      BY DEF Observed
    <2>3. setback' = (setback \/ \E i \in Rows : Exists(i) /\ new[i] # NoRow /\ new[i].at < table[i].at)
      BY DEF Observed
    <2> QED BY <2>1, <2>2, <2>3, Zenon
  <1>4. changes' \in 0 .. MaxChanges
    BY <1>1, ListingAssumption DEF TypeOK
  <1>5. PageSize' = PageSize
    BY <1>1 DEF PageSize
  <1> HIDE DEF PageSize
  <1> QED BY <1>1, <1>2, <1>3, <1>4, <1>5 DEF TypeOK

LEMMA TypeStep ==
  TypeOK /\ [Next]_vars => TypeOK'
  <1> SUFFICES ASSUME TypeOK, [Next]_vars PROVE TypeOK'
    OBVIOUS
  <1> USE MatchingType, ReaderFields
  <1>1. CASE shopeeCount
    <2>1. reader' = [reader EXCEPT !.pc = "page", !.total = Len(Matching)] /\ Len(Matching) \in Nat
      BY <1>1 DEF shopeeCount
    <2>2. UNCHANGED <<query, table, start, touched, shrank, setback, outgrown, lost, changes>> /\ reader.pc = "count"
      BY <1>1 DEF shopeeCount, ghosts
    <2> HIDE DEF Matching
    <2> QED BY <2>1, <2>2 DEF TypeOK, RowType, PageSize
  <1>2. CASE shopeePage
    <2> DEFINE more == reader.page * PageSize < reader.total
               rows == Slice(Matching, PageSize, Offset(reader.page))
    <2>1. PICK n \in 0 .. Len(rows) :
            /\ reader' = [reader EXCEPT !.pc = IF more THEN "count" ELSE "done",
                                        !.page = IF more THEN @ + 1 ELSE @, !.got = @ \o SubSeq(rows, 1, n)]
            /\ outgrown' = (~more /\ Len(Matching) > reader.total)
            /\ lost' = lost \cup Behind(rows, n)
      BY <1>2, Zenon DEF shopeePage
    <2>2. /\ UNCHANGED <<query, table, start, touched, shrank, setback, changes>>
          /\ reader.pc = "page" /\ outgrown' \in BOOLEAN
      BY <1>2, <2>1 DEF shopeePage
    <2>3. rows \in Seq(Rows)
      BY <2>2, SliceFacts DEF Reading
    <2> HIDE DEF rows
    <2>4. /\ reader.got \o SubSeq(rows, 1, n) \in Seq(Rows)
          /\ Behind(rows, n) \subseteq Rows
      BY <2>3, PrefixFacts, ConcatProperties
    <2>5. reader' \in [pc : {"refused", "count", "page", "search", "done", "failed"}, page : Nat \ {0},
                      token : {<< >>} \cup ({"base64"} \X Nat), total : Nat, got : Seq(Rows)]
      <3> DEFINE pc == IF more THEN "count" ELSE "done"
                 page == IF more THEN reader.page + 1 ELSE reader.page
                 got == reader.got \o SubSeq(rows, 1, n)
      <3>1. reader' = [reader EXCEPT !.pc = pc, !.page = page, !.got = got]
        BY <2>1
      <3>2. /\ pc \in {"refused", "count", "page", "search", "done", "failed"}
            /\ page \in Nat \ {0} /\ got \in Seq(Rows)
        BY <2>4
      <3> HIDE DEF pc, page, got
      <3> QED BY <3>1, <3>2 DEF TypeOK
    <2>6. PageSize' = PageSize
      BY <2>2 DEF PageSize
    <2>7. lost' \subseteq Rows
      BY <2>1, <2>4 DEF TypeOK
    <2> HIDE DEF more
    <2> QED BY <2>2, <2>5, <2>6, <2>7 DEF TypeOK, RowType
  <1>3. CASE tokopediaSearch
    <2> DEFINE offset == DecodeToken(reader.token)
               rows == Slice(Matching, Limit, offset)
               kept(n) == IF n > PageSize THEN PageSize ELSE n
               missed(n) == IF n < Len(rows) THEN Behind(Matching, offset + n) ELSE {}
    <2>1. PICK n \in 0 .. Len(rows) :
            /\ reader' = [reader EXCEPT !.pc = IF n > PageSize THEN "search" ELSE "done",
                                        !.token = IF n > PageSize THEN EncodeToken(offset + PageSize) ELSE @,
                                        !.got = @ \o SubSeq(rows, 1, kept(n))]
            /\ lost' = lost \cup missed(n)
      BY <1>3, Zenon DEF tokopediaSearch
    <2>2. UNCHANGED <<query, table, start, touched, shrank, setback, outgrown, changes>> /\ reader.pc = "search"
      BY <1>3 DEF tokopediaSearch
    <2>3. PageSize \in Nat /\ Limit \in Nat /\ offset \in Nat
      <3>1. PageSize \in Nat /\ offset \in Nat
        BY <2>2 DEF Reading
      <3> HIDE DEF offset, PageSize
      <3> QED BY <3>1 DEF Limit
    <2> HIDE DEF offset
    <2>4. rows \in Seq(Rows) /\ Len(rows) \in Nat
      <3> HIDE DEF Limit, Matching
      <3> QED BY <2>3, SliceFacts, LenProperties
    <2>5. kept(n) \in 0 .. Len(rows)
      <3> HIDE DEF rows, PageSize
      <3> QED BY <2>1, <2>3, <2>4
    <2>6. reader.got \o SubSeq(rows, 1, kept(n)) \in Seq(Rows)
      <3> HIDE DEF kept, rows
      <3> QED BY <2>4, <2>5, PrefixFacts, ConcatProperties
    <2>7. EncodeToken(offset + PageSize) \in {"base64"} \X Nat
      <3> HIDE DEF PageSize
      <3> QED BY <2>3 DEF EncodeToken
    <2>8. missed(n) \subseteq Rows
      <3> HIDE DEF Matching, rows
      <3>1. \A k \in offset + n + 1 .. Len(Matching) : Matching[k] \in Rows
        <4>1. \A k \in offset + n + 1 .. Len(Matching) : k \in 1 .. Len(Matching)
          BY <2>3
        <4> QED BY <4>1, ElementOfSeq
      <3> QED BY <3>1 DEF Behind
    <2>9. lost' \subseteq Rows
      <3> HIDE DEF missed
      <3> QED BY <2>1, <2>8 DEF TypeOK
    <2> HIDE DEF kept, missed, rows
    <2> QED BY <2>1, <2>2, <2>6, <2>7, <2>9 DEF TypeOK, RowType, PageSize
  <1>f. CASE listFails
    <2>1. reader' = [reader EXCEPT !.pc = "failed"] /\ reader.pc # "refused"
      BY <1>f DEF listFails, Reading
    <2>2. UNCHANGED <<query, table, start, touched, shrank, setback, outgrown, lost, changes>>
      BY <1>f DEF listFails, ghosts
    <2> QED BY <2>1, <2>2 DEF TypeOK, RowType, PageSize
  <1>4. CASE \E i \in Rows : Create(i)
    <2>1. PICK i \in Rows : Create(i)
      BY <1>4
    <2> DEFINE status == IF OfOrders(query.listing) THEN "UNPAID" ELSE "ACTIVE"
    <2>2. PICK at \in Instants : Observed([table EXCEPT ![i] = [status |-> status, at |-> at]])
      BY <2>1 DEF Create
    <2>3. Change /\ touched' = touched \cup {i}
      BY <2>1 DEF Create
    <2>4. [status |-> status, at |-> at] \in RowType
      BY ListingAssumption DEF RowType, Instants, StatusesOf, OrderStatus, ProductStatus
    <2>5. [table EXCEPT ![i] = [status |-> status, at |-> at]] \in [Rows -> RowType \cup {NoRow}]
      BY <2>4 DEF TypeOK
    <2> HIDE DEF status
    <2> QED BY <2>2, <2>3, <2>5, ChangeTypeOK DEF TypeOK
  <1>5. CASE \E i \in Existing : ChangeProduct(i)
    <2>1. PICK i \in Existing : ChangeProduct(i)
      BY <1>5
    <2>2. PICK status \in ProductStatus, at \in Instants :
            Observed([table EXCEPT ![i] = [status |-> status, at |-> at]])
      BY <2>1 DEF ChangeProduct
    <2>3. Change /\ touched' = touched \cup {i} /\ ~OfOrders(query.listing)
      BY <2>1 DEF ChangeProduct
    <2>4. [status |-> status, at |-> at] \in RowType
      BY <2>3, ListingAssumption DEF RowType, Instants, StatusesOf
    <2>5. [table EXCEPT ![i] = [status |-> status, at |-> at]] \in [Rows -> RowType \cup {NoRow}]
      BY <2>4 DEF TypeOK
    <2> QED BY <2>2, <2>3, <2>5, RowFields, ChangeTypeOK DEF TypeOK
  <1>6. CASE \E i \in Existing : ArchiveProduct(i)
    <2>1. PICK i \in Existing : ArchiveProduct(i)
      BY <1>6
    <2>2. Change /\ touched' = touched \cup {i} /\ Observed([table EXCEPT ![i] = NoRow])
      BY <2>1 DEF ArchiveProduct
    <2>3. [table EXCEPT ![i] = NoRow] \in [Rows -> RowType \cup {NoRow}]
      BY DEF TypeOK
    <2> QED BY <2>2, <2>3, RowFields, ChangeTypeOK DEF TypeOK
  <1>7. CASE \E i \in Existing : ChangeOrder(i)
    <2>1. PICK i \in Existing : ChangeOrder(i)
      BY <1>7
    <2>2. PICK status \in OrderStatus : Observed([table EXCEPT ![i].status = status])
      BY <2>1 DEF ChangeOrder
    <2>3. Change /\ touched' = touched \cup {i} /\ OfOrders(query.listing)
      BY <2>1 DEF ChangeOrder
    <2>4. [table[i] EXCEPT !.status = status] \in RowType
      BY <2>3, RowFields DEF RowType, StatusesOf
    <2>5. [table EXCEPT ![i].status = status] \in [Rows -> RowType \cup {NoRow}]
      BY <2>4 DEF TypeOK
    <2> QED BY <2>2, <2>3, <2>5, RowFields, ChangeTypeOK DEF TypeOK
  <1>8. CASE \E seed \in SUBSET Rows : resetShopData(seed)
    <2>1. PICK seed \in SUBSET Rows : resetShopData(seed)
      BY <1>8
    <2> DEFINE New(now) == [i \in Rows |->
                 IF i \notin seed THEN NoRow
                 ELSE IF OfOrders(query.listing) THEN [status |-> "COMPLETED", at |-> now - i]
                 ELSE [status |-> "ACTIVE", at |-> now]]
    <2>2. PICK now \in Instants : Observed(New(now))
      BY <2>1 DEF resetShopData
    <2>3. Change /\ touched' = touched \cup seed \cup Existing
      BY <2>1 DEF resetShopData
    <2>4. now \in Int /\ \A i \in Rows : now - i \in Int
      BY ListingAssumption DEF Instants
    <2>5. New(now) \in [Rows -> RowType \cup {NoRow}]
      BY <2>4 DEF RowType, StatusesOf, OrderStatus, ProductStatus
    <2>6. touched' \subseteq Rows
      BY <2>3 DEF TypeOK, Existing
    <2> HIDE DEF New
    <2> QED BY <2>2, <2>3, <2>5, <2>6, ChangeTypeOK
  <1>9. CASE UNCHANGED vars
    BY <1>9 DEF vars, ghosts, TypeOK, RowType, PageSize
  <1> QED BY <1>1, <1>2, <1>3, <1>4, <1>5, <1>6, <1>7, <1>8, <1>9, <1>f DEF Next

(* For any set of rows, any page sizes and any number of changes the client's cursor   *)
(* stays a page from 1 or a token it was given, and the rows have a status of theirs.  *)
THEOREM ListingTypeCorrect == Spec => []TypeOK
  <1> QED BY TypeInit, TypeStep, PTL DEF Spec

-----------------------------------------------------------------------------
(* Reading undisturbed *)

(* How much of the listing the client has asked for. *)
Passed == IF reader.pc = "search" THEN DecodeToken(reader.token) ELSE Offset(reader.page)

(* What was read is the beginning of the listing, as long as nothing changes and no *)
(* read fails halfway.                                                              *)
QuietInv ==
  changes = 0 /\ lost = {} =>
    /\ Reading => Passed <= Len(Matching) /\ reader.got = SubSeq(Matching, 1, Passed)
    /\ reader.pc = "page" => reader.total = Len(Matching)
    /\ reader.pc = "done" => reader.got = Matching

LEMMA SameListing ==
  ASSUME UNCHANGED <<query, table>>
  PROVE  /\ Found' = Found /\ Matching' = Matching /\ PageSize' = PageSize
         /\ \A S, i : Place(S, i)' = Place(S, i)
  <1>1. \A i, j : Precedes(i, j)' = Precedes(i, j)
    BY DEF Precedes
  <1>2. \A S, i : Place(S, i)' = Place(S, i)
    BY DEF Place, Precedes
  <1>3. Found' = Found
    BY DEF Found, Exists, Matches
  <1>4. Matching' = Matching
    BY <1>3 DEF Matching, Sorted, Place, Precedes
  <1>5. PageSize' = PageSize
    BY DEF PageSize
  <1> QED BY <1>2, <1>3, <1>4, <1>5

(* A read that kept nothing from the client read all there was. *)
LEMMA NothingBehind ==
  ASSUME NEW rows \in Seq(Rows), NEW n \in 0 .. Len(rows), Behind(rows, n) = {}
  PROVE  n = Len(rows) /\ SubSeq(rows, 1, n) = rows
  <1>1. Len(rows) \in Nat
    BY LenProperties
  <1>2. n = Len(rows)
    <2>1. ~(n < Len(rows))
      <3>1. n < Len(rows) => n + 1 \in 1 .. Len(rows) /\ n + 1 > n
        BY <1>1
      <3> QED BY <3>1, PrefixFacts
    <2> QED BY <1>1, <2>1
  <1> QED BY <1>2, SubSeqFull

(* The client only reads. *)
LEMMA ReadingChangesNothing ==
  ASSUME shopeeCount \/ shopeePage \/ tokopediaSearch \/ listFails \/ UNCHANGED vars
  PROVE  /\ UNCHANGED <<query, table, start, touched, shrank, setback, changes>>
         /\ lost \subseteq lost'
  <1>1. CASE shopeePage
    <2>1. lost \subseteq lost'
      BY <1>1, Zenon DEF shopeePage
    <2>2. UNCHANGED <<query, table, start, touched, shrank, setback, changes>>
      BY <1>1, Zenon DEF shopeePage
    <2> QED BY <2>1, <2>2
  <1>2. CASE tokopediaSearch
    <2>1. lost \subseteq lost'
      BY <1>2, Zenon DEF tokopediaSearch
    <2>2. UNCHANGED <<query, table, start, touched, shrank, setback, changes>>
      BY <1>2, Zenon DEF tokopediaSearch
    <2> QED BY <2>1, <2>2
  <1>3. CASE shopeeCount \/ listFails \/ UNCHANGED vars
    BY <1>3 DEF shopeeCount, listFails, vars, ghosts
  <1> QED BY <1>1, <1>2, <1>3

LEMMA QuietInit ==
  TypeOK /\ Init => QuietInv
  <1> SUFFICES ASSUME TypeOK, Init PROVE QuietInv
    OBVIOUS
  <1>1. reader = [pc |-> IF ~Accepted THEN "refused" ELSE IF ByToken(query.listing) THEN "search" ELSE "count",
                  page |-> 1, token |-> << >>, total |-> 0, got |-> << >>]
    BY DEF Init
  <1>2. reader.pc \in {"refused", "search", "count"} /\ reader.page = 1 /\ reader.token = << >> /\ reader.got = << >>
    BY <1>1
  <1>3. Reading => Passed = 0
    <2>1. Reading => Offset(reader.page) = 0
      <3>1. Reading => PageSize \in Nat
        BY ReaderFields
      <3> HIDE DEF PageSize
      <3> QED BY <1>2, <3>1 DEF Offset
    <2>2. DecodeToken(reader.token) = 0
      BY <1>2 DEF DecodeToken
    <2> QED BY <2>1, <2>2 DEF Passed
  <1>4. Len(Matching) \in Nat
    BY MatchingType
  <1>5. SubSeq(Matching, 1, 0) = << >>
    BY SubSeqEmpty
  <1> HIDE DEF Matching, Passed
  <1> QED BY <1>2, <1>3, <1>4, <1>5 DEF QuietInv

LEMMA QuietStep ==
  TypeOK /\ QuietInv /\ [Next]_vars => QuietInv'
  <1> SUFFICES ASSUME TypeOK, QuietInv, [Next]_vars, changes' = 0, lost' = {}
      PROVE  /\ Reading' => Passed' <= Len(Matching') /\ reader'.got = SubSeq(Matching', 1, Passed')
             /\ reader'.pc = "page" => reader'.total = Len(Matching')
             /\ reader'.pc = "done" => reader'.got = Matching'
    BY DEF QuietInv
  <1>m. Matching \in Seq(Rows) /\ Len(Matching) \in Nat
    BY MatchingType
  <1>1. ASSUME Change
        PROVE  FALSE
    <2>1. changes' = changes + 1 /\ changes \in Nat
      BY <1>1, ListingAssumption DEF Change, TypeOK
    <2> QED BY <2>1
  <1>2. /\ changes = 0 /\ lost = {}
        /\ shopeeCount \/ shopeePage \/ tokopediaSearch \/ listFails \/ UNCHANGED vars
    <2>1. shopeeCount \/ shopeePage \/ tokopediaSearch \/ listFails \/ UNCHANGED vars
      BY <1>1 DEF Next, Create, ChangeProduct, ArchiveProduct, ChangeOrder, resetShopData
    <2>2. changes' = changes /\ lost \subseteq lost'
      BY <2>1, ReadingChangesNothing
    <2> QED BY <2>1, <2>2
  <1>3. /\ Reading => Passed <= Len(Matching) /\ reader.got = SubSeq(Matching, 1, Passed)
        /\ reader.pc = "page" => reader.total = Len(Matching)
        /\ reader.pc = "done" => reader.got = Matching
    BY <1>2 DEF QuietInv
  <1>4. Matching' = Matching /\ PageSize' = PageSize
    <2>1. UNCHANGED <<query, table>>
      BY <1>2, ReadingChangesNothing
    <2> QED BY <2>1, SameListing
  <1>5. CASE shopeeCount
    <2>1. /\ reader.pc = "count" /\ reader'.pc = "page" /\ reader'.total = Len(Matching)
          /\ reader'.page = reader.page /\ reader'.got = reader.got
      BY <1>5 DEF shopeeCount, TypeOK
    <2>2. Passed' = Passed
      BY <2>1, <1>4 DEF Passed, Offset
    <2> HIDE DEF Matching
    <2> QED BY <1>3, <1>4, <2>1, <2>2 DEF Reading
  <1>6. CASE shopeePage
    <2> DEFINE more == reader.page * PageSize < reader.total
               a == Offset(reader.page)
    <2> DEFINE rows == Slice(Matching, PageSize, a)
    <2>0. reader.pc = "page" /\ rows \in Seq(Rows)
      BY <1>m, <1>6, ReaderFields, SliceFacts DEF shopeePage, Reading
    <2>p. PICK n \in 0 .. Len(rows) :
            /\ reader' = [reader EXCEPT !.pc = IF more THEN "count" ELSE "done",
                                        !.page = IF more THEN @ + 1 ELSE @, !.got = @ \o SubSeq(rows, 1, n)]
            /\ lost' = lost \cup Behind(rows, n)
      BY <1>6, Zenon DEF shopeePage
    <2>q. SubSeq(rows, 1, n) = rows
      <3> HIDE DEF rows
      <3> QED BY <2>0, <2>p, NothingBehind
    <2>1. /\ reader.pc = "page" /\ reader'.pc = (IF more THEN "count" ELSE "done")
          /\ reader'.page = (IF more THEN reader.page + 1 ELSE reader.page)
          /\ reader'.got = reader.got \o Slice(Matching, PageSize, a)
      <3> HIDE DEF more, a
      <3>1. reader'.got = reader.got \o rows
        <4> HIDE DEF rows
        <4> QED BY <2>p, <2>q DEF TypeOK
      <3> HIDE DEF rows
      <3> QED BY <2>0, <2>p, <3>1 DEF TypeOK, rows
    <2> HIDE DEF rows
    <2>2. PageSize \in Nat \ {0} /\ a \in Nat /\ Passed = a
      BY <2>1, ReaderFields DEF Reading, Passed
    <2>3. a \in 0 .. Len(Matching) /\ reader.got = SubSeq(Matching, 1, a) /\ reader.total = Len(Matching)
      <3> HIDE DEF a
      <3> QED BY <1>m, <1>3, <2>1, <2>2 DEF Reading
    <2>4. reader'.got = SubSeq(Matching, 1, IF a + PageSize < Len(Matching) THEN a + PageSize ELSE Len(Matching))
      <3> HIDE DEF a, PageSize, Slice
      <3> QED BY <1>m, <2>1, <2>2, <2>3, SliceExtends
    <2>5. more <=> a + PageSize < Len(Matching)
      <3>1. reader.page * PageSize = a + PageSize
        BY <2>1, OffsetStep DEF Reading
      <3> HIDE DEF a, PageSize
      <3> QED BY <2>3, <3>1
    <2>6. CASE more
      <3>1. Passed' = a + PageSize
        <4>1. Offset(reader.page + 1) = a + PageSize
          BY <2>1, OffsetStep DEF Reading
        <4> QED BY <2>1, <2>6, <4>1, <1>4 DEF Passed, Offset
      <3>2. reader'.pc = "count" /\ a + PageSize < Len(Matching)
        BY <2>1, <2>5, <2>6
      <3> HIDE DEF a, more, Matching
      <3> QED BY <1>m, <1>4, <2>2, <2>4, <3>1, <3>2 DEF Reading
    <2>7. CASE ~more
      <3>1. reader'.pc = "done" /\ ~(a + PageSize < Len(Matching))
        BY <2>1, <2>5, <2>7
      <3>2. reader'.got = Matching
        <4> HIDE DEF a
        <4> QED BY <1>m, <2>4, <3>1, SubSeqFull
      <3> QED BY <1>4, <3>1, <3>2 DEF Reading
    <2> QED BY <2>6, <2>7
  <1>7. CASE tokopediaSearch
    <2> DEFINE a == DecodeToken(reader.token)
               rows == Slice(Matching, PageSize + 1, a)
               more == Len(rows) > PageSize
    <2>0. reader.pc = "search"
      BY <1>7 DEF tokopediaSearch
    <2>2. PageSize \in Nat \ {0} /\ a \in Nat /\ Passed = a
      BY <2>0, ReaderFields DEF Reading, Passed
    <2>3. a \in 0 .. Len(Matching) /\ reader.got = SubSeq(Matching, 1, a)
      <3> HIDE DEF a
      <3> QED BY <1>m, <1>3, <2>0, <2>2 DEF Reading
    <2>r. rows \in Seq(Rows) /\ Len(rows) \in Nat /\ a + Len(rows) <= Len(Matching)
      <3> DEFINE limit == PageSize + 1
      <3>1. limit \in Nat
        BY <2>2
      <3>2. /\ Slice(Matching, limit, a) \in Seq(Rows)
            /\ Len(Slice(Matching, limit, a)) = IF a + limit < Len(Matching) THEN limit ELSE Len(Matching) - a
        <4>1. a \in Nat /\ a <= Len(Matching) /\ Matching \in Seq(Rows)
          BY <1>m, <2>2, <2>3
        <4> HIDE DEF a, limit, rows
        <4> QED BY <3>1, <4>1, SliceFacts
      <3>3. rows = Slice(Matching, limit, a)
        OBVIOUS
      <3> HIDE DEF a, limit, rows, Slice, Matching
      <3> QED BY <1>m, <2>2, <2>3, <3>1, <3>2, <3>3
    <2>p. PICK n \in 0 .. Len(rows) :
            /\ reader' = [reader EXCEPT !.pc = IF n > PageSize THEN "search" ELSE "done",
                                        !.token = IF n > PageSize THEN EncodeToken(a + PageSize) ELSE @,
                                        !.got = @ \o SubSeq(rows, 1, IF n > PageSize THEN PageSize ELSE n)]
            /\ lost' = lost \cup IF n < Len(rows) THEN Behind(Matching, a + n) ELSE {}
      BY <1>7, Zenon DEF tokopediaSearch, Limit
    <2>q. n = Len(rows) /\ SubSeq(rows, 1, n) = rows
      <3>1. n < Len(rows) => Behind(Matching, a + n) = {}
        <4> HIDE DEF rows, a, Matching
        <4> QED BY <2>p
      <3>2. n < Len(rows) => a + n + 1 \in 1 .. Len(Matching) /\ a + n + 1 > a + n /\ a + n \in 0 .. Len(Matching)
        <4> HIDE DEF rows, a, Matching
        <4> QED BY <1>m, <2>2, <2>r, <2>p
      <3>3. ~(n < Len(rows))
        <4> DEFINE e == a + n
        <4>1. n < Len(rows) => e + 1 \in 1 .. Len(Matching) /\ e + 1 > e /\ e \in 0 .. Len(Matching) /\ Behind(Matching, e) = {}
          <5> HIDE DEF rows, a, Matching
          <5> QED BY <3>1, <3>2
        <4> HIDE DEF e, rows, Matching
        <4> QED BY <1>m, <4>1, PrefixFacts
      <3>4. n = Len(rows)
        <4> HIDE DEF rows
        <4> QED BY <2>r, <3>3
      <3> HIDE DEF rows
      <3> QED BY <2>r, <3>4, SubSeqFull
    <2>1. /\ reader.pc = "search" /\ reader'.pc = (IF more THEN "search" ELSE "done")
          /\ reader'.token = (IF more THEN EncodeToken(a + PageSize) ELSE reader.token)
          /\ reader'.got = reader.got \o IF more THEN SubSeq(rows, 1, PageSize) ELSE rows
      <3> HIDE DEF rows, a, PageSize
      <3> QED BY <2>0, <2>p, <2>q DEF TypeOK
    <2>4. /\ more <=> a + PageSize < Len(Matching)
          /\ (IF more THEN SubSeq(rows, 1, PageSize) ELSE rows) = Slice(Matching, PageSize, a)
      <3>1. /\ more <=> a + PageSize < Len(Matching)
            /\ a + PageSize < Len(Matching) => SubSeq(rows, 1, PageSize) = Slice(Matching, PageSize, a)
            /\ a + PageSize >= Len(Matching) => rows = Slice(Matching, PageSize, a)
        <4> HIDE DEF a, PageSize, Slice
        <4> QED BY <1>m, <2>2, <2>3, ProbeFacts
      <3> HIDE DEF a, rows, more, Slice
      <3> QED BY <1>m, <2>2, <3>1
    <2>5. reader'.got = SubSeq(Matching, 1, IF a + PageSize < Len(Matching) THEN a + PageSize ELSE Len(Matching))
      <3>1. reader'.got = SubSeq(Matching, 1, a) \o Slice(Matching, PageSize, a)
        <4> HIDE DEF a, rows, more, Slice
        <4> QED BY <2>1, <2>3, <2>4
      <3> HIDE DEF a, PageSize, Slice
      <3> QED BY <1>m, <2>2, <2>3, <3>1, SliceExtends
    <2>6. CASE more
      <3>1. reader'.pc = "search" /\ Passed' = a + PageSize /\ a + PageSize < Len(Matching)
        <4>1. reader'.pc = "search" /\ reader'.token = EncodeToken(a + PageSize)
          BY <2>1, <2>6
        <4>2. DecodeToken(reader'.token) = a + PageSize
          BY <4>1 DEF DecodeToken, EncodeToken
        <4>3. a + PageSize < Len(Matching)
          <5> HIDE DEF a, rows, more
          <5> QED BY <2>4, <2>6
        <4> QED BY <4>1, <4>2, <4>3 DEF Passed
      <3> HIDE DEF a, more, Matching
      <3> QED BY <1>m, <1>4, <2>2, <2>5, <3>1 DEF Reading
    <2>7. CASE ~more
      <3>1. reader'.pc = "done" /\ ~(a + PageSize < Len(Matching))
        <4> HIDE DEF a, rows, more
        <4> QED BY <2>1, <2>4, <2>7
      <3>2. reader'.got = Matching
        <4> HIDE DEF a
        <4> QED BY <1>m, <2>5, <3>1, SubSeqFull
      <3> QED BY <1>4, <3>1, <3>2 DEF Reading
    <2> QED BY <2>6, <2>7
  <1>f. CASE listFails
    BY <1>f DEF listFails, TypeOK, Reading
  <1>8. CASE UNCHANGED vars
    <2>1. reader' = reader
      BY <1>8 DEF vars
    <2>2. Passed' = Passed /\ Reading' = Reading
      BY <2>1, <1>4 DEF Passed, Offset, Reading
    <2> HIDE DEF Matching
    <2> QED BY <1>3, <1>4, <2>1, <2>2
  <1> QED BY <1>2, <1>5, <1>6, <1>7, <1>8, <1>f

(* A filter selects the rows that are shown as it says: the two tables of the         *)
(* Tokopedia projection are inverse to each other.                                    *)
LEMMA FilterIsExact ==
  ASSUME TypeOK, NEW status \in StatusesOf(query.listing)
  PROVE  Matches(status) <=> (query.filter = "any" \/ Shown(status) = query.filter)
  <1>1. CASE query.listing # "tokopediaListOrders"
    BY <1>1 DEF Matches, Shown
  <1>2. CASE query.listing = "tokopediaListOrders"
    <2>1. status \in OrderStatus
      BY <1>2 DEF StatusesOf, OfOrders
    <2>2. query.filter \in {"any", "unsupported"} \cup {tokopediaOrderStatus(s) : s \in OrderStatus}
      BY <1>2 DEF TypeOK, FiltersOf
    <2>3. CASE query.filter = "any"
      BY <2>3 DEF Matches
    <2>4. CASE query.filter = "unsupported"
      <3>1. CanonicalOrderStatuses(query.filter) = {}
        BY <2>4 DEF CanonicalOrderStatuses
      <3>2. tokopediaOrderStatus(status) # "unsupported"
        BY <2>1 DEF tokopediaOrderStatus, OrderStatus
      <3> QED BY <1>2, <2>4, <3>1, <3>2 DEF Matches, Shown
    <2>5. ASSUME NEW s \in OrderStatus, query.filter = tokopediaOrderStatus(s)
          PROVE  status \in CanonicalOrderStatuses(query.filter) <=> tokopediaOrderStatus(status) = query.filter
      BY <2>1, <2>5 DEF tokopediaOrderStatus, CanonicalOrderStatuses, OrderStatus
    <2>6. ASSUME NEW s \in OrderStatus, query.filter = tokopediaOrderStatus(s)
          PROVE  query.filter # "any"
      BY <2>6 DEF tokopediaOrderStatus, OrderStatus
    <2>7. CASE \E s \in OrderStatus : query.filter = tokopediaOrderStatus(s)
      BY <1>2, <2>5, <2>6, <2>7 DEF Matches, Shown
    <2> QED BY <2>2, <2>3, <2>4, <2>7
  <1> QED BY <1>1, <1>2

LEMMA QuietExact ==
  TypeOK /\ QuietInv => QuietListingExact
  <1> SUFFICES ASSUME TypeOK, QuietInv, reader.pc = "done", changes = 0, lost = {}
      PROVE  reader.got =
               Sorted({i \in Existing : query.filter = "any" \/ Shown(table[i].status) = query.filter})
    BY DEF QuietListingExact
  <1>1. \A i \in Existing :
          Matches(table[i].status) <=> (query.filter = "any" \/ Shown(table[i].status) = query.filter)
    <2>1. \A i \in Existing : table[i].status \in StatusesOf(query.listing)
      BY RowFields DEF RowType
    <2> QED BY <2>1, FilterIsExact
  <1>2. Found = {i \in Existing : Matches(table[i].status)}
    BY DEF Found, Existing
  <1>3. Found = {i \in Existing : query.filter = "any" \/ Shown(table[i].status) = query.filter}
    <2> HIDE DEF Existing, Matches, Shown, Found
    <2> QED BY <1>1, <1>2
  <1>4. reader.got = Matching
    BY DEF QuietInv
  <1> QED BY <1>3, <1>4 DEF Matching

(* For every set of rows and every page size, a listing read without a change          *)
(* underneath, and without a read that failed halfway, is exactly the rows shown under *)
(* the status that was asked for.                                                      *)
THEOREM QuietListingsExact == Spec => []QuietListingExact
  <1>1. Init => TypeOK /\ QuietInv
    BY TypeInit, QuietInit
  <1>2. TypeOK /\ QuietInv /\ [Next]_vars => (TypeOK /\ QuietInv)'
    BY TypeStep, QuietStep
  <1> QED BY <1>1, <1>2, QuietExact, PTL DEF Spec

-----------------------------------------------------------------------------
(* Reading while the shop changes *)

(* A row left alone and not lost is either delivered or still ahead of the client, *)
(* as long as nothing before it left the listing or moved back behind it.          *)
SkipInv ==
  ~shrank /\ ~setback =>
    \A r \in start \ (touched \cup lost) :
       /\ r \in Found
       /\ Reading => r \in Delivered \/ Passed < Place(Found, r)
       /\ reader.pc = "done" /\ ~outgrown => r \in Delivered

LEMMA SkipInit ==
  TypeOK /\ Init => SkipInv
  <1> SUFFICES ASSUME TypeOK, Init, NEW r \in start
      PROVE  /\ r \in Found
             /\ Reading => Passed < Place(Found, r)
             /\ reader.pc # "done"
    BY DEF SkipInv
  <1>1. start = Found /\ Found \in SUBSET Rows
    BY MatchingType DEF Init
  <1>2. reader.pc # "done" /\ reader.page = 1 /\ reader.token = << >>
    BY DEF Init
  <1>3. Reading => Passed = 0
    <2>1. Reading => Offset(reader.page) = 0
      <3>1. Reading => PageSize \in Nat
        BY ReaderFields
      <3> HIDE DEF PageSize
      <3> QED BY <1>2, <3>1 DEF Offset
    <2>2. DecodeToken(reader.token) = 0
      BY <1>2 DEF DecodeToken
    <2> QED BY <2>1, <2>2 DEF Passed
  <1>4. Place(Found, r) \in 1 .. Cardinality(Found) /\ Cardinality(Found) \in Nat
    BY <1>1, PlaceRange, FiniteRows
  <1> HIDE DEF Found, Place, Passed
  <1> QED BY <1>1, <1>2, <1>3, <1>4

(* Changes push a row that is left alone further down the listing, never up. *)
LEMMA PlaceGrows ==
  ASSUME TypeOK, TypeOK', NEW new, Observed(new), ~shrank', ~setback',
         UNCHANGED query, NEW r \in Found, new[r] = table[r]
  PROVE  ~shrank /\ ~setback /\ r \in Found' /\ Place(Found, r) <= Place(Found, r)'
  <1>1. ~shrank /\ ~setback /\ Found \subseteq Found' /\ table' = new
    BY DEF Observed
  <1>2. \A i \in Rows : ~(Exists(i) /\ new[i] # NoRow /\ new[i].at < table[i].at)
    BY DEF Observed
  <1>3. r \in Found' /\ Found \in SUBSET Rows /\ Found' \in SUBSET Rows
    BY <1>1 DEF Found
  <1>4. ASSUME NEW j \in Found, Precedes(j, r)
        PROVE  Precedes(j, r)'
    <2>1. Exists(j) /\ Exists(j)' /\ j \in Rows /\ r \in Rows
      BY <1>1 DEF Found
    <2>2. ~(new[j].at < table[j].at)
      BY <1>1, <1>2, <2>1 DEF Exists
    <2>3. /\ table[j].at \in Int /\ table[r].at \in Int /\ new[j].at \in Int
          /\ j \in Nat /\ r \in Nat
      <3>1. table[j] \in RowType /\ table[r] \in RowType /\ table'[j] \in RowType'
        BY <2>1 DEF TypeOK, Exists, Found
      <3> QED BY <1>1, <2>1, <3>1, ListingAssumption DEF RowType
    <2>4. table'[r].at = table[r].at /\ table'[j].at >= table[j].at /\ table'[j].at \in Int
      BY <1>1, <2>2, <2>3
    <2> QED BY <1>4, <2>3, <2>4 DEF Precedes
  <1> DEFINE before == {j \in Found : j = r \/ Precedes(j, r)}
             after == {j \in Found' : j = r \/ Precedes(j, r)'}
  <1>5. before \in SUBSET after
    BY <1>1, <1>4
  <1>6. IsFiniteSet(after) /\ Cardinality(after) \in Nat
    <2>1. after \in SUBSET Rows
      BY <1>3
    <2> HIDE DEF after
    <2> QED BY <2>1, FiniteRows
  <1>7. Cardinality(before) <= Cardinality(after)
    <2> HIDE DEF before, after
    <2> QED BY <1>5, <1>6, FS_Subset
  <1>8. Place(Found, r) = Cardinality(before) /\ Place(Found, r)' = Cardinality(after)
    BY DEF Place
  <1> HIDE DEF before, after
  <1> QED BY <1>1, <1>3, <1>7, <1>8

LEMMA ChangeKeepsSkipInv ==
  ASSUME TypeOK, TypeOK', SkipInv, Change, NEW new, Observed(new),
         touched \subseteq touched', \A r \in Found \ touched' : new[r] = table[r]
  PROVE  SkipInv'
  <1>1. UNCHANGED <<query, reader, start, outgrown, lost>> /\ Reading
    BY DEF Change
  <1>2. Passed' = Passed /\ Delivered' = Delivered
    BY <1>1 DEF Passed, Offset, PageSize, Delivered
  <1> SUFFICES ASSUME ~shrank', ~setback', NEW r \in start' \ (touched \cup lost)'
      PROVE  r \in Found' /\ (r \in Delivered \/ Passed < Place(Found, r)') /\ reader'.pc # "done"
    BY <1>2 DEF SkipInv
  <1>3. ~shrank /\ ~setback /\ r \in start \ (touched \cup lost)
    BY <1>1 DEF Observed
  <1>4. r \in Found /\ (r \in Delivered \/ Passed < Place(Found, r))
    BY <1>1, <1>3 DEF SkipInv
  <1>5. r \in Found' /\ Place(Found, r) <= Place(Found, r)'
    BY <1>1, <1>4, PlaceGrows
  <1>6. Passed \in Int /\ Place(Found, r) \in Int /\ Place(Found, r)' \in Int
    <2>1. Passed \in Int
      BY <1>1, ReaderFields DEF Passed
    <2>2. Found \in SUBSET Rows /\ Found' \in SUBSET Rows
      BY DEF Found
    <2>3. {j \in Found : j = r \/ Precedes(j, r)} \in SUBSET Rows
      BY <2>2
    <2>4. {j \in Found' : j = r \/ Precedes(j, r)'} \in SUBSET Rows
      BY <2>2
    <2> QED BY <2>1, <2>3, <2>4, FiniteRows DEF Place
  <1>7. reader'.pc # "done"
    BY <1>1 DEF Reading
  <1> HIDE DEF Place, Passed, Delivered, Found
  <1> QED BY <1>4, <1>5, <1>6, <1>7

(* What is read of a page is put behind what was delivered before. *)
LEMMA PageDelivers ==
  ASSUME TypeOK, NEW rows \in Seq(Rows), NEW n \in 0 .. Len(rows),
         reader'.got = reader.got \o SubSeq(rows, 1, n)
  PROVE  Delivered \subseteq Delivered' /\ \A j \in 1 .. n : rows[j] \in Delivered'
  <1> DEFINE part == SubSeq(rows, 1, n)
             got == reader.got
  <1>1. got \in Seq(Rows) /\ Len(got) \in Nat
    BY ReaderFields, LenProperties
  <1>2. part \in Seq(Rows) /\ Len(part) = n /\ n \in Nat /\ \A j \in 1 .. n : part[j] = rows[j]
    BY PrefixFacts, LenProperties
  <1> HIDE DEF part
  <1>3. /\ DOMAIN (got \o part) = 1 .. Len(got) + n
        /\ \A k \in 1 .. Len(got) + n :
             (got \o part)[k] = IF k <= Len(got) THEN got[k] ELSE part[k - Len(got)]
    <2>1. /\ got \o part \in Seq(Rows) /\ Len(got \o part) = Len(got) + Len(part)
          /\ \A k \in 1 .. Len(got) + Len(part) :
               (got \o part)[k] = IF k <= Len(got) THEN got[k] ELSE part[k - Len(got)]
      <3> HIDE DEF got
      <3> QED BY <1>1, <1>2, ConcatProperties
    <2> DEFINE all == got \o part
    <2>2. DOMAIN all = 1 .. Len(all)
      <3> HIDE DEF all
      <3> QED BY <2>1, LenProperties DEF all
    <2> HIDE DEF got, all
    <2> QED BY <1>2, <2>1, <2>2 DEF all
  <1>4. Delivered' = {(got \o part)[k] : k \in DOMAIN (got \o part)}
    BY DEF Delivered, part
  <1>5. ASSUME NEW r \in Delivered
        PROVE  r \in Delivered'
    <2>1. PICK k \in DOMAIN got : got[k] = r
      BY DEF Delivered
    <2>2. k \in 1 .. Len(got) + n /\ k <= Len(got)
      BY <1>1, <1>2, <2>1
    <2> HIDE DEF got
    <2> QED BY <1>3, <1>4, <2>1, <2>2
  <1>6. ASSUME NEW j \in 1 .. n
        PROVE  rows[j] \in Delivered'
    <2> DEFINE k == Len(got) + j
    <2>1. k \in 1 .. Len(got) + n /\ ~(k <= Len(got)) /\ k - Len(got) = j
      BY <1>1, <1>2
    <2>2. (got \o part)[k] = rows[j]
      <3> HIDE DEF got, k
      <3> QED BY <1>2, <1>3, <2>1
    <2> HIDE DEF got, k
    <2> QED BY <1>3, <1>4, <2>1, <2>2
  <1> QED BY <1>5, <1>6

LEMMA SkipStep ==
  TypeOK /\ TypeOK' /\ SkipInv /\ [Next]_vars => SkipInv'
  <1> SUFFICES ASSUME TypeOK, TypeOK', SkipInv, [Next]_vars PROVE SkipInv'
    OBVIOUS
  <1>m. /\ Found \in SUBSET Rows /\ Len(Matching) = Cardinality(Found) /\ Len(Matching) \in Nat
        /\ Matching \in Seq(Rows)
    BY MatchingType
  <1>p. \A r \in Found : Place(Found, r) \in 1 .. Len(Matching)
    BY <1>m, PlaceRange
  (* A step of the client over the n places behind a. *)
  <1>0. ASSUME NEW n \in Nat, NEW a \in Nat, Passed = a, Reading,
               Delivered \subseteq Delivered', lost \subseteq lost',
               \A k \in a + 1 .. a + n : k <= Len(Matching) => Matching[k] \in Delivered' \cup lost',
               UNCHANGED <<query, table, start, touched, shrank, setback>>,
               Reading' => Passed' = a + n,
               reader'.pc = "done" /\ ~outgrown' =>
                 \A k \in 1 .. Len(Matching) : k > a + n => Matching[k] \in lost'
        PROVE  SkipInv'
    <2>1. Found' = Found /\ \A r : Place(Found, r)' = Place(Found, r)
      BY <1>0, SameListing
    <2> SUFFICES ASSUME ~shrank, ~setback, NEW r \in start \ (touched \cup lost')
        PROVE  /\ r \in Found
               /\ Reading' => r \in Delivered' \/ Passed' < Place(Found, r)
               /\ reader'.pc = "done" /\ ~outgrown' => r \in Delivered'
      <3> HIDE DEF Found, Place, Passed, Delivered, Reading
      <3> QED BY <1>0, <2>1 DEF SkipInv
    <2>2. r \in Found /\ (r \in Delivered \/ a < Place(Found, r))
      BY <1>0 DEF SkipInv
    <2>3. Place(Found, r) \in 1 .. Len(Matching) /\ Matching[Place(Found, r)] = r
      BY <1>m, <1>p, <2>2, SortedFacts, MatchingType DEF Matching
    <2>4. CASE r \in Delivered
      BY <1>0, <2>2, <2>4
    <2>5. CASE a < Place(Found, r) /\ Place(Found, r) <= a + n
      <3>1. Place(Found, r) \in a + 1 .. a + n /\ Place(Found, r) <= Len(Matching)
        BY <1>m, <2>3, <2>5
      <3>2. r \in Delivered'
        <4> HIDE DEF Place, Delivered, Found
        <4> QED BY <1>0, <2>3, <3>1
      <3> QED BY <2>2, <3>2
    <2>6. CASE a + n < Place(Found, r)
      <3>1. Place(Found, r) > a + n
        BY <1>m, <2>3, <2>6
      <3>2. ~(reader'.pc = "done" /\ ~outgrown')
        BY <1>0, <2>3, <3>1
      <3>3. Reading' => Passed' < Place(Found, r)
        BY <1>0, <2>6
      <3> QED BY <2>2, <3>2, <3>3
    <2>7. a < Place(Found, r) => Place(Found, r) <= a + n \/ a + n < Place(Found, r)
      BY <1>m, <2>3
    <2> QED BY <2>2, <2>4, <2>5, <2>6, <2>7
  <1>1. CASE shopeeCount
    <2>1. /\ UNCHANGED <<query, table, start, touched, shrank, setback, outgrown, lost>>
          /\ reader.pc = "count" /\ reader'.pc = "page"
          /\ reader'.page = reader.page /\ reader'.got = reader.got
      BY <1>1 DEF shopeeCount, ghosts, TypeOK
    <2>2. Found' = Found /\ PageSize' = PageSize /\ \A r : Place(Found, r)' = Place(Found, r)
      BY <2>1, SameListing
    <2>3. Passed' = Passed /\ Delivered' = Delivered /\ Reading /\ reader'.pc # "done"
      BY <2>1, <2>2 DEF Passed, Offset, Delivered, Reading
    <2> HIDE DEF Found, Place, Passed, Delivered
    <2> QED BY <2>1, <2>2, <2>3 DEF SkipInv
  <1>2. CASE shopeePage
    <2> DEFINE a == Offset(reader.page)
               more == reader.page * PageSize < reader.total
               rows == Slice(Matching, PageSize, a)
    <2>u. UNCHANGED <<query, table, start, touched, shrank, setback>> /\ reader.pc = "page"
      <3>1. UNCHANGED <<query, table, start, touched, shrank, setback, changes>>
        BY <1>2, ReadingChangesNothing
      <3>2. reader.pc = "page"
        BY <1>2 DEF shopeePage
      <3> QED BY <3>1, <3>2
    <2>p. PICK n \in 0 .. Len(rows) :
            /\ reader' = [reader EXCEPT !.pc = IF more THEN "count" ELSE "done",
                                        !.page = IF more THEN @ + 1 ELSE @, !.got = @ \o SubSeq(rows, 1, n)]
            /\ outgrown' = (~more /\ Len(Matching) > reader.total)
            /\ lost' = lost \cup Behind(rows, n)
      BY <1>2, Zenon DEF shopeePage
    <2>2. /\ PageSize \in Nat /\ a \in Nat /\ Passed = a /\ Reading /\ PageSize' = PageSize
          /\ reader.total \in Nat /\ reader.page * PageSize = a + PageSize
      BY <2>u, ReaderFields, OffsetStep, SameListing DEF Reading, Passed
    <2>1. /\ reader'.pc = (IF more THEN "count" ELSE "done")
          /\ reader'.page = (IF more THEN reader.page + 1 ELSE reader.page)
          /\ reader'.got = reader.got \o SubSeq(rows, 1, n)
      <3> HIDE DEF more, a, rows
      <3> QED BY <2>p DEF TypeOK
    <2>3. Reading' => Passed' = a + PageSize
      <3>1. Reading' => more
        BY <2>1 DEF Reading
      <3>2. more => Passed' = Offset(reader.page + 1)
        BY <2>1, <2>2 DEF Passed, Offset
      <3>3. Offset(reader.page + 1) = a + PageSize
        BY <2>2, OffsetStep
      <3> QED BY <3>1, <3>2, <3>3
    <2>4. reader'.pc = "done" /\ ~outgrown' => Len(Matching) <= a + PageSize
      <3> SUFFICES ASSUME reader'.pc = "done", ~outgrown' PROVE Len(Matching) <= a + PageSize
        OBVIOUS
      <3>1. ~more /\ ~(Len(Matching) > reader.total)
        <4>1. ~more
          BY <2>1
        <4> HIDE DEF more
        <4> QED BY <2>p, <4>1, Zenon
      <3> HIDE DEF a, PageSize, Matching
      <3> QED BY <1>m, <2>2, <3>1
    <2>5. reader'.pc = "done" /\ ~outgrown' =>
            \A k \in 1 .. Len(Matching) : k > a + PageSize => Matching[k] \in lost'
      <3> HIDE DEF a, PageSize
      <3> QED BY <1>m, <2>2, <2>4
    <2>6. /\ rows \in Seq(Rows)
          /\ \A k \in a + 1 .. a + PageSize : k <= Len(Matching) =>
               k - a \in 1 .. Len(rows) /\ rows[k - a] = Matching[k]
      <3> HIDE DEF a, PageSize
      <3> QED BY <1>m, <2>2, SliceFacts
    <2> HIDE DEF rows
    <2>7. Delivered \subseteq Delivered' /\ \A j \in 1 .. n : rows[j] \in Delivered'
      BY <2>1, <2>6, <2>p, PageDelivers
    <2>8. lost \subseteq lost' /\ \A j \in 1 .. Len(rows) : j > n => rows[j] \in lost'
      BY <2>6, <2>p, PrefixFacts
    <2>9. ASSUME NEW k \in a + 1 .. a + PageSize, k <= Len(Matching)
          PROVE  Matching[k] \in Delivered' \cup lost'
      <3> DEFINE j == k - a
      <3>1. j \in 1 .. Len(rows) /\ rows[j] = Matching[k]
        BY <2>6, <2>9
      <3>2. j \in 1 .. n \/ j > n
        <4> HIDE DEF j
        <4> QED BY <2>6, <2>p, <3>1, LenProperties
      <3> HIDE DEF j, Delivered
      <3> QED BY <2>7, <2>8, <3>1, <3>2
    <2> HIDE DEF a, PageSize, more
    <2> QED BY <1>0, <2>u, <2>2, <2>3, <2>5, <2>7, <2>8, <2>9
  <1>3. CASE tokopediaSearch
    <2> DEFINE a == DecodeToken(reader.token)
               m == PageSize + 1
               rows == Slice(Matching, m, a)
               kept(n) == IF n > PageSize THEN PageSize ELSE n
    <2>u. UNCHANGED <<query, table, start, touched, shrank, setback>> /\ reader.pc = "search"
      <3>1. UNCHANGED <<query, table, start, touched, shrank, setback, changes>>
        BY <1>3, ReadingChangesNothing
      <3>2. reader.pc = "search"
        BY <1>3 DEF tokopediaSearch
      <3> QED BY <3>1, <3>2
    <2>p. PICK n \in 0 .. Len(rows) :
            /\ reader' = [reader EXCEPT !.pc = IF n > PageSize THEN "search" ELSE "done",
                                        !.token = IF n > PageSize THEN EncodeToken(a + PageSize) ELSE @,
                                        !.got = @ \o SubSeq(rows, 1, kept(n))]
            /\ lost' = lost \cup IF n < Len(rows) THEN Behind(Matching, a + n) ELSE {}
      BY <1>3, Zenon DEF tokopediaSearch, Limit
    <2>2. PageSize \in Nat \ {0} /\ a \in Nat /\ Passed = a /\ Reading /\ m \in Nat /\ m = PageSize + 1
      BY <2>u, ReaderFields DEF Reading, Passed
    <2>1. /\ reader'.pc = (IF n > PageSize THEN "search" ELSE "done")
          /\ reader'.token = (IF n > PageSize THEN EncodeToken(a + PageSize) ELSE reader.token)
          /\ reader'.got = reader.got \o SubSeq(rows, 1, kept(n))
      <3> HIDE DEF a, rows, kept, PageSize
      <3> QED BY <2>p DEF TypeOK
    <2>3. /\ rows \in Seq(Rows) /\ Len(rows) \in Nat
          /\ \A k \in a + 1 .. a + m : k <= Len(Matching) =>
               k - a \in 1 .. Len(rows) /\ rows[k - a] = Matching[k]
      <3> HIDE DEF a, PageSize, m
      <3> QED BY <1>m, <2>2, SliceFacts, LenProperties
    <2>4. Reading' => Passed' = a + PageSize
      <3>1. Reading' => reader'.pc = "search" /\ n > PageSize
        BY <2>1 DEF Reading
      <3>2. n > PageSize => DecodeToken(reader'.token) = a + PageSize
        BY <2>1 DEF DecodeToken, EncodeToken
      <3> QED BY <3>1, <3>2 DEF Passed
    <2> HIDE DEF rows, m, a
    <2>5. kept(n) \in 0 .. Len(rows) /\ n \in Nat
      <3> HIDE DEF PageSize
      <3> QED BY <2>2, <2>3, <2>p
    <2>6. Delivered \subseteq Delivered' /\ \A j \in 1 .. kept(n) : rows[j] \in Delivered'
      <3> HIDE DEF kept
      <3> QED BY <2>1, <2>3, <2>5, PageDelivers
    <2>7. /\ lost \subseteq lost'
          /\ n < Len(rows) => \A k \in 1 .. Len(Matching) : k > a + n => Matching[k] \in lost'
      <3>1. lost \subseteq lost' /\ (n < Len(rows) => Behind(Matching, a + n) \subseteq lost')
        BY <2>p
      <3>2. \A k \in 1 .. Len(Matching) : k > a + n => Matching[k] \in Behind(Matching, a + n)
        BY <1>m, <2>2, <2>5 DEF Behind
      <3> QED BY <3>1, <3>2
    <2>8. ASSUME NEW k \in a + 1 .. a + PageSize, k <= Len(Matching)
          PROVE  Matching[k] \in Delivered' \cup lost'
      <3> DEFINE j == k - a
      <3>1. j \in 1 .. Len(rows) /\ rows[j] = Matching[k] /\ j <= PageSize /\ k = a + j /\ k \in 1 .. Len(Matching)
        <4> HIDE DEF PageSize
        <4>1. k \in a + 1 .. a + m /\ k \in 1 .. Len(Matching) /\ j <= PageSize /\ k = a + j
          BY <1>m, <2>2, <2>8
        <4> QED BY <2>3, <2>8, <4>1
      <3> HIDE DEF j
      <3>2. j \in 1 .. kept(n) \/ (n < Len(rows) /\ k > a + n)
        <4> HIDE DEF PageSize
        <4> QED BY <2>2, <2>3, <2>5, <3>1
      <3> HIDE DEF Delivered, kept
      <3> QED BY <2>6, <2>7, <3>1, <3>2
    <2>9. reader'.pc = "done" => \A k \in 1 .. Len(Matching) : k > a + PageSize => Matching[k] \in lost'
      <3> SUFFICES ASSUME reader'.pc = "done", NEW k \in 1 .. Len(Matching), k > a + PageSize
          PROVE  Matching[k] \in lost'
        OBVIOUS
      <3>1. ~(n > PageSize)
        BY <2>1
      <3> DEFINE e == a + m
      <3>2. e \in a + 1 .. a + m /\ e <= Len(Matching) /\ e - a = m /\ k > a + n
        <4> HIDE DEF PageSize
        <4> QED BY <1>m, <2>2, <2>5, <3>1
      <3>3. m \in 1 .. Len(rows)
        <4> HIDE DEF e
        <4> QED BY <2>3, <3>2
      <3>4. n < Len(rows)
        <4> HIDE DEF PageSize
        <4> QED BY <2>2, <2>3, <2>5, <3>1, <3>3
      <3> QED BY <2>7, <3>2, <3>4
    <2>10. PageSize \in Nat
      BY <2>2
    <2> HIDE DEF PageSize
    <2> QED BY <1>0, <2>u, <2>2, <2>4, <2>6, <2>7, <2>8, <2>9, <2>10
  <1>f. CASE listFails
    <2>1. /\ UNCHANGED <<query, table, start, touched, shrank, setback, lost>>
          /\ Reading /\ reader'.pc = "failed"
      BY <1>f DEF listFails, ghosts, TypeOK
    <2>2. Found' = Found
      BY <2>1, SameListing
    <2>3. ~Reading'
      BY <2>1 DEF Reading
    <2> HIDE DEF Found, Place, Passed, Delivered, Reading
    <2> QED BY <2>1, <2>2, <2>3 DEF SkipInv
  <1>4. CASE \E i \in Rows : Create(i)
    <2>1. PICK i \in Rows : Create(i)
      BY <1>4
    <2> DEFINE New(at) == [table EXCEPT ![i] =
                 [status |-> IF OfOrders(query.listing) THEN "UNPAID" ELSE "ACTIVE", at |-> at]]
    <2>2. PICK at \in Instants : Observed(New(at))
      BY <2>1 DEF Create
    <2>3. Change /\ touched' = touched \cup {i}
      BY <2>1 DEF Create
    <2>4. \A r \in Found \ touched' : New(at)[r] = table[r]
      BY <2>3
    <2> HIDE DEF New
    <2> QED BY <2>2, <2>3, <2>4, ChangeKeepsSkipInv
  <1>5. CASE \E i \in Existing : ChangeProduct(i)
    <2>1. PICK i \in Existing : ChangeProduct(i)
      BY <1>5
    <2> DEFINE New(status, at) == [table EXCEPT ![i] = [status |-> status, at |-> at]]
    <2>2. PICK status \in ProductStatus, at \in Instants : Observed(New(status, at))
      BY <2>1 DEF ChangeProduct
    <2>3. Change /\ touched' = touched \cup {i}
      BY <2>1 DEF ChangeProduct
    <2>4. \A r \in Found \ touched' : New(status, at)[r] = table[r]
      BY <2>3
    <2> HIDE DEF New
    <2> QED BY <2>2, <2>3, <2>4, ChangeKeepsSkipInv
  <1>6. CASE \E i \in Existing : ArchiveProduct(i)
    <2>1. PICK i \in Existing : ArchiveProduct(i)
      BY <1>6
    <2> DEFINE new == [table EXCEPT ![i] = NoRow]
    <2>2. Change /\ touched' = touched \cup {i} /\ Observed(new)
      BY <2>1 DEF ArchiveProduct
    <2>3. \A r \in Found \ touched' : new[r] = table[r]
      BY <2>2
    <2> HIDE DEF new
    <2> QED BY <2>2, <2>3, ChangeKeepsSkipInv
  <1>7. CASE \E i \in Existing : ChangeOrder(i)
    <2>1. PICK i \in Existing : ChangeOrder(i)
      BY <1>7
    <2> DEFINE New(status) == [table EXCEPT ![i].status = status]
    <2>2. PICK status \in OrderStatus : Observed(New(status))
      BY <2>1 DEF ChangeOrder
    <2>3. Change /\ touched' = touched \cup {i}
      BY <2>1 DEF ChangeOrder
    <2>4. \A r \in Found \ touched' : New(status)[r] = table[r]
      BY <2>3
    <2> HIDE DEF New
    <2> QED BY <2>2, <2>3, <2>4, ChangeKeepsSkipInv
  <1>8. CASE \E seed \in SUBSET Rows : resetShopData(seed)
    <2>1. PICK seed \in SUBSET Rows : resetShopData(seed)
      BY <1>8
    <2> DEFINE New(now) == [i \in Rows |->
                 IF i \notin seed THEN NoRow
                 ELSE IF OfOrders(query.listing) THEN [status |-> "COMPLETED", at |-> now - i]
                 ELSE [status |-> "ACTIVE", at |-> now]]
    <2>2. PICK now \in Instants : Observed(New(now))
      BY <2>1 DEF resetShopData
    <2>3. Change /\ touched' = touched \cup seed \cup Existing
      BY <2>1 DEF resetShopData
    <2>4. Found \subseteq touched'
      BY <2>3 DEF Found, Existing
    <2> HIDE DEF New
    <2> QED BY <2>2, <2>3, <2>4, ChangeKeepsSkipInv
  <1>9. CASE UNCHANGED vars
    <2>1. UNCHANGED <<query, table, reader, start, touched, shrank, setback, outgrown, lost>>
      BY <1>9 DEF vars, ghosts
    <2>2. Found' = Found /\ PageSize' = PageSize /\ \A r : Place(Found, r)' = Place(Found, r)
      BY <2>1, SameListing
    <2>3. Passed' = Passed /\ Delivered' = Delivered /\ Reading' = Reading
      BY <2>1, <2>2 DEF Passed, Offset, Delivered, Reading
    <2> HIDE DEF Found, Place, Passed, Delivered, Reading
    <2> QED BY <2>1, <2>2, <2>3 DEF SkipInv
  <1> QED BY <1>1, <1>2, <1>3, <1>4, <1>5, <1>6, <1>7, <1>8, <1>9, <1>f DEF Next

(* For any set of rows, any page size, any number of changes with any instants and any  *)
(* number of failed reads, a row that was left alone is missed only when a row left the *)
(* listing, an older instant was committed late, the listing outgrew its count, or a    *)
(* read that failed halfway kept this row from the client.                              *)
THEOREM SkippedRowsExplained == Spec => []SkippedRowsHaveCause
  <1>1. Init => TypeOK /\ SkipInv
    BY TypeInit, SkipInit
  <1>2. TypeOK /\ SkipInv /\ [Next]_vars => (TypeOK /\ SkipInv)'
    BY TypeStep, SkipStep
  <1>3. SkipInv => SkippedRowsHaveCause
    BY DEF SkipInv, SkippedRowsHaveCause
  <1> QED BY <1>1, <1>2, <1>3, PTL DEF Spec

=============================================================================
