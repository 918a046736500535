------------------------- MODULE CleanVerdictProofs -------------------------
(***************************************************************************)
(* What a clean verdict is worth: CleanMeansSameRows, for any number of    *)
(* runs, lines, contents and storage faults.                               *)
(***************************************************************************)
EXTENDS BronzeAuditProofs, MerkleProofs

-----------------------------------------------------------------------------
(* What the text of a row tells of its columns, for any number of features *)
(* and any values.                                                         *)

\* The columns of cols up to i.
UpTo(cols, i) == {h \in cols : h <= i}

\* A later column has more columns up to it.
LEMMA PlacesGrow ==
  ASSUME NEW cols \in SUBSET Nat, IsFiniteSet(cols), NEW i \in cols, NEW k \in cols, i < k
  PROVE  Cardinality(UpTo(cols, i)) < Cardinality(UpTo(cols, k))
<1>0. i \in Nat /\ k \in Nat
  OBVIOUS
<1>1. UpTo(cols, i) \in SUBSET UpTo(cols, k) /\ UpTo(cols, k) \in SUBSET cols
  <2>1. \A h \in cols : h \in Nat
    OBVIOUS
  <2>2. \A h \in cols : h <= i => h <= k
    BY <1>0, <2>1
  <2>. QED
    BY <2>2 DEF UpTo
<1>2. k \in UpTo(cols, k) /\ k \notin UpTo(cols, i)
  BY <1>0 DEF UpTo
<1>3. IsFiniteSet(UpTo(cols, k))
  BY <1>1, FS_Subset
<1>4. /\ Cardinality(UpTo(cols, i)) <= Cardinality(UpTo(cols, k))
      /\ Cardinality(UpTo(cols, i)) # Cardinality(UpTo(cols, k))
  BY <1>1, <1>2, <1>3, FS_Subset
<1>5. Cardinality(UpTo(cols, i)) \in Nat /\ Cardinality(UpTo(cols, k)) \in Nat
  BY <1>1, <1>3, FS_Subset, FS_CardinalityType
<1>. QED
  BY <1>4, <1>5

\* Every column of a set has a place in it.
LEMMA NthOfPlace ==
  ASSUME NEW cols \in SUBSET Nat, IsFiniteSet(cols), NEW i \in cols
  PROVE  /\ Cardinality(UpTo(cols, i)) \in 1 .. Cardinality(cols)
         /\ Nth(cols, Cardinality(UpTo(cols, i))) = i
<1>1. UpTo(cols, i) \in SUBSET cols /\ i \in UpTo(cols, i)
  BY DEF UpTo
<1>2. /\ IsFiniteSet(UpTo(cols, i))
      /\ Cardinality(UpTo(cols, i)) <= Cardinality(cols)
  BY <1>1, FS_Subset
<1>3. /\ Cardinality(UpTo(cols, i)) \in Nat /\ Cardinality(cols) \in Nat
      /\ Cardinality(UpTo(cols, i)) # 0
  BY <1>1, <1>2, FS_CardinalityType, FS_EmptySet
<1>4. ASSUME NEW k \in cols, Cardinality(UpTo(cols, k)) = Cardinality(UpTo(cols, i))
      PROVE  k = i
  <2>1. ~(k < i) /\ ~(i < k)
    BY <1>3, <1>4, PlacesGrow
  <2>. QED
    BY <2>1
<1>. QED
  BY <1>2, <1>3, <1>4 DEF Nth, UpTo

\* If two rows have their NULLs in the same columns, the values of these
\* columns can be read off the text.
LEMMA SameValues ==
  ASSUME NEW c, NEW d, NEW cols \in SUBSET Nat, IsFiniteSet(cols),
         NonNull(c, cols) = NonNull(d, cols),
         ConcatWs(c, cols) = ConcatWs(d, cols),
         NEW i \in cols
  PROVE  c[i] = d[i]
<1>. DEFINE present == NonNull(c, cols)
            j == Cardinality(UpTo(present, i))
<1>1. CASE i \in present
  <2>1. present \in SUBSET Nat /\ IsFiniteSet(present)
    BY FS_Subset DEF NonNull
  <2>2. j \in 1 .. Cardinality(present) /\ Nth(present, j) = i
    BY <1>1, <2>1, NthOfPlace
  <2>3. ConcatWs(c, cols)[j] = c[i] /\ ConcatWs(d, cols)[j] = d[i]
    BY <2>2 DEF ConcatWs
  <2>. QED
    BY <2>3
<1>2. CASE i \notin present
  BY <1>2 DEF NonNull
<1>. QED
  BY <1>1, <1>2

LEMMA ContentColsFinite == ContentCols \in SUBSET Nat /\ IsFiniteSet(ContentCols)
  BY FeatureAssumption, FS_Interval DEF ContentCols, Columns, Class

\* audit.py:76-82: an edit of a row that leaves its NULLs where they are changes
\* the text that add_row_hash hashes, whatever columns it touches.
THEOREM EditInPlaceShows ==
  ASSUME NEW c, NEW d,
         NonNull(c, ContentCols) = NonNull(d, ContentCols),
         NEW i \in ContentCols, c[i] # d[i]
  PROVE  RowText(c) # RowText(d)
  BY ContentColsFinite, SameValues DEF RowText

\* The text of a row without NULLs is that of no other row: the collisions
\* are between rows that both have NULLs.
THEOREM NullFreeTextIsUnique ==
  ASSUME NEW c, NEW d, ~HasNull(c), RowText(c) = RowText(d)
  PROVE  \A i \in ContentCols : c[i] = d[i]
<1>. DEFINE n == Cardinality(NonNull(c, ContentCols))
            m == Cardinality(NonNull(d, ContentCols))
<1>1. NonNull(d, ContentCols) \in SUBSET ContentCols /\ NonNull(c, ContentCols) = ContentCols
  BY DEF NonNull, HasNull
<1>2. n \in Nat /\ m \in Nat
  BY <1>1, ContentColsFinite, FS_Subset, FS_CardinalityType
<1>3. n = m
  <2>1. DOMAIN RowText(c) = 1 .. n /\ DOMAIN RowText(d) = 1 .. m
    BY DEF RowText, ConcatWs
  <2>. QED
    BY <1>2, <2>1
<1>4. NonNull(d, ContentCols) = ContentCols
  BY <1>1, <1>3, ContentColsFinite, FS_Subset
<1>. QED
  BY <1>1, <1>4, ContentColsFinite, SameValues DEF RowText

-----------------------------------------------------------------------------
(* The text of a row that dropna leaves tells its key, whatever NULLs are  *)
(* among its features.                                                     *)

LEMMA OuterPlaces ==
    ASSUME NEW present \in SUBSET Columns, Mandatory \subseteq present
    PROVE  /\ present \in SUBSET Nat /\ IsFiniteSet(present)
           /\ Cardinality(UpTo(present, Time)) = 1
           /\ Cardinality(UpTo(present, Amount)) = Cardinality(present) - 1
<1>1. present \in SUBSET Nat /\ IsFiniteSet(present)
  BY ContentColsFinite, FS_Subset DEF ContentCols
<1>4. Time \in present /\ Amount \in present /\ Class \in present
  BY DEF Mandatory
<1>0. /\ Time = 1 /\ Amount \in Nat /\ Class = Amount + 1
      /\ \A h \in present : h \in Nat /\ Time <= h /\ h <= Class
  <2>1. Time = 1 /\ Amount \in Nat /\ Class = Amount + 1
    BY FeatureAssumption DEF Time, Amount, Class
  <2> QED
    BY <2>1 DEF Columns
<1>2. UpTo(present, Time) = {Time}
  <2>1. \A h \in present : h <= Time <=> h = Time
    BY <1>0
  <2> QED
    BY <1>4, <2>1 DEF UpTo
<1>3. UpTo(present, Amount) = present \ {Class}
  <2>1. \A h \in present : h <= Amount <=> h # Class
    BY <1>0
  <2> QED
    BY <2>1 DEF UpTo
<1>5. Cardinality(present \ {Class}) = Cardinality(present) - 1
  BY <1>1, <1>4, FS_RemoveElement
<1> QED
  BY <1>1, <1>2, <1>3, <1>5, FS_Singleton

LEMMA TextTellsTimeAndAmount ==
    ASSUME NEW c, NEW d, RowText(c) = RowText(d),
           \A i \in Mandatory : c[i] # Null /\ d[i] # Null
    PROVE  c[Time] = d[Time] /\ c[Amount] = d[Amount]
<1>. DEFINE inC == NonNull(c, ContentCols)
            inD == NonNull(d, ContentCols)
<1>1. /\ inC \in SUBSET Columns /\ Mandatory \subseteq inC
      /\ inD \in SUBSET Columns /\ Mandatory \subseteq inD
  BY FeatureAssumption DEF NonNull, ContentCols, Columns, Mandatory, Time, Amount, Class
<1>2. Cardinality(inC) = Cardinality(inD)
  <2>1. Cardinality(inC) \in Nat /\ Cardinality(inD) \in Nat
    BY <1>1, OuterPlaces, FS_CardinalityType
  <2>2. 1 .. Cardinality(inC) = 1 .. Cardinality(inD)
    BY DEF RowText, ConcatWs
  <2> QED
    BY <2>1, <2>2
<1>3. ASSUME NEW i \in {Time, Amount} PROVE c[i] = d[i]
  <2>1. i \in inC /\ i \in inD
    BY <1>1 DEF Mandatory
  <2>2. Cardinality(UpTo(inC, i)) = Cardinality(UpTo(inD, i))
    BY <1>1, <1>2, OuterPlaces
  <2>3. /\ Cardinality(UpTo(inC, i)) \in 1 .. Cardinality(inC)
        /\ Nth(inC, Cardinality(UpTo(inC, i))) = i
        /\ Nth(inD, Cardinality(UpTo(inC, i))) = i
    BY <1>1, <2>1, <2>2, OuterPlaces, NthOfPlace
  <2>4. /\ RowText(c)[Cardinality(UpTo(inC, i))] = c[i]
        /\ RowText(d)[Cardinality(UpTo(inC, i))] = d[i]
    BY <1>2, <2>3 DEF RowText, ConcatWs
  <2> QED
    BY <2>4
<1> QED
  BY <1>3

LEMMA PairSize ==
    ASSUME NEW a, NEW b, a # b
    PROVE  IsFiniteSet({a, b}) /\ Cardinality({a, b}) = 2
<1>1. IsFiniteSet({a}) /\ Cardinality({a}) = 1
  BY FS_Singleton
<1>2. b \notin {a}
  OBVIOUS
<1>3. /\ IsFiniteSet({a} \cup {b})
      /\ Cardinality({a} \cup {b}) = Cardinality({a}) + 1
  BY <1>1, <1>2, FS_AddElement, Zenon
<1>4. {a} \cup {b} = {a, b}
  OBVIOUS
<1> QED
  BY <1>1, <1>3, <1>4

LEMMA KeyOfValues ==
    ASSUME NEW c, NEW d, c[Time] = d[Time], c[Amount] = d[Amount],
           \A i \in Mandatory : c[i] # Null /\ d[i] # Null
    PROVE  KeyText(c) = KeyText(d)
<1>. DEFINE both == {Time, Amount}
<1>1. NonNull(c, both) = both /\ NonNull(d, both) = both
  BY DEF NonNull, Mandatory
<1>2. both \in SUBSET Nat /\ IsFiniteSet(both) /\ Cardinality(both) = 2
  <2>1. Time \in Nat /\ Amount \in Nat /\ Time # Amount
    BY FeatureAssumption DEF Time, Amount
  <2> QED
    BY <2>1, PairSize
<1>3. /\ UpTo(both, Time) = {Time}
      /\ UpTo(both, Amount) = both
  BY FeatureAssumption DEF UpTo, Time, Amount
<1>4. Nth(both, 1) = Time /\ Nth(both, 2) = Amount
  BY <1>2, <1>3, NthOfPlace, FS_Singleton
<1>5. \A j \in 1 .. 2 : c[Nth(both, j)] = d[Nth(both, j)]
  BY <1>4
<1>. HIDE DEF both
<1>6. ConcatWs(c, both) = ConcatWs(d, both)
  BY <1>1, <1>2, <1>5 DEF ConcatWs
<1> QED
  BY <1>6 DEF KeyText, both

\* Contents that dropna leaves and that have one hash have one key.
LEMMA HashTellsKey ==
    ASSUME NEW c \in Content, NEW d \in Content, NoneMissing(c), NoneMissing(d),
           HashOf[c] = HashOf[d]
    PROVE  KeyOf[c] = KeyOf[d]
<1>1. RowText(c) = RowText(d)
  BY DigestAssumption
<1>2. \A i \in Mandatory : c[i] # Null /\ d[i] # Null
  BY DEF NoneMissing
<1>3. KeyText(c) = KeyText(d)
  BY <1>1, <1>2, TextTellsTimeAndAmount, KeyOfValues
<1> QED
  BY <1>3 DEF KeyOf

-----------------------------------------------------------------------------
(* What a verdict rests on. *)

\* The row hashes stored in the table, and those of the file.
StoredHashes == {bronze[r].hash : r \in DOMAIN bronze}
BatchHashes == {HashOf[ContentOf[r]] : r \in Batch(csv)}

\* The rows stored with a hash, and the lines that have it.
StoredAs(v) == {r \in DOMAIN bronze : bronze[r].hash = v}
LoadedAs(v) == {r \in Batch(csv) : HashOf[ContentOf[r]] = v}

\* What equal roots say: the same hashes, and all but the greatest equally often.
TableMatches ==
    /\ StoredHashes = BatchHashes
    /\ \A v \in Hashes, greater \in BatchHashes :
            v < greater => Cardinality(StoredAs(v)) = Cardinality(LoadedAs(v))

\* Every row_hash is that of some row with the same row_key.  So where each hash
\* of the file is stored each key is, and a MERGE of the file adds nothing.
KeysKnown == \A r \in DOMAIN bronze : bronze[r].hash \in HashesWithKey(RowKey(r))

\* Every root on its way to a manifest is that of the one file there is.
RootsInv ==
    /\ \A i \in Run : ing[i].pc \in {"stamp", "append"} => ing[i].root = BatchRoot(csv)
    /\ \A m \in manifests : m.root = BatchRoot(csv)

\* What a check has found is still so when ingest runs have changed the table:
\* they add no altered row, and no row to a table that matches the file.
FoundInv(c) ==
    /\ chk[c].since <= faults
    /\ chk[c].since = faults =>
        /\ chk[c].pc \in {"root", "manifest"} /\ chk[c].tampered = 0 => Altered = {}
        /\ chk[c].pc = "manifest" /\ chk[c].root = BatchRoot(csv) => TableMatches
        /\ chk[c].verdict = "clean" => Altered = {} /\ TableMatches

VerdictInv == KeysKnown /\ RootsInv /\ \A c \in Check : FoundInv(c)

-----------------------------------------------------------------------------
(* Facts about the tables and the hashes. *)

\* How often a hash occurs, in terms of Below.
LEMMA CountOfHash ==
  ASSUME NEW h, Family(h), NEW v \in Nat
  PROVE  Cardinality({i \in DOMAIN h : h[i] = v}) = Below(h, v + 1) - Below(h, v)
<1>. DEFINE less == {i \in DOMAIN h : h[i] < v}
            here == {i \in DOMAIN h : h[i] = v}
<1>1. {i \in DOMAIN h : h[i] < v + 1} = less \cup here /\ less \cap here = {}
  BY DEF Family
<1>2. IsFiniteSet(less) /\ IsFiniteSet(here)
  BY FS_Subset DEF Family
<1>3. Cardinality(less) \in Nat /\ Cardinality(here) \in Nat
  BY <1>2, FS_CardinalityType
<1>4. Below(h, v + 1) = Cardinality(less \cup here) /\ Below(h, v) = Cardinality(less)
  BY <1>1 DEF Below
<1>. HIDE DEF less, here
<1>5. Cardinality(less \cup here) = Cardinality(less) + Cardinality(here) - Cardinality({})
  BY <1>1, <1>2, FS_Union
<1>. QED
  BY <1>3, <1>4, <1>5, FS_EmptySet DEF here

\* RootTellsHashes and RootTellsSmallerHashes, for the hashes of lines.
LEMMA EqualRoots ==
  ASSUME NEW rows \in SUBSET Record, NEW others \in SUBSET Record,
         NEW g \in [rows -> Hashes], NEW h \in [others -> Hashes],
         MerkleRoot(g) = MerkleRoot(h)
  PROVE  /\ {g[r] : r \in rows} = {h[r] : r \in others}
         /\ \A v \in Hashes, s \in others : v < h[s] =>
                Cardinality({r \in rows : g[r] = v}) = Cardinality({r \in others : h[r] = v})
<1>1. IsFiniteSet(rows) /\ IsFiniteSet(others)
  BY FilesAssumption, FS_Subset
<1>2. Hashes \subseteq Nat
  BY ContentAssumption DEF Hashes
<1>3. Family(g) /\ Family(h) /\ DOMAIN g = rows /\ DOMAIN h = others
  BY <1>1, <1>2 DEF Family
<1>4. Values(g) = Values(h)
  BY <1>3, RootTellsHashes
<1>5. ASSUME NEW v \in Hashes, NEW s \in others, v < h[s]
      PROVE  Cardinality({r \in rows : g[r] = v}) = Cardinality({r \in others : h[r] = v})
  <2>1. v \in Nat /\ v + 1 \in Nat /\ h[s] \in Values(g) /\ v <= h[s] /\ v + 1 <= h[s]
    BY <1>2, <1>3, <1>4, <1>5 DEF Values
  <2>2. Below(g, v) = Below(h, v) /\ Below(g, v + 1) = Below(h, v + 1)
    BY <1>3, <2>1, RootTellsSmallerHashes
  <2>. QED
    BY <1>3, <2>1, <2>2, CountOfHash
<1>. QED
  BY <1>3, <1>4, <1>5 DEF Values

LEMMA RootTellsTable ==
  ASSUME TypeInv, TableRoot = BatchRoot(csv)
  PROVE  TableMatches
<1>. DEFINE g == [r \in DOMAIN bronze |-> bronze[r].hash]
            h == [r \in Batch(csv) |-> HashOf[ContentOf[r]]]
<1>1. DOMAIN bronze \in SUBSET Record /\ Batch(csv) \in SUBSET Record
  BY BatchFacts DEF TypeInv, TypeOK
<1>2. g \in [DOMAIN bronze -> Hashes]
  BY DEF TypeInv, TypeOK, Row
<1>3. h \in [Batch(csv) -> Hashes]
  BY <1>1, ContentAssumption DEF Hashes
<1>4. MerkleRoot(g) = MerkleRoot(h)
  BY DEF TableRoot, BatchRoot
<1>5. /\ \A r \in DOMAIN bronze : g[r] = bronze[r].hash
      /\ \A r \in Batch(csv) : h[r] = HashOf[ContentOf[r]]
  OBVIOUS
<1>. HIDE DEF g, h
<1>6. /\ {g[r] : r \in DOMAIN bronze} = {h[r] : r \in Batch(csv)}
      /\ \A v \in Hashes, s \in Batch(csv) : v < h[s] =>
             Cardinality({r \in DOMAIN bronze : g[r] = v})
                 = Cardinality({r \in Batch(csv) : h[r] = v})
  BY <1>1, <1>2, <1>3, <1>4, EqualRoots
<1>7. /\ {g[r] : r \in DOMAIN bronze} = StoredHashes
      /\ {h[r] : r \in Batch(csv)} = BatchHashes
      /\ \A v : {r \in DOMAIN bronze : g[r] = v} = StoredAs(v)
      /\ \A v : {r \in Batch(csv) : h[r] = v} = LoadedAs(v)
  BY <1>5 DEF StoredHashes, BatchHashes, StoredAs, LoadedAs
<1>8. \A w \in BatchHashes : \E s \in Batch(csv) : h[s] = w
  BY <1>5 DEF BatchHashes
<1>. QED
  BY <1>6, <1>7, <1>8 DEF TableMatches

LEMMA NoneAltered ==
  ASSUME TypeInv, Cardinality(Altered) = 0
  PROVE  Altered = {}
<1>1. Altered \in SUBSET Record
  BY DEF TypeInv, TypeOK, Altered
<1>. QED
  BY <1>1, FilesAssumption, FS_Subset, FS_EmptySet

\* If the hashes of two sets of contents are the same, so are the texts, and
\* the contents without NULLs.
LEMMA HashesTellContents ==
  ASSUME NEW stored \in SUBSET Content, NEW loaded \in SUBSET Content,
         {HashOf[x] : x \in stored} = {HashOf[x] : x \in loaded}
  PROVE  /\ {RowText(x) : x \in stored} = {RowText(x) : x \in loaded}
         /\ {x \in stored : ~HasNull(x)} = {x \in loaded : ~HasNull(x)}
<1>1. /\ \A x \in stored : \E y \in loaded : RowText(y) = RowText(x)
      /\ \A y \in loaded : \E x \in stored : RowText(y) = RowText(x)
  <2>1. /\ \A x \in stored : \E y \in loaded : HashOf[y] = HashOf[x]
        /\ \A y \in loaded : \E x \in stored : HashOf[y] = HashOf[x]
    OBVIOUS
  <2>. QED
    BY <2>1, DigestAssumption
<1>2. ASSUME NEW x \in Content, NEW y \in Content, ~HasNull(x), RowText(x) = RowText(y)
      PROVE  x = y
  <2>1. \A i \in Columns : x[i] = y[i]
    BY <1>2, NullFreeTextIsUnique DEF ContentCols
  <2>2. x = [i \in Columns |-> x[i]] /\ y = [i \in Columns |-> y[i]]
    BY ColumnsAssumption
  <2>3. [i \in Columns |-> x[i]] = [i \in Columns |-> y[i]]
    BY <2>1
  <2>. QED
    BY <2>2, <2>3
<1>3. {RowText(x) : x \in stored} = {RowText(x) : x \in loaded}
  BY <1>1
<1>. QED
  BY <1>1, <1>2, <1>3

-----------------------------------------------------------------------------
(* What the steps keep. *)

\* A row of a line that dropna leaves has a hash that goes with its key.
LEMMA EnrichedKnown ==
  ASSUME NEW r \in Record, r \in Complete, NEW t
  PROVE  EnrichedRow(r, t).hash \in HashesWithKey(RowKey(r))
<1>1. ContentOf[r] \in Content /\ NoneMissing(ContentOf[r])
  BY ContentAssumption DEF Complete
<1>. QED
  BY <1>1 DEF EnrichedRow, HashesWithKey, RowKey

LEMMA NextKeysKnown ==
  ASSUME TypeInv, KeysKnown, [Next]_vars
  PROVE  KeysKnown'
<1>0. bronze \in [DOMAIN bronze -> Row]
  BY DEF TypeInv, TypeOK
<1>1. ASSUME NEW i \in Run, MergeBronze(i) \/ CreateBronze(i) PROVE KeysKnown'
  <2>1. /\ Batch(csv) \in SUBSET Record /\ Batch(csv) \subseteq Complete
        /\ NotMatched(csv) \subseteq Batch(csv)
    BY BatchFacts DEF TypeInv, TypeOK, Batch, NotMatched
  <2>2. \A r \in Batch(csv) : EnrichedRow(r, clock').hash \in HashesWithKey(RowKey(r))
    BY <2>1, EnrichedKnown
  <2>3. CASE MergeBronze(i)
    BY <2>1, <2>2, <2>3 DEF MergeBronze, KeysKnown
  <2>4. CASE CreateBronze(i)
    BY <2>2, <2>4 DEF CreateBronze, KeysKnown
  <2>. QED
    BY <1>1, <2>3, <2>4
<1>2. ASSUME NEW r \in Record, LoseRow(r) PROVE KeysKnown'
  BY <1>2 DEF LoseRow, KeysKnown
<1>3. ASSUME NEW r \in Record, InsertRow(r) PROVE KeysKnown'
  <2>1. PICK t : bronze' = [s \in DOMAIN bronze \cup {r} |->
                               IF s = r THEN EnrichedRow(r, t) ELSE bronze[s]]
    BY <1>3 DEF InsertRow
  <2>2. EnrichedRow(r, t).hash \in HashesWithKey(RowKey(r))
    BY <1>3, EnrichedKnown DEF InsertRow
  <2>. QED
    BY <2>1, <2>2 DEF KeysKnown
<1>4. ASSUME NEW r \in Record, NEW content \in Content, NEW hash \in Hashes,
             ModifyRow(r, content, hash)
      PROVE  KeysKnown'
  <2>1. /\ DOMAIN bronze' = DOMAIN bronze
        /\ bronze'[r].hash = hash
        /\ \A s \in DOMAIN bronze \ {r} : bronze'[s] = bronze[s]
    BY <1>0, <1>4 DEF ModifyRow, Row
  <2>2. hash = bronze[r].hash \/ hash \in HashesWithKey(RowKey(r))
    BY <1>4 DEF ModifyRow
  <2>. QED
    BY <2>1, <2>2 DEF KeysKnown
<1>5. CASE UNCHANGED bronze
  BY <1>5 DEF KeysKnown
<1>6. \/ \E i \in Run : MergeBronze(i) \/ CreateBronze(i)
      \/ StorageFault
      \/ UNCHANGED bronze
  BY CheckTypeInv DEF Next, IngestStep, FailIngest, StartIngest, CountBatch,
     CollectHashes, StampManifest, AppendManifest, FinishIngest, tables, Finished, vars,
     DeliverCsv
<1>. QED
  BY <1>1, <1>2, <1>3, <1>4, <1>5, <1>6 DEF StorageFault

\* A table with the hashes of the file has its keys: a MERGE inserts nothing.
LEMMA NothingToInsert ==
  ASSUME TypeInv, KeysKnown, StoredHashes = BatchHashes
  PROVE  NotMatched(csv) = {}
<1>. SUFFICES ASSUME NEW r \in Batch(csv)
              PROVE  \E s \in DOMAIN bronze : RowKey(s) = RowKey(r)
  BY DEF NotMatched
<1>1. ContentOf[r] \in Content /\ NoneMissing(ContentOf[r])
  BY ContentAssumption DEF Batch, Complete
<1>2. PICK s \in DOMAIN bronze : bronze[s].hash = HashOf[ContentOf[r]]
  BY DEF StoredHashes, BatchHashes
<1>3. PICK d \in Content : /\ KeyOf[d] = RowKey(s) /\ NoneMissing(d)
                           /\ HashOf[d] = HashOf[ContentOf[r]]
  BY <1>2 DEF KeysKnown, HashesWithKey
<1>4. KeyOf[d] = KeyOf[ContentOf[r]]
  BY <1>1, <1>3, HashTellsKey
<1>. QED
  BY <1>3, <1>4 DEF RowKey

\* Ingest runs of the one file repair the table or leave it alone.
LEMMA IngestKeepsTable ==
  ASSUME OneFileInPlace, TypeInv, KeysKnown, NEW i \in Run, IngestStep(i) \/ FailIngest(i)
  PROVE  /\ Altered = {} => Altered' = {}
         /\ TableMatches => TableMatches'
<1>0. csv' = csv /\ bronze \in [DOMAIN bronze -> Row]
  BY IngestTables DEF TypeInv, TypeOK
<1>a. /\ Batch(csv)' = Batch(csv) /\ BatchHashes' = BatchHashes
      /\ \A v : LoadedAs(v)' = LoadedAs(v)
  BY <1>0 DEF Batch, BatchHashes, LoadedAs
<1>b. ASSUME bronze' = bronze PROVE TableMatches => TableMatches'
  <2>1. StoredHashes' = StoredHashes /\ \A v : StoredAs(v)' = StoredAs(v)
    BY <1>b DEF StoredHashes, StoredAs
  <2>. QED
    BY <1>a, <2>1 DEF TableMatches
<1>1. CASE MergeBronze(i)
  <2>1. /\ DOMAIN bronze' = DOMAIN bronze \cup NotMatched(csv)
        /\ \A r \in DOMAIN bronze : bronze'[r] = bronze[r]
        /\ \A r \in NotMatched(csv) \ DOMAIN bronze :
              /\ bronze'[r].content = ContentOf[r]
              /\ bronze'[r].hash = HashOf[ContentOf[r]]
    BY <1>1 DEF MergeBronze, EnrichedRow
  <2>2. Altered = {} => Altered' = {}
    BY <2>1 DEF Altered
  <2>3. ASSUME TableMatches PROVE bronze' = bronze
    <3>1. NotMatched(csv) = {}
      BY <2>3, NothingToInsert DEF TableMatches
    <3>. QED
      BY <1>0, <1>1, <3>1 DEF MergeBronze
  <2>. QED
    BY <1>b, <2>2, <2>3
<1>2. CASE CreateBronze(i)
  <2>1. /\ DOMAIN bronze' = Batch(csv)
        /\ \A r \in Batch(csv) : /\ bronze'[r].content = ContentOf[r]
                                 /\ bronze'[r].hash = HashOf[ContentOf[r]]
    BY <1>2 DEF CreateBronze, EnrichedRow
  <2>2. Altered' = {}
    BY <2>1 DEF Altered
  <2>3. StoredHashes' = BatchHashes /\ \A v : StoredAs(v)' = LoadedAs(v)
    BY <2>1 DEF StoredHashes, BatchHashes, StoredAs, LoadedAs
  <2>. QED
    BY <1>a, <2>2, <2>3 DEF TableMatches
<1>3. CASE bronze' = bronze
  BY <1>b, <1>3 DEF Altered
<1>4. MergeBronze(i) \/ CreateBronze(i) \/ bronze' = bronze
  BY DEF IngestStep, StartIngest, CountBatch, CollectHashes, StampManifest,
         AppendManifest, FinishIngest, FailIngest, tables
<1>. QED
  BY <1>1, <1>2, <1>3, <1>4

LEMMA IngestKeepsRoots ==
  ASSUME OneFileInPlace, TypeInv, RootsInv, NEW i \in Run, IngestStep(i) \/ FailIngest(i)
  PROVE  RootsInv'
<1>0. /\ csv' = csv /\ ing \in [Run -> IngestState]
      /\ BatchRoot(csv)' = BatchRoot(csv)
  BY IngestTables DEF TypeInv, TypeOK, BatchRoot, Batch
<1>1. ASSUME manifests' = manifests,
             \A j \in Run \ {i} : ing'[j] = ing[j],
             ing'[i].pc \in {"stamp", "append"} => ing'[i].root = BatchRoot(csv)
      PROVE  RootsInv'
  BY <1>0, <1>1 DEF RootsInv
<1>2. CASE StartIngest(i) \/ MergeBronze(i) \/ CreateBronze(i) \/ CountBatch(i)
  <2>1. /\ manifests' = manifests
        /\ \A j \in Run \ {i} : ing'[j] = ing[j]
        /\ ing'[i].pc \in {"merge", "create", "count", "collect"}
    BY <1>0, <1>2 DEF StartIngest, MergeBronze, CreateBronze, CountBatch, tables, IngestState
  <2>. QED
    BY <1>1, <2>1
<1>3. CASE CollectHashes(i)
  BY <1>0, <1>1, <1>3 DEF CollectHashes, tables, IngestState
<1>4. CASE StampManifest(i)
  BY <1>0, <1>1, <1>4 DEF StampManifest, IngestState, RootsInv
<1>5. CASE AppendManifest(i)
  <2>1. /\ \A j \in Run \ {i} : ing'[j] = ing[j]
        /\ ing'[i].pc = "push"
        /\ \A m \in manifests' : m.root = BatchRoot(csv)
    BY <1>0, <1>5 DEF AppendManifest, IngestState, RootsInv
  <2>. QED
    BY <1>0, <2>1 DEF RootsInv
<1>6. CASE FinishIngest(i) \/ FailIngest(i)
  <2>1. /\ manifests' = manifests
        /\ \A j \in Run \ {i} : ing'[j] = ing[j]
        /\ ing'[i].pc \in {"done", "retry", "failed"}
    BY <1>0, <1>6 DEF FinishIngest, FailIngest, tables, NoAttempt
  <2>. QED
    BY <1>1, <2>1
<1>. QED
  BY <1>2, <1>3, <1>4, <1>5, <1>6 DEF IngestStep

LEMMA TableMatchesKept ==
  ASSUME UNCHANGED <<csv, bronze>>
  PROVE  TableMatches' = TableMatches
<1>1. /\ StoredHashes' = StoredHashes /\ BatchHashes' = BatchHashes
      /\ \A v : StoredAs(v)' = StoredAs(v) /\ LoadedAs(v)' = LoadedAs(v)
  BY DEF StoredHashes, BatchHashes, StoredAs, LoadedAs, Batch
<1>. QED
  BY <1>1 DEF TableMatches

LEMMA CheckKeepsFound ==
  ASSUME OneFileInPlace, TypeInv, VerdictInv,
         NEW c \in Check, CheckStep(c) \/ FailCheck(c)
  PROVE  RootsInv' /\ \A d \in Check : FoundInv(d)'
<1>0. /\ UNCHANGED <<csv, exists, bronze, manifests, faults, ing>>
      /\ chk \in [Check -> CheckState] /\ faults \in Nat
  BY CheckTypeInv DEF tables, TypeInv, TypeOK
<1>a. /\ BatchRoot(csv)' = BatchRoot(csv) /\ Altered' = Altered
      /\ TableMatches' = TableMatches
  BY <1>0, TableMatchesKept DEF BatchRoot, Batch, Altered
<1>b. ASSUME \A d \in Check \ {c} : chk'[d] = chk[d], FoundInv(c)'
      PROVE  RootsInv' /\ \A d \in Check : FoundInv(d)'
  <2>1. RootsInv'
    BY <1>0, <1>a DEF RootsInv, VerdictInv
  <2>2. \A d \in Check : FoundInv(d)'
    BY <1>0, <1>a, <1>b DEF FoundInv, VerdictInv
  <2>. QED
    BY <2>1, <2>2
<1>c. FoundInv(c)
  BY DEF VerdictInv
<1>1. CASE StartCheck(c)
  <2>1. /\ \A d \in Check \ {c} : chk'[d] = chk[d]
        /\ chk'[c].pc = "rows" /\ chk'[c].verdict = "none" /\ chk'[c].since = faults
    BY <1>0, <1>1 DEF StartCheck, NoCheck
  <2>. QED
    BY <1>0, <1>b, <2>1 DEF FoundInv
<1>2. CASE SensorTimeout(c)
  <2>1. /\ \A d \in Check \ {c} : chk'[d] = chk[d]
        /\ chk'[c].pc = "failed" /\ chk'[c].verdict = chk[c].verdict
        /\ chk'[c].since = chk[c].since
    BY <1>0, <1>2 DEF SensorTimeout, CheckState
  <2>. QED
    BY <1>0, <1>a, <1>b, <1>c, <2>1 DEF FoundInv
<1>3. CASE VerifyRows(c)
  <2>1. /\ \A d \in Check \ {c} : chk'[d] = chk[d]
        /\ chk'[c].pc = "root" /\ chk'[c].verdict = chk[c].verdict
        /\ chk'[c].since = chk[c].since /\ chk'[c].tampered = Cardinality(Altered)
    BY <1>0, <1>3 DEF VerifyRows, CheckState
  <2>2. chk'[c].tampered = 0 => Altered = {}
    BY <2>1, NoneAltered
  <2>. QED
    BY <1>0, <1>a, <1>b, <1>c, <2>1, <2>2 DEF FoundInv
<1>4. CASE RebuildRoot(c)
  <2>1. /\ \A d \in Check \ {c} : chk'[d] = chk[d]
        /\ chk[c].pc = "root" /\ chk'[c].pc = "manifest"
        /\ chk'[c].verdict = chk[c].verdict
        /\ chk'[c].since = chk[c].since /\ chk'[c].tampered = chk[c].tampered
        /\ chk'[c].root = TableRoot
    BY <1>0, <1>4 DEF RebuildRoot, CheckState
  <2>2. chk'[c].root = BatchRoot(csv) => TableMatches
    BY <2>1, RootTellsTable
  <2>. QED
    BY <1>0, <1>a, <1>b, <1>c, <2>1, <2>2 DEF FoundInv
<1>5. CASE CompareRoot(c)
  <2>. PICK m \in manifests : Conclude(c, chk[c].root = m.root)
    BY <1>5 DEF CompareRoot
  <2>1. chk[c].pc = "manifest" /\ m.root = BatchRoot(csv)
    BY <1>5 DEF CompareRoot, VerdictInv, RootsInv
  <2>2. /\ \A d \in Check \ {c} : chk'[d] = chk[d]
        /\ chk'[c].pc \in {"done", "retry", "failed"} /\ chk'[c].since = chk[c].since
        /\ chk'[c].verdict = "clean" => chk[c].tampered = 0 /\ chk[c].root = m.root
    BY <1>0 DEF Conclude, AfterFailedCheck, CheckState
  <2>. QED
    BY <1>0, <1>a, <1>b, <1>c, <2>1, <2>2 DEF FoundInv
<1>6. CASE NoManifest(c)
  <2>1. /\ \A d \in Check \ {c} : chk'[d] = chk[d]
        /\ chk'[c].pc \in {"retry", "failed"} /\ chk'[c].since = chk[c].since
        /\ chk'[c].verdict = "violation"
    BY <1>0, <1>6 DEF NoManifest, Conclude, AfterFailedCheck, CheckState
  <2>. QED
    BY <1>0, <1>b, <1>c, <2>1 DEF FoundInv
<1>7. CASE FailCheck(c)
  <2>1. /\ \A d \in Check \ {c} : chk'[d] = chk[d]
        /\ chk'[c].pc \in {"retry", "failed"} /\ chk'[c].since = 0
        /\ chk'[c].verdict = "none"
    BY <1>0, <1>7 DEF FailCheck, AfterFailedCheck, NoCheck
  <2>. QED
    BY <1>0, <1>b, <2>1 DEF FoundInv
<1>. QED
  BY <1>1, <1>2, <1>3, <1>4, <1>5, <1>6, <1>7 DEF CheckStep

LEMMA VerdictStep ==
  ASSUME OneFileInPlace, TypeInv, VerdictInv, [Next]_vars
  PROVE  VerdictInv'
<1>0. KeysKnown'
  BY NextKeysKnown DEF VerdictInv
<1>1. ASSUME NEW new \in Files, DeliverCsv(new) PROVE VerdictInv'
  BY <1>1 DEF DeliverCsv, OneFileInPlace
<1>2. ASSUME NEW i \in Run, IngestStep(i) \/ FailIngest(i) PROVE VerdictInv'
  <2>1. RootsInv'
    BY <1>2, IngestKeepsRoots DEF VerdictInv
  <2>2. UNCHANGED <<csv, chk, faults>>
    BY <1>2, IngestTables
  <2>3. BatchRoot(csv)' = BatchRoot(csv)
    BY <2>2 DEF BatchRoot, Batch
  <2>4. /\ Altered = {} => Altered' = {}
        /\ TableMatches => TableMatches'
    BY <1>2, IngestKeepsTable DEF VerdictInv
  <2>5. \A c \in Check : FoundInv(c)'
    BY <2>2, <2>3, <2>4 DEF FoundInv, VerdictInv
  <2>. QED
    BY <1>0, <2>1, <2>5 DEF VerdictInv
<1>3. ASSUME NEW c \in Check, CheckStep(c) \/ FailCheck(c) PROVE VerdictInv'
  BY <1>0, <1>3, CheckKeepsFound DEF VerdictInv
<1>4. CASE StorageFault
  <2>1. /\ faults' = faults + 1
        /\ UNCHANGED <<csv, manifests, ing, chk>>
    BY <1>4, FaultCounted
  <2>2. RootsInv'
    BY <2>1 DEF RootsInv, VerdictInv, BatchRoot, Batch
  <2>3. \A c \in Check : chk[c].since \in Nat /\ chk[c].since <= faults
    BY DEF VerdictInv, FoundInv, TypeInv, TypeOK, CheckState
  <2>4. \A c \in Check : FoundInv(c)'
    BY <2>1, <2>3 DEF FoundInv, TypeInv, TypeOK
  <2>. QED
    BY <1>0, <2>2, <2>4 DEF VerdictInv
<1>5. CASE UNCHANGED vars
  <2>1. UNCHANGED <<csv, bronze, manifests, ing, chk, faults>>
    BY <1>5 DEF vars
  <2>2. /\ BatchRoot(csv)' = BatchRoot(csv) /\ Altered' = Altered
        /\ TableMatches' = TableMatches
    BY <2>1, TableMatchesKept DEF BatchRoot, Batch, Altered
  <2>. QED
    BY <1>0, <2>1, <2>2 DEF VerdictInv, RootsInv, FoundInv
<1>. QED
  BY <1>1, <1>2, <1>3, <1>4, <1>5 DEF Next, Finished

\* CleanMeansSameRows: whatever rows storage has changed, lost or added, their
\* row_hash included, and however ingest runs overlap with the check, a clean
\* verdict means that each text is stored as often as the file has it, but for the
\* number of copies of the greatest hash, for any file that is never replaced
\* (audit.py:179-202).
THEOREM CleanVerdictCountsRows ==
  ASSUME OneFileInPlace
  PROVE  Spec => []CleanMeansSameRows
<1>1. Init => VerdictInv
  <2>. SUFFICES ASSUME Init PROVE VerdictInv
    OBVIOUS
  <2>1. \A i \in Run : ing[i].pc = "queued"
    BY DEF Init, NoAttempt
  <2>2. \A c \in Check : chk[c].pc = "waiting" /\ chk[c].verdict = "none" /\ chk[c].since = 0
    BY DEF Init, NoCheck
  <2>. QED
    BY <2>1, <2>2 DEF Init, VerdictInv, KeysKnown, RootsInv, FoundInv
<1>2. TypeInv /\ VerdictInv => CleanMeansSameRows
  <2>. SUFFICES ASSUME TypeInv, VerdictInv PROVE CleanMeansSameRows
    OBVIOUS
  <2>. DEFINE rows(v) == {r \in DOMAIN bronze : HashOf[bronze[r].content] = v}
              lines(v) == {r \in Batch(csv) : HashOf[ContentOf[r]] = v}
              stored == {bronze[r].content : r \in DOMAIN bronze}
              loaded == {ContentOf[r] : r \in Batch(csv)}
  <2>. SUFFICES ASSUME NEW c \in Check, chk[c].verdict = "clean", chk[c].since = faults
                PROVE  /\ \A v \in Hashes : rows(v) = {} <=> lines(v) = {}
                       /\ \A v, greater \in Hashes : v < greater /\ lines(greater) # {} =>
                              Cardinality(rows(v)) = Cardinality(lines(v))
                       /\ {x \in stored : ~HasNull(x)} = {x \in loaded : ~HasNull(x)}
    BY DEF CleanMeansSameRows
  <2>1. Altered = {} /\ TableMatches
    BY DEF VerdictInv, FoundInv
  <2>2. \A r \in DOMAIN bronze : HashOf[bronze[r].content] = bronze[r].hash
    BY <2>1 DEF Altered
  <2>3. \A v : rows(v) = StoredAs(v) /\ lines(v) = LoadedAs(v)
    BY <2>2 DEF StoredAs, LoadedAs
  <2>4. \A v : /\ StoredAs(v) = {} <=> v \notin StoredHashes
               /\ LoadedAs(v) = {} <=> v \notin BatchHashes
    BY DEF StoredAs, LoadedAs, StoredHashes, BatchHashes
  <2>5. \A v \in Hashes : rows(v) = {} <=> lines(v) = {}
    BY <2>1, <2>3, <2>4 DEF TableMatches
  <2>6. \A v, greater \in Hashes : v < greater /\ lines(greater) # {} =>
            Cardinality(rows(v)) = Cardinality(lines(v))
    BY <2>1, <2>3, <2>4 DEF TableMatches
  <2>7. stored \in SUBSET Content /\ loaded \in SUBSET Content
    BY BatchFacts, ContentAssumption DEF TypeInv, TypeOK, Row
  <2>8. {HashOf[x] : x \in stored} = {HashOf[x] : x \in loaded}
    <3>1. {HashOf[x] : x \in stored} = StoredHashes
      BY <2>2 DEF StoredHashes
    <3>2. {HashOf[x] : x \in loaded} = BatchHashes
      BY DEF BatchHashes
    <3>. QED
      BY <2>1, <3>1, <3>2 DEF TableMatches
  <2>. HIDE DEF rows, lines, stored, loaded
  <2>9. {x \in stored : ~HasNull(x)} = {x \in loaded : ~HasNull(x)}
    BY <2>7, <2>8, HashesTellContents
  <2>. QED
    BY <2>5, <2>6, <2>9
<1>3. TypeInv /\ VerdictInv /\ [Next]_vars => VerdictInv'
  BY VerdictStep
<1>. QED
  BY <1>1, <1>2, <1>3, InitTypeInv, NextTypeInv, PTL DEF Spec
=============================================================================
