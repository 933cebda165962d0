--------------------------- MODULE CheckpointProofs ---------------------------
(***************************************************************************)
(* No write is lost, every infoset is found, and a load takes what a save  *)
(* that ended wrote, for every set of infosets, arrays and slabs, every    *)
(* placement of the keys, every allocation that may fail and any number of *)
(* saves, loads and processes.                                             *)
(***************************************************************************)
EXTENDS Checkpoint, SumsProofs, SequenceTheorems

\* What every step keeps: the storage's part, and with the file's.
StoreInv == SpansOK /\ NoWriteIsLost
SafeInv == StoreInv /\ FileOK

\* Slabs are numbers, none of them the mark of a missing span, and rounding
\* a slab gives one that stays as it is.
LEMMA Slab == /\ \A v \in Values : v # Absent /\ Round(v) \in Values
                                   /\ Round(Round(v)) = Round(v)
              /\ Zero \in Values /\ Round(Zero) = Zero
  BY StorageAssumption DEF Absent

\* What committing a span leaves in the array is a slab, of compact form, and
\* still what was last written.
LEMMA CommittedSlab ==
  ASSUME StoreInv, Compact, NEW w \in Arrays, NEW id \in Ids
  PROVE  /\ Committed(id, w) \in Values /\ Committed(id, w) # Absent
         /\ Round(Committed(id, w)) = Committed(id, w)
         /\ Committed(id, w) \in {written[w][id], Round(written[w][id])}
         /\ written[w][id] \in Values
<1>1. resident[w][id] \in Values /\ written[w][id] \in Values
      /\ span[w][id] \in Values \cup {Absent} /\ dirty[w][id] = Has(id, w)
      /\ Round(resident[w][id]) = resident[w][id]
  BY DEF StoreInv, SpansOK
<1>2. Content(id, w) \in {written[w][id], Round(written[w][id])}
  BY DEF StoreInv, NoWriteIsLost
<1>3. CASE Has(id, w)
  <2>1. Committed(id, w) = Round(span[w][id]) /\ span[w][id] \in Values
        /\ Content(id, w) = span[w][id]
    BY <1>1, <1>3 DEF Committed, Has, Content
  <2> QED
    BY <1>1, <1>2, <2>1, Slab
<1>4. CASE ~Has(id, w)
  <2>1. Committed(id, w) = resident[w][id] /\ Content(id, w) = resident[w][id]
    BY <1>4 DEF Committed, Content
  <2> QED
    BY <1>1, <1>2, <2>1, Slab
<1> QED
  BY <1>3, <1>4

\* A new infoset gets a place in every array, with nothing in it.
LEMMA Grown ==
  ASSUME StoreInv, NEW k \in Keys, NEW shape \in Shapes, NewInfoset(k, shape),
         NEW n, n = Len(meta)
  PROVE  /\ n \in Nat /\ Ids = 1..n /\ Ids' = 1..(n + 1)
         /\ meta' \in Seq([key : Keys, shape : Shapes])
         /\ \A id \in Ids : meta'[id] = meta[id]
         /\ meta'[n + 1] = [key |-> k, shape |-> shape]
         /\ resident' \in [Arrays -> [Ids' -> Values]] /\ written' \in [Arrays -> [Ids' -> Values]]
         /\ span' \in [Arrays -> [Ids' -> Values \cup {Absent}]]
         /\ dirty' \in [Arrays -> [Ids' -> BOOLEAN]]
         /\ \A w \in Arrays, id \in Ids :
               /\ resident'[w][id] = resident[w][id] /\ written'[w][id] = written[w][id]
               /\ span'[w][id] = span[w][id] /\ dirty'[w][id] = dirty[w][id]
         /\ \A w \in Arrays : /\ resident'[w][n + 1] = Zero /\ written'[w][n + 1] = Zero
                              /\ span'[w][n + 1] = Absent /\ dirty'[w][n + 1] = FALSE
<1>1. /\ n \in Nat /\ Ids = 1..n /\ Ids' = 1..(n + 1)
      /\ meta' \in Seq([key : Keys, shape : Shapes])
  <2>1. meta \in Seq([key : Keys, shape : Shapes])
    BY DEF StoreInv, SpansOK
  <2>2. meta' = Append(meta, [key |-> k, shape |-> shape])
    BY DEF NewInfoset
  <2> QED
    BY <2>1, <2>2, AppendProperties, LenProperties DEF Ids
<1>3. /\ \A id \in Ids : meta'[id] = meta[id]
      /\ meta'[n + 1] = [key |-> k, shape |-> shape]
  <2> DEFINE new == [key |-> k, shape |-> shape]
  <2>1. meta \in Seq([key : Keys, shape : Shapes]) /\ meta' = Append(meta, new)
    BY DEF StoreInv, SpansOK, NewInfoset
  <2> HIDE DEF new
  <2>2. meta'[n + 1] = new /\ \A id \in 1..n : meta'[id] = meta[id]
    BY <1>1, <2>1
  <2> QED
    BY <1>1, <2>2 DEF new
<1>2. /\ resident' \in [Arrays -> [Ids' -> Values]] /\ written' \in [Arrays -> [Ids' -> Values]]
      /\ span' \in [Arrays -> [Ids' -> Values \cup {Absent}]]
      /\ dirty' \in [Arrays -> [Ids' -> BOOLEAN]]
      /\ \A w \in Arrays, id \in Ids :
            /\ resident'[w][id] = resident[w][id] /\ written'[w][id] = written[w][id]
            /\ span'[w][id] = span[w][id] /\ dirty'[w][id] = dirty[w][id]
      /\ \A w \in Arrays : /\ resident'[w][n + 1] = Zero /\ written'[w][n + 1] = Zero
                           /\ span'[w][n + 1] = Absent /\ dirty'[w][n + 1] = FALSE
  <2>1. /\ resident \in [Arrays -> [Ids -> Values]] /\ written \in [Arrays -> [Ids -> Values]]
        /\ span \in [Arrays -> [Ids -> Values \cup {Absent}]]
        /\ dirty \in [Arrays -> [Ids -> BOOLEAN]]
        /\ Zero \in Values /\ Absent \in Values \cup {Absent} /\ FALSE \in BOOLEAN
    BY Slab DEF StoreInv, SpansOK
  <2>2. /\ resident' = Grow(resident, Zero) /\ written' = Grow(written, Zero)
        /\ span' = Grow(span, Absent) /\ dirty' = Grow(dirty, FALSE)
    BY DEF NewInfoset
  <2>3. /\ resident' \in [Arrays -> [Ids' -> Values]]
        /\ \A w \in Arrays : /\ \A id \in Ids : resident'[w][id] = resident[w][id]
                             /\ resident'[w][n + 1] = Zero
    BY <1>1, <2>1, <2>2 DEF Grow
  <2>4. /\ written' \in [Arrays -> [Ids' -> Values]]
        /\ \A w \in Arrays : /\ \A id \in Ids : written'[w][id] = written[w][id]
                             /\ written'[w][n + 1] = Zero
    BY <1>1, <2>1, <2>2 DEF Grow
  <2>5. /\ span' \in [Arrays -> [Ids' -> Values \cup {Absent}]]
        /\ \A w \in Arrays : /\ \A id \in Ids : span'[w][id] = span[w][id]
                             /\ span'[w][n + 1] = Absent
    BY <1>1, <2>1, <2>2 DEF Grow
  <2>6. /\ dirty' \in [Arrays -> [Ids' -> BOOLEAN]]
        /\ \A w \in Arrays : /\ \A id \in Ids : dirty'[w][id] = dirty[w][id]
                             /\ dirty'[w][n + 1] = FALSE
    <3>1. dirty' = [w \in Arrays |-> [id \in Ids' |-> IF id = n + 1 THEN FALSE ELSE dirty[w][id]]]
      BY <1>1, <2>2, Zenon DEF Grow
    <3>2. \A id \in Ids : id \in Ids' /\ id # n + 1
      BY <1>1
    <3>3. \A id \in Ids' : id # n + 1 => id \in Ids
      BY <1>1
    <3>4. n + 1 \in Ids'
      BY <1>1
    <3>5. \A w \in Arrays : /\ \A id \in Ids : dirty'[w][id] = dirty[w][id]
                            /\ dirty'[w][n + 1] = FALSE
      BY <3>1, <3>2, <3>4, Zenon
    <3>6. \A w \in Arrays, id \in Ids' :
             (IF id = n + 1 THEN FALSE ELSE dirty[w][id]) \in BOOLEAN
      BY <2>1, <3>3, Zenon
    <3> QED
      BY <3>1, <3>5, <3>6, Zenon
  <2> QED
    BY <2>3, <2>4, <2>5, <2>6
<1> QED
  BY <1>1, <1>2, <1>3

\* It keeps the storage's part.
LEMMA NewInfosetStep ==
  ASSUME StoreInv, NEW k \in Keys, NEW shape \in Shapes, NewInfoset(k, shape)
  PROVE  StoreInv'
<1> DEFINE n == Len(meta)
<1>1. n \in Nat /\ Ids = 1..n /\ Ids' = 1..(n + 1) /\ meta' \in Seq([key : Keys, shape : Shapes])
  BY Grown
<1>2. /\ resident' \in [Arrays -> [Ids' -> Values]] /\ written' \in [Arrays -> [Ids' -> Values]]
      /\ span' \in [Arrays -> [Ids' -> Values \cup {Absent}]]
      /\ dirty' \in [Arrays -> [Ids' -> BOOLEAN]]
      /\ \A w \in Arrays, id \in Ids :
            /\ resident'[w][id] = resident[w][id] /\ written'[w][id] = written[w][id]
            /\ span'[w][id] = span[w][id] /\ dirty'[w][id] = dirty[w][id]
      /\ \A w \in Arrays : /\ resident'[w][n + 1] = Zero /\ written'[w][n + 1] = Zero
                           /\ span'[w][n + 1] = Absent /\ dirty'[w][n + 1] = FALSE
  BY Grown
<1>3. UNCHANGED <<precision, live>> /\ held' \subseteq held
  BY DEF NewInfoset
<1>4. SpansOK'
  <2>1. ASSUME NEW w \in Arrays, NEW id \in Ids'
        PROVE  /\ dirty'[w][id] = Has(id, w)'
               /\ Has(id, w)' => Compact' /\ w \in live'
               /\ Compact' => Round(resident'[w][id]) = resident'[w][id]
               /\ Compact' /\ <<id, w>> \in held' => Has(id, w)'
    <3>1. CASE id \in Ids
      BY <1>2, <1>3, <3>1 DEF StoreInv, SpansOK, Has, Compact
    <3>2. CASE id = n + 1
      <4>1. <<id, w>> \notin held'
        BY <1>1, <1>3, <3>2 DEF StoreInv, SpansOK
      <4> QED
        BY <1>2, <3>2, <4>1, Slab DEF Has, Compact
    <3> QED
      BY <1>1, <3>1, <3>2
  <2> QED
    BY <1>1, <1>2, <1>3, <2>1 DEF StoreInv, SpansOK
<1>5. NoWriteIsLost'
  <2>1. ASSUME NEW w \in Arrays, NEW id \in Ids'
        PROVE  /\ Content(id, w)' \in {written'[w][id], Round(written'[w][id])}
               /\ ~Compact' => Content(id, w)' = written'[w][id]
    <3>1. CASE id \in Ids
      <4>1. /\ Content(id, w)' = Content(id, w) /\ Compact' = Compact
            /\ written'[w][id] = written[w][id]
        BY <1>2, <1>3, <3>1 DEF Content, Has, Compact
      <4> QED
        BY <3>1, <4>1, Zenon DEF StoreInv, NoWriteIsLost
    <3>2. CASE id = n + 1
      BY <1>2, <3>2 DEF Content, Has
    <3> QED
      BY <1>1, <3>1, <3>2
  <2> QED
    BY <2>1 DEF NoWriteIsLost
<1> QED
  BY <1>4, <1>5 DEF StoreInv

\* A step that leaves the infosets and the precision alone keeps the storage's
\* part, if it keeps it slab by slab.
LEMMA SlabBySlab ==
  ASSUME StoreInv, UNCHANGED <<precision, meta>>,
         live' \subseteq Arrays, held' \subseteq Ids \X live',
         resident' \in [Arrays -> [Ids -> Values]], written' \in [Arrays -> [Ids -> Values]],
         span' \in [Arrays -> [Ids -> Values \cup {Absent}]],
         dirty' \in [Arrays -> [Ids -> BOOLEAN]],
         \A w \in Arrays, id \in Ids :
            /\ dirty'[w][id] = (span'[w][id] # Absent)
            /\ span'[w][id] # Absent => Compact /\ w \in live'
            /\ Compact => Round(resident'[w][id]) = resident'[w][id]
            /\ Compact /\ <<id, w>> \in held' => span'[w][id] # Absent,
         \A w \in Arrays, id \in Ids :
            LET content == IF span'[w][id] # Absent THEN span'[w][id] ELSE resident'[w][id]
            IN /\ content \in {written'[w][id], Round(written'[w][id])}
               /\ ~Compact => content = written'[w][id]
  PROVE  StoreInv'
<1>1. Ids' = Ids /\ Compact' = Compact
  BY DEF Ids, Compact
<1>2. SpansOK'
  BY <1>1 DEF StoreInv, SpansOK, Has
<1>3. NoWriteIsLost'
  BY <1>1 DEF NoWriteIsLost, Content, Has
<1> QED
  BY <1>2, <1>3 DEF StoreInv

\* Handing out or reading a compact slab decodes what was committed of it.
LEMMA MaterialiseStep ==
  ASSUME StoreInv, Compact, UNCHANGED <<precision, meta, written>>,
         live \subseteq live', live' \subseteq Arrays,
         NEW cells \in SUBSET (Ids \X live'), Materialise(cells),
         held' \subseteq held \cup cells
  PROVE  StoreInv'
<1>1. ASSUME NEW w \in Arrays, NEW id \in Ids, <<id, w>> \in cells
      PROVE  /\ resident'[w][id] = Committed(id, w) /\ span'[w][id] = Committed(id, w)
             /\ dirty'[w][id] = TRUE
  BY <1>1 DEF Materialise
<1>2. ASSUME NEW w \in Arrays, NEW id \in Ids, <<id, w>> \notin cells
      PROVE  /\ resident'[w][id] = resident[w][id] /\ span'[w][id] = span[w][id]
             /\ dirty'[w][id] = dirty[w][id]
  BY <1>2, Zenon DEF Materialise
<1>3. /\ resident' \in [Arrays -> [Ids -> Values]] /\ written' \in [Arrays -> [Ids -> Values]]
      /\ span' \in [Arrays -> [Ids -> Values \cup {Absent}]]
      /\ dirty' \in [Arrays -> [Ids -> BOOLEAN]]
  <2>1. /\ resident \in [Arrays -> [Ids -> Values]] /\ written \in [Arrays -> [Ids -> Values]]
        /\ span \in [Arrays -> [Ids -> Values \cup {Absent}]]
        /\ dirty \in [Arrays -> [Ids -> BOOLEAN]]
    BY DEF StoreInv, SpansOK
  <2>2. \A w \in Arrays, id \in Ids : Committed(id, w) \in Values
    BY CommittedSlab
  <2>3. resident' \in [Arrays -> [Ids -> Values]]
    BY <2>1, <2>2, Zenon DEF Materialise
  <2>4. span' \in [Arrays -> [Ids -> Values \cup {Absent}]]
    BY <2>1, <2>2, Zenon DEF Materialise
  <2>5. dirty' \in [Arrays -> [Ids -> BOOLEAN]]
    BY <2>1, Zenon DEF Materialise
  <2> QED
    BY <2>1, <2>3, <2>4, <2>5
<1>4. held' \subseteq Ids \X live'
  BY DEF StoreInv, SpansOK
<1>5. ASSUME NEW w \in Arrays, NEW id \in Ids
      PROVE  /\ dirty'[w][id] = (span'[w][id] # Absent)
             /\ span'[w][id] # Absent => Compact /\ w \in live'
             /\ Compact => Round(resident'[w][id]) = resident'[w][id]
             /\ Compact /\ <<id, w>> \in held' => span'[w][id] # Absent
  <2>1. CASE <<id, w>> \in cells
    <3>1. w \in live'
      BY <2>1
    <3>2. span'[w][id] # Absent /\ Round(resident'[w][id]) = resident'[w][id]
      <4>1. resident'[w][id] = Committed(id, w) /\ span'[w][id] = Committed(id, w)
        BY <1>1, <2>1, Zenon
      <4>2. Committed(id, w) # Absent /\ Round(Committed(id, w)) = Committed(id, w)
        BY CommittedSlab
      <4> QED
        BY <4>1, <4>2, Zenon
    <3>3. dirty'[w][id]
      BY <1>1, <2>1, Zenon
    <3> QED
      BY <3>1, <3>2, <3>3, Zenon
  <2>2. CASE <<id, w>> \notin cells
    BY <1>2, <2>2 DEF StoreInv, SpansOK, Has
  <2> QED
    BY <2>1, <2>2
<1>6. ASSUME NEW w \in Arrays, NEW id \in Ids
      PROVE  LET content == IF span'[w][id] # Absent THEN span'[w][id] ELSE resident'[w][id]
             IN /\ content \in {written'[w][id], Round(written'[w][id])}
                /\ ~Compact => content = written'[w][id]
  <2>1. CASE <<id, w>> \in cells
    BY <1>1, <2>1, CommittedSlab
  <2>2. CASE <<id, w>> \notin cells
    BY <1>2, <2>2 DEF StoreInv, NoWriteIsLost, Content, Has
  <2> QED
    BY <2>1, <2>2
<1> QED
  BY <1>3, <1>4, <1>5, <1>6, SlabBySlab

\* Neither the arrays nor their spans change.
LEMMA SameSlabs ==
  ASSUME StoreInv, UNCHANGED <<precision, meta, resident, span, dirty, written>>,
         live \subseteq live', live' \subseteq Arrays, held' \subseteq Ids \X live',
         Compact => held' \subseteq held
  PROVE  StoreInv'
<1>1. Ids' = Ids /\ Compact' = Compact
  BY DEF Ids, Compact
<1>2. SpansOK'
  BY <1>1 DEF StoreInv, SpansOK, Has
<1>3. NoWriteIsLost'
  BY <1>1 DEF StoreInv, NoWriteIsLost, Content, Has
<1> QED
  BY <1>2, <1>3 DEF StoreInv

\* The storage's functions keep every write: pe_storage_values,
LEMMA AccessStep ==
  ASSUME StoreInv, NEW id \in Ids, NEW w \in Arrays, Access(id, w)
  PROVE  StoreInv'
<1>1. /\ live' = live \cup {w} /\ held' = held \cup {<<id, w>>}
      /\ UNCHANGED <<precision, meta, written>>
  BY DEF Access, mapVars
<1>2. live \subseteq Arrays /\ held \subseteq Ids \X live
  BY DEF StoreInv, SpansOK
<1>3. live \subseteq live' /\ live' \subseteq Arrays /\ held' \subseteq Ids \X live'
  BY <1>1, <1>2
<1>4. CASE Compact
  <2>1. {<<id, w>>} \in SUBSET (Ids \X live') /\ held' \subseteq held \cup {<<id, w>>}
    BY <1>1
  <2>2. Materialise({<<id, w>>})
    BY <1>4 DEF Access
  <2> QED
    BY <1>1, <1>3, <1>4, <2>1, <2>2, MaterialiseStep
<1>5. CASE ~Compact
  BY <1>1, <1>3, <1>5, SameSlabs DEF Access
<1> QED
  BY <1>4, <1>5

\* ... when it finds no memory,
LEMMA AccessFailsStep ==
  ASSUME StoreInv, NEW id \in Ids, NEW w \in Arrays, AccessFails(id, w)
  PROVE  StoreInv'
<1>1. live \subseteq Arrays /\ held \subseteq Ids \X live
  BY DEF StoreInv, SpansOK
<1>2. /\ live \subseteq live' /\ live' \subseteq Arrays
      /\ UNCHANGED <<precision, meta, resident, span, dirty, held, written>>
  BY <1>1 DEF AccessFails, mapVars
<1> QED
  BY <1>1, <1>2, SameSlabs

\* pe_storage_values_const, of any number of slabs,
LEMMA ReadConstStep ==
  ASSUME StoreInv, NEW cells \in SUBSET (Ids \X live), ReadConst(cells)
  PROVE  StoreInv'
<1>1. live \subseteq Arrays /\ held \subseteq Ids \X live
  BY DEF StoreInv, SpansOK
<1>2. UNCHANGED <<precision, meta, live, held, written>>
  BY DEF ReadConst, mapVars
<1>3. CASE Compact
  <2>1. Materialise(cells)
    BY <1>3 DEF ReadConst
  <2> QED
    BY <1>1, <1>2, <1>3, <2>1, MaterialiseStep
<1>4. CASE ~Compact
  BY <1>1, <1>2, <1>4, SameSlabs DEF ReadConst
<1> QED
  BY <1>3, <1>4

\* Writing through a pointer: to the span, which a held slab has, or to the
\* array itself.
LEMMA WriteStep ==
  ASSUME StoreInv, NEW id \in Ids, NEW w \in Arrays, NEW v \in NewValues, Write(id, w, v)
  PROVE  StoreInv'
<1>1. /\ UNCHANGED <<precision, meta, live, dirty, held>> /\ <<id, w>> \in held
      /\ written' = [written EXCEPT ![w][id] = v]
      /\ Compact => span' = [span EXCEPT ![w][id] = v] /\ resident' = resident
      /\ ~Compact => resident' = [resident EXCEPT ![w][id] = v] /\ span' = span
  BY DEF Write, Put, mapVars
<1>2. v \in Values /\ v # Absent
  BY StorageAssumption, Slab
<1>3. SpansOK
  BY DEF StoreInv
<1>4. /\ resident' \in [Arrays -> [Ids -> Values]] /\ written' \in [Arrays -> [Ids -> Values]]
      /\ span' \in [Arrays -> [Ids -> Values \cup {Absent}]]
      /\ dirty' \in [Arrays -> [Ids -> BOOLEAN]]
      /\ live' \subseteq Arrays /\ held' \subseteq Ids \X live'
  <2>1. /\ resident \in [Arrays -> [Ids -> Values]] /\ written \in [Arrays -> [Ids -> Values]]
        /\ span \in [Arrays -> [Ids -> Values \cup {Absent}]]
        /\ dirty \in [Arrays -> [Ids -> BOOLEAN]]
        /\ live \subseteq Arrays /\ held \subseteq Ids \X live
    BY <1>3 DEF SpansOK
  <2>2. resident' \in [Arrays -> [Ids -> Values]]
    <3>1. CASE resident' = [resident EXCEPT ![w][id] = v]
      BY <1>2, <2>1, <3>1
    <3>2. CASE resident' = resident
      BY <2>1, <3>2
    <3> QED
      BY <1>1, <3>1, <3>2
  <2>3. written' \in [Arrays -> [Ids -> Values]]
    BY <1>1, <1>2, <2>1
  <2>4. span' \in [Arrays -> [Ids -> Values \cup {Absent}]]
    <3>1. CASE span' = [span EXCEPT ![w][id] = v]
      BY <1>2, <2>1, <3>1
    <3>2. CASE span' = span
      BY <2>1, <3>2
    <3> QED
      BY <1>1, <3>1, <3>2
  <2> QED
    BY <1>1, <2>1, <2>2, <2>3, <2>4
<1>5. ASSUME NEW x \in Arrays, NEW i \in Ids
      PROVE  /\ dirty'[x][i] = (span'[x][i] # Absent)
             /\ span'[x][i] # Absent => Compact /\ x \in live'
             /\ Compact => Round(resident'[x][i]) = resident'[x][i]
             /\ Compact /\ <<i, x>> \in held' => span'[x][i] # Absent
  <2>1. CASE Compact
    <3>1. /\ span'[x][i] = (IF x = w /\ i = id THEN v ELSE span[x][i])
          /\ resident'[x][i] = resident[x][i] /\ dirty'[x][i] = dirty[x][i]
      BY <1>1, <1>3, <2>1 DEF SpansOK
    <3>2. span[w][id] # Absent
      BY <1>1, <1>3, <2>1 DEF SpansOK, Has
    <3>3. (span'[x][i] # Absent) = (span[x][i] # Absent)
      BY <1>2, <3>1, <3>2
    <3> QED
      BY <1>1, <1>3, <3>1, <3>3, Zenon DEF SpansOK, Has
  <2>2. CASE ~Compact
    BY <1>1, <1>3, <2>2, Zenon DEF SpansOK, Has
  <2> QED
    BY <2>1, <2>2
<1>6. ASSUME NEW x \in Arrays, NEW i \in Ids
      PROVE  LET content == IF span'[x][i] # Absent THEN span'[x][i] ELSE resident'[x][i]
             IN /\ content \in {written'[x][i], Round(written'[x][i])}
                /\ ~Compact => content = written'[x][i]
  <2>1. /\ Compact => span'[x][i] = (IF x = w /\ i = id THEN v ELSE span[x][i])
                      /\ resident'[x][i] = resident[x][i]
        /\ ~Compact => resident'[x][i] = (IF x = w /\ i = id THEN v ELSE resident[x][i])
                       /\ span'[x][i] = span[x][i] /\ span[x][i] = Absent
        /\ written'[x][i] = (IF x = w /\ i = id THEN v ELSE written[x][i])
    <3>1. /\ resident \in [Arrays -> [Ids -> Values]] /\ written \in [Arrays -> [Ids -> Values]]
          /\ span \in [Arrays -> [Ids -> Values \cup {Absent}]]
      BY <1>3 DEF SpansOK
    <3>2. ~Compact => span[x][i] = Absent
      BY <1>3, Zenon DEF SpansOK, Has
    <3>3. written'[x][i] = (IF x = w /\ i = id THEN v ELSE written[x][i])
      BY <1>1, <3>1
    <3>4. Compact => span'[x][i] = (IF x = w /\ i = id THEN v ELSE span[x][i])
                     /\ resident'[x][i] = resident[x][i]
      BY <1>1, <3>1
    <3>5. ~Compact => resident'[x][i] = (IF x = w /\ i = id THEN v ELSE resident[x][i])
                      /\ span'[x][i] = span[x][i]
      BY <1>1, <3>1
    <3> QED
      BY <3>2, <3>3, <3>4, <3>5
  <2> QED
    BY <1>2, <2>1 DEF StoreInv, NoWriteIsLost, Content, Has
<1> QED
  BY <1>1, <1>4, <1>5, <1>6, SlabBySlab

\* What goes is committed first: the array then holds what the span did.
LEMMA DropStep ==
  ASSUME StoreInv, NEW street, DropRecomputable(street),
         held' = {}, UNCHANGED <<precision, meta, live, written>>
  PROVE  StoreInv'
<1>1. ASSUME NEW w \in Arrays, NEW id \in Ids, Goes(id, w, street)
      PROVE  /\ resident'[w][id] = Committed(id, w) /\ span'[w][id] = Absent
             /\ dirty'[w][id] = FALSE
  BY <1>1 DEF DropRecomputable, Release
<1>2. ASSUME NEW w \in Arrays, NEW id \in Ids, ~Goes(id, w, street)
      PROVE  /\ resident'[w][id] = resident[w][id] /\ span'[w][id] = span[w][id]
             /\ dirty'[w][id] = dirty[w][id]
  BY <1>2 DEF DropRecomputable, Release, StoreInv, SpansOK
<1>3. /\ resident' \in [Arrays -> [Ids -> Values]] /\ written' \in [Arrays -> [Ids -> Values]]
      /\ span' \in [Arrays -> [Ids -> Values \cup {Absent}]]
      /\ dirty' \in [Arrays -> [Ids -> BOOLEAN]]
  <2>1. SpansOK
    BY DEF StoreInv
  <2>2. \A w \in Arrays, id \in Ids : Goes(id, w, street) => Committed(id, w) \in Values
    BY CommittedSlab DEF Goes
  <2>3. resident' \in [Arrays -> [Ids -> Values]]
    BY <2>1, <2>2, Zenon DEF DropRecomputable, Release, SpansOK
  <2>4. span' \in [Arrays -> [Ids -> Values \cup {Absent}]]
    BY <2>1, Zenon DEF DropRecomputable, Release, SpansOK
  <2>5. dirty' \in [Arrays -> [Ids -> BOOLEAN]]
    BY DEF DropRecomputable
  <2> QED
    BY <2>1, <2>3, <2>4, <2>5 DEF SpansOK
<1>4. ASSUME NEW w \in Arrays, NEW id \in Ids
      PROVE  /\ dirty'[w][id] = (span'[w][id] # Absent)
             /\ span'[w][id] # Absent => Compact /\ w \in live'
             /\ Compact => Round(resident'[w][id]) = resident'[w][id]
             /\ Compact /\ <<id, w>> \in held' => span'[w][id] # Absent
  <2>1. CASE Goes(id, w, street)
    <3>1. Compact /\ Round(Committed(id, w)) = Committed(id, w)
      BY <2>1, CommittedSlab DEF Goes
    <3> QED
      BY <1>1, <2>1, <3>1, Zenon
  <2>2. CASE ~Goes(id, w, street)
    <3>1. /\ dirty[w][id] = (span[w][id] # Absent)
          /\ span[w][id] # Absent => Compact /\ w \in live
          /\ Compact => Round(resident[w][id]) = resident[w][id]
      BY Zenon DEF StoreInv, SpansOK, Has
    <3>2. <<id, w>> \notin held' /\ live' = live
      OBVIOUS
    <3> QED
      BY <1>2, <2>2, <3>1, <3>2, Zenon
  <2> QED
    BY <2>1, <2>2
<1>5. ASSUME NEW w \in Arrays, NEW id \in Ids
      PROVE  LET content == IF span'[w][id] # Absent THEN span'[w][id] ELSE resident'[w][id]
             IN /\ content \in {written'[w][id], Round(written'[w][id])}
                /\ ~Compact => content = written'[w][id]
  <2>1. CASE Goes(id, w, street)
    <3>1. Compact /\ Committed(id, w) \in {written[w][id], Round(written[w][id])}
      BY <2>1, CommittedSlab DEF Goes
    <3> QED
      BY <1>1, <2>1, <3>1, Zenon
  <2>2. CASE ~Goes(id, w, street)
    BY <1>2, <2>2 DEF StoreInv, NoWriteIsLost, Content, Has
  <2> QED
    BY <2>1, <2>2
<1>6. live' \subseteq Arrays /\ held' \subseteq Ids \X live'
  BY DEF StoreInv, SpansOK
<1> QED
  BY <1>3, <1>4, <1>5, <1>6, SlabBySlab

\* and the end of an iteration with what its tier evicts.
LEMMA EndIterationStep ==
  ASSUME StoreInv, EndIteration
  PROVE  StoreInv'
<1>1. UNCHANGED <<precision, meta, live, written>> /\ held' = {}
  BY DEF EndIteration, mapVars
<1>2. CASE UNCHANGED <<resident, span, dirty>>
  BY <1>1, <1>2, SameSlabs DEF StoreInv, SpansOK
<1>3. CASE \E street \in PressureStreets : DropRecomputable(street)
  BY <1>1, <1>3, DropStep
<1> QED
  BY <1>2, <1>3 DEF EndIteration

\* A load writes the arrays of one entry.
LEMMA PutAllStep ==
  ASSUME StoreInv, NEW id, NEW allocated \in SUBSET Arrays,
         NEW arrays \in SUBSET allocated, PutAll(id, arrays, allocated),
         \A w \in arrays : Entry.values[w] \in Values
  PROVE  StoreInv'
<1> DEFINE Here(w, i) == w \in arrays /\ i = id
<1>1. /\ UNCHANGED <<precision, meta, held>> /\ live' = live \cup allocated
  BY DEF PutAll, mapVars
<1>2. SpansOK
  BY DEF StoreInv
<1>3. live' \subseteq Arrays /\ held' \subseteq Ids \X live'
  BY <1>1, <1>2 DEF SpansOK
<1>4. written' = [w \in Arrays |-> [i \in Ids |->
                    IF Here(w, i) THEN Entry.values[w] ELSE written[w][i]]]
  BY Zenon DEF PutAll, Here
<1> HIDE DEF Here
<1>5. /\ resident \in [Arrays -> [Ids -> Values]] /\ written \in [Arrays -> [Ids -> Values]]
      /\ span \in [Arrays -> [Ids -> Values \cup {Absent}]]
      /\ dirty \in [Arrays -> [Ids -> BOOLEAN]]
  BY <1>2 DEF SpansOK
<1>6. written' \in [Arrays -> [Ids -> Values]]
  <2>1. \A w \in Arrays, i \in Ids : Here(w, i) => Entry.values[w] \in Values
    BY DEF Here
  <2> QED
    BY <1>4, <1>5, <2>1, Zenon
<1>7. CASE Compact
  <2>1. /\ span' = [w \in Arrays |-> [i \in Ids |->
                    IF Here(w, i) THEN Entry.values[w] ELSE span[w][i]]]
        /\ dirty' = [w \in Arrays |-> [i \in Ids |->
                    IF Here(w, i) THEN TRUE ELSE dirty[w][i]]]
        /\ resident' = [w \in Arrays |-> [i \in Ids |->
                    IF Here(w, i) THEN Committed(id, w) ELSE resident[w][i]]]
    BY <1>7, Zenon DEF PutAll, Here
  <2>2. \A w \in Arrays, i \in Ids : Here(w, i) => Committed(id, w) \in Values
    BY <1>7, CommittedSlab DEF Here
  <2>3. \A w \in Arrays, i \in Ids : Here(w, i) => Entry.values[w] \in Values
    BY DEF Here
  <2>4. resident' \in [Arrays -> [Ids -> Values]]
    BY <2>1, <1>5, <1>7, <2>2, Zenon
  <2>5. span' \in [Arrays -> [Ids -> Values \cup {Absent}]]
    BY <2>1, <1>5, <1>7, <2>3, Zenon
  <2>6. dirty' \in [Arrays -> [Ids -> BOOLEAN]]
    <3>1. \A w \in Arrays, i \in Ids :
             (IF Here(w, i) THEN TRUE ELSE dirty[w][i]) \in BOOLEAN
      BY <1>5, Zenon
    <3> QED
      BY <2>1, <1>7, <3>1, Zenon
  <2>7. ASSUME NEW w \in Arrays, NEW i \in Ids
        PROVE  /\ dirty'[w][i] = (span'[w][i] # Absent)
               /\ span'[w][i] # Absent => Compact /\ w \in live'
               /\ Compact => Round(resident'[w][i]) = resident'[w][i]
               /\ Compact /\ <<i, w>> \in held' => span'[w][i] # Absent
    <3>1. CASE Here(w, i)
      <4>1. span'[w][i] = Entry.values[w] /\ resident'[w][i] = Committed(id, w)
        BY <2>1, <1>7, <3>1, Zenon
      <4>2. dirty'[w][i]
        BY <2>1, <1>7, <3>1, Zenon
      <4>3. span'[w][i] # Absent
        BY <3>1, <4>1, Slab DEF Here
      <4>4. Round(Committed(id, w)) = Committed(id, w)
        BY <1>7, <3>1, CommittedSlab DEF Here
      <4>5. w \in live'
        BY <1>1, <3>1 DEF Here
      <4> QED
        BY <1>7, <4>1, <4>2, <4>3, <4>4, <4>5, Zenon
    <3>2. CASE ~Here(w, i)
      <4>1. span'[w][i] = span[w][i] /\ resident'[w][i] = resident[w][i]
        BY <2>1, <1>7, <3>2
      <4>2. dirty'[w][i] = dirty[w][i]
        <5>1. dirty'[w][i] = (IF Here(w, i) THEN TRUE ELSE dirty[w][i])
          BY <2>1, <1>7, Zenon
        <5> QED
          BY <3>2, <5>1, Zenon
      <4>3. w \in live => w \in live'
        BY <1>1
      <4>4. /\ dirty[w][i] = (span[w][i] # Absent)
            /\ span[w][i] # Absent => Compact /\ w \in live
            /\ Compact => Round(resident[w][i]) = resident[w][i]
            /\ Compact /\ <<i, w>> \in held => span[w][i] # Absent
        BY <1>2, Zenon DEF SpansOK, Has
      <4> QED
        BY <1>1, <4>1, <4>2, <4>3, <4>4, Zenon
    <3> QED
      BY <3>1, <3>2
  <2>8. ASSUME NEW w \in Arrays, NEW i \in Ids
        PROVE  LET content == IF span'[w][i] # Absent THEN span'[w][i] ELSE resident'[w][i]
               IN /\ content \in {written'[w][i], Round(written'[w][i])}
                  /\ ~Compact => content = written'[w][i]
    <3>1. CASE Here(w, i)
      <4>1. span'[w][i] = Entry.values[w] /\ written'[w][i] = Entry.values[w]
        BY <1>4, <2>1, <1>7, <3>1, Zenon
      <4>2. span'[w][i] # Absent
        BY <3>1, <4>1, Slab DEF Here
      <4> QED
        BY <4>1, <4>2
    <3>2. CASE ~Here(w, i)
      <4>1. /\ span'[w][i] = span[w][i] /\ resident'[w][i] = resident[w][i]
            /\ written'[w][i] = written[w][i]
        BY <1>4, <2>1, <1>7, <3>2
      <4> QED
        BY <4>1 DEF StoreInv, NoWriteIsLost, Content, Has
    <3> QED
      BY <3>1, <3>2
  <2> QED
    BY <1>1, <1>3, <1>6, <2>4, <2>5, <2>6, <2>7, <2>8, SlabBySlab
<1>8. CASE ~Compact
  <2>1. /\ span' = span /\ dirty' = dirty
        /\ resident' = [w \in Arrays |-> [i \in Ids |->
                    IF Here(w, i) THEN Entry.values[w] ELSE resident[w][i]]]
    BY <1>8, Zenon DEF PutAll, Here
  <2>2. resident' \in [Arrays -> [Ids -> Values]]
    <3>1. \A w \in Arrays, i \in Ids : Here(w, i) => Entry.values[w] \in Values
      BY DEF Here
    <3> QED
      BY <2>1, <1>5, <1>8, <3>1, Zenon
  <2>3. span' = span /\ dirty' = dirty
    BY <2>1, <1>8
  <2>4. ASSUME NEW w \in Arrays, NEW i \in Ids
        PROVE  /\ dirty[w][i] = (span[w][i] # Absent) /\ span[w][i] = Absent
    BY <1>2, <1>8, Zenon DEF SpansOK, Has
  <2>5. ASSUME NEW w \in Arrays, NEW i \in Ids
        PROVE  LET content == IF span'[w][i] # Absent THEN span'[w][i] ELSE resident'[w][i]
               IN /\ content \in {written'[w][i], Round(written'[w][i])}
                  /\ ~Compact => content = written'[w][i]
    <3>1. resident'[w][i] = written'[w][i]
      <4>1. resident[w][i] = written[w][i]
        BY <1>8, <2>4, Zenon DEF StoreInv, NoWriteIsLost, Content, Has
      <4> QED
        BY <1>4, <2>1, <1>8, <4>1
    <3> QED
      BY <2>3, <2>4, <3>1
  <2>6. ASSUME NEW w \in Arrays, NEW i \in Ids
        PROVE  /\ dirty'[w][i] = (span'[w][i] # Absent)
               /\ span'[w][i] # Absent => Compact /\ w \in live'
               /\ Compact => Round(resident'[w][i]) = resident'[w][i]
               /\ Compact /\ <<i, w>> \in held' => span'[w][i] # Absent
    BY <1>8, <2>3, <2>4, Zenon
  <2> QED
    BY <1>1, <1>3, <1>5, <1>6, <2>2, <2>3, <2>5, <2>6, SlabBySlab
<1> QED
  BY <1>7, <1>8

\* The storage of a new process.
LEMMA Fresh ==
  ASSUME NEW p \in Precisions, FreshStorage(p)
  PROVE  StoreInv
<1>1. Ids = {}
  BY DEF FreshStorage, Ids
<1>2. meta \in Seq([key : Keys, shape : Shapes])
  BY DEF FreshStorage
<1>3. \A S : [w \in Arrays |-> <<>>] \in [Arrays -> [{} -> S]]
  OBVIOUS
<1> QED
  BY <1>1, <1>2, <1>3 DEF FreshStorage, StoreInv, SpansOK, NoWriteIsLost

\* A new process has nothing to lose.
LEMMA RestartStep ==
  ASSUME Restart
  PROVE  StoreInv'
<1>1. Ids' = {}
  BY DEF Restart, Ids
<1>2. meta' \in Seq([key : Keys, shape : Shapes])
  BY DEF Restart
<1>3. \A S : [w \in Arrays |-> <<>>] \in [Arrays -> [{} -> S]]
  OBVIOUS
<1> QED
  BY <1>1, <1>2, <1>3 DEF Restart, StoreInv, SpansOK, NoWriteIsLost

\* A step that leaves the storage alone.
LEMMA SameStorage ==
  ASSUME StoreInv, UNCHANGED storageVars
  PROVE  StoreInv'
<1>1. Ids' = Ids /\ Compact' = Compact
  BY DEF storageVars, mapVars, Ids, Compact
<1> QED
  BY <1>1 DEF storageVars, mapVars, spanVars, StoreInv, SpansOK, NoWriteIsLost, Content, Has

\* A resolve that fails may end pointers, and changes nothing else.
LEMMA ResolveFailsKeeps ==
  ASSUME NEW k, ResolveFails(k)
  PROVE  UNCHANGED <<precision, mapVars, spanVars, written>> /\ held' \subseteq held
BY DEF ResolveFails

LEMMA ResolveFailsStep ==
  ASSUME StoreInv, NEW k, ResolveFails(k)
  PROVE  StoreInv'
<1>1. UNCHANGED <<precision, mapVars, spanVars, written>> /\ held' \subseteq held
  BY ResolveFailsKeeps
<1>2. Ids' = Ids /\ Compact' = Compact
  BY <1>1 DEF mapVars, Ids, Compact
<1> QED
  BY <1>1, <1>2 DEF mapVars, spanVars, StoreInv, SpansOK, NoWriteIsLost, Content, Has

\* pe_storage_resolve, whether the infoset is new, known or refused.
LEMMA ResolveStep ==
  ASSUME StoreInv, NEW k \in Keys, NEW shape \in Shapes, Resolve(k, shape)
  PROVE  StoreInv'
BY NewInfosetStep, SameStorage, ResolveFailsStep DEF Resolve, KnownInfoset

\* A step of a traversal.
LEMMA SolveStep ==
  ASSUME StoreInv, Solve
  PROVE  StoreInv'
<1>1. ASSUME NEW k \in Keys, Resolve(k, "game")
      PROVE  StoreInv'
  BY <1>1, ResolveStep DEF Shapes
<1>2. ASSUME NEW id \in Ids, NEW w \in Arrays, ReadConst({<<id, w>>})
      PROVE  StoreInv'
  <2>1. {<<id, w>>} \in SUBSET (Ids \X live)
    BY <1>2 DEF ReadConst, Readable
  <2> QED
    BY <1>2, <2>1, ReadConstStep
<1> QED
  BY <1>1, <1>2, AccessStep, AccessFailsStep, WriteStep, EndIterationStep DEF Solve

(***************************************************************************)
(* The file                                                                *)
(***************************************************************************)

\* A file's entry.
Entries == [key : Keys, shape : Shapes, values : FileValues]

\* An older program's file has entries of the storage's kinds.
LEMMA LegacyFileOK ==
  ASSUME NEW content \in Legacy
  PROVE  LegacyFile(content).entries \in Seq(Entries)
<1>1. content \in Seq([key : Keys, values : FileValues])
  BY CheckpointAssumption
<1>2. /\ Len(content) \in Nat /\ DOMAIN content = 1..Len(content)
      /\ content \in [1..Len(content) -> [key : Keys, values : FileValues]]
  BY <1>1, LenProperties
<1>3. \A i \in DOMAIN content :
         [key |-> content[i].key, shape |-> "flat", values |-> content[i].values] \in Entries
  BY <1>2 DEF Entries, Shapes
<1>4. LegacyFile(content).entries \in [1..Len(content) -> Entries]
  BY <1>2, <1>3 DEF LegacyFile
<1> QED
  BY <1>2, <1>4, SeqDef

\* What a save writes of one infoset.
LEMMA SaveEntryFile ==
  ASSUME StoreInv, FileOK, SaveEntry
  PROVE  FileOK'
<1> PICK lost \in SUBSET {w \in live : "read" \in Shortages /\ Compact /\ ~Has(io.at, w)} :
       disk' = [disk EXCEPT !.entries = Append(@,
                   [key |-> meta[io.at].key, shape |-> meta[io.at].shape,
                    values |-> [w \in live \ lost |-> IF Compact THEN Committed(io.at, w)
                                                            ELSE resident[w][io.at]]])]
  BY DEF SaveEntry
<1> DEFINE id == io.at
           content == [w \in live \ lost |-> IF Compact THEN Committed(id, w)
                                                         ELSE resident[w][id]]
           entry == [key |-> meta[id].key, shape |-> meta[id].shape, values |-> content]
<1>1. id \in Ids /\ meta[id] \in [key : Keys, shape : Shapes]
  <2>1. id \in Ids
    BY DEF SaveEntry
  <2>2. meta \in Seq([key : Keys, shape : Shapes])
    BY DEF StoreInv, SpansOK
  <2> QED
    BY <2>1, <2>2, ElementOfSeq DEF Ids
<1>2. \A w \in live : (IF Compact THEN Committed(id, w) ELSE resident[w][id]) \in Values
  <2>1. CASE Compact
    BY <1>1, <2>1, CommittedSlab DEF StoreInv, SpansOK
  <2>2. CASE ~Compact
    BY <1>1, <2>2 DEF StoreInv, SpansOK
  <2> QED
    BY <2>1, <2>2
<1>3. content \in FileValues
  <2>1. content \in [live \ lost -> Values]
    BY <1>2
  <2>2. live \ lost \in SUBSET Arrays
    BY DEF StoreInv, SpansOK
  <2> QED
    BY <2>1, <2>2 DEF FileValues
<1>4. entry \in [key : Keys, shape : Shapes, values : FileValues]
  BY <1>1, <1>3
<1> HIDE DEF entry, content
<1>5. disk' = [disk EXCEPT !.entries = Append(disk.entries, entry)]
  BY DEF entry, content
<1>6. Append(disk.entries, entry) \in Seq([key : Keys, shape : Shapes, values : FileValues])
  BY <1>4, AppendProperties DEF FileOK
<1>7. io' = [io EXCEPT !.at = @ + 1] /\ io.op = "save"
  BY DEF SaveEntry
<1>8. /\ disk' = [format |-> disk.format, whole |-> disk.whole, config |-> disk.config,
                   entries |-> Append(disk.entries, entry), snapshot |-> disk.snapshot]
      /\ disk'.entries = Append(disk.entries, entry)
  BY <1>5 DEF FileOK
<1>9. io' \in [op : {"none", "save", "resolve", "values"}, at : Nat] /\ io'.op = "save"
  BY <1>7 DEF FileOK
<1> QED
  BY <1>6, <1>8, <1>9 DEF FileOK

\* Saving an entry reads every array in use.
LEMMA SaveEntryStep ==
  ASSUME StoreInv, SaveEntry
  PROVE  StoreInv'
<1> PICK lost \in SUBSET {w \in live : "read" \in Shortages /\ Compact /\ ~Has(io.at, w)} :
       ReadConst({<<io.at, w>> : w \in live \ lost})
  BY DEF SaveEntry
<1>1. {<<io.at, w>> : w \in live \ lost} \in SUBSET (Ids \X live)
  BY DEF SaveEntry
<1> QED
  BY <1>1, ReadConstStep

\* The entry a load is at is one of the file's.
LEMMA EntryOK ==
  ASSUME FileOK, io.at \in DOMAIN disk.entries
  PROVE  /\ Entry.key \in Keys /\ Entry.shape \in Shapes
         /\ DOMAIN Entry.values \subseteq Arrays
         /\ \A w \in DOMAIN Entry.values : Entry.values[w] \in Values
<1>1. disk.entries \in Seq([key : Keys, shape : Shapes, values : FileValues])
  BY DEF FileOK
<1>2. io.at \in 1..Len(disk.entries)
  BY <1>1, LenProperties
<1>3. Entry \in [key : Keys, shape : Shapes, values : FileValues]
  BY <1>1, <1>2, ElementOfSeq DEF Entry
<1>4. PICK arrays \in SUBSET Arrays : Entry.values \in [arrays -> Values]
  BY <1>3 DEF FileValues
<1> QED
  BY <1>3, <1>4

\* A load resolves the entry it is at,
LEMMA LoadResolveStep ==
  ASSUME StoreInv, FileOK, LoadResolve
  PROVE  StoreInv' /\ FileOK'
<1>1. io.at \in DOMAIN disk.entries /\ io.op = "resolve"
  BY DEF LoadResolve
<1>2. Entry.key \in Keys /\ Entry.shape \in Shapes
  BY <1>1, EntryOK
<1>3. StoreInv'
  BY <1>2, NewInfosetStep, SameStorage, ResolveFailsStep DEF LoadResolve, KnownInfoset
<1>4. disk' = disk /\ (io' = [io EXCEPT !.op = "values"] \/ io' = NoIo)
  BY DEF LoadResolve, ToValues, LoadFails
<1>5. FileOK'
  BY <1>1, <1>4 DEF FileOK, NoIo
<1> QED
  BY <1>3, <1>5

\* The arrays a load writes are among those of its entry: all of them, or those
\* before one there is no memory for.
LEMMA LoadPuts ==
  ASSUME FileOK, LoadValues
  PROVE  /\ \E allocated \in SUBSET DOMAIN Entry.values : \E arrays \in SUBSET allocated :
               /\ PutAll(Find(Entry.key), arrays, allocated)
               /\ \/ arrays = DOMAIN Entry.values /\ UNCHANGED status
                     /\ io' = [op |-> "resolve", at |-> io.at + 1]
                  \/ io' = NoIo /\ status' = "failed"
         /\ UNCHANGED <<config, phase, disk, restarts, saves, ops>>
<1> DEFINE present == DOMAIN Entry.values
           before(w) == {x \in present : x < w}
<1>1. CASE /\ PutAll(Find(Entry.key), present, present)
           /\ io' = [op |-> "resolve", at |-> io.at + 1]
           /\ UNCHANGED <<config, phase, status, disk, restarts, saves, ops>>
  <2>1. present \in SUBSET present
    OBVIOUS
  <2> QED
    BY <1>1, <2>1
<1>2. ASSUME NEW w \in present, LoadFails,
             \/ PutAll(Find(Entry.key), before(w), before(w))
             \/ PutAll(Find(Entry.key), before(w), before(w) \cup {w})
      PROVE  /\ \E allocated \in SUBSET present : \E arrays \in SUBSET allocated :
                   PutAll(Find(Entry.key), arrays, allocated)
             /\ io' = NoIo /\ status' = "failed"
             /\ UNCHANGED <<config, phase, disk, restarts, saves, ops>>
  <2>1. /\ before(w) \in SUBSET present /\ before(w) \in SUBSET before(w)
        /\ before(w) \cup {w} \in SUBSET present
        /\ before(w) \in SUBSET (before(w) \cup {w})
    OBVIOUS
  <2> HIDE DEF before
  <2>2. \E allocated \in SUBSET present : \E arrays \in SUBSET allocated :
           PutAll(Find(Entry.key), arrays, allocated)
    BY <1>2, <2>1, Zenon
  <2> QED
    BY <1>2, <2>2 DEF LoadFails
<1>3. \/ /\ PutAll(Find(Entry.key), present, present)
         /\ io' = [op |-> "resolve", at |-> io.at + 1]
         /\ UNCHANGED <<config, phase, status, disk, restarts, saves, ops>>
      \/ \E w \in present :
            /\ LoadFails
            /\ \/ PutAll(Find(Entry.key), before(w), before(w))
               \/ PutAll(Find(Entry.key), before(w), before(w) \cup {w})
  BY Zenon DEF LoadValues
<1> QED
  BY <1>1, <1>2, <1>3

\* ... and puts its values in.
LEMMA LoadValuesStep ==
  ASSUME StoreInv, FileOK, LoadValues
  PROVE  StoreInv' /\ FileOK'
<1>1. io.at \in DOMAIN disk.entries /\ io.at \in Nat
  BY DEF LoadValues, FileOK
<1>2. /\ DOMAIN Entry.values \subseteq Arrays
      /\ \A w \in DOMAIN Entry.values : Entry.values[w] \in Values
  BY <1>1, EntryOK
<1>3. \E allocated \in SUBSET DOMAIN Entry.values : \E arrays \in SUBSET allocated :
         PutAll(Find(Entry.key), arrays, allocated)
  BY LoadPuts
<1>4. StoreInv'
  <2>1. PICK allocated \in SUBSET DOMAIN Entry.values, arrays \in SUBSET DOMAIN Entry.values :
           arrays \subseteq allocated /\ PutAll(Find(Entry.key), arrays, allocated)
    BY <1>3
  <2>2. /\ allocated \in SUBSET Arrays /\ arrays \in SUBSET allocated
        /\ \A w \in arrays : Entry.values[w] \in Values
    BY <1>2, <2>1
  <2> QED
    BY <2>1, <2>2, PutAllStep
<1>5. disk' = disk /\ (io' = [op |-> "resolve", at |-> io.at + 1] \/ io' = NoIo)
  BY LoadPuts
<1>6. FileOK'
  BY <1>1, <1>5 DEF FileOK, NoIo
<1> QED
  BY <1>4, <1>6

(***************************************************************************)
(* The invariant                                                           *)
(***************************************************************************)

\* The invariant holds at first,
LEMMA SafeInit == CInit => SafeInv
<1> SUFFICES ASSUME CInit
             PROVE  SafeInv
  OBVIOUS
<1>1. StoreInv
  BY Fresh DEF CInit
<1>2. ASSUME disk = NoFile
      PROVE  FileOK
  <2>1. disk = [format |-> "none", whole |-> FALSE, config |-> "none", entries |-> <<>>,
                snapshot |-> <<>>]
    BY <1>2 DEF NoFile
  <2>2. disk.entries \in Seq([key : Keys, shape : Shapes, values : FileValues])
    BY <2>1
  <2> QED
    BY <2>1, <2>2 DEF CInit, FileOK, NoIo
<1>3. ASSUME NEW content \in Legacy, disk = LegacyFile(content)
      PROVE  FileOK
  <2>1. disk.entries \in Seq([key : Keys, shape : Shapes, values : FileValues])
    BY <1>3, LegacyFileOK DEF Entries
  <2>2. disk = [format |-> disk.format, whole |-> disk.whole, config |-> disk.config,
                entries |-> disk.entries, snapshot |-> disk.snapshot]
    BY <1>3 DEF LegacyFile
  <2> QED
    BY <2>1, <2>2 DEF CInit, FileOK, NoIo
<1> QED
  BY <1>1, <1>2, <1>3 DEF CInit, SafeInv

\* ... and after every step.
LEMMA SafeStep == SafeInv /\ [CNext]_cvars => SafeInv'
<1> SUFFICES ASSUME SafeInv, [CNext]_cvars
             PROVE  StoreInv' /\ FileOK'
  BY DEF SafeInv
<1> USE DEF SafeInv
<1>1. CASE Solve
  <2>1. StoreInv'
    BY <1>1, SolveStep
  <2> QED
    BY <1>1, <2>1 DEF Solve, FileOK
<1>2. CASE SaveOpen
  <2>1. StoreInv'
    BY <1>2, SameStorage DEF SaveOpen
  <2>2. disk' = [format |-> "v3", whole |-> FALSE, config |-> config, entries |-> <<>>,
                 snapshot |-> <<>>]
    BY <1>2 DEF SaveOpen, NoFile
  <2>3. disk'.entries \in Seq([key : Keys, shape : Shapes, values : FileValues])
    BY <2>2
  <2>4. io' = [op |-> "save", at |-> 1]
    BY <1>2 DEF SaveOpen
  <2> QED
    BY <2>1, <2>2, <2>3, <2>4 DEF FileOK
<1>3. CASE SaveEntry
  BY <1>3, SaveEntryStep, SaveEntryFile
<1>4. CASE SaveClose
  <2>1. StoreInv'
    BY <1>4, SameStorage DEF SaveClose
  <2>2. PICK snapshot : disk' = [disk EXCEPT !.whole = TRUE, !.snapshot = snapshot]
    BY <1>4 DEF SaveClose
  <2>3. disk' = [format |-> disk.format, whole |-> TRUE, config |-> disk.config,
                 entries |-> disk.entries, snapshot |-> snapshot]
    BY <2>2 DEF FileOK
  <2> QED
    BY <1>4, <2>1, <2>3 DEF SaveClose, FileOK, NoIo
<1>5. CASE SaveFails
  BY <1>5, SameStorage DEF SaveFails, FileOK, NoIo
<1>6. CASE LoadRefused
  BY <1>6, SameStorage DEF LoadRefused, FileOK
<1>7. CASE LoadBegin
  BY <1>7, SameStorage DEF LoadBegin, FileOK
<1>8. CASE LoadResolve
  BY <1>8, LoadResolveStep
<1>9. CASE LoadValues
  BY <1>9, LoadValuesStep
<1>10. CASE LoadEnd
  BY <1>10, SameStorage DEF LoadEnd, FileOK, NoIo
<1>11. CASE StartRun
  BY <1>11, SameStorage DEF StartRun, FileOK
<1>12. CASE Restart
  BY <1>12, RestartStep DEF Restart, FileOK, NoIo
<1>13. CASE UNCHANGED cvars
  BY <1>13, SameStorage DEF cvars, ioVars, FileOK
<1> QED
  BY <1>1, <1>2, <1>3, <1>4, <1>5, <1>6, <1>7, <1>8, <1>9, <1>10, <1>11, <1>12, <1>13
  DEF CNext

\* Every span is marked while it exists, a pointer held into a compact storage
\* leads to one, and file and storage stay within their ranges (storage_v2.c and
\* persist_checkpoint.c, over any number of processes).
THEOREM SafeAlways == CSpec => []SafeInv
<1>1. CInit => SafeInv
  BY SafeInit
<1>2. SafeInv /\ [CNext]_cvars => SafeInv'
  BY SafeStep
<1> QED
  BY <1>1, <1>2, PTL DEF CSpec

\* What was last written to a slab, through any pointer and whatever was
\* evicted, decoded or read since, is in it (storage_v2.c, pe_storage_values
\* and pe_storage_drop_recomputable), over any number of processes and loads.
THEOREM WritesAreKept == CSpec => []NoWriteIsLost
<1>1. SafeInv => NoWriteIsLost
  BY DEF SafeInv, StoreInv
<1> QED
  BY <1>1, SafeAlways, PTL

(***************************************************************************)
(* The table of a map                                                      *)
(***************************************************************************)

\* A remainder is determined by its range.
LEMMA Remainder ==
  ASSUME NEW n \in Nat \ {0}, NEW q \in Nat, NEW r \in 0..(n - 1)
  PROVE  (n * q + r) % n = r
<1> DEFINE x == n * q + r
<1>1. x \in Nat
  OBVIOUS
<1>2. /\ x \div n \in Nat /\ x % n \in 0..(n - 1)
      /\ x = n * (x \div n) + (x % n)
  BY <1>1
<1> QED
  BY <1>1, <1>2

\* The path of a key stays in the table
LEMMA PathInTable ==
  ASSUME NEW k \in Keys, NEW j \in Nat, NEW n \in Nat \ {0}
  PROVE  Path(k, j, n) \in 0..(n - 1)
<1>1. Home[k] + j \in Nat
  BY StorageAssumption
<1> QED
  BY <1>1 DEF Path

\* ... and visits every place of it.
LEMMA PathReaches ==
  ASSUME NEW k \in Keys, NEW n \in Nat \ {0}, NEW p \in 0..(n - 1)
  PROVE  \E j \in 0..(n - 1) : Path(k, j, n) = p
<1> DEFINE h == Home[k]
           r == h % n
           q == h \div n
<1>1. h \in Nat /\ q \in Nat /\ r \in 0..(n - 1) /\ h = n * q + r
  BY StorageAssumption
<1> HIDE DEF h, r, q
<1>2. CASE r <= p
  <2>1. p - r \in 0..(n - 1) /\ h + (p - r) = n * q + p
    BY <1>1, <1>2
  <2>2. (n * q + p) % n = p
    BY <1>1, Remainder
  <2> QED
    BY <2>1, <2>2 DEF Path, h
<1>3. CASE p < r
  <2>1. p - r + n \in 0..(n - 1) /\ q + 1 \in Nat
    BY <1>1, <1>3
  <2>2. n * (q + 1) = n * q + n
    BY <1>1
  <2>3. h + (p - r + n) = n * (q + 1) + p
    BY <1>1, <2>2
  <2>4. (n * (q + 1) + p) % n = p
    BY <2>1, Remainder
  <2> QED
    BY <2>1, <2>3, <2>4 DEF Path, h
<1> QED
  BY <1>1, <1>2, <1>3

\* A probe that returns is at the first place of the path where it may end.
LEMMA ProbeReturns ==
  ASSUME NEW k, NEW table, NEW infosets, Size(table) \in Nat, Returns(k, table, infosets)
  PROVE  \E j \in 0..(Size(table) - 1) :
            First(k, j, table, infosets) /\ Probe(k, table, infosets) = Path(k, j, Size(table))
<1> DEFINE T == {j \in 0..(Size(table) - 1) : Ends(k, j, table, infosets)}
<1>1. T \in SUBSET Nat /\ T # {}
  BY DEF Returns
<1>2. PICK x \in T : \A y \in T : x <= y
  BY <1>1, LeastElement
<1>3. x \in 0..(Size(table) - 1) /\ First(k, x, table, infosets)
  <2>1. ASSUME NEW i \in 0..(x - 1) PROVE ~Ends(k, i, table, infosets)
    <3>1. x \in 0..(Size(table) - 1)
      OBVIOUS
    <3>2. i \in 0..(Size(table) - 1) /\ ~(x <= i)
      BY <3>1
    <3> QED
      BY <1>2, <3>2
  <2> QED
    BY <2>1 DEF First
<1> QED
  BY <1>3 DEF Probe

\* A probe ends at one place only.
LEMMA FirstIsUnique ==
  ASSUME NEW k, NEW table, NEW infosets, NEW i \in Nat, NEW j \in Nat,
         First(k, i, table, infosets), First(k, j, table, infosets)
  PROVE  i = j
<1>1. ~(i < j)
  BY DEF First
<1>2. ~(j < i)
  BY DEF First
<1> QED
  BY <1>1, <1>2

\* Types of a table that is well placed.
LEMMA PlacedTypes ==
  ASSUME NEW table, NEW infosets, NEW n \in Nat, WellPlaced(table, infosets, n)
  PROVE  /\ Size(table) \in Nat \ {0} /\ DOMAIN table = 0..(Size(table) - 1)
         /\ IsFiniteSet(DOMAIN table)
         /\ table \in [DOMAIN table -> 0..n]
<1>1. Size(table) \in Nat
  BY FS_CardinalityType DEF WellPlaced, Size
<1> QED
  BY <1>1 DEF WellPlaced

\* A probe for an infoset that is in the table finds it.
LEMMA ProbeFinds ==
  ASSUME NEW table, NEW infosets, NEW n \in Nat, WellPlaced(table, infosets, n), NEW id \in 1..n
  PROVE  /\ Returns(infosets[id].key, table, infosets)
         /\ table[Probe(infosets[id].key, table, infosets)] = id
<1> DEFINE k == infosets[id].key
<1>1. Size(table) \in Nat
  BY PlacedTypes
<1>2. PICK j \in 0..(Size(table) - 1) :
         First(k, j, table, infosets) /\ table[Path(k, j, Size(table))] = id
  BY DEF WellPlaced
<1>3. Returns(k, table, infosets)
  BY <1>2 DEF First, Returns
<1>4. PICK i \in 0..(Size(table) - 1) :
         First(k, i, table, infosets) /\ Probe(k, table, infosets) = Path(k, i, Size(table))
  BY <1>1, <1>3, ProbeReturns
<1>5. i \in Nat /\ j \in Nat
  BY <1>1
<1>6. i = j
  BY <1>2, <1>4, <1>5, FirstIsUnique
<1> QED
  BY <1>2, <1>3, <1>4, <1>6

\* What a probe finds has the key.
LEMMA ProbeIsRight ==
  ASSUME NEW table, NEW infosets, NEW n \in Nat, WellPlaced(table, infosets, n),
         NEW k \in Keys, Returns(k, table, infosets)
  PROVE  LET at == Probe(k, table, infosets)
         IN /\ at \in DOMAIN table /\ table[at] \in 0..n
            /\ table[at] # 0 => infosets[table[at]].key = k
<1>1. /\ Size(table) \in Nat \ {0} /\ DOMAIN table = 0..(Size(table) - 1)
      /\ table \in [DOMAIN table -> 0..n]
  BY PlacedTypes
<1>2. PICK j \in 0..(Size(table) - 1) :
         First(k, j, table, infosets) /\ Probe(k, table, infosets) = Path(k, j, Size(table))
  BY <1>1, ProbeReturns
<1>3. Path(k, j, Size(table)) \in DOMAIN table
  BY <1>1, PathInTable
<1>4. Ends(k, j, table, infosets)
  BY <1>2 DEF First
<1> QED
  BY <1>1, <1>2, <1>3, <1>4 DEF Ends

\* There are no more infosets in the table than places,
LEMMA NotMore ==
  ASSUME NEW table, NEW infosets, NEW n \in Nat, WellPlaced(table, infosets, n),
         \A id \in 1..n : infosets[id].key \in Keys
  PROVE  n <= Size(table)
<1> DEFINE place == [id \in 1..n |-> Probe(infosets[id].key, table, infosets)]
<1>1. Size(table) \in Nat /\ IsFiniteSet(DOMAIN table)
  BY PlacedTypes
<1>2. ASSUME NEW id \in 1..n PROVE place[id] \in DOMAIN table /\ table[place[id]] = id
  BY ProbeFinds, ProbeIsRight
<1>3. place \in Injection(1..n, DOMAIN table)
  <2>1. place \in [1..n -> DOMAIN table]
    BY <1>2
  <2> HIDE DEF place
  <2>2. \A x, y \in 1..n : place[x] = place[y] => x = y
    BY <1>2
  <2> QED
    BY <2>1, <2>2 DEF Injection, IsInjective
<1> HIDE DEF place
<1>4. Cardinality(1..n) <= Cardinality(DOMAIN table)
  BY <1>1, <1>3, FS_Injection
<1>5. Cardinality(1..n) = n
  BY FS_Interval
<1> QED
  BY <1>4, <1>5 DEF Size

\* ... and if there are fewer, every probe returns.
LEMMA FreePlace ==
  ASSUME NEW table, NEW infosets, NEW n \in Nat, WellPlaced(table, infosets, n),
         n < Size(table), NEW k \in Keys
  PROVE  Returns(k, table, infosets)
<1>1. /\ Size(table) \in Nat \ {0} /\ DOMAIN table = 0..(Size(table) - 1)
      /\ IsFiniteSet(DOMAIN table) /\ table \in [DOMAIN table -> 0..n]
  BY PlacedTypes
<1>2. PICK p \in DOMAIN table : table[p] = 0
  <2>1. SUFFICES ASSUME \A p \in DOMAIN table : table[p] # 0 PROVE FALSE
    OBVIOUS
  <2>2. table \in [DOMAIN table -> 1..n]
    BY <1>1, <2>1
  <2>3. IsFiniteSet(1..n) /\ Cardinality(1..n) = n
    BY FS_Interval
  <2>4. \E x, y \in DOMAIN table : x # y /\ table[x] = table[y]
    BY <1>1, <2>2, <2>3, FS_PigeonHole DEF Size
  <2> QED
    BY <2>1, <2>4 DEF WellPlaced
<1>3. PICK j \in 0..(Size(table) - 1) : Path(k, j, Size(table)) = p
  BY <1>1, PathReaches
<1>4. Ends(k, j, table, infosets)
  BY <1>2, <1>3 DEF Ends
<1> QED
  BY <1>3, <1>4 DEF Returns

\* Entering an infoset of a new key where its probe ended places it well.
LEMMA EntryIsPlaced ==
  ASSUME NEW table, NEW infosets, NEW n \in Nat, WellPlaced(table, infosets, n),
         \A id \in 1..(n + 1) : infosets[id].key \in Keys,
         \A id \in 1..n : infosets[id].key # infosets[n + 1].key,
         NEW at, at = Probe(infosets[n + 1].key, table, infosets),
         Returns(infosets[n + 1].key, table, infosets)
  PROVE  WellPlaced([table EXCEPT ![at] = n + 1], infosets, n + 1)
<1> DEFINE new == [table EXCEPT ![at] = n + 1]
           k == infosets[n + 1].key
           s == Size(table)
<1>1. /\ s \in Nat \ {0} /\ DOMAIN table = 0..(s - 1)
      /\ IsFiniteSet(DOMAIN table) /\ table \in [DOMAIN table -> 0..n]
  BY PlacedTypes
<1>2. at \in DOMAIN table /\ table[at] = 0
  <2>1. /\ at \in DOMAIN table /\ table[at] \in 0..n
        /\ table[at] # 0 => infosets[table[at]].key = k
    BY ProbeIsRight
  <2>2. table[at] # 0 => table[at] \in 1..n
    BY <2>1
  <2> QED
    BY <2>1, <2>2
<1>3. /\ DOMAIN new = DOMAIN table /\ Size(new) = s
      /\ new[at] = n + 1
      /\ \A p \in DOMAIN table \ {at} : new[p] = table[p]
  BY <1>2 DEF Size
<1>4. new \in [DOMAIN new -> 0..(n + 1)]
  BY <1>1, <1>2
<1> HIDE DEF new
<1>5. ASSUME NEW p \in DOMAIN new, NEW q \in DOMAIN new, new[p] = new[q], new[p] # 0
      PROVE  p = q
  <2>1. \A x \in DOMAIN table : table[x] # n + 1
    BY <1>1
  <2>2. \A x, y \in DOMAIN table : table[x] = table[y] /\ table[x] # 0 => x = y
    BY DEF WellPlaced
  <2>3. CASE p = at \/ q = at
    BY <1>3, <1>5, <2>1, <2>3
  <2>4. CASE p # at /\ q # at
    BY <1>3, <1>5, <2>2, <2>4
  <2> QED
    BY <2>3, <2>4
<1>6. ASSUME NEW c \in Keys, NEW j \in 0..(s - 1), ~Ends(c, j, table, infosets)
      PROVE  ~Ends(c, j, new, infosets)
  <2>1. Path(c, j, s) \in DOMAIN table
    BY <1>1, PathInTable
  <2>2. Path(c, j, s) # at
    BY <1>2, <1>6 DEF Ends
  <2> QED
    BY <1>3, <1>6, <2>1, <2>2 DEF Ends
<1>7. ASSUME NEW id \in 1..(n + 1)
      PROVE  \E j \in 0..(Size(new) - 1) :
                /\ First(infosets[id].key, j, new, infosets)
                /\ new[Path(infosets[id].key, j, Size(new))] = id
  <2> DEFINE c == infosets[id].key
  <2>1. PICK j \in 0..(s - 1) : /\ First(c, j, table, infosets)
                                /\ id = n + 1 => Path(c, j, s) = at
                                /\ id # n + 1 => table[Path(c, j, s)] = id
    <3>1. CASE id = n + 1
      BY <1>1, <3>1, ProbeReturns
    <3>2. CASE id # n + 1
      <4>1. id \in 1..n
        BY <3>2
      <4> QED
        BY <3>2, <4>1 DEF WellPlaced
    <3> QED
      BY <3>1, <3>2
  <2>2. c \in Keys
    OBVIOUS
  <2> HIDE DEF c
  <2>3. \A i \in 0..(j - 1) : ~Ends(c, i, new, infosets)
    <3>1. \A i \in 0..(j - 1) : i \in 0..(s - 1)
      BY <1>1
    <3> QED
      BY <1>6, <2>1, <2>2, <3>1 DEF First
  <2>4. Path(c, j, s) \in DOMAIN table
    BY <1>1, <2>2, PathInTable
  <2>5. new[Path(c, j, s)] = id
    <3>1. id # n + 1 => Path(c, j, s) # at
      BY <1>2, <2>1
    <3> QED
      BY <1>3, <2>1, <2>4, <3>1
  <2>6. Ends(c, j, new, infosets)
    BY <1>3, <2>5 DEF Ends, c
  <2> QED
    BY <1>3, <2>3, <2>5, <2>6 DEF First, c
<1>8. IsFiniteSet(DOMAIN new) /\ Size(new) > 0 /\ DOMAIN new = 0..(Size(new) - 1)
  BY <1>1, <1>3
<1> QED
  BY <1>4, <1>5, <1>7, <1>8 DEF WellPlaced, new

\* An empty table.
LEMMA EmptyIsPlaced ==
  ASSUME NEW s \in Nat \ {0}, NEW infosets
  PROVE  WellPlaced(EmptySlots(s), infosets, 0) /\ Size(EmptySlots(s)) = s
<1>1. DOMAIN EmptySlots(s) = 0..(s - 1)
  BY DEF EmptySlots
<1>2. IsFiniteSet(0..(s - 1)) /\ Cardinality(0..(s - 1)) = s
  BY FS_Interval
<1>3. EmptySlots(s) \in [0..(s - 1) -> 0..0]
  BY DEF EmptySlots
<1>4. \A p \in 0..(s - 1) : EmptySlots(s)[p] = 0
  BY DEF EmptySlots
<1> QED
  BY <1>1, <1>2, <1>3, <1>4 DEF WellPlaced, Size

\* The tables of a rehash, one infoset after the other.
IsFill(f, s, infosets, n) ==
    /\ f[0] = EmptySlots(s)
    /\ \A i \in 1..n :
          f[i] = [f[i - 1] EXCEPT ![Probe(infosets[i].key, f[i - 1], infosets)] = i]

\* Entering one infoset after the other into a table is a recursion that exists,
LEMMA FillExists ==
  ASSUME NEW s, NEW infosets
  PROVE  \A n \in Nat : \E f : IsFill(f, s, infosets, n)
<1> DEFINE S == {n \in Nat : \E f : IsFill(f, s, infosets, n)}
<1>1. 0 \in S
  <2>1. IsFill([i \in {0} |-> EmptySlots(s)], s, infosets, 0)
    BY DEF IsFill
  <2> QED
    BY <2>1
<1>2. ASSUME NEW n \in Nat, n \in S PROVE n + 1 \in S
  <2>1. PICK f : IsFill(f, s, infosets, n)
    BY <1>2
  <2> DEFINE next == [f[n] EXCEPT ![Probe(infosets[n + 1].key, f[n], infosets)] = n + 1]
             g == [i \in 0..(n + 1) |-> IF i = n + 1 THEN next ELSE f[i]]
  <2>2. /\ \A i \in 0..n : g[i] = f[i]
        /\ g[n + 1] = next
    <3> HIDE DEF next
    <3> QED
      OBVIOUS
  <2> HIDE DEF g
  <2>3. g[0] = EmptySlots(s)
    BY <2>1, <2>2 DEF IsFill
  <2>4. ASSUME NEW i \in 1..(n + 1)
        PROVE  g[i] = [g[i - 1] EXCEPT ![Probe(infosets[i].key, g[i - 1], infosets)] = i]
    <3>1. CASE i = n + 1
      <4>1. i - 1 = n /\ n \in 0..n
        BY <3>1
      <4> QED
        BY <2>2, <3>1, <4>1
    <3>2. CASE i # n + 1
      <4>1. i \in 1..n /\ i \in 0..n /\ i - 1 \in 0..n
        BY <3>2
      <4> QED
        BY <2>1, <2>2, <4>1 DEF IsFill
    <3> QED
      BY <3>1, <3>2
  <2>5. IsFill(g, s, infosets, n + 1)
    BY <2>3, <2>4 DEF IsFill
  <2> QED
    BY <2>5
<1> HIDE DEF S
<1>3. \A n \in Nat : n \in S
  BY <1>1, <1>2, SetInduction
<1> QED
  BY <1>3 DEF S

\* ... and pe_rehash is what it ends with.
LEMMA RehashIsFill ==
  ASSUME NEW s, NEW infosets, Len(infosets) \in Nat
  PROVE  \E f : IsFill(f, s, infosets, Len(infosets)) /\ Rehash(s, infosets) = f[Len(infosets)]
<1> DEFINE n == Len(infosets)
           Step(f) == [i \in 0..n |->
               IF i = 0 THEN EmptySlots(s)
               ELSE [f[i - 1] EXCEPT ![Probe(infosets[i].key, f[i - 1], infosets)] = i]]
<1>1. PICK g : IsFill(g, s, infosets, n)
  BY FillExists
<1> DEFINE h == [i \in 0..n |-> g[i]]
<1>2. h = Step(h)
  <2>1. ASSUME NEW i \in 0..n PROVE h[i] = Step(h)[i]
    <3>1. CASE i = 0
      BY <1>1, <3>1 DEF IsFill
    <3>2. CASE i # 0
      <4>1. i \in 1..n /\ i - 1 \in 0..n
        BY <3>2
      <4>2. h[i] = g[i] /\ h[i - 1] = g[i - 1]
        BY <4>1
      <4>3. g[i] = [g[i - 1] EXCEPT ![Probe(infosets[i].key, g[i - 1], infosets)] = i]
        BY <1>1, <4>1 DEF IsFill
      <4> HIDE DEF h
      <4>4. Step(h)[i] = [h[i - 1] EXCEPT ![Probe(infosets[i].key, h[i - 1], infosets)] = i]
        BY <3>2
      <4> QED
        BY <4>2, <4>3, <4>4
    <3> QED
      BY <3>1, <3>2
  <2> QED
    BY <2>1
<1> DEFINE enter == CHOOSE f : f = Step(f)
<1>3. enter = Step(enter)
  <2> HIDE DEF Step
  <2> QED
    BY <1>2
<1>4. Rehash(s, infosets) = enter[n]
  BY DEF Rehash
<1> HIDE DEF enter
<1>5. IsFill(enter, s, infosets, n)
  <2>1. enter[0] = EmptySlots(s)
    BY <1>3
  <2>2. ASSUME NEW i \in 1..n
        PROVE  enter[i] = [enter[i - 1] EXCEPT ![Probe(infosets[i].key, enter[i - 1], infosets)] = i]
    <3>1. i \in 0..n /\ i # 0
      OBVIOUS
    <3> QED
      BY <1>3, <3>1
  <2> QED
    BY <2>1, <2>2 DEF IsFill
<1> QED
  BY <1>4, <1>5

\* A rehash into a table with room for all enters all of them.
LEMMA RehashIsPlaced ==
  ASSUME NEW s \in Nat \ {0}, NEW infosets, Len(infosets) \in Nat, Len(infosets) < s,
         \A id \in 1..Len(infosets) : infosets[id].key \in Keys,
         \A i, j \in 1..Len(infosets) : infosets[i].key = infosets[j].key => i = j
  PROVE  WellPlaced(Rehash(s, infosets), infosets, Len(infosets))
<1> DEFINE n == Len(infosets)
<1>1. PICK f : IsFill(f, s, infosets, n) /\ Rehash(s, infosets) = f[n]
  BY RehashIsFill
<1> DEFINE S == {i \in Nat : i <= n => WellPlaced(f[i], infosets, i) /\ Size(f[i]) = s}
<1>2. 0 \in S
  BY <1>1, EmptyIsPlaced DEF IsFill
<1>3. ASSUME NEW i \in Nat, i \in S PROVE i + 1 \in S
  <2>1. SUFFICES ASSUME i + 1 <= n
                 PROVE  WellPlaced(f[i + 1], infosets, i + 1) /\ Size(f[i + 1]) = s
    OBVIOUS
  <2>2. WellPlaced(f[i], infosets, i) /\ Size(f[i]) = s /\ i < s
    BY <1>3, <2>1
  <2>3. /\ i + 1 \in 1..n /\ (i + 1) - 1 = i
        /\ \A id \in 1..(i + 1) : id \in 1..n
        /\ \A id \in 1..i : id \in 1..n /\ id # i + 1
    BY <2>1
  <2> DEFINE at == Probe(infosets[i + 1].key, f[i], infosets)
  <2>4. f[i + 1] = [f[i] EXCEPT ![at] = i + 1]
    BY <1>1, <2>3 DEF IsFill
  <2>5. infosets[i + 1].key \in Keys
    BY <2>3
  <2>6. Returns(infosets[i + 1].key, f[i], infosets)
    BY <2>2, <2>5, FreePlace
  <2>7. \A id \in 1..(i + 1) : infosets[id].key \in Keys
    BY <2>3
  <2>8. \A id \in 1..i : infosets[id].key # infosets[i + 1].key
    BY <2>3
  <2>9. WellPlaced([f[i] EXCEPT ![at] = i + 1], infosets, i + 1)
    BY <2>2, <2>6, <2>7, <2>8, EntryIsPlaced
  <2>10. Size(f[i + 1]) = Size(f[i])
    BY <2>4 DEF Size
  <2> QED
    BY <2>2, <2>4, <2>9, <2>10
<1> HIDE DEF S
<1>4. n \in S
  BY <1>2, <1>3, SetInduction
<1> QED
  BY <1>1, <1>4 DEF S

(***************************************************************************)
(* The map of a storage                                                    *)
(***************************************************************************)

\* Lists with the same keys end a probe at the same places.
LEMMA SameEnds ==
  ASSUME NEW table, NEW a, NEW b, NEW n \in Nat, WellPlaced(table, a, n),
         \A id \in 1..n : b[id].key = a[id].key,
         NEW k \in Keys, NEW j \in 0..(Size(table) - 1)
  PROVE  First(k, j, table, a) <=> First(k, j, table, b)
<1>1. /\ Size(table) \in Nat \ {0} /\ DOMAIN table = 0..(Size(table) - 1)
      /\ table \in [DOMAIN table -> 0..n]
  BY PlacedTypes
<1>2. ASSUME NEW i \in 0..(Size(table) - 1)
      PROVE  Ends(k, i, table, a) <=> Ends(k, i, table, b)
  <2>1. Path(k, i, Size(table)) \in DOMAIN table
    BY <1>1, PathInTable
  <2>2. table[Path(k, i, Size(table))] # 0 => table[Path(k, i, Size(table))] \in 1..n
    BY <1>1, <2>1
  <2> QED
    BY <2>2 DEF Ends
<1>3. \A i \in 0..(j - 1) : i \in 0..(Size(table) - 1)
  BY <1>1
<1> QED
  BY <1>2, <1>3 DEF First

\* ... so each infoset keeps its place,
LEMMA SameKeys ==
  ASSUME NEW table, NEW a, NEW b, NEW n \in Nat, WellPlaced(table, a, n),
         \A id \in 1..n : a[id].key \in Keys,
         \A id \in 1..n : b[id].key = a[id].key
  PROVE  WellPlaced(table, b, n)
<1>1. ASSUME NEW id \in 1..n
      PROVE  \E j \in 0..(Size(table) - 1) :
                /\ First(b[id].key, j, table, b)
                /\ table[Path(b[id].key, j, Size(table))] = id
  <2>1. PICK j \in 0..(Size(table) - 1) :
           /\ First(a[id].key, j, table, a)
           /\ table[Path(a[id].key, j, Size(table))] = id
    BY DEF WellPlaced
  <2>2. First(a[id].key, j, table, b)
    BY <2>1, SameEnds
  <2> QED
    BY <2>1, <2>2
<1> QED
  BY <1>1 DEF WellPlaced

\* ... and a key leads to the same place.
LEMMA SameProbe ==
  ASSUME NEW table, NEW a, NEW b, NEW n \in Nat, WellPlaced(table, a, n),
         \A id \in 1..n : b[id].key = a[id].key,
         NEW k \in Keys, Returns(k, table, a)
  PROVE  Returns(k, table, b) /\ Probe(k, table, b) = Probe(k, table, a)
<1>1. Size(table) \in Nat
  BY PlacedTypes
<1>2. PICK i \in 0..(Size(table) - 1) :
         First(k, i, table, a) /\ Probe(k, table, a) = Path(k, i, Size(table))
  BY <1>1, ProbeReturns
<1>3. First(k, i, table, b)
  BY <1>2, SameEnds
<1>4. Returns(k, table, b)
  BY <1>3 DEF First, Returns
<1>5. PICK j \in 0..(Size(table) - 1) :
         First(k, j, table, b) /\ Probe(k, table, b) = Path(k, j, Size(table))
  BY <1>1, <1>4, ProbeReturns
<1>6. i \in Nat /\ j \in Nat
  BY <1>1
<1>7. i = j
  BY <1>3, <1>5, <1>6, FirstIsUnique
<1> QED
  BY <1>2, <1>4, <1>5, <1>7

\* Every infoset is found under its key,
LEMMA FindFinds ==
  ASSUME StoreInv, MapInv, NEW id \in Ids
  PROVE  meta[id].key \in Keys /\ Find(meta[id].key) = id /\ id # 0
<1>1. Len(meta) \in Nat /\ meta[id] \in [key : Keys, shape : Shapes]
  <2>1. meta \in Seq([key : Keys, shape : Shapes])
    BY DEF StoreInv, SpansOK
  <2>2. id \in 1..Len(meta)
    BY DEF Ids
  <2>3. Len(meta) \in Nat
    BY <2>1
  <2>4. meta[id] \in [key : Keys, shape : Shapes]
    BY <2>1, <2>2, ElementOfSeq
  <2> QED
    BY <2>3, <2>4
<1> QED
  BY <1>1, ProbeFinds DEF MapInv, Find, Ids

\* ... and what is found has the key.
LEMMA FindIsRight ==
  ASSUME StoreInv, MapInv, NEW k \in Keys, Known(k)
  PROVE  Find(k) \in Ids /\ meta[Find(k)].key = k
<1>1. Len(meta) \in Nat
  BY DEF StoreInv, SpansOK
<1>2. /\ slots[Probe(k, slots, meta)] \in 0..Len(meta)
      /\ slots[Probe(k, slots, meta)] # 0 => meta[slots[Probe(k, slots, meta)]].key = k
  BY <1>1, ProbeIsRight DEF MapInv, Known
<1> QED
  BY <1>1, <1>2 DEF Find, Known, Ids

\* A new infoset is entered, whether the table grows, cannot grow or need not.
LEMMA NewInfosetMap ==
  ASSUME StoreInv, MapInv, NEW k \in Keys, NEW shape \in Shapes, NewInfoset(k, shape)
  PROVE  MapInv'
<1> DEFINE n == Len(meta)
           new == [key |-> k, shape |-> shape]
           infosets == Append(meta, new)
           at == Probe(k, slots, meta)
           dense == [slots EXCEPT ![at] = n + 1]
<1>1. /\ meta \in Seq([key : Keys, shape : Shapes]) /\ n \in Nat
      /\ WellPlaced(slots, meta, n) /\ \A i, j \in 1..n : meta[i].key = meta[j].key => i = j
  BY DEF StoreInv, SpansOK, MapInv, Ids
<1>2. /\ Len(infosets) = n + 1 /\ infosets[n + 1].key = k
      /\ \A id \in 1..n : infosets[id] = meta[id] /\ meta[id].key \in Keys
  <2>1. new.key = k
    OBVIOUS
  <2>2. \A id \in 1..n : meta[id] \in [key : Keys, shape : Shapes]
    BY <1>1, ElementOfSeq
  <2> HIDE DEF new
  <2>3. Len(infosets) = n + 1 /\ infosets[n + 1] = new /\ \A id \in 1..n : infosets[id] = meta[id]
    BY <1>1
  <2> QED
    BY <2>1, <2>2, <2>3
<1>3. meta' = infosets /\ Unknown(k) /\ slots' \in Enter(at, infosets)
  BY DEF NewInfoset
<1> HIDE DEF infosets
<1>4. /\ WellPlaced(slots, infosets, n) /\ Returns(k, slots, infosets)
      /\ Probe(k, slots, infosets) = at
  <2>1. Returns(k, slots, meta)
    BY <1>3 DEF Unknown
  <2>2. \A id \in 1..n : meta[id].key \in Keys
    BY <1>2
  <2>3. \A id \in 1..n : infosets[id].key = meta[id].key
    BY <1>2
  <2> HIDE DEF n, at
  <2>4. WellPlaced(slots, infosets, n)
    BY <1>1, <2>2, <2>3, SameKeys
  <2>5. Returns(k, slots, infosets) /\ Probe(k, slots, infosets) = Probe(k, slots, meta)
    BY <1>1, <2>1, <2>3, SameProbe
  <2> QED
    BY <2>4, <2>5 DEF at
<1>5. \A id \in 1..n : infosets[id].key # k
  <2>1. SUFFICES ASSUME NEW id \in 1..n, meta[id].key = k PROVE FALSE
    BY <1>2
  <2>2. slots[Probe(meta[id].key, slots, meta)] = id
    BY <1>1, ProbeFinds
  <2>3. Find(k) = id /\ id # 0
    BY <2>1, <2>2 DEF Find
  <2> QED
    BY <1>3, <2>3 DEF Unknown
<1>6. \A id \in 1..(n + 1) : infosets[id].key \in Keys
  <2>1. \A id \in 1..(n + 1) : id \in 1..n \/ id = n + 1
    BY <1>1
  <2> QED
    BY <1>2, <2>1
<1>7. \A i, j \in 1..(n + 1) : infosets[i].key = infosets[j].key => i = j
  <2>1. \A id \in 1..(n + 1) : id \in 1..n \/ id = n + 1
    BY <1>1
  <2> QED
    BY <1>1, <1>2, <1>5, <2>1
<1>8. WellPlaced(dense, infosets, n + 1)
  <2> HIDE DEF n, at
  <2>1. /\ \A id \in 1..n : infosets[id].key # infosets[n + 1].key
        /\ at = Probe(infosets[n + 1].key, slots, infosets)
        /\ Returns(infosets[n + 1].key, slots, infosets)
    BY <1>2, <1>4, <1>5
  <2> QED
    BY <1>1, <1>4, <1>6, <2>1, EntryIsPlaced
<1>9. n + 1 <= Size(slots) /\ Size(slots) \in Nat \ {0}
  <2>1. Size(dense) = Size(slots)
    BY DEF Size
  <2>2. n + 1 <= Size(dense)
    <3> HIDE DEF dense
    <3> QED
      BY <1>1, <1>6, <1>8, NotMore
  <2>3. Size(slots) \in Nat \ {0}
    BY <1>1, PlacedTypes
  <2> QED
    BY <2>1, <2>2, <2>3
<1>10. WellPlaced(Rehash(2 * Size(slots), infosets), infosets, n + 1)
  <2>1. /\ 2 * Size(slots) \in Nat \ {0} /\ n + 1 < 2 * Size(slots)
        /\ Len(infosets) = n + 1 /\ n + 1 \in Nat
    BY <1>1, <1>2, <1>9
  <2> HIDE DEF n
  <2> QED
    BY <1>6, <1>7, <2>1, RehashIsPlaced
<1>11. slots' = dense \/ slots' = Rehash(2 * Size(slots), infosets)
  BY <1>2, <1>3 DEF Enter
<1>12. WellPlaced(slots', infosets, n + 1)
  BY <1>8, <1>10, <1>11
<1>13. WellPlaced(slots', meta', Len(meta'))
  BY <1>2, <1>3, <1>12
<1>14. \A i, j \in 1..Len(meta') : meta'[i].key = meta'[j].key => i = j
  BY <1>2, <1>3, <1>7
<1> QED
  BY <1>13, <1>14 DEF MapInv, Ids

\* A step that leaves the map alone.
LEMMA SameMap ==
  ASSUME MapInv, UNCHANGED mapVars
  PROVE  MapInv'
BY DEF mapVars, MapInv, Ids

\* The map of a new process.
LEMMA FreshMap ==
  ASSUME slots = EmptySlots(MinSlots), meta = <<>>
  PROVE  MapInv
<1>1. Len(meta) = 0 /\ Ids = {}
  BY DEF Ids
<1>2. WellPlaced(slots, meta, 0)
  BY EmptyIsPlaced, StorageAssumption
<1> QED
  BY <1>1, <1>2 DEF MapInv

\* pe_storage_resolve keeps every infoset where it is found.
LEMMA ResolveMap ==
  ASSUME StoreInv, MapInv, NEW k \in Keys, NEW shape \in Shapes, Resolve(k, shape)
  PROVE  MapInv'
BY NewInfosetMap, SameMap, ResolveFailsKeeps DEF Resolve, KnownInfoset, storageVars

\* Only a resolve changes the map.
LEMMA MapStep ==
  ASSUME SafeInv, MapInv, [CNext]_cvars
  PROVE  MapInv'
<1> USE DEF SafeInv
<1>1. CASE Solve
  <2>1. ASSUME NEW k \in Keys, Resolve(k, "game") PROVE MapInv'
    BY <2>1, ResolveMap DEF Shapes
  <2>2. CASE UNCHANGED mapVars
    BY <2>2, SameMap
  <2> QED
    BY <1>1, <2>1, <2>2 DEF Solve, Access, AccessFails, ReadConst, Write, EndIteration
<1>2. CASE LoadResolve
  <2>1. Entry.key \in Keys /\ Entry.shape \in Shapes
    BY <1>2, EntryOK DEF LoadResolve
  <2> QED
    BY <1>2, <2>1, ResolveMap DEF LoadResolve, Resolve
<1>3. CASE Restart
  <2>1. slots' = EmptySlots(MinSlots) /\ meta' = <<>>
    BY <1>3 DEF Restart
  <2>2. Len(meta') = 0 /\ Ids' = {}
    BY <2>1 DEF Ids
  <2>3. WellPlaced(slots', meta', 0)
    BY <2>1, EmptyIsPlaced, StorageAssumption
  <2> QED
    BY <2>2, <2>3 DEF MapInv
<1>4. CASE UNCHANGED mapVars
  BY <1>4, SameMap
<1> QED
  BY <1>1, <1>2, <1>3, <1>4
     DEF CNext, SaveOpen, SaveEntry, SaveClose, SaveFails, LoadRefused, LoadBegin, LoadValues,
         LoadEnd, StartRun, ReadConst, PutAll, cvars, storageVars

(***************************************************************************)
(* What the slabs hold                                                     *)
(***************************************************************************)

\* A new infoset leaves the others as they are and holds nothing.
LEMMA NewContents ==
  ASSUME StoreInv, NEW k \in Keys, NEW shape \in Shapes, NewInfoset(k, shape),
         NEW w \in Arrays
  PROVE  /\ \A id \in Ids : Content(id, w)' = Content(id, w)
         /\ \A id \in Ids' \ Ids : Content(id, w)' = Zero
<1> DEFINE n == Len(meta)
<1>1. /\ n \in Nat /\ Ids = 1..n /\ Ids' = 1..(n + 1)
      /\ \A id \in Ids : resident'[w][id] = resident[w][id] /\ span'[w][id] = span[w][id]
      /\ resident'[w][n + 1] = Zero /\ span'[w][n + 1] = Absent
  BY Grown
<1> HIDE DEF n
<1>2. \A id \in Ids' \ Ids : id = n + 1
  BY <1>1
<1> QED
  BY <1>1, <1>2 DEF Content, Has

\* Reading commits what it decodes.
LEMMA ReadContents ==
  ASSUME StoreInv, NEW cells \in SUBSET (Ids \X live), ReadConst(cells),
         NEW w \in Arrays, NEW id \in Ids
  PROVE  Content(id, w)' = IF Compact /\ <<id, w>> \in cells THEN Committed(id, w)
                                                             ELSE Content(id, w)
<1>1. CASE ~Compact
  BY <1>1 DEF ReadConst, Content, Has
<1>2. CASE Compact
  <2>1. Materialise(cells)
    BY <1>2 DEF ReadConst
  <2>2. CASE <<id, w>> \in cells
    <3>1. resident'[w][id] = Committed(id, w) /\ span'[w][id] = Committed(id, w)
      BY <2>1, <2>2 DEF Materialise
    <3> QED
      BY <1>2, <2>2, <3>1 DEF Content, Has
  <2>3. CASE <<id, w>> \notin cells
    <3>1. resident'[w][id] = resident[w][id] /\ span'[w][id] = span[w][id]
      BY <2>1, <2>3, Zenon DEF Materialise
    <3> QED
      BY <1>2, <2>3, <3>1 DEF Content, Has
  <2> QED
    BY <2>2, <2>3
<1> QED
  BY <1>1, <1>2

\* A load puts an entry's arrays into its infoset, and nothing anywhere else.
LEMMA PutContents ==
  ASSUME StoreInv, NEW id, NEW allocated, NEW arrays \in SUBSET Arrays,
         PutAll(id, arrays, allocated),
         \A w \in arrays : Entry.values[w] \in Values,
         NEW w \in Arrays, NEW i \in Ids
  PROVE  Content(i, w)' = IF w \in arrays /\ i = id THEN Entry.values[w] ELSE Content(i, w)
<1> DEFINE Here(x, y) == x \in arrays /\ y = id
<1>1. CASE Compact
  <2>1. /\ span' = [x \in Arrays |-> [y \in Ids |->
                    IF Here(x, y) THEN Entry.values[x] ELSE span[x][y]]]
        /\ resident' = [x \in Arrays |-> [y \in Ids |->
                    IF Here(x, y) THEN Committed(id, x) ELSE resident[x][y]]]
    BY <1>1, Zenon DEF PutAll, Here
  <2> HIDE DEF Here
  <2>2. CASE Here(w, i)
    <3>1. span'[w][i] = Entry.values[w]
      BY <2>1, <2>2
    <3>2. Entry.values[w] # Absent
      BY <2>2, Slab DEF Here
    <3> QED
      BY <2>2, <3>1, <3>2 DEF Content, Has, Here
  <2>3. CASE ~Here(w, i)
    <3>1. span'[w][i] = span[w][i] /\ resident'[w][i] = resident[w][i]
      BY <2>1, <2>3
    <3> QED
      BY <2>3, <3>1 DEF Content, Has, Here
  <2> QED
    BY <2>2, <2>3
<1>2. CASE ~Compact
  <2>1. /\ span' = span
        /\ resident' = [x \in Arrays |-> [y \in Ids |->
                    IF Here(x, y) THEN Entry.values[x] ELSE resident[x][y]]]
    BY <1>2, Zenon DEF PutAll, Here
  <2>2. ~Has(i, w)
    BY <1>2 DEF StoreInv, SpansOK
  <2> HIDE DEF Here
  <2>3. resident'[w][i] = IF Here(w, i) THEN Entry.values[w] ELSE resident[w][i]
    BY <2>1
  <2> QED
    BY <2>1, <2>2, <2>3 DEF Content, Has, Here
<1> QED
  BY <1>1, <1>2

\* A step that leaves the slabs of unused arrays alone keeps them empty.
LEMMA UnusedStayEmpty ==
  ASSUME LiveInv, UNCHANGED meta, live \subseteq live',
         \A w \in Arrays \ live', id \in Ids :
            resident'[w][id] = resident[w][id] /\ span'[w][id] = span[w][id]
  PROVE  LiveInv'
BY DEF LiveInv, Ids, Content, Has

\* A step that leaves map, arrays and spans alone.
LEMMA SameLive ==
  ASSUME LiveInv, UNCHANGED <<mapVars, spanVars>>
  PROVE  LiveInv'
BY DEF LiveInv, Ids, Content, Has, mapVars, spanVars

\* A new infoset holds nothing, so neither do the unused arrays.
LEMMA NewInfosetLive ==
  ASSUME StoreInv, LiveInv, NEW k \in Keys, NEW shape \in Shapes, NewInfoset(k, shape)
  PROVE  LiveInv'
<1>1. live' = live
  BY DEF NewInfoset
<1> SUFFICES ASSUME NEW w \in Arrays \ live, NEW id \in Ids' PROVE Content(id, w)' = Zero
  BY <1>1 DEF LiveInv
<1> QED
  BY NewContents DEF LiveInv

\* ... nor after any other resolve.
LEMMA ResolveLive ==
  ASSUME StoreInv, LiveInv, NEW k \in Keys, NEW shape \in Shapes, Resolve(k, shape)
  PROVE  LiveInv'
BY NewInfosetLive, SameLive, ResolveFailsKeeps DEF Resolve, KnownInfoset, storageVars

\* Materialising cells of live arrays leaves the others alone.
LEMMA MaterialiseLive ==
  ASSUME LiveInv, UNCHANGED meta, live \subseteq live',
         NEW cells \in SUBSET (Ids \X live'), Materialise(cells)
  PROVE  LiveInv'
<1>1. ASSUME NEW w \in Arrays \ live', NEW id \in Ids
      PROVE  resident'[w][id] = resident[w][id] /\ span'[w][id] = span[w][id]
  <2>1. <<id, w>> \notin cells
    OBVIOUS
  <2> QED
    BY <2>1, Zenon DEF Materialise
<1> QED
  BY <1>1, UnusedStayEmpty

\* Only arrays in use are read.
LEMMA ReadConstLive ==
  ASSUME LiveInv, NEW cells \in SUBSET (Ids \X live), ReadConst(cells)
  PROVE  LiveInv'
<1>1. UNCHANGED <<meta, live>>
  BY DEF ReadConst, mapVars
<1>2. CASE Compact
  BY <1>1, <1>2, MaterialiseLive DEF ReadConst
<1>3. CASE ~Compact
  BY <1>1, <1>3, UnusedStayEmpty DEF ReadConst
<1> QED
  BY <1>2, <1>3

\* An array that is asked for is in use from then on.
LEMMA AccessLive ==
  ASSUME LiveInv, NEW id \in Ids, NEW w \in Arrays, Access(id, w) \/ AccessFails(id, w)
  PROVE  LiveInv'
<1>1. UNCHANGED meta /\ live \subseteq live'
  BY DEF Access, AccessFails, mapVars
<1>2. CASE Access(id, w) /\ Compact
  <2>1. {<<id, w>>} \in SUBSET (Ids \X live') /\ Materialise({<<id, w>>})
    BY <1>2 DEF Access
  <2> QED
    BY <1>1, <2>1, MaterialiseLive
<1>3. CASE UNCHANGED <<resident, span>>
  BY <1>1, <1>3, UnusedStayEmpty
<1> QED
  BY <1>2, <1>3 DEF Access, AccessFails

\* A pointer that is held leads into an array in use.
LEMMA WriteLive ==
  ASSUME StoreInv, LiveInv, NEW id \in Ids, NEW w \in Arrays, NEW v \in NewValues,
         Write(id, w, v)
  PROVE  LiveInv'
<1>1. /\ UNCHANGED <<meta, live>> /\ <<id, w>> \in held
      /\ span' = [span EXCEPT ![w][id] = v] \/ span' = span
      /\ resident' = [resident EXCEPT ![w][id] = v] \/ resident' = resident
  BY DEF Write, Put, mapVars
<1>2. w \in live
  BY <1>1 DEF StoreInv, SpansOK
<1>3. ASSUME NEW x \in Arrays \ live', NEW i \in Ids
      PROVE  resident'[x][i] = resident[x][i] /\ span'[x][i] = span[x][i]
  BY <1>1, <1>2 DEF StoreInv, SpansOK
<1> QED
  BY <1>1, <1>3, UnusedStayEmpty

\* What an eviction drops has a span, and its array has been asked for.
LEMMA EndIterationLive ==
  ASSUME StoreInv, LiveInv, EndIteration
  PROVE  LiveInv'
<1>1. UNCHANGED <<meta, live>>
  BY DEF EndIteration, mapVars
<1>2. CASE UNCHANGED <<resident, span, dirty>>
  BY <1>1, <1>2, UnusedStayEmpty
<1>3. ASSUME NEW street \in PressureStreets, DropRecomputable(street)
      PROVE  LiveInv'
  <2>1. ASSUME NEW w \in Arrays \ live', NEW id \in Ids
        PROVE  resident'[w][id] = resident[w][id] /\ span'[w][id] = span[w][id]
    <3>1. ~Goes(id, w, street)
      BY <1>1 DEF Goes, StoreInv, SpansOK
    <3> QED
      BY <1>3, <3>1 DEF DropRecomputable, Release
  <2> QED
    BY <1>1, <2>1, UnusedStayEmpty
<1> QED
  BY <1>2, <1>3 DEF EndIteration

\* The arrays a load writes are in use from then on.
LEMMA PutAllLive ==
  ASSUME StoreInv, LiveInv, NEW id, NEW allocated \in SUBSET Arrays,
         NEW arrays \in SUBSET allocated, PutAll(id, arrays, allocated),
         \A w \in arrays : Entry.values[w] \in Values
  PROVE  LiveInv'
<1>1. UNCHANGED meta /\ live' = live \cup allocated
  BY DEF PutAll, mapVars
<1> SUFFICES ASSUME NEW w \in Arrays \ live', NEW i \in Ids' PROVE Content(i, w)' = Zero
  BY DEF LiveInv
<1>2. w \notin arrays /\ w \in Arrays \ live /\ i \in Ids
  BY <1>1 DEF Ids
<1> QED
  <2>1. arrays \in SUBSET Arrays
    OBVIOUS
  <2> QED
    BY <1>2, <2>1, PutContents DEF LiveInv

\* An array nobody has asked for stays empty.
LEMMA LiveStep ==
  ASSUME SafeInv, LiveInv, [CNext]_cvars
  PROVE  LiveInv'
<1> USE DEF SafeInv
<1>1. CASE Solve
  <2>1. ASSUME NEW k \in Keys, Resolve(k, "game") PROVE LiveInv'
    BY <2>1, ResolveLive DEF Shapes
  <2>2. ASSUME NEW id \in Ids, NEW w \in Arrays, ReadConst({<<id, w>>}) PROVE LiveInv'
    <3>1. {<<id, w>>} \in SUBSET (Ids \X live)
      BY <2>2 DEF ReadConst, Readable
    <3> QED
      BY <2>2, <3>1, ReadConstLive
  <2> QED
    BY <1>1, <2>1, <2>2, AccessLive, WriteLive, EndIterationLive DEF Solve
<1>2. CASE SaveEntry
  <2>1. PICK lost \in SUBSET {w \in live : "read" \in Shortages /\ Compact /\ ~Has(io.at, w)} :
           ReadConst({<<io.at, w>> : w \in live \ lost})
    BY <1>2 DEF SaveEntry
  <2>2. {<<io.at, w>> : w \in live \ lost} \in SUBSET (Ids \X live)
    BY <1>2 DEF SaveEntry
  <2> QED
    BY <2>1, <2>2, ReadConstLive
<1>3. CASE LoadResolve
  <2>1. Entry.key \in Keys /\ Entry.shape \in Shapes
    BY <1>3, EntryOK DEF LoadResolve
  <2> QED
    BY <1>3, <2>1, ResolveLive DEF LoadResolve, Resolve
<1>4. CASE LoadValues
  <2>1. /\ DOMAIN Entry.values \subseteq Arrays
        /\ \A w \in DOMAIN Entry.values : Entry.values[w] \in Values
    BY <1>4, EntryOK DEF LoadValues, FileOK
  <2>2. PICK allocated \in SUBSET DOMAIN Entry.values, arrays \in SUBSET DOMAIN Entry.values :
           arrays \subseteq allocated /\ PutAll(Find(Entry.key), arrays, allocated)
    BY <1>4, LoadPuts
  <2>3. /\ allocated \in SUBSET Arrays /\ arrays \in SUBSET allocated
        /\ \A w \in arrays : Entry.values[w] \in Values
    BY <2>1, <2>2
  <2> QED
    BY <2>2, <2>3, PutAllLive
<1>5. CASE Restart
  <2>1. Ids' = {}
    BY <1>5 DEF Restart, Ids
  <2> QED
    BY <2>1 DEF LiveInv
<1>6. CASE UNCHANGED storageVars
  BY <1>6, SameLive DEF storageVars
<1> QED
  BY <1>1, <1>2, <1>3, <1>4, <1>5, <1>6
     DEF CNext, SaveOpen, SaveClose, SaveFails, LoadRefused, LoadBegin, LoadEnd, StartRun, cvars

(***************************************************************************)
(* What the file and the storage have in common                            *)
(***************************************************************************)

\* The process and the file stay in their ranges.
ProcessOK ==
    /\ config \in Configs /\ phase \in {"created", "running"}
    /\ status \in {"none", "ok", "failed"}
    /\ disk.format \in {"none", "v3", "legacy"} /\ disk.whole \in BOOLEAN

\* All that is proved to be kept, beside the safety of the slabs.
RestInv ==
    ProcessOK /\ MapInv /\ LiveInv /\ FileInv /\ SavingInv /\ LoadingInv /\ OrderInv

\* What a save does to the file.
LEMMA SaveFile ==
  ASSUME FileOK
  PROVE  /\ SaveOpen => /\ disk'.format = "v3" /\ disk'.whole = FALSE /\ disk'.config = config
                        /\ disk'.entries = <<>>
         /\ SaveEntry => /\ disk'.format = disk.format /\ disk'.whole = disk.whole
                         /\ disk'.config = disk.config
         /\ SaveClose => /\ disk'.format = disk.format /\ disk'.whole = TRUE
                         /\ disk'.config = disk.config /\ disk'.entries = disk.entries
                         /\ disk'.snapshot = [k \in {meta[id].key : id \in Ids} |->
                                                [w \in Arrays |-> Content(Find(k), w)]]
<1>1. disk = [format |-> disk.format, whole |-> disk.whole, config |-> disk.config,
              entries |-> disk.entries, snapshot |-> disk.snapshot]
  BY DEF FileOK
<1>2. ASSUME SaveOpen
      PROVE  /\ disk'.format = "v3" /\ disk'.whole = FALSE /\ disk'.config = config
             /\ disk'.entries = <<>>
  BY <1>2 DEF SaveOpen, NoFile
<1>3. ASSUME SaveEntry
      PROVE  /\ disk'.format = disk.format /\ disk'.whole = disk.whole
             /\ disk'.config = disk.config
  <2>1. PICK entries : disk' = [disk EXCEPT !.entries = entries]
    BY <1>3 DEF SaveEntry
  <2> QED
    BY <1>1, <2>1
<1>4. ASSUME SaveClose
      PROVE  /\ disk'.format = disk.format /\ disk'.whole = TRUE
             /\ disk'.config = disk.config /\ disk'.entries = disk.entries
             /\ disk'.snapshot = [k \in {meta[id].key : id \in Ids} |->
                                    [w \in Arrays |-> Content(Find(k), w)]]
  <2> DEFINE contents == [k \in {meta[id].key : id \in Ids} |->
                            [w \in Arrays |-> Content(Find(k), w)]]
  <2>1. disk' = [disk EXCEPT !.whole = TRUE, !.snapshot = contents]
    BY <1>4 DEF SaveClose
  <2> HIDE DEF contents
  <2>2. /\ disk'.format = disk.format /\ disk'.whole = TRUE
        /\ disk'.config = disk.config /\ disk'.entries = disk.entries
        /\ disk'.snapshot = contents
    BY <1>1, <2>1
  <2> QED
    BY <2>2 DEF contents
<1> QED
  BY <1>2, <1>3, <1>4

\* Process and file stay in their ranges.
LEMMA ProcessStep ==
  ASSUME FileOK, ProcessOK, [CNext]_cvars
  PROVE  ProcessOK'
<1>1. CASE SaveOpen \/ SaveEntry \/ SaveClose
  BY <1>1, SaveFile DEF ProcessOK, SaveOpen, SaveEntry, SaveClose
<1>2. CASE LoadValues
  BY <1>2, LoadPuts DEF ProcessOK
<1>3. CASE ~(SaveOpen \/ SaveEntry \/ SaveClose \/ LoadValues)
  BY <1>3 DEF ProcessOK, CNext, Solve, SaveFails, LoadRefused, LoadBegin, LoadResolve, ToValues, LoadFails,
              LoadEnd, StartRun, Restart, cvars, ioVars
<1> QED
  BY <1>1, <1>2, <1>3

\* An older program's file is whole.
LEMMA LegacyFileInv ==
  ASSUME NEW content \in Legacy, disk = LegacyFile(content)
  PROVE  FileInv
<1>1. /\ \A i, j \in DOMAIN content : content[i].key = content[j].key => i = j
  BY CheckpointAssumption
<1> DEFINE one(i) == [key |-> content[i].key, shape |-> "flat", values |-> content[i].values]
           values(k) == content[CHOOSE i \in DOMAIN content : content[i].key = k].values
<1>2. /\ disk.config = "none"
      /\ disk.entries = [i \in DOMAIN content |-> one(i)]
      /\ disk.snapshot = [k \in {content[i].key : i \in DOMAIN content} |-> values(k)]
  BY DEF LegacyFile
<1>3. \A i \in DOMAIN content : values(content[i].key) = content[i].values
  BY <1>1
<1> HIDE DEF values
<1>4. /\ DOMAIN disk.entries = DOMAIN content
      /\ \A i \in DOMAIN content : /\ disk.entries[i].key = content[i].key
                                   /\ disk.entries[i].values = content[i].values
  BY <1>2
<1>5. /\ DOMAIN disk.snapshot = {content[i].key : i \in DOMAIN content}
      /\ \A i \in DOMAIN content : disk.snapshot[content[i].key] = content[i].values
  BY <1>2, <1>3
<1>6. \A i \in DOMAIN disk.entries, w \in Arrays : Tells(i, w, Stored(disk.entries[i].key, w))
  BY <1>4, <1>5 DEF Tells, Stored
<1>7. {disk.entries[i].key : i \in DOMAIN disk.entries} = {content[i].key : i \in DOMAIN content}
  BY <1>4
<1> QED
  BY <1>1, <1>2, <1>4, <1>5, <1>6, <1>7 DEF FileInv

\* The file a save closes tells all of the storage.
LEMMA SaveCloseFile ==
  ASSUME SafeInv, RestInv, SaveClose
  PROVE  FileInv'
<1>1. /\ FileOK /\ StoreInv /\ MapInv /\ FileInv /\ SavingInv /\ io.op = "save"
      /\ io.at = Len(meta) + 1
  BY DEF SafeInv, RestInv, SaveClose
<1>2. /\ disk'.format = disk.format /\ disk'.config = disk.config /\ disk'.entries = disk.entries
      /\ disk'.snapshot = [k \in {meta[id].key : id \in Ids} |->
                             [w \in Arrays |-> Content(Find(k), w)]]
  BY <1>1, SaveFile
<1>3. Len(meta) \in Nat /\ Len(disk.entries) \in Nat /\ DOMAIN disk.entries = 1..Len(disk.entries)
  BY <1>1 DEF StoreInv, SpansOK, FileOK
<1>4. DOMAIN disk.entries = Ids
  <2>1. Len(disk.entries) + 1 = Len(meta) + 1
    BY <1>1 DEF SavingInv
  <2>2. Len(disk.entries) = Len(meta)
    BY <1>3, <2>1
  <2> QED
    BY <1>3, <2>2 DEF Ids
<1>5. \A i \in Ids : /\ disk.entries[i].key = meta[i].key /\ Find(meta[i].key) = i
                     /\ \A w \in Arrays : Tells(i, w, Content(i, w))
  BY <1>1, <1>4, FindFinds DEF SavingInv
<1>6. \A i, j \in Ids : disk.entries[i].key = disk.entries[j].key => i = j
  BY <1>1, <1>5 DEF MapInv
<1>7. DOMAIN disk'.snapshot = {disk.entries[i].key : i \in Ids}
  BY <1>2, <1>5
<1>8. ASSUME NEW i \in Ids, NEW w \in Arrays
      PROVE  Tells(i, w, Stored(disk.entries[i].key, w))'
  <2>1. disk'.snapshot[meta[i].key] = [x \in Arrays |-> Content(i, x)]
    BY <1>2, <1>5
  <2>2. Stored(disk.entries[i].key, w)' = Content(i, w)
    BY <1>2, <1>5, <2>1 DEF Stored
  <2>3. Tells(i, w, Content(i, w))
    BY <1>5
  <2> QED
    BY <1>2, <2>2, <2>3 DEF Tells
<1>9. disk'.format = "legacy" => disk'.config = "none"
  BY <1>1, <1>2 DEF FileInv
<1>10. /\ DOMAIN disk'.entries = Ids
       /\ \A i, j \in Ids : disk'.entries[i].key = disk'.entries[j].key => i = j
       /\ DOMAIN disk'.snapshot = {disk'.entries[i].key : i \in Ids}
  <2>1. disk'.entries = disk.entries
    BY <1>2
  <2> QED
    BY <2>1, <1>4, <1>6, <1>7
<1>11. \A i \in DOMAIN disk'.entries, w \in Arrays : Tells(i, w, Stored(disk.entries[i].key, w))'
  BY <1>8, <1>10
<1>12. \A i, j \in DOMAIN disk'.entries : disk'.entries[i].key = disk'.entries[j].key => i = j
  BY <1>10
<1>13. DOMAIN disk'.snapshot = {disk'.entries[i].key : i \in DOMAIN disk'.entries}
  BY <1>10
<1> QED
  BY <1>9, <1>11, <1>12, <1>13, Zenon DEF FileInv

\* A file that is whole stays what it was; one that is being written is not whole.
LEMMA FileStep ==
  ASSUME SafeInv, RestInv, [CNext]_cvars
  PROVE  FileInv'
<1>1. FileOK /\ FileInv /\ SavingInv
  BY DEF SafeInv, RestInv
<1>2. CASE SaveOpen
  BY <1>1, <1>2, SaveFile DEF FileInv
<1>3. CASE SaveEntry
  <2>1. io.op = "save"
    BY <1>3 DEF SaveEntry
  <2>2. disk'.format = disk.format /\ disk'.whole = disk.whole /\ disk'.config = disk.config
    BY <1>1, <1>3, SaveFile
  <2> QED
    BY <1>1, <2>1, <2>2 DEF FileInv, SavingInv
<1>4. CASE SaveClose
  BY <1>4, SaveCloseFile
<1>5. CASE UNCHANGED disk
  BY <1>1, <1>5 DEF FileInv, Tells, Stored
<1>6. CASE LoadValues
  BY <1>1, <1>5, <1>6, LoadPuts
<1> QED
  BY <1>2, <1>3, <1>4, <1>5, <1>6
     DEF CNext, Solve, SaveFails, LoadRefused, LoadBegin, LoadResolve, ToValues, LoadFails, LoadEnd,
         StartRun, Restart, cvars, ioVars

\* What a save writes of an infoset is what is in it afterwards.
LEMMA SaveEntrySaving ==
  ASSUME SafeInv, RestInv, SaveEntry
  PROVE  SavingInv'
<1> PICK lost \in SUBSET {w \in live : "read" \in Shortages /\ Compact /\ ~Has(io.at, w)} :
       /\ ReadConst({<<io.at, w>> : w \in live \ lost})
       /\ disk' = [disk EXCEPT !.entries = Append(@,
                   [key |-> meta[io.at].key, shape |-> meta[io.at].shape,
                    values |-> [w \in live \ lost |-> IF Compact THEN Committed(io.at, w)
                                                            ELSE resident[w][io.at]]])]
  BY DEF SaveEntry
<1> SUFFICES ASSUME NEW id, id = io.at,
                    NEW cells, cells = {<<id, w>> : w \in live \ lost},
                    NEW content,
                    content = [w \in live \ lost |-> IF Compact THEN Committed(id, w)
                                                               ELSE resident[w][id]],
                    NEW entry,
                    entry = [key |-> meta[id].key, shape |-> meta[id].shape, values |-> content],
                    NEW n, n = Len(disk.entries)
             PROVE  SavingInv'
  OBVIOUS
<1>1. StoreInv /\ FileOK /\ SavingInv /\ LiveInv /\ io.op = "save" /\ id \in Ids
  BY DEF SafeInv, RestInv, SaveEntry
<1>2. entry.key = meta[id].key /\ entry.values = content
  OBVIOUS
<1>3. disk'.entries = Append(disk.entries, entry) /\ disk'.whole = disk.whole
  BY <1>1 DEF FileOK
<1>4. /\ n \in Nat /\ id = n + 1 /\ id <= Len(meta) /\ Len(meta) \in Nat
      /\ DOMAIN disk.entries = 1..n
      /\ DOMAIN disk'.entries = 1..(n + 1) /\ Len(disk'.entries) = n + 1
      /\ disk'.entries[n + 1] = entry
      /\ \A i \in 1..n : disk'.entries[i] = disk.entries[i]
  <2>1. disk.entries \in Seq([key : Keys, shape : Shapes, values : FileValues])
    BY <1>1 DEF FileOK
  <2>2. id = n + 1
    BY <1>1 DEF SavingInv
  <2>3. Len(meta) \in Nat
    BY <1>1 DEF StoreInv, SpansOK
  <2>4. id <= Len(meta)
    BY <1>1, <2>3 DEF Ids
  <2>5. disk'.entries \in Seq([key : Keys, shape : Shapes, values : FileValues])
    BY <1>1, SaveEntryFile DEF FileOK
  <2> QED
    BY <1>3, <2>1, <2>2, <2>3, <2>4, <2>5
<1>5. UNCHANGED <<meta, live, phase>> /\ io' = [io EXCEPT !.at = @ + 1]
  BY DEF SaveEntry, ReadConst, mapVars
<1>6. io'.op = "save" /\ io'.at = id + 1
  BY <1>1, <1>5 DEF FileOK
<1>7. ASSUME NEW i \in Ids, NEW w \in Arrays
      PROVE  Content(i, w)' = IF Compact /\ <<i, w>> \in cells THEN Committed(i, w)
                                                               ELSE Content(i, w)
  <2>1. cells \in SUBSET (Ids \X live) /\ ReadConst(cells)
    BY <1>1
  <2> QED
    BY <1>1, <2>1, ReadContents
<1>8. ASSUME NEW i \in 1..n, NEW w \in Arrays
      PROVE  Tells(i, w, Content(i, w))'
  <2>1. i \in Ids /\ <<i, w>> \notin cells
    BY <1>1, <1>4 DEF Ids
  <2>2. Content(i, w)' = Content(i, w)
    BY <1>7, <2>1
  <2>3. Tells(i, w, Content(i, w)) /\ disk'.entries[i] = disk.entries[i]
    BY <1>1, <1>4 DEF SavingInv
  <2> QED
    BY <2>2, <2>3 DEF Tells
<1>9. ASSUME NEW w \in Arrays
      PROVE  Tells(id, w, Content(id, w))'
  <2>1. disk'.entries[id].values = content /\ DOMAIN content = live \ lost
    BY <1>2, <1>4
  <2>2. CASE w \in live \ lost
    <3>1. content[w] = IF Compact THEN Committed(id, w) ELSE resident[w][id]
      BY <2>2
    <3>2. <<id, w>> \in cells
      BY <2>2
    <3>3. Content(id, w)' = content[w]
      <4>1. CASE Compact
        BY <1>1, <1>7, <3>1, <3>2, <4>1
      <4>2. CASE ~Compact
        <5>1. ~Has(id, w)
          BY <1>1, <4>2 DEF StoreInv, SpansOK
        <5>2. Content(id, w) = resident[w][id]
          BY <5>1 DEF Content
        <5>3. Content(id, w)' = Content(id, w)
          BY <1>1, <1>7, <4>2
        <5> QED
          BY <3>1, <4>2, <5>2, <5>3
      <4> QED
        BY <4>1, <4>2
    <3> QED
      BY <2>1, <2>2, <3>3 DEF Tells
  <2>3. CASE w \notin live \ lost
    <3>1. w \notin DOMAIN disk'.entries[id].values
      BY <2>1, <2>3
    <3>2. CASE "read" \in Shortages
      BY <3>1, <3>2 DEF Tells
    <3>3. CASE "read" \notin Shortages
      <4>1. w \in Arrays \ live
        BY <2>3, <3>3
      <4>2. Content(id, w) = Zero /\ <<id, w>> \notin cells
        BY <1>1, <4>1 DEF LiveInv
      <4>3. Content(id, w)' = Zero
        BY <1>1, <1>7, <4>2
      <4> QED
        BY <3>1, <4>3 DEF Tells
    <3> QED
      BY <3>2, <3>3
  <2> QED
    BY <2>2, <2>3
<1>10. ASSUME NEW i \in DOMAIN disk'.entries
       PROVE  /\ disk'.entries[i].key = meta'[i].key
              /\ \A w \in Arrays : Tells(i, w, Content(i, w))'
  <2>1. CASE i = id
    <3>1. disk'.entries[i].key = meta'[i].key
      BY <1>2, <1>4, <1>5, <2>1
    <3> QED
      BY <1>9, <2>1, <3>1, Zenon
  <2>2. CASE i # id
    <3>1. i \in 1..n
      BY <1>4, <2>2
    <3>2. disk.entries[i].key = meta[i].key /\ disk'.entries[i] = disk.entries[i]
      BY <1>1, <1>4, <3>1 DEF SavingInv
    <3> QED
      BY <1>5, <1>8, <3>1, <3>2
  <2> QED
    BY <2>1, <2>2
<1>11. phase' = "running" /\ disk'.whole = FALSE
  BY <1>1, <1>3, <1>5 DEF SavingInv, RestInv, ProcessOK
<1>12. io'.at = Len(disk'.entries) + 1 /\ io'.at <= Len(meta') + 1
  BY <1>4, <1>5, <1>6
<1> QED
  BY <1>10, <1>11, <1>12 DEF SavingInv

\* What a save has written stays true until it ends, since nobody else runs.
LEMMA SavingStep ==
  ASSUME SafeInv, RestInv, [CNext]_cvars
  PROVE  SavingInv'
<1>1. FileOK /\ StoreInv /\ SavingInv /\ LoadingInv
  BY DEF SafeInv, RestInv
<1>2. CASE SaveOpen
  <2>1. /\ disk'.whole = FALSE /\ disk'.entries = <<>> /\ io' = [op |-> "save", at |-> 1]
        /\ phase' = "running" /\ UNCHANGED meta
    BY <1>1, <1>2, SaveFile DEF SaveOpen, storageVars, mapVars
  <2>2. Len(disk'.entries) = 0 /\ DOMAIN disk'.entries = {} /\ Len(meta') \in Nat
    BY <1>1, <2>1 DEF StoreInv, SpansOK
  <2>3. io'.at = 1
    BY <2>1
  <2> QED
    BY <2>1, <2>2, <2>3 DEF SavingInv
<1>3. CASE SaveEntry
  BY <1>3, SaveEntrySaving
<1>4. CASE UNCHANGED <<storageVars, io, disk, phase>>
  BY <1>1, <1>4 DEF SavingInv, Tells, Content, Has, storageVars, mapVars, spanVars
<1>5. CASE io'.op # "save"
  BY <1>5 DEF SavingInv
<1>6. CASE LoadValues
  <2>1. io' = NoIo \/ io' = [op |-> "resolve", at |-> io.at + 1]
    BY <1>1, <1>6, LoadPuts
  <2> QED
    BY <2>1 DEF SavingInv, NoIo
<1>7. CASE LoadResolve
  BY <1>1, <1>7 DEF LoadResolve, ToValues, LoadFails, NoIo, SavingInv, FileOK
<1> QED
  BY <1>2, <1>3, <1>4, <1>5, <1>6, <1>7
     DEF CNext, Solve, SaveClose, SaveFails, LoadRefused, LoadBegin, LoadEnd, StartRun, Restart,
         Idle, NoIo, cvars, ioVars

\* What an infoset has of an entry it keeps while the storage and the file do
\* not change.
LEMMA SameLoaded ==
  ASSUME UNCHANGED <<mapVars, spanVars, disk>>
  PROVE  /\ Ids' = Ids
         /\ \A id \in Ids : \A i \in DOMAIN disk.entries : PartOf(id, i) => PartOf(id, i)'
         /\ \A i \in DOMAIN disk.entries : Applied(i) => Applied(i)'
<1>1. UNCHANGED <<meta, span, resident, disk>> /\ Ids' = Ids
  BY DEF mapVars, spanVars, Ids
<1>2. \A id, w : Content(id, w)' = Content(id, w)
  BY <1>1 DEF Content, Has
<1> QED
  BY <1>1, <1>2 DEF PartOf, AllOf, Applied, From, EntryValue

\* Whether a load takes the file depends on file and configuration.
LEMMA AcceptedStays ==
  ASSUME UNCHANGED <<disk, config>>
  PROVE  Accepted(disk)' = Accepted(disk)
BY DEF Accepted

\* A step that leaves storage, file and load alone.
LEMMA SameLoading ==
  ASSUME LoadingInv, UNCHANGED <<storageVars, disk, config, phase, status, io>>
  PROVE  LoadingInv'
<1>1. Loading' = Loading /\ Accepted(disk)' = Accepted(disk)
  BY AcceptedStays DEF Loading
<1>2. UNCHANGED meta
  BY DEF storageVars, mapVars
<1> QED
  BY <1>1, <1>2, SameLoaded DEF LoadingInv, From, storageVars

\* A new infoset is the last one and has the key it was created for.
LEMMA NewInfosetIds ==
  ASSUME StoreInv, NEW k \in Keys, NEW shape \in Shapes, NewInfoset(k, shape)
  PROVE  /\ Len(meta) \in Nat /\ Ids = 1..Len(meta) /\ Ids' = 1..(Len(meta) + 1)
         /\ \A id \in Ids : meta'[id] = meta[id]
         /\ Len(meta') = Len(meta) + 1 /\ meta'[Len(meta) + 1].key = k
<1>1. meta \in Seq([key : Keys, shape : Shapes]) /\ Ids = 1..Len(meta) /\ Len(meta) \in Nat
  BY DEF StoreInv, SpansOK, Ids
<1> SUFFICES ASSUME NEW new, new = [key |-> k, shape |-> shape]
             PROVE  /\ Ids' = 1..(Len(meta) + 1) /\ \A id \in Ids : meta'[id] = meta[id]
                    /\ Len(meta') = Len(meta) + 1 /\ meta'[Len(meta) + 1].key = k
  BY <1>1
<1>2. new.key = k /\ meta' = Append(meta, new)
  BY DEF NewInfoset
<1>3. Len(meta') = Len(meta) + 1 /\ meta'[Len(meta) + 1] = new /\ \A id \in Ids : meta'[id] = meta[id]
  BY <1>1, <1>2
<1> QED
  BY <1>1, <1>2, <1>3 DEF Ids

\* The infoset a load resolves for the entry it is at.
LEMMA LoadResolveLoading ==
  ASSUME SafeInv, RestInv, LoadResolve
  PROVE  LoadingInv'
<1>1. /\ StoreInv /\ FileOK /\ MapInv /\ LoadingInv /\ io.op = "resolve"
      /\ io.at \in DOMAIN disk.entries
  BY DEF SafeInv, RestInv, LoadResolve
<1>2. Loading /\ phase = "created" /\ io.at \in 1..(Len(disk.entries) + 1) /\ Accepted(disk)
  BY <1>1 DEF Loading, LoadingInv
<1>3. Entry.key \in Keys /\ Entry.shape \in Shapes
  BY <1>1, EntryOK
<1>4. UNCHANGED <<disk, config, phase>> /\ Accepted(disk)'
  BY <1>2, AcceptedStays DEF LoadResolve, ToValues, LoadFails
<1>5. ASSUME io' = [io EXCEPT !.op = "values"]
      PROVE  io'.op = "values" /\ io'.at = io.at /\ Loading'
  BY <1>1, <1>5 DEF FileOK, Loading
<1>6. CASE NewInfoset(Entry.key, Entry.shape)
  <2>1. UNCHANGED status /\ io' = [io EXCEPT !.op = "values"]
    <3>1. meta' # meta
      BY <1>1, <1>3, <1>6, NewInfosetIds DEF Ids
    <3>2. ~ResolveFails(Entry.key) /\ ~KnownInfoset(Entry.key)
      BY <3>1, ResolveFailsKeeps DEF KnownInfoset, storageVars, mapVars
    <3> QED
      BY <3>2 DEF LoadResolve, ToValues
  <2> SUFFICES ASSUME NEW new, new = Len(meta) + 1 PROVE LoadingInv'
    OBVIOUS
  <2>2. /\ new \notin Ids /\ Ids' = Ids \cup {new}
        /\ \A id \in Ids : meta'[id] = meta[id]
        /\ meta'[new].key = Entry.key
    BY <1>1, <1>3, <1>6, NewInfosetIds
  <2>3. /\ \A w \in Arrays, id \in Ids : Content(id, w)' = Content(id, w)
        /\ \A w \in Arrays : Content(new, w)' = Zero
    BY <1>1, <1>3, <1>6, <2>2, NewContents
  <2>4. \A id \in Ids, i \in DOMAIN disk.entries :
           /\ PartOf(id, i) => PartOf(id, i)'
           /\ AllOf(id, i) => AllOf(id, i)'
    BY <1>4, <2>2, <2>3 DEF PartOf, AllOf, From, EntryValue
  <2>5. From(new, io.at)' /\ PartOf(new, io.at)'
    BY <1>4, <2>1, <2>2, <2>3, <1>5 DEF From, PartOf, Entry
  <2>6. \A id \in Ids' : \E i \in DOMAIN disk.entries : PartOf(id, i)'
    BY <1>1, <1>2, <1>5, <2>1, <2>2, <2>4, <2>5 DEF LoadingInv
  <2>7. \A i \in DOMAIN disk.entries : status = "ok" \/ i < io.at => Applied(i)'
    BY <1>1, <1>2, <2>2, <2>4 DEF LoadingInv, Applied
  <2> QED
    BY <1>1, <1>2, <1>4, <1>5, <2>1, <2>2, <2>5, <2>6, <2>7 DEF LoadingInv
<1>7. CASE KnownInfoset(Entry.key) /\ ToValues
  <2>1. UNCHANGED storageVars /\ Known(Entry.key)
    BY <1>7 DEF KnownInfoset
  <2>0. UNCHANGED <<mapVars, spanVars, status>> /\ io' = [io EXCEPT !.op = "values"]
    BY <1>7, <2>1 DEF ToValues, storageVars
  <2>2. Find(Entry.key) \in Ids /\ meta[Find(Entry.key)].key = Entry.key
    BY <1>1, <1>3, <2>1, FindIsRight
  <2>3. UNCHANGED meta /\ Ids' = Ids
    BY <2>1 DEF storageVars, mapVars, Ids
  <2>4. \E id \in Ids' : From(id, io.at)'
    BY <1>4, <1>5, <2>0, <2>2, <2>3 DEF From, Entry
  <2>5. \A id \in Ids' : \E i \in DOMAIN disk.entries : PartOf(id, i)'
    BY <1>1, <1>2, <1>4, <2>0, SameLoaded DEF LoadingInv
  <2>6. \A i \in DOMAIN disk.entries : status = "ok" \/ i < io.at => Applied(i)'
    BY <1>1, <1>2, <1>4, <2>0, SameLoaded DEF LoadingInv
  <2> QED
    BY <1>1, <1>2, <1>4, <1>5, <2>0, <2>4, <2>5, <2>6 DEF LoadingInv
<1>8. CASE (KnownInfoset(Entry.key) \/ ResolveFails(Entry.key)) /\ LoadFails
  <2>1. UNCHANGED <<mapVars, spanVars>> /\ io' = NoIo /\ status' = "failed"
    BY <1>8, ResolveFailsKeeps DEF KnownInfoset, LoadFails, storageVars
  <2>2. \A id \in Ids' : \E i \in DOMAIN disk.entries : PartOf(id, i)'
    BY <1>1, <1>2, <1>4, <2>1, SameLoaded DEF LoadingInv
  <2>3. ~Loading' /\ io'.op # "values"
    BY <2>1 DEF NoIo, Loading
  <2> QED
    BY <1>4, <2>1, <2>2, <2>3 DEF LoadingInv
<1> QED
  BY <1>6, <1>7, <1>8 DEF LoadResolve

\* What a load writes for the entry it is at goes to the infoset of that entry,
\* and so takes nothing from what there is of any entry.
LEMMA LoadPutsContents ==
  ASSUME SafeInv, RestInv, LoadValues
  PROVE  /\ \E new \in Ids, arrays \in SUBSET Arrays :
               /\ From(new, io.at)
               /\ \A i \in DOMAIN disk.entries : From(new, i) => i = io.at
               /\ \A id \in Ids, w \in Arrays :
                     Content(id, w)' = IF w \in arrays /\ id = new THEN EntryValue(io.at, w)
                                                                  ELSE Content(id, w)
               /\ \/ arrays = DOMAIN Entry.values /\ UNCHANGED status
                     /\ io' = [op |-> "resolve", at |-> io.at + 1]
                  \/ io' = NoIo /\ status' = "failed"
         /\ UNCHANGED <<disk, config, phase, meta>> /\ Ids' = Ids
         /\ \A id \in Ids, i \in DOMAIN disk.entries :
               /\ PartOf(id, i) => PartOf(id, i)'
               /\ AllOf(id, i) => AllOf(id, i)'
<1>1. /\ StoreInv /\ FileOK /\ MapInv /\ FileInv /\ LoadingInv /\ io.op = "values"
      /\ io.at \in DOMAIN disk.entries /\ io.at \in Nat
  BY DEF SafeInv, RestInv, LoadValues, FileOK
<1>2. phase = "created" /\ Accepted(disk) /\ disk.whole
  BY <1>1 DEF Loading, LoadingInv, Accepted
<1>3. \A i, j \in DOMAIN disk.entries : disk.entries[i].key = disk.entries[j].key => i = j
  BY <1>1, <1>2 DEF FileInv
<1>4. PICK new \in Ids : From(new, io.at)
  BY <1>1, <1>2 DEF LoadingInv
<1>5. Find(Entry.key) = new
  BY <1>1, <1>4, FindFinds DEF From, Entry
<1>6. PICK allocated, arrays :
         /\ PutAll(new, arrays, allocated)
         /\ arrays \in SUBSET Arrays
         /\ \A w \in arrays : w \in DOMAIN Entry.values /\ Entry.values[w] \in Values
         /\ \/ arrays = DOMAIN Entry.values /\ UNCHANGED status
               /\ io' = [op |-> "resolve", at |-> io.at + 1]
            \/ io' = NoIo /\ status' = "failed"
  <2>1. /\ DOMAIN Entry.values \subseteq Arrays
        /\ \A w \in DOMAIN Entry.values : Entry.values[w] \in Values
    BY <1>1, EntryOK
  <2> QED
    BY <1>1, <1>5, <2>1, LoadPuts
<1>7. UNCHANGED <<disk, config, phase>>
  BY <1>1, LoadPuts
<1>8. UNCHANGED meta /\ Ids' = Ids
  BY <1>6 DEF PutAll, mapVars, Ids
<1>9. \A id \in Ids, w \in Arrays :
         Content(id, w)' = IF w \in arrays /\ id = new THEN EntryValue(io.at, w)
                                                        ELSE Content(id, w)
  BY <1>1, <1>6, PutContents DEF EntryValue, Entry
<1>10. \A i \in DOMAIN disk.entries : From(new, i) => i = io.at
  BY <1>1, <1>3, <1>4 DEF From
<1>11. \A id \in Ids, i \in DOMAIN disk.entries :
          /\ PartOf(id, i) => PartOf(id, i)'
          /\ AllOf(id, i) => AllOf(id, i)'
  <2>1. \A id, i : From(id, i)' <=> From(id, i)
    BY <1>7, <1>8 DEF From
  <2>2. \A i, w : EntryValue(i, w)' = EntryValue(i, w)
    BY <1>7 DEF EntryValue
  <2> QED
    BY <1>9, <1>10, <2>1, <2>2 DEF PartOf, AllOf
<1> QED
  BY <1>4, <1>6, <1>7, <1>8, <1>9, <1>10, <1>11

\* The entry whose values a load has put in is all in the storage.
LEMMA LoadValuesLoading ==
  ASSUME SafeInv, RestInv, LoadValues
  PROVE  LoadingInv'
<1>1. /\ StoreInv /\ FileOK /\ LoadingInv /\ io.op = "values"
      /\ io.at \in DOMAIN disk.entries /\ io.at \in Nat
  BY DEF SafeInv, RestInv, LoadValues, FileOK
<1>2. phase = "created" /\ Accepted(disk)
  BY <1>1 DEF Loading, LoadingInv
<1>3. PICK new \in Ids, arrays \in SUBSET Arrays :
         /\ From(new, io.at)
         /\ \A i \in DOMAIN disk.entries : From(new, i) => i = io.at
         /\ \A id \in Ids, w \in Arrays :
               Content(id, w)' = IF w \in arrays /\ id = new THEN EntryValue(io.at, w)
                                                            ELSE Content(id, w)
         /\ \/ arrays = DOMAIN Entry.values /\ UNCHANGED status
               /\ io' = [op |-> "resolve", at |-> io.at + 1]
            \/ io' = NoIo /\ status' = "failed"
  BY LoadPutsContents
<1>4. UNCHANGED <<disk, config, phase>> /\ Accepted(disk)'
  BY <1>2, LoadPutsContents, AcceptedStays
<1>5. UNCHANGED meta /\ Ids' = Ids
  BY LoadPutsContents
<1>6. \A id \in Ids, i \in DOMAIN disk.entries :
          /\ PartOf(id, i) => PartOf(id, i)'
          /\ AllOf(id, i) => AllOf(id, i)'
  BY LoadPutsContents
<1>7. \A id \in Ids' : \E i \in DOMAIN disk.entries : PartOf(id, i)'
  BY <1>1, <1>2, <1>5, <1>6 DEF LoadingInv
<1>8. \A i \in DOMAIN disk.entries : status = "ok" \/ i < io.at => Applied(i)'
  BY <1>1, <1>2, <1>5, <1>6 DEF LoadingInv, Loading, Applied
<1> SUFFICES ASSUME NEW at, at = io.at PROVE LoadingInv'
  OBVIOUS
<1>9. CASE /\ arrays = DOMAIN Entry.values /\ UNCHANGED status
            /\ io' = [op |-> "resolve", at |-> io.at + 1]
  <2>1. AllOf(new, at)'
    <3>1. PICK i \in DOMAIN disk.entries : PartOf(new, i)
      BY <1>1, <1>2 DEF LoadingInv
    <3>2. PartOf(new, io.at)
      BY <1>3, <3>1 DEF PartOf
    <3>3. ASSUME NEW w \in Arrays
          PROVE  Content(new, w)' = EntryValue(io.at, w)
      <4>1. CASE w \in arrays
        BY <1>3, <4>1
      <4>2. CASE w \notin arrays
        <5>1. EntryValue(io.at, w) = Zero
          BY <1>9, <4>2 DEF EntryValue, Entry
        <5>2. Content(new, w) = Zero
          BY <3>2, <5>1 DEF PartOf
        <5> QED
          BY <1>3, <4>2, <5>1, <5>2
      <4> QED
        BY <4>1, <4>2
    <3>4. From(new, at)'
      BY <1>3, <1>4, <1>5 DEF From
    <3>5. \A w \in Arrays : EntryValue(at, w)' = EntryValue(io.at, w)
      BY <1>4 DEF EntryValue
    <3> QED
      BY <3>3, <3>4, <3>5 DEF AllOf
  <2>2. Applied(at)' /\ at \in DOMAIN disk.entries
    BY <1>1, <1>5, <2>1 DEF Applied
  <2>3. io'.op = "resolve" /\ io'.at = at + 1
    BY <1>9
  <2>4. \A i \in DOMAIN disk.entries : i < at + 1 => i < at \/ i = at
    BY <1>1 DEF FileOK
  <2>5. \A i \in DOMAIN disk'.entries : status' = "ok" \/ i < io'.at => Applied(i)'
    BY <1>4, <1>8, <1>9, <2>2, <2>3, <2>4
  <2>6. io'.at \in 1..(Len(disk'.entries) + 1)
    BY <1>1, <1>4, <2>3 DEF FileOK
  <2> QED
    BY <1>2, <1>4, <1>7, <2>3, <2>5, <2>6 DEF LoadingInv, Loading
<1>10. CASE io' = NoIo /\ status' = "failed"
  <2>1. ~Loading' /\ io'.op # "values"
    BY <1>10 DEF NoIo, Loading
  <2> QED
    BY <1>4, <1>7, <1>10, <2>1 DEF LoadingInv
<1> QED
  BY <1>3, <1>9, <1>10

\* Only a load, before the run, changes what comes from the file.
LEMMA LoadingStep ==
  ASSUME SafeInv, RestInv, [CNext]_cvars
  PROVE  LoadingInv'
<1>1. FileOK /\ StoreInv /\ LoadingInv /\ SavingInv /\ ProcessOK
  BY DEF SafeInv, RestInv
<1>2. ASSUME UNCHANGED <<storageVars, disk, config, phase>>, phase = "created"
      PROVE  /\ Accepted(disk)' = Accepted(disk) /\ Ids' = Ids
             /\ \A id \in Ids : \E i \in DOMAIN disk.entries : PartOf(id, i)'
             /\ \A i \in DOMAIN disk.entries : Applied(i) => Applied(i)'
  BY <1>1, <1>2, SameLoaded, AcceptedStays DEF LoadingInv, storageVars
<1>3. CASE LoadRefused
  <2>1. /\ UNCHANGED <<storageVars, disk, config, phase, io>> /\ phase = "created"
        /\ status' = "failed" /\ ~Loading /\ ~Accepted(disk) /\ io'.op # "values"
    BY <1>3 DEF LoadRefused, Idle, Loading
  <2>2. Ids' = {} /\ ~Loading'
    BY <1>1, <1>2, <2>1 DEF LoadingInv, Loading
  <2> QED
    BY <2>1, <2>2 DEF LoadingInv
<1>4. CASE LoadBegin
  <2>1. /\ UNCHANGED <<storageVars, disk, config, phase, status>> /\ phase = "created"
        /\ Accepted(disk) /\ io' = [op |-> "resolve", at |-> 1]
    BY <1>4 DEF LoadBegin
  <2>2. /\ io'.op = "resolve" /\ io'.at = 1 /\ Len(disk.entries) \in Nat
        /\ \A i \in DOMAIN disk.entries : ~(i < 1)
    BY <1>1, <2>1 DEF FileOK
  <2>3. /\ Accepted(disk)' /\ Loading' /\ io'.at \in 1..(Len(disk'.entries) + 1)
    BY <1>2, <2>1, <2>2 DEF Loading
  <2>4. \A i \in DOMAIN disk'.entries :
           status' = "ok" \/ (Loading' /\ i < io'.at) => Applied(i)'
    BY <1>1, <1>2, <2>1, <2>2 DEF LoadingInv
  <2> QED
    BY <1>2, <2>1, <2>2, <2>3, <2>4 DEF LoadingInv
<1>5. CASE LoadResolve
  BY <1>5, LoadResolveLoading
<1>6. CASE LoadValues
  BY <1>6, LoadValuesLoading
<1>7. CASE LoadEnd
  <2>1. /\ UNCHANGED <<storageVars, disk, config, phase>> /\ Loading
        /\ io' = NoIo /\ status' = "ok" /\ io.at = Len(disk.entries) + 1
    BY <1>7 DEF LoadEnd, Loading
  <2>2. phase = "created" /\ Accepted(disk) /\ ~Loading' /\ io'.op # "values"
    BY <1>1, <2>1 DEF LoadingInv, Loading, NoIo
  <2>3. \A i \in DOMAIN disk.entries : i < io.at
    BY <1>1, <2>1 DEF FileOK
  <2>4. \A i \in DOMAIN disk.entries : Applied(i)'
    BY <1>1, <1>2, <2>1, <2>2, <2>3 DEF LoadingInv
  <2> QED
    BY <1>2, <2>1, <2>2, <2>4 DEF LoadingInv
<1>8. CASE Restart
  <2>1. Ids' = {} /\ phase' = "created" /\ io' = NoIo /\ status' = "none"
    BY <1>8 DEF Restart, Ids
  <2>2. ~Loading' /\ io'.op # "values"
    BY <2>1 DEF Loading, NoIo
  <2> QED
    BY <2>1, <2>2 DEF LoadingInv
<1>9. CASE phase' = "running" /\ ~Loading'
  BY <1>9 DEF LoadingInv
<1>10. CASE StartRun \/ Solve
  <2>1. phase' = "running" /\ io.op = "none" /\ UNCHANGED io
    BY <1>10 DEF StartRun, Solve, Idle
  <2> QED
    BY <1>9, <2>1 DEF Loading
<1>11. CASE SaveOpen \/ SaveEntry \/ SaveClose \/ SaveFails
  <2>1. phase' = "running"
    BY <1>1, <1>11 DEF SavingInv, SaveOpen, SaveEntry, SaveClose, SaveFails
  <2>2. io'.op \in {"save", "none"}
    BY <1>1, <1>11 DEF SaveOpen, SaveEntry, SaveClose, SaveFails, NoIo, FileOK
  <2> QED
    BY <1>9, <2>1, <2>2 DEF Loading
<1>12. CASE UNCHANGED cvars
  BY <1>1, <1>12, SameLoading DEF cvars, ioVars
<1> QED
  BY <1>3, <1>4, <1>5, <1>6, <1>7, <1>8, <1>10, <1>11, <1>12 DEF CNext

\* A step that leaves the storage's values and the file alone.
LEMMA SameOrder ==
  ASSUME OrderInv, UNCHANGED <<mapVars, spanVars, disk, phase>>
  PROVE  OrderInv'
<1>1. UNCHANGED <<meta, span, resident, disk, phase>> /\ Ids' = Ids
  BY DEF mapVars, spanVars, Ids
<1>2. \A id, w : Content(id, w)' = Content(id, w)
  BY <1>1 DEF Content, Has
<1> QED
  BY <1>1, <1>2 DEF OrderInv, From, AllOf, EntryValue

\* When a load meets an infoset the storage has not, the infosets there are are
\* those of the entries it has passed, each of them complete.
LEMMA PassedAreAll ==
  ASSUME SafeInv, RestInv, io.op = "resolve", io.at \in DOMAIN disk.entries,
         Unknown(Entry.key)
  PROVE  io.at = Len(meta) + 1 /\ \A id \in Ids : AllOf(id, id)
<1>1. StoreInv /\ FileOK /\ MapInv /\ FileInv /\ LoadingInv /\ OrderInv
  BY DEF SafeInv, RestInv
<1>2. phase = "created" /\ Loading /\ disk.whole
  BY <1>1 DEF Loading, LoadingInv, Accepted
<1>3. \A i, j \in DOMAIN disk.entries : disk.entries[i].key = disk.entries[j].key => i = j
  BY <1>1, <1>2 DEF FileInv
<1>4. /\ Len(meta) \in Nat /\ Ids = 1..Len(meta)
      /\ Len(disk.entries) \in Nat /\ DOMAIN disk.entries = 1..Len(disk.entries)
      /\ io.at \in Nat /\ io.at >= 1
  BY <1>1, LenProperties DEF StoreInv, SpansOK, FileOK, Ids
<1>5. \A id \in Ids : id \in DOMAIN disk.entries /\ meta[id].key = disk.entries[id].key
  BY <1>1, <1>2 DEF OrderInv, From
<1>6. io.at \notin Ids
  <2>1. ASSUME io.at \in Ids PROVE FALSE
    <3>1. meta[io.at].key = Entry.key
      BY <1>5, <2>1 DEF Entry
    <3>2. Find(Entry.key) = io.at
      BY <1>1, <2>1, <3>1, FindFinds
    <3> QED
      BY <1>4, <3>2 DEF Unknown
  <2> QED
    BY <2>1
<1>7. \A i \in DOMAIN disk.entries : i < io.at => i \in Ids /\ AllOf(i, i)
  <2> SUFFICES ASSUME NEW i \in DOMAIN disk.entries, i < io.at
               PROVE  i \in Ids /\ AllOf(i, i)
    OBVIOUS
  <2>1. PICK id \in Ids : AllOf(id, i)
    BY <1>1, <1>2 DEF LoadingInv, Applied
  <2>2. id = i
    BY <1>3, <1>5, <2>1 DEF AllOf, From
  <2> QED
    BY <2>1, <2>2
<1>8. \A id \in Ids : id < io.at
  BY <1>4, <1>6
<1>9. io.at - 1 <= Len(meta)
  <2>1. CASE io.at = 1
    BY <1>4, <2>1
  <2>2. CASE io.at # 1
    <3>1. io.at - 1 \in DOMAIN disk.entries
      BY <1>4, <2>2
    <3> QED
      BY <1>4, <1>7, <3>1
  <2> QED
    BY <2>1, <2>2
<1> QED
  BY <1>4, <1>5, <1>6, <1>7, <1>8, <1>9

\* A load resolves the next infoset in the file's order.
LEMMA LoadResolveOrder ==
  ASSUME SafeInv, RestInv, LoadResolve
  PROVE  OrderInv'
<1>1. /\ StoreInv /\ FileOK /\ MapInv /\ OrderInv /\ io.op = "resolve"
      /\ io.at \in DOMAIN disk.entries
  BY DEF SafeInv, RestInv, LoadResolve
<1>2. Entry.key \in Keys /\ Entry.shape \in Shapes
  BY <1>1, EntryOK
<1>3. UNCHANGED <<disk, phase>>
  BY DEF LoadResolve, ToValues, LoadFails
<1>4. CASE NewInfoset(Entry.key, Entry.shape)
  <2> SUFFICES ASSUME NEW new, new = Len(meta) + 1 PROVE OrderInv'
    OBVIOUS
  <2>1. io.at = new /\ \A id \in Ids : AllOf(id, id)
    BY <1>1, <1>4, PassedAreAll DEF NewInfoset
  <2>2. /\ Len(meta) \in Nat /\ Ids = 1..Len(meta) /\ Ids' = 1..new
        /\ \A id \in Ids : meta'[id] = meta[id]
        /\ Len(meta') = new /\ meta'[new].key = Entry.key
    BY <1>1, <1>2, <1>4, NewInfosetIds
  <2>3. \A w \in Arrays, id \in Ids : Content(id, w)' = Content(id, w)
    BY <1>1, <1>2, <1>4, NewContents
  <2>4. \A id \in Ids : AllOf(id, id)'
    BY <1>3, <2>1, <2>2, <2>3 DEF AllOf, From, EntryValue
  <2>5. From(new, new)'
    BY <1>3, <2>1, <2>2 DEF From, Entry
  <2>6. ASSUME NEW id \in Ids'
        PROVE  id \in DOMAIN disk'.entries /\ From(id, id)' /\ (id < Len(meta') => AllOf(id, id)')
    <3>1. CASE id \in Ids
      <4>1. id \in DOMAIN disk.entries
        BY <1>1, <2>1, <2>2, <3>1, LenProperties DEF FileOK
      <4> QED
        BY <1>3, <2>4, <3>1, <4>1 DEF AllOf
    <3>2. CASE id \notin Ids
      <4>1. id = new
        BY <2>2, <3>2
      <4> QED
        BY <1>1, <1>3, <2>1, <2>2, <2>5, <4>1
    <3> QED
      BY <3>1, <3>2
  <2> QED
    BY <2>6 DEF OrderInv
<1>5. CASE KnownInfoset(Entry.key) \/ ResolveFails(Entry.key)
  BY <1>1, <1>3, <1>5, SameOrder, ResolveFailsKeeps DEF KnownInfoset, storageVars
<1> QED
  BY <1>4, <1>5 DEF LoadResolve

\* Before the run the storage follows the file's order.
LEMMA OrderStep ==
  ASSUME SafeInv, RestInv, [CNext]_cvars
  PROVE  OrderInv'
<1>1. OrderInv /\ SavingInv
  BY DEF RestInv
<1>2. CASE LoadResolve
  BY <1>2, LoadResolveOrder
<1>3. CASE LoadValues
  <2>1. /\ UNCHANGED <<disk, phase, meta>> /\ Ids' = Ids
        /\ \A id \in Ids, i \in DOMAIN disk.entries : AllOf(id, i) => AllOf(id, i)'
    BY <1>3, LoadPutsContents
  <2>2. \A id, i : From(id, i)' <=> From(id, i)
    BY <2>1 DEF From
  <2> QED
    BY <1>1, <2>1, <2>2 DEF OrderInv
<1>4. CASE Restart
  BY <1>4 DEF Restart, OrderInv, Ids
<1>5. CASE UNCHANGED <<storageVars, disk, phase>>
  BY <1>1, <1>5, SameOrder DEF storageVars
<1>6. CASE phase' = "running"
  BY <1>6 DEF OrderInv
<1> QED
  BY <1>1, <1>2, <1>3, <1>4, <1>5, <1>6
     DEF CNext, Solve, SaveOpen, SaveEntry, SaveClose, SaveFails, LoadRefused, LoadBegin,
         LoadEnd, StartRun, SavingInv, cvars, ioVars

\* All of it holds at first,
LEMMA RestInit == CInit => RestInv
<1> SUFFICES ASSUME CInit PROVE RestInv
  OBVIOUS
<1>1. /\ meta = <<>> /\ Ids = {} /\ slots = EmptySlots(MinSlots)
      /\ config \in Configs /\ phase = "created" /\ io = NoIo /\ status = "none"
  BY DEF CInit, FreshStorage, Ids
<1>2. MapInv /\ LiveInv
  BY <1>1, FreshMap DEF LiveInv
<1>3. io.op = "none" /\ ~Loading
  BY <1>1 DEF NoIo, Loading
<1>4. SavingInv /\ LoadingInv /\ OrderInv
  BY <1>1, <1>3 DEF SavingInv, LoadingInv, OrderInv
<1>5. ASSUME disk = NoFile
      PROVE  FileInv /\ disk.format = "none" /\ disk.whole = FALSE
  BY <1>5 DEF NoFile, FileInv
<1>6. ASSUME NEW content \in Legacy, disk = LegacyFile(content)
      PROVE  FileInv /\ disk.format = "legacy" /\ disk.whole = TRUE
  BY <1>6, LegacyFileInv DEF LegacyFile
<1>7. FileInv /\ disk.format \in {"none", "v3", "legacy"} /\ disk.whole \in BOOLEAN
  BY <1>5, <1>6 DEF CInit
<1> QED
  BY <1>1, <1>2, <1>4, <1>7 DEF RestInv, ProcessOK

\* ... and after every step.
LEMMA RestStep == SafeInv /\ RestInv /\ [CNext]_cvars => RestInv'
<1> SUFFICES ASSUME SafeInv, RestInv, [CNext]_cvars PROVE RestInv'
  OBVIOUS
<1>1. FileOK /\ ProcessOK /\ MapInv /\ LiveInv
  BY DEF SafeInv, RestInv
<1>2. ProcessOK' /\ MapInv' /\ LiveInv'
  BY <1>1, ProcessStep, MapStep, LiveStep
<1>3. FileInv' /\ SavingInv' /\ LoadingInv' /\ OrderInv'
  BY FileStep, SavingStep, LoadingStep, OrderStep
<1> QED
  BY <1>2, <1>3 DEF RestInv

\* The inductive invariant of checkpoints and the storage they are taken from
\* (storage_v2.c and persist_checkpoint.c).
THEOREM AllAlways == CSpec => [](SafeInv /\ RestInv)
<1>1. CInit => SafeInv /\ RestInv
  BY SafeInit, RestInit
<1>2. (SafeInv /\ RestInv) /\ [CNext]_cvars => (SafeInv /\ RestInv)'
  BY SafeStep, RestStep
<1> QED
  BY <1>1, <1>2, PTL DEF CSpec

\* The invariant the runs check, types included, always holds (storage_v2.c and
\* persist_checkpoint.c).
THEOREM CheckpointInvariant == CSpec => []CInductive
<1>1. SafeInv /\ RestInv => CInductive
  <2> SUFFICES ASSUME SafeInv, RestInv PROVE CInductive
    OBVIOUS
  <2>1. SpansOK /\ NoWriteIsLost /\ FileOK /\ ProcessOK /\ MapInv
    BY DEF SafeInv, StoreInv, RestInv
  <2>2. slots \in [DOMAIN slots -> 0..Len(meta)]
    BY <2>1 DEF MapInv, WellPlaced
  <2> QED
    BY <2>1, <2>2 DEF RestInv, ProcessOK, CInductive, CTypeOK, StorageTypeOK
<1> QED
  BY <1>1, AllAlways, PTL

\* Every infoset is found under its key at its own id, however often the table
\* grew or failed to grow (storage_v2.c, pe_storage_resolve and pe_rehash).
THEOREM InfosetsAreFound == CSpec => []EveryInfosetIsFound
<1>1. SafeInv /\ RestInv => EveryInfosetIsFound
  BY FindFinds DEF SafeInv, RestInv, EveryInfosetIsFound
<1> QED
  BY <1>1, AllAlways, PTL

\* A load takes a file of its own configuration, or one without hashes.
LEMMA AcceptedConfig ==
  ASSUME ProcessOK, FileInv, Accepted(disk)
  PROVE  disk.config \in {"none", config}
BY DEF ProcessOK, FileInv, Accepted

\* What an accepted file says of an entry is what its storage held.
LEMMA EntryIsStored ==
  ASSUME ProcessOK, FileInv, Accepted(disk), NEW i \in DOMAIN disk.entries, NEW w \in Arrays
  PROVE  /\ disk.whole /\ disk.config \in {"none", config}
         /\ disk.entries[i].key \in DOMAIN disk.snapshot
         /\ EntryValue(i, w) \in {Zero, Stored(disk.entries[i].key, w)}
         /\ "read" \notin Shortages => EntryValue(i, w) = Stored(disk.entries[i].key, w)
<1>1. disk.whole /\ Tells(i, w, Stored(disk.entries[i].key, w))
      /\ disk.entries[i].key \in DOMAIN disk.snapshot
  BY DEF FileInv, Accepted
<1>2. disk.config \in {"none", config}
  BY AcceptedConfig
<1> QED
  BY <1>1, <1>2 DEF Tells, EntryValue

\* A load that failed, or several, left the first infosets of a whole file of this
\* configuration, complete but for the last (persist_checkpoint.c, checkpoint_load),
\* where no read of the save failed for want of memory.
THEOREM FailedLoadsAddNothing ==
  ASSUME "read" \notin Shortages
  PROVE  CSpec => []FailedLoadIsPartOfTheFile
<1>1. SafeInv /\ RestInv => FailedLoadIsPartOfTheFile
  <2> SUFFICES ASSUME SafeInv, RestInv, phase = "created", NEW id \in Ids, NEW w \in Arrays
               PROVE  /\ disk.whole /\ disk.config \in {"none", config}
                      /\ id \in DOMAIN disk.entries /\ meta[id].key = disk.entries[id].key
                      /\ \/ Content(id, w) = Stored(meta[id].key, w)
                         \/ id = Len(meta) /\ Content(id, w) = Zero
    BY DEF FailedLoadIsPartOfTheFile
  <2>1. ProcessOK /\ FileInv /\ LoadingInv /\ OrderInv /\ StoreInv /\ MapInv
    BY DEF SafeInv, RestInv
  <2>2. Accepted(disk)
    BY <2>1 DEF LoadingInv
  <2>3. id \in DOMAIN disk.entries /\ meta[id].key = disk.entries[id].key
    BY <2>1 DEF OrderInv, From
  <2>4. /\ disk.whole /\ disk.config \in {"none", config}
        /\ EntryValue(id, w) = Stored(meta[id].key, w)
    BY <2>1, <2>2, <2>3, EntryIsStored
  <2>5. CASE id < Len(meta)
    BY <2>1, <2>3, <2>4, <2>5 DEF OrderInv, AllOf
  <2>6. CASE ~(id < Len(meta))
    <3>1. id = Len(meta)
      BY <2>1, <2>6 DEF StoreInv, SpansOK, Ids
    <3>2. PICK i \in DOMAIN disk.entries : PartOf(id, i)
      BY <2>1 DEF LoadingInv
    <3>3. i = id
      BY <2>1, <2>3, <2>4, <3>2 DEF FileInv, PartOf, From
    <3> QED
      BY <2>3, <2>4, <3>1, <3>2, <3>3 DEF PartOf
  <2> QED
    BY <2>5, <2>6
<1> QED
  BY <1>1, AllAlways, PTL

\* Where no read fails for want of memory, a load that succeeds leaves exactly what
\* the storage held when the file was saved (persist_checkpoint.c, checkpoint_save
\* and checkpoint_load).  With a failing read the save drops an array and succeeds.
THEOREM LoadsAreExact ==
  ASSUME "read" \notin Shortages
  PROVE  CSpec => []LoadIsExact
<1>1. SafeInv /\ RestInv => LoadIsExact
  <2> SUFFICES ASSUME SafeInv, RestInv, phase = "created", status = "ok"
               PROVE  /\ disk.whole /\ disk.config \in {"none", config}
                      /\ {meta[id].key : id \in Ids} = DOMAIN disk.snapshot
                      /\ \A id \in Ids, w \in Arrays :
                            Content(id, w) = Stored(meta[id].key, w)
    BY DEF LoadIsExact
  <2>1. ProcessOK /\ FileInv /\ LoadingInv /\ MapInv
    BY DEF SafeInv, RestInv
  <2>2. Accepted(disk) /\ disk.whole
    BY <2>1 DEF LoadingInv, Accepted
  <2>3. disk.config \in {"none", config}
    BY <2>1, <2>2, AcceptedConfig
  <2>4. \A id \in Ids : \E i \in DOMAIN disk.entries : From(id, i)
    BY <2>1 DEF LoadingInv, PartOf
  <2>5. \A i \in DOMAIN disk.entries : Applied(i)
    BY <2>1 DEF LoadingInv
  <2>6. DOMAIN disk.snapshot = {disk.entries[i].key : i \in DOMAIN disk.entries}
    BY <2>1, <2>2 DEF FileInv
  <2>7. {meta[id].key : id \in Ids} = DOMAIN disk.snapshot
    <3>1. \A id \in Ids : meta[id].key \in DOMAIN disk.snapshot
      BY <2>4, <2>6 DEF From
    <3>2. \A i \in DOMAIN disk.entries : \E id \in Ids : meta[id].key = disk.entries[i].key
      BY <2>5 DEF Applied, AllOf, From
    <3> QED
      BY <2>6, <3>1, <3>2
  <2>8. ASSUME NEW id \in Ids, NEW w \in Arrays
        PROVE  Content(id, w) = Stored(meta[id].key, w)
    <3>1. PICK i \in DOMAIN disk.entries : From(id, i)
      BY <2>4
    <3>2. PICK j \in Ids : AllOf(j, i)
      BY <2>5 DEF Applied
    <3>3. j = id
      BY <2>1, <3>1, <3>2 DEF AllOf, From, MapInv
    <3>4. Content(id, w) = EntryValue(i, w)
      BY <3>2, <3>3 DEF AllOf
    <3>5. EntryValue(i, w) = Stored(disk.entries[i].key, w)
      BY <2>1, <2>2, EntryIsStored
    <3> QED
      BY <3>1, <3>4, <3>5 DEF From
  <2> QED
    BY <2>2, <2>3, <2>7, <2>8
<1> QED
  BY <1>1, AllAlways, PTL
===============================================================================
