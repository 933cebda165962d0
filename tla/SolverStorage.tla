---------------------------- MODULE SolverStorage ----------------------------
(***************************************************************************)
(* The infoset storage of a solve (src/src/solver/domain/storage_v2.c): an *)
(* open-addressed map from key to dense id, and one value array per kind   *)
(* of value.  Under the compact precisions the arrays hold rounded values  *)
(* and a caller is handed a decoded copy, the span, which it may change    *)
(* through the pointer it keeps until the end of the iteration.            *)
(*                                                                         *)
(* One slab (the values of one infoset in one array) is one value here;    *)
(* Round is what committing it to a compact array does to it.              *)
(***************************************************************************)
EXTENDS Integers, Sequences, FiniteSets

CONSTANTS
    Keys,            \* infoset keys
    Street,          \* the street of each key, UnknownStreet for none
    Home,            \* pe_mix of each key
    Arrays,          \* pe_value_array_t, in the order of the enumeration
    Values, Round(_),\* slabs, and their compact form
    NewValues,       \* slabs a caller writes
    MinSlots,        \* PE_STORAGE_MIN_SLOTS
    Precisions,      \* the precisions a storage is created with
    PressureStreets, \* the first street each storage tier drops
    Shortages        \* the allocations that may fail

MaxLoadNum == 7
MaxLoadDen == 10
Zero == 0
Absent == -1          \* no decoded span
UnknownStreet == -1
Shapes == {"game", "flat"}   \* as the solve measures it, or as an older file has it

ASSUME StorageAssumption ==
    /\ Street \in [Keys -> Int] /\ Home \in [Keys -> Nat]
    /\ Values \subseteq Nat /\ Zero \in Values /\ NewValues \subseteq Values
    /\ \A v \in Values : Round(v) \in Values /\ Round(Round(v)) = Round(v)
    /\ Round(Zero) = Zero
    /\ Arrays \subseteq Nat
    /\ MinSlots \in Nat \ {0}
    /\ Precisions \subseteq {"F64", "compact"}
    /\ PressureStreets \subseteq Nat
    /\ Shortages \subseteq {"infoset", "array", "span", "rehash", "read"}

VARIABLES
    precision,  \* s->precision
    slots,      \* s->slots: position -> id, 0 for empty
    meta,       \* s->meta: the key and the shape of each id
    live,       \* the value arrays that have been allocated
    resident,   \* s->values, float_values, fixed_values, by array and id
    span,       \* s->staging_spans
    dirty,      \* s->staging_dirty
    held,       \* <<id, array>>: the spans a caller holds a pointer to
    written     \* what was last put into each slab

mapVars == <<slots, meta>>
spanVars == <<live, resident, span, dirty>>
storageVars == <<precision, mapVars, spanVars, held, written>>

Compact == precision = "compact"
Ids == 1..Len(meta)

EmptySlots(n) == [i \in 0..(n - 1) |-> 0]

\* pe_storage_create_with_precision
FreshStorage(p) ==
    /\ precision = p
    /\ slots = EmptySlots(MinSlots) /\ meta = <<>>
    /\ live = {}
    /\ resident = [w \in Arrays |-> <<>>] /\ span = [w \in Arrays |-> <<>>]
    /\ dirty = [w \in Arrays |-> <<>>]
    /\ held = {}
    /\ written = [w \in Arrays |-> <<>>]

(***************************************************************************)
(* The map                                                                 *)
(***************************************************************************)

\* pe_probe: the position of the key, or the first empty one on its path.
Path(k, j, n) == (Home[k] + j) % n
Size(table) == Cardinality(DOMAIN table)
Ends(k, j, table, infosets) ==
    LET id == table[Path(k, j, Size(table))]
    IN id # 0 => infosets[id].key = k
First(k, j, table, infosets) ==
    Ends(k, j, table, infosets) /\ \A i \in 0..(j - 1) : ~Ends(k, i, table, infosets)
Probe(k, table, infosets) ==
    LET steps == CHOOSE j \in 0..(Size(table) - 1) : First(k, j, table, infosets)
    IN Path(k, steps, Size(table))

\* pe_probe does not return from a full table that misses the key.
Returns(k, table, infosets) == \E j \in 0..(Size(table) - 1) : Ends(k, j, table, infosets)

\* pe_storage_find, 0 for an unknown key
Find(k) == slots[Probe(k, slots, meta)]
Known(k) == Returns(k, slots, meta) /\ Find(k) # 0
Unknown(k) == Returns(k, slots, meta) /\ Find(k) = 0

\* pe_rehash: the ids are entered in order into a table twice as large.
Rehash(n, infosets) ==
    LET enter[i \in 0..Len(infosets)] ==
            IF i = 0 THEN EmptySlots(n)
            ELSE [enter[i - 1] EXCEPT ![Probe(infosets[i].key, enter[i - 1], infosets)] = i]
    IN enter[Len(infosets)]

TooFull(count, n) == count * MaxLoadDen > n * MaxLoadNum

\* Where a new id goes: into the table it was probed in, which then doubles
\* if it is too full.  A failing rehash leaves the denser table.
EnterAfterRehash(at, infosets) ==   \* mutant: the position found in the old table
    LET n == Size(slots)
        id == Len(infosets)
    IN IF TooFull(id, n)
       THEN {[Rehash(2 * n, SubSeq(infosets, 1, id - 1)) EXCEPT ![at] = id]}
       ELSE {[slots EXCEPT ![at] = id]}
Enter(at, infosets) ==
    LET n == Size(slots)
        dense == [slots EXCEPT ![at] = Len(infosets)]
    IN IF TooFull(Len(infosets), n)
       THEN {Rehash(2 * n, infosets)} \cup (IF "rehash" \in Shortages THEN {dense} ELSE {})
       ELSE {dense}

\* Every per-infoset array gets a place for the new id.
Grow(a, x) ==
    LET new == Len(meta) + 1
    IN [w \in Arrays |-> [id \in 1..new |-> IF id = new THEN x ELSE a[w][id]]]

\* pe_storage_resolve of a key with the shape its caller measured.  A new
\* infoset may move the F64 arrays: pointers into them end here.
NewInfoset(k, shape) ==
    LET infosets == Append(meta, [key |-> k, shape |-> shape])
    IN /\ Unknown(k)
       /\ meta' = infosets
       /\ slots' \in Enter(Probe(k, slots, meta), infosets)
       /\ resident' = Grow(resident, Zero) /\ span' = Grow(span, Absent)
       /\ dirty' = Grow(dirty, FALSE)
       /\ written' = Grow(written, Zero)
       /\ held' = IF Compact THEN held ELSE {}
       /\ UNCHANGED <<precision, live>>

\* Of a key it knows: the id, under the shape the infoset was created with.
KnownInfoset(k) == Known(k) /\ UNCHANGED storageVars

\* It fails while the meta table grows, or at the exact array w: the arrays
\* before w may have moved, with the pointers into them.
ResolveFails(k) ==
    /\ "infoset" \in Shortages /\ Unknown(k)
    /\ \/ UNCHANGED held
       \/ ~Compact /\ \E w \in live : held' = {cell \in held : cell[2] >= w}
    /\ UNCHANGED <<precision, mapVars, spanVars, written>>

Resolve(k, shape) == NewInfoset(k, shape) \/ KnownInfoset(k) \/ ResolveFails(k)

(***************************************************************************)
(* Values                                                                  *)
(***************************************************************************)

Has(id, w) == span[w][id] # Absent

\* What a read of the slab would see.
Content(id, w) == IF Has(id, w) THEN span[w][id] ELSE resident[w][id]

\* pe_low_precision_commit_one: what the compact array holds afterwards.  The
\* span stays marked.
NotCommitted(id, w) == resident[w][id]   \* mutant: decoded over, not flushed
Committed(id, w) ==
    IF Has(id, w) /\ dirty[w][id] THEN Round(span[w][id]) ELSE resident[w][id]

\* pe_low_precision_values: commit the span, decode the compact slab over it.
Materialise(cells) ==
    LET Here(w, id) == <<id, w>> \in cells
        Over(a, New(_, _)) == [w \in Arrays |-> [id \in Ids |->
                                  IF Here(w, id) THEN New(id, w) ELSE a[w][id]]]
    IN /\ resident' = Over(resident, Committed)
       /\ span' = Over(span, Committed)
       /\ dirty' = Over(dirty, LAMBDA id, w : TRUE)

\* pe_storage_values.  Its array is allocated on first request, then the span.
Access(id, w) ==
    /\ id \in Ids
    /\ live' = live \cup {w}
    /\ held' = held \cup {<<id, w>>}
    /\ IF Compact THEN Materialise({<<id, w>>})
                  ELSE UNCHANGED <<resident, span, dirty>>
    /\ UNCHANGED <<precision, mapVars, written>>

\* It returns NULL: there is no memory for the array, or only for the span.
NoArray(w) == "array" \in Shortages /\ w \notin live
NoSpan(id, w) == "span" \in Shortages /\ Compact /\ ~Has(id, w)
AccessFails(id, w) ==
    /\ id \in Ids
    /\ \/ NoArray(w) /\ UNCHANGED live
       \/ NoSpan(id, w) /\ live' = live \cup {w}
    /\ UNCHANGED <<precision, mapVars, resident, span, dirty, held, written>>

\* pe_storage_values_const returns the slab: nothing is allocated for an array
\* nobody has used, but a compact one is decoded into its span.
Readable(w) == w \in live
ReadConst(cells) ==
    /\ \A c \in cells : c[1] \in Ids /\ Readable(c[2])
    /\ IF Compact THEN Materialise(cells)
                  ELSE UNCHANGED <<resident, span, dirty>>
    /\ UNCHANGED <<precision, mapVars, live, held, written>>

\* The slab v is put where a pointer to it leads.
Put(id, w, v) ==
    /\ IF Compact THEN span' = [span EXCEPT ![w][id] = v] /\ UNCHANGED resident
                  ELSE resident' = [resident EXCEPT ![w][id] = v] /\ UNCHANGED span
    /\ written' = [written EXCEPT ![w][id] = v]

\* A caller writes through a pointer it holds, at any time after it got it.
Write(id, w, v) ==
    /\ <<id, w>> \in held
    /\ Put(id, w, v)
    /\ UNCHANGED <<precision, mapVars, live, dirty, held>>

\* meta->street; a flat infoset, from an older program's file, has none.
StreetOf(id) == IF meta[id].shape = "flat" THEN UnknownStreet ELSE Street[meta[id].key]

\* The spans an eviction pass drops.
Dropped(id, street) == StreetOf(id) = UnknownStreet \/ StreetOf(id) >= street

\* pe_storage_drop_recomputable: commit, unmark, release.
Goes(id, w, street) == Compact /\ Dropped(id, street) /\ Has(id, w)
Release(street) ==
    LET Over(a, New(_, _)) == [w \in Arrays |-> [id \in Ids |->
                                  IF Goes(id, w, street) THEN New(id, w) ELSE a[w][id]]]
    IN /\ resident' = Over(resident, Committed)
       /\ span' = Over(span, LAMBDA id, w : Absent)
DropKeepsMark(street) == Release(street) /\ UNCHANGED dirty   \* mutant
DropRecomputable(street) ==
    /\ Release(street)
    /\ dirty' = [w \in Arrays |-> [id \in Ids |-> dirty[w][id] /\ ~Goes(id, w, street)]]

\* The end of an iteration: nobody holds a pointer, and the tier drops the
\* spans of its streets, or none (pe_solver_drop_recomputable).
EndIteration ==
    /\ held' = {}
    /\ \/ UNCHANGED <<resident, span, dirty>>
       \/ \E street \in PressureStreets : DropRecomputable(street)
    /\ UNCHANGED <<precision, mapVars, live, written>>

(***************************************************************************)
(* Properties                                                              *)
(***************************************************************************)

\* The arrays and the spans over them: every variable stays in its range, a
\* span is marked as long as it exists, what a caller holds has one, and what
\* a compact array holds is rounded.
SpansOK ==
    /\ precision \in Precisions
    /\ meta \in Seq([key : Keys, shape : Shapes])
    /\ live \subseteq Arrays /\ held \subseteq Ids \X live
    /\ resident \in [Arrays -> [Ids -> Values]] /\ written \in [Arrays -> [Ids -> Values]]
    /\ span \in [Arrays -> [Ids -> Values \cup {Absent}]]
    /\ dirty \in [Arrays -> [Ids -> BOOLEAN]]
    /\ \A w \in Arrays, id \in Ids :
          /\ dirty[w][id] = Has(id, w)
          /\ Has(id, w) => Compact /\ w \in live
          /\ Compact => Round(resident[w][id]) = resident[w][id]
          /\ Compact /\ <<id, w>> \in held => Has(id, w)

StorageTypeOK == slots \in [DOMAIN slots -> 0..Len(meta)] /\ SpansOK

\* Whatever was evicted, decoded again, resolved or read in between, a slab
\* holds what was last written to it through any pointer, or its compact form
\* (storage_v2.c:551 "brings a mutation made through a held pointer back into
\* the resident array").
NoWriteIsLost ==
    \A w \in Arrays, id \in Ids :
        /\ Content(id, w) \in {written[w][id], Round(written[w][id])}
        /\ ~Compact => Content(id, w) = written[w][id]

\* Every infoset is found under its key at its own id, and no key has two:
\* growing the table, or failing to, loses nobody.
EveryInfosetIsFound == \A id \in Ids : Find(meta[id].key) = id

-------------------------------------------------------------------------------
\* What keeps every infoset where it is found.

\* The first n infosets are in the table, each in one place, which is the first
\* on its path that is empty or of its key.
WellPlaced(table, infosets, n) ==
    /\ IsFiniteSet(DOMAIN table) /\ Size(table) > 0 /\ DOMAIN table = 0..(Size(table) - 1)
    /\ table \in [DOMAIN table -> 0..n]
    /\ \A p, q \in DOMAIN table : table[p] = table[q] /\ table[p] # 0 => p = q
    /\ \A id \in 1..n : \E j \in 0..(Size(table) - 1) :
          /\ First(infosets[id].key, j, table, infosets)
          /\ table[Path(infosets[id].key, j, Size(table))] = id
MapInv ==
    /\ WellPlaced(slots, meta, Len(meta))
    /\ \A i, j \in Ids : meta[i].key = meta[j].key => i = j

\* An array nobody has asked for holds nothing.
LiveInv == \A w \in Arrays \ live, id \in Ids : Content(id, w) = Zero
==============================================================================
