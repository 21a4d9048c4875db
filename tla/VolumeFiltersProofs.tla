------------------------- MODULE VolumeFiltersProofs -------------------------
(***************************************************************************)
(* Theorems about the lists of VolumeFilters, of any length: what sorting  *)
(* them does, that consulting them settles, and that options without empty *)
(* names keep their promise in whatever order they are consulted.          *)
(***************************************************************************)
EXTENDS VolumeFilters, FiniteSetTheorems, TLAPS

Contents(list) == {list[i] : i \in DOMAIN list}

Ascending(list) == \A i, j \in DOMAIN list : i <= j => list[i] <= list[j]

\* Lists with the same names, as long.
Similar(list, other) ==
    list \in Seq(Nat) /\ Len(list) = Len(other) /\ Contents(list) = Contents(other)

SimilarLists(lists, others) ==
    Similar(lists.white, others.white) /\ Similar(lists.black, others.black)

\* An option that is not set, or has no empty name.
Plain(list) == list = <<0>> \/ 0 \notin Contents(list)

-----------------------------------------------------------------------------
(* Sorting *)

\* What comes before i in the order, with i.
UpTo(list, i) == {j \in DOMAIN list : list[j] < list[i] \/ (list[j] = list[i] /\ j <= i)}

LEMMA Elements ==
    ASSUME NEW list \in Seq(Nat)
    PROVE  /\ Len(list) \in Nat /\ DOMAIN list = 1..Len(list)
           /\ \A i \in DOMAIN list : list[i] \in Nat /\ i \in Nat
           /\ IsFiniteSet(DOMAIN list) /\ Cardinality(DOMAIN list) = Len(list)
<1>1. Len(list) \in Nat /\ DOMAIN list = 1..Len(list)
  OBVIOUS
<1>2. IsFiniteSet(1..Len(list)) /\ Cardinality(1..Len(list)) = Len(list)
  <2>1. 1 \in Int /\ Len(list) \in Int
    BY <1>1
  <2>2. /\ IsFiniteSet(1..Len(list))
        /\ Cardinality(1..Len(list)) = IF 1 > Len(list) THEN 0 ELSE Len(list) - 1 + 1
    BY <2>1, FS_Interval
  <2>3. QED
    BY <1>1, <2>2
<1>3. QED
  BY <1>1, <1>2

LEMMA RankBounds ==
    ASSUME NEW list \in Seq(Nat), NEW i \in DOMAIN list
    PROVE  Rank(list, i) \in DOMAIN list /\ IsFiniteSet(UpTo(list, i))
<1>1. UpTo(list, i) \in SUBSET (DOMAIN list) /\ i \in UpTo(list, i)
  BY Elements DEF UpTo
<1>2. IsFiniteSet(UpTo(list, i)) /\ Cardinality(UpTo(list, i)) <= Len(list)
  BY <1>1, Elements, FS_Subset
<1>3. Cardinality(UpTo(list, i)) \in Nat /\ Cardinality(UpTo(list, i)) # 0
  BY <1>1, <1>2, FS_CardinalityType, FS_EmptySet
<1>4. Rank(list, i) = Cardinality(UpTo(list, i))
  BY DEF Rank, UpTo
<1>5. QED
  BY <1>2, <1>3, <1>4, Elements

\* Ranks are in the order of the names.
LEMMA RankOrder ==
    ASSUME NEW list \in Seq(Nat), NEW i \in DOMAIN list, NEW j \in DOMAIN list,
           list[i] < list[j] \/ (list[i] = list[j] /\ i < j)
    PROVE  Rank(list, i) < Rank(list, j)
<1>1. UpTo(list, i) \in SUBSET UpTo(list, j)
  <2> SUFFICES ASSUME NEW k \in DOMAIN list,
                      list[k] < list[i] \/ (list[k] = list[i] /\ k <= i)
               PROVE  list[k] < list[j] \/ (list[k] = list[j] /\ k <= j)
    BY DEF UpTo
  <2>1. {list[i], list[j], list[k], i, j, k} \subseteq Nat
    BY Elements
  <2>2. QED
    BY <2>1
<1>2. j \in UpTo(list, j) /\ j \notin UpTo(list, i)
  BY Elements DEF UpTo
<1>3. IsFiniteSet(UpTo(list, i)) /\ IsFiniteSet(UpTo(list, j))
  BY RankBounds
<1>4. /\ Cardinality(UpTo(list, i)) <= Cardinality(UpTo(list, j))
      /\ Cardinality(UpTo(list, i)) # Cardinality(UpTo(list, j))
  BY <1>1, <1>2, <1>3, FS_Subset
<1>5. Cardinality(UpTo(list, i)) \in Nat /\ Cardinality(UpTo(list, j)) \in Nat
  BY <1>3, FS_CardinalityType
<1>6. QED
  BY <1>4, <1>5 DEF Rank, UpTo

LEMMA RankUnique ==
    ASSUME NEW list \in Seq(Nat), NEW i \in DOMAIN list, NEW j \in DOMAIN list,
           Rank(list, i) = Rank(list, j)
    PROVE  i = j
<1>1. SUFFICES ASSUME i # j PROVE FALSE
  OBVIOUS
<1>2. Rank(list, i) \in Nat /\ {list[i], list[j], i, j} \subseteq Nat
  BY RankBounds, Elements
<1>3. CASE list[i] < list[j] \/ (list[i] = list[j] /\ i < j)
  BY <1>2, <1>3, RankOrder
<1>4. CASE list[j] < list[i] \/ (list[j] = list[i] /\ j < i)
  BY <1>2, <1>4, RankOrder
<1>5. QED
  BY <1>1, <1>2, <1>3, <1>4

LEMMA RankOnto ==
    ASSUME NEW list \in Seq(Nat), NEW k \in DOMAIN list
    PROVE  \E i \in DOMAIN list : Rank(list, i) = k
<1> DEFINE rank == [i \in DOMAIN list |-> Rank(list, i)]
<1>1. rank \in [DOMAIN list -> DOMAIN list]
  BY RankBounds
<1>2. rank \in Injection(DOMAIN list, DOMAIN list)
  BY <1>1, RankUnique DEF Injection, IsInjective
<1>3. IsFiniteSet(DOMAIN list)
  BY Elements
<1>4. rank \in Surjection(DOMAIN list, DOMAIN list)
  BY <1>2, <1>3, FS_Injection
<1>5. QED
  BY <1>4 DEF Surjection

\* sort.Strings reorders a list so that it ascends, and nothing else.
THEOREM SortingReorders ==
    ASSUME NEW list \in Seq(Nat)
    PROVE  /\ Similar(Sorted(list), list) /\ DOMAIN Sorted(list) = DOMAIN list
           /\ Ascending(Sorted(list))
<1> DEFINE place(k) == CHOOSE i \in DOMAIN list : Rank(list, i) = k
<1>1. \A k \in DOMAIN list : place(k) \in DOMAIN list /\ Rank(list, place(k)) = k
  BY RankOnto
<1>2. Sorted(list) = [k \in DOMAIN list |-> list[place(k)]]
  BY DEF Sorted
<1> HIDE DEF place
<1>3. /\ DOMAIN Sorted(list) = DOMAIN list
      /\ \A k \in DOMAIN list : Sorted(list)[k] = list[place(k)]
  BY <1>2
<1>4. Sorted(list) \in Seq(Nat) /\ Len(Sorted(list)) = Len(list)
  <2>1. Sorted(list) \in [1..Len(list) -> Nat] /\ Len(list) \in Nat
    BY <1>1, <1>2, Elements
  <2>2. QED
    BY <2>1
<1>5. \A i \in DOMAIN list : place(Rank(list, i)) = i
  BY <1>1, RankBounds, RankUnique
<1>6. Contents(Sorted(list)) = Contents(list)
  <2>1. Contents(Sorted(list)) \subseteq Contents(list)
    BY <1>1, <1>3 DEF Contents
  <2>2. \A i \in DOMAIN list : /\ Rank(list, i) \in DOMAIN list
                               /\ Sorted(list)[Rank(list, i)] = list[i]
    BY <1>3, <1>5, RankBounds
  <2>3. QED
    BY <1>3, <2>1, <2>2 DEF Contents
<1>7. Ascending(Sorted(list))
  <2> SUFFICES ASSUME NEW i \in DOMAIN list, NEW j \in DOMAIN list, i <= j,
                      ~(list[place(i)] <= list[place(j)])
               PROVE  FALSE
    BY <1>3 DEF Ascending
  <2>1. /\ list[place(i)] \in Nat /\ list[place(j)] \in Nat /\ i \in Nat /\ j \in Nat
        /\ place(i) \in DOMAIN list /\ place(j) \in DOMAIN list
    BY <1>1, Elements
  <2>2. Rank(list, place(j)) < Rank(list, place(i))
    BY <2>1, RankOrder
  <2>3. QED
    BY <1>1, <2>1, <2>2
<1>8. QED
  BY <1>3, <1>4, <1>6, <1>7 DEF Similar

\* What is sorted stays as it is.
LEMMA SortedStays ==
    ASSUME NEW list \in Seq(Nat), Ascending(list)
    PROVE  Sorted(list) = list
<1>1. ASSUME NEW i \in DOMAIN list PROVE Rank(list, i) = i
  <2>1. UpTo(list, i) = 1..i
    <3>1. \A j \in DOMAIN list : {list[j], list[i], i, j} \subseteq Nat
      BY Elements
    <3>2. \A j \in DOMAIN list :
            (list[j] < list[i] \/ (list[j] = list[i] /\ j <= i)) <=> j <= i
      BY <3>1 DEF Ascending
    <3>3. UpTo(list, i) = {j \in DOMAIN list : j <= i}
      BY <3>2 DEF UpTo
    <3>4. QED
      BY <3>3, Elements
  <2>2. i \in Nat \ {0}
    BY Elements
  <2>3. Cardinality(1..i) = i
    BY <2>2, FS_Interval
  <2>4. QED
    BY <2>1, <2>3 DEF Rank, UpTo
<1> DEFINE place(k) == CHOOSE i \in DOMAIN list : Rank(list, i) = k
<1>2. \A k \in DOMAIN list : place(k) = k
  BY <1>1
<1>3. Sorted(list) = [k \in DOMAIN list |-> list[place(k)]]
  BY DEF Sorted
<1> HIDE DEF place
<1>4. Sorted(list) = [k \in DOMAIN list |-> list[k]]
  BY <1>2, <1>3
<1>5. QED
  BY <1>4

-----------------------------------------------------------------------------
(* Consulting *)

LEMMA SortedTwice ==
    ASSUME NEW list \in Seq(Nat)
    PROVE  Sorted(list) \in Seq(Nat) /\ Sorted(Sorted(list)) = Sorted(list)
BY SortingReorders, SortedStays DEF Similar

\* The lists are the same after any number of calls as after two, so that Consulted
\* says what each of the calls of a round finds.
THEOREM ConsultSettles ==
    ASSUME NEW lists \in Lists
    PROVE  Consult(Consult(Consult(lists))) = Consult(Consult(lists))
<1> DEFINE white == lists.white
           black == lists.black
           is(w, b) == [white |-> w, black |-> b]
<1>1. white \in Seq(Nat) /\ black \in Seq(Nat) /\ lists = is(white, black)
  BY DEF Lists
<1> HIDE DEF white, black
<1>2. ASSUME NEW w, NEW b, IsDefined(w)
      PROVE  Consult(is(w, b)) = is(Sorted(w), b)
  BY <1>2 DEF Consult
<1>3. ASSUME NEW w, NEW b, ~IsDefined(w), IsDefined(b)
      PROVE  Consult(is(w, b)) = is(w, Sorted(b))
  BY <1>3 DEF Consult
<1>4. ASSUME NEW w, NEW b, ~IsDefined(w), ~IsDefined(b)
      PROVE  Consult(is(w, b)) = is(w, b)
  BY <1>4 DEF Consult
<1> HIDE DEF is
<1>5. ASSUME NEW w, ~IsDefined(w)
      PROVE  Consult(Consult(is(w, black))) = Consult(is(w, black))
  <2>1. CASE IsDefined(black) /\ IsDefined(Sorted(black))
    <3>1. Consult(is(w, black)) = is(w, Sorted(black))
      BY <1>3, <1>5, <2>1
    <3>2. Consult(is(w, Sorted(black))) = is(w, Sorted(Sorted(black)))
      BY <1>3, <1>5, <2>1
    <3>3. QED
      BY <1>1, <3>1, <3>2, SortedTwice
  <2>2. CASE IsDefined(black) /\ ~IsDefined(Sorted(black))
    <3>1. Consult(is(w, black)) = is(w, Sorted(black))
      BY <1>3, <1>5, <2>2
    <3>2. Consult(is(w, Sorted(black))) = is(w, Sorted(black))
      BY <1>4, <1>5, <2>2
    <3>3. QED
      BY <3>1, <3>2
  <2>3. CASE ~IsDefined(black)
    <3>1. Consult(is(w, black)) = is(w, black)
      BY <1>4, <1>5, <2>3
    <3>2. QED
      BY <3>1
  <2>4. QED
    BY <2>1, <2>2, <2>3
<1>6. CASE IsDefined(white) /\ IsDefined(Sorted(white))
  <2>1. Consult(is(white, black)) = is(Sorted(white), black)
    BY <1>2, <1>6
  <2>2. Consult(is(Sorted(white), black)) = is(Sorted(Sorted(white)), black)
    BY <1>2, <1>6
  <2>3. QED
    BY <1>1, <2>1, <2>2, SortedTwice
<1>7. CASE IsDefined(white) /\ ~IsDefined(Sorted(white))
  <2>1. Consult(is(white, black)) = is(Sorted(white), black)
    BY <1>2, <1>7
  <2>2. QED
    BY <1>1, <1>5, <1>7, <2>1
<1>8. CASE ~IsDefined(white)
  BY <1>1, <1>5, <1>8
<1>9. QED
  BY <1>6, <1>7, <1>8

LEMMA ConsultSimilar ==
    ASSUME NEW lists \in Lists, NEW options, SimilarLists(lists, options)
    PROVE  Consult(lists) \in Lists /\ SimilarLists(Consult(lists), options)
<1>1. \A list \in Seq(Nat) : Similar(Sorted(list), list)
  BY SortingReorders
<1>2. lists.white \in Seq(Nat) /\ lists.black \in Seq(Nat)
  BY DEF Lists
<1>3. Consult(lists) \in {lists, [lists EXCEPT !.white = Sorted(lists.white)],
                                 [lists EXCEPT !.black = Sorted(lists.black)]}
  BY DEF Consult
<1>4. QED
  BY <1>1, <1>2, <1>3 DEF SimilarLists, Similar, Lists

LEMMA ConsultedSimilar ==
    ASSUME NEW lists \in Lists, NEW options, SimilarLists(lists, options), NEW times \in Nat
    PROVE  /\ Consulted(lists, times) \in Lists
           /\ SimilarLists(Consulted(lists, times), options)
<1>1. Consult(lists) \in Lists /\ SimilarLists(Consult(lists), options)
  BY ConsultSimilar
<1>2. /\ Consult(Consult(lists)) \in Lists
      /\ SimilarLists(Consult(Consult(lists)), options)
  BY <1>1, ConsultSimilar
<1>3. Consulted(lists, times) \in {lists, Consult(lists), Consult(Consult(lists))}
  BY DEF Consulted
<1>4. QED
  BY <1>1, <1>2, <1>3

\* A plain option is defined when it names a volume, whichever order it is in.
LEMMA PlainDefined ==
    ASSUME NEW option \in Seq(Nat), Plain(option), NEW list, Similar(list, option)
    PROVE  /\ IsDefined(list) <=> Names(option) # {}
           /\ \A v \in Nat \ {0} : Has(list, v) <=> v \in Names(option)
<1>1. list \in Seq(Nat) /\ Len(list) = Len(option) /\ Contents(list) = Contents(option)
  BY DEF Similar
<1>2. \A v \in Nat \ {0} : Has(list, v) <=> v \in Names(option)
  BY <1>1 DEF Has, Names, Contents
<1>3. CASE option = <<0>>
  <2>1. Contents(option) = {0} /\ Names(option) = {} /\ Len(list) = 1
    BY <1>1, <1>3 DEF Contents, Names
  <2>2. list[1] \in Contents(list)
    BY <1>1, <2>1 DEF Contents
  <2>3. QED
    BY <1>1, <1>2, <2>1, <2>2 DEF IsDefined
<1>4. CASE option = <<>>
  <2>1. Names(option) = {} /\ list = <<>>
    BY <1>1, <1>4 DEF Names
  <2>2. QED
    BY <1>2, <2>1 DEF IsDefined
<1>5. CASE option # <<>> /\ 0 \notin Contents(option)
  <2>1. list # <<>> /\ 1 \in DOMAIN list /\ 1 \in DOMAIN option
    BY <1>1, <1>5
  <2>2. list[1] # 0 /\ option[1] # 0
    BY <1>1, <1>5, <2>1 DEF Contents
  <2>3. option[1] \in Names(option)
    BY <2>1, <2>2 DEF Names
  <2>4. QED
    BY <1>2, <2>1, <2>2, <2>3 DEF IsDefined
<1>6. QED
  BY <1>3, <1>4, <1>5 DEF Plain

\* In any round, in whatever order the lists are by then and the volumes come, just
\* those are kept that the options promise, if these have no empty names.
THEOREM SelectionKeepsPromise ==
    ASSUME NEW options \in Lists, Plain(options.white), Plain(options.black),
           NEW lists \in Lists, SimilarLists(lists, options), NEW volumes \in SUBSET Volumes,
           NEW before \in Orders(volumes \ Unnamed)
    PROVE  Select(lists, volumes, before).kept = volumes \intersect Promised(options)
<1> DEFINE named == volumes \ Unnamed
           seen(v) == Consulted(lists, before[v])
<1>1. ASSUME NEW v \in named
      PROVE  Blacklisted(seen(v), v) <=> v \notin Promised(options)
  <2>1. before[v] \in Nat
    BY DEF Orders
  <2>2. SimilarLists(seen(v), options)
    BY <2>1, ConsultedSimilar
  <2> HIDE DEF seen
  <2>3. v \in Nat \ {0} /\ v \in Volumes
    BY NamesAssumption
  <2>4. options.white \in Seq(Nat) /\ options.black \in Seq(Nat)
    BY DEF Lists
  <2>5. /\ IsDefined(seen(v).white) <=> Names(options.white) # {}
        /\ Has(seen(v).white, v) <=> v \in Names(options.white)
    BY <2>2, <2>3, <2>4, PlainDefined DEF SimilarLists
  <2>6. /\ IsDefined(seen(v).black) <=> Names(options.black) # {}
        /\ Has(seen(v).black, v) <=> v \in Names(options.black)
    BY <2>2, <2>3, <2>4, PlainDefined DEF SimilarLists
  <2>7. QED
    BY <2>3, <2>5, <2>6 DEF Blacklisted, Promised
<1>2. Select(lists, volumes, before).kept = {v \in named : ~Blacklisted(seen(v), v)}
  BY DEF Select
<1>3. volumes \intersect Promised(options) \subseteq named
  BY DEF Promised
<1>4. QED
  BY <1>1, <1>2, <1>3

LEMMA SelectionSimilar ==
    ASSUME NEW options, NEW lists \in Lists, SimilarLists(lists, options),
           NEW volumes \in SUBSET Volumes, NEW before
    PROVE  /\ Select(lists, volumes, before).lists \in Lists
           /\ SimilarLists(Select(lists, volumes, before).lists, options)
           /\ Select(lists, volumes, before).kept \in SUBSET volumes
<1>1. Cardinality(volumes \ Unnamed) \in Nat
  <2>1. volumes \ Unnamed \in SUBSET Volumes
    OBVIOUS
  <2>2. IsFiniteSet(volumes \ Unnamed)
    BY <2>1, FS_Subset, NamesAssumption
  <2>3. QED
    BY <2>2, FS_CardinalityType
<1>2. Select(lists, volumes, before).lists = Consulted(lists, Cardinality(volumes \ Unnamed))
  BY DEF Select
<1>3. Select(lists, volumes, before).kept \in SUBSET volumes
  BY DEF Select
<1>4. QED
  BY <1>1, <1>2, <1>3, ConsultedSimilar
=============================================================================
