-------------------------- MODULE StaffInbox_proofs -------------------------
(***************************************************************************)
(* Proofs about StaffInbox, for any conversations, messages and length of  *)
(* a page.                                                                 *)
(*                                                                         *)
(* WalksMissNothing is about walks that have ended; what is inductive is   *)
(* about every page.  All that its walk still owes is under the place      *)
(* where the page ends, and nothing that its walk has shown is             *)
(* (WalkInv).  A page that is shown next therefore finds all it owes and   *)
(* nothing that was seen: what is under its end is what was under its      *)
(* beginning, less what it shows (PageSplits).  That rests on the order of *)
(* the places, and on the lowest item of a page (FirstOnes).               *)
(***************************************************************************)
EXTENDS StaffInbox, FiniteSetTheorems, SequenceTheorems, WellFoundedInduction, TLAPS

-----------------------------------------------------------------------------
(* The first elements of a finite set that is ordered by R, where <<i, j>> *)
(* says that i comes after j.                                              *)

Strict(R, S) ==
    /\ \A i \in S : <<i, i>> \notin R
    /\ \A i, j, k \in S : <<i, j>> \in R /\ <<j, k>> \in R => <<i, k>> \in R

Total(R, S) == \A i, j \in S : i = j \/ <<i, j>> \in R \/ <<j, i>> \in R

Before(R, S, i) == {j \in S : <<i, j>> \in R}

First(R, S, n) == {i \in S : Cardinality(Before(R, S, i)) < n}

\* An element has more before it than one that comes before it.
LEMMA MoreBefore ==
    ASSUME NEW S, IsFiniteSet(S), NEW R, Strict(R, S),
           NEW i \in S, NEW j \in S, <<i, j>> \in R
    PROVE  /\ Cardinality(Before(R, S, j)) \in Nat /\ Cardinality(Before(R, S, i)) \in Nat
           /\ Cardinality(Before(R, S, j)) < Cardinality(Before(R, S, i))
<1>1. Before(R, S, i) \subseteq S /\ Before(R, S, j) \subseteq S
      BY DEF Before
<1>2. IsFiniteSet(Before(R, S, i)) /\ IsFiniteSet(Before(R, S, j))
      BY <1>1, FS_Subset
<1>3. j \in Before(R, S, i) /\ j \notin Before(R, S, j)
      BY DEF Before, Strict
<1>4. Before(R, S, j) \subseteq Before(R, S, i) \ {j}
      BY <1>3 DEF Before, Strict
<1>5. /\ IsFiniteSet(Before(R, S, i) \ {j})
      /\ Cardinality(Before(R, S, i) \ {j}) = Cardinality(Before(R, S, i)) - 1
      BY <1>2, <1>3, FS_RemoveElement
<1>6. Cardinality(Before(R, S, j)) <= Cardinality(Before(R, S, i) \ {j})
      BY <1>4, <1>5, FS_Subset
<1>7. /\ Cardinality(Before(R, S, i)) \in Nat
      /\ Cardinality(Before(R, S, j)) \in Nat
      BY <1>2, FS_CardinalityType
<1>8. QED BY <1>5, <1>6, <1>7

\* A finite set has an element that nothing comes before.
LEMMA SomeFirst ==
    ASSUME NEW S, IsFiniteSet(S), S # {}, NEW R, Strict(R, S)
    PROVE  \E i \in S : \A j \in S : <<i, j>> \notin R
<1> DEFINE card(i) == Cardinality(Before(R, S, i))
           N == {card(i) : i \in S}
           L == {ss \in Nat \X Nat : ss[1] < ss[2]}
<1>1. ASSUME NEW i \in S
      PROVE  card(i) \in Nat
  <2>1. Before(R, S, i) \subseteq S
        BY DEF Before
  <2>2. QED BY <2>1, FS_Subset, FS_CardinalityType
<1>2. N \subseteq Nat /\ N # {}
      BY <1>1
<1>3. IsWellFoundedOn(L, Nat)
      BY NatLessThanWellFounded DEF OpToRel
<1>4. PICK n \in N : \A m \in N : <<m, n>> \notin L
      BY <1>2, <1>3, WFMin, Zenon
<1>5. PICK i \in S : n = card(i)
      BY <1>4
<1>6. ASSUME NEW j \in S, <<i, j>> \in R
      PROVE  FALSE
  <2>1. card(j) \in Nat /\ card(i) \in Nat /\ card(j) < card(i)
        BY <1>6, MoreBefore
  <2> HIDE DEF card
  <2>2. <<card(j), card(i)>> \in L
        BY <2>1
  <2>3. QED BY <1>4, <1>5, <2>2
<1>7. QED BY <1>6

LEMMA FirstOnes ==
    ASSUME NEW S, IsFiniteSet(S), NEW R, Strict(R, S), Total(R, S), NEW n \in Nat \ {0}
    PROVE  /\ S # {} => First(R, S, n) # {}
           /\ \A i \in First(R, S, n), j \in S : <<i, j>> \in R => j \in First(R, S, n)
           /\ First(R, S, n) # {} =>
                \E i \in First(R, S, n) : \A j \in First(R, S, n) \ {i} : <<i, j>> \in R
<1>1. ASSUME S # {}
      PROVE  First(R, S, n) # {}
  <2>1. PICK i \in S : \A j \in S : <<i, j>> \notin R
        BY <1>1, SomeFirst
  <2>2. Before(R, S, i) = {}
        BY <2>1 DEF Before
  <2>3. Cardinality(Before(R, S, i)) < n
        BY <2>2, FS_EmptySet
  <2>4. QED BY <2>3 DEF First
<1>2. ASSUME NEW i \in First(R, S, n), NEW j \in S, <<i, j>> \in R
      PROVE  j \in First(R, S, n)
  <2>1. i \in S /\ Cardinality(Before(R, S, i)) < n
        BY DEF First
  <2>2. /\ Cardinality(Before(R, S, j)) < Cardinality(Before(R, S, i))
        /\ Cardinality(Before(R, S, j)) \in Nat /\ Cardinality(Before(R, S, i)) \in Nat
        BY <1>2, <2>1, MoreBefore
  <2>3. Cardinality(Before(R, S, j)) < n
        BY <2>1, <2>2
  <2>4. QED BY <2>3 DEF First
<1>3. ASSUME First(R, S, n) # {}
      PROVE  \E i \in First(R, S, n) : \A j \in First(R, S, n) \ {i} : <<i, j>> \in R
  <2> DEFINE F == First(R, S, n)
             Q == {t \in F \X F : <<t[2], t[1]>> \in R}
  <2>1. F \subseteq S /\ IsFiniteSet(F)
    <3>1. F \subseteq S
          BY DEF First
    <3>2. QED BY <3>1, FS_Subset
  <2> HIDE DEF F
  <2>2. \A i, j \in F : <<i, j>> \in Q <=> <<j, i>> \in R
        OBVIOUS
  <2>3. Strict(Q, F)
        BY <2>1, <2>2 DEF Strict
  <2>4. F # {}
        BY <1>3 DEF F
  <2>5. PICK i \in F : \A j \in F : <<i, j>> \notin Q
        BY <2>1, <2>3, <2>4, SomeFirst
  <2>6. \A j \in F \ {i} : <<i, j>> \in R
        BY <2>1, <2>2, <2>5 DEF Total
  <2>7. QED BY <2>5, <2>6 DEF F
<1>4. QED BY <1>1, <1>2, <1>3

-----------------------------------------------------------------------------
(* The places of a list.                                                   *)

PlacesFor(kind) == IF kind = 0 THEN [at : 1..MaxClock, key : ClientChats] ELSE [id : Entries]

\* What the pages of a list are read from: conversations begun, messages.
Lists ==
    /\ newest \in [ClientChats -> 0..MaxClock]
    /\ messages \in [ReadChats -> SUBSET Entries]

Kinds == {0} \cup ReadChats

LEMMA TimeOrder ==
    ASSUME NEW a \in PlacesFor(0), NEW b \in PlacesFor(0)
    PROVE  /\ a.at \in Int /\ a.key \in Int /\ b.at \in Int /\ b.key \in Int
           /\ Below(a, b) <=> a.at < b.at \/ (a.at = b.at /\ a.key < b.key)
           /\ a.at = b.at /\ a.key = b.key => a = b
<1>1. a \in [at : 1..MaxClock, key : ClientChats] /\ b \in [at : 1..MaxClock, key : ClientChats]
      BY DEF PlacesFor
<1>2. DOMAIN a = {"at", "key"}
      BY <1>1
<1>3. "id" \notin DOMAIN a
      BY <1>2
<1>4. a.at \in 1..MaxClock /\ b.at \in 1..MaxClock /\ a.key \in ClientChats /\ b.key \in ClientChats
      BY <1>1
<1>5. /\ a.at \in Int /\ a.key \in Int /\ b.at \in Int /\ b.key \in Int
  <2>1. a.at \in Int /\ b.at \in Int
        BY <1>4
  <2>2. a.key \in Int /\ b.key \in Int
        BY <1>4, InboxAssumption
  <2>3. QED BY <2>1, <2>2
<1>6. a.at = b.at /\ a.key = b.key => a = b
      BY <1>1
<1>7. QED BY <1>3, <1>5, <1>6 DEF Below

LEMMA EntryOrder ==
    ASSUME NEW kind \in ReadChats, NEW a \in PlacesFor(kind), NEW b \in PlacesFor(kind)
    PROVE  /\ a.id \in Int /\ b.id \in Int
           /\ Below(a, b) <=> a.id < b.id
           /\ a.id = b.id => a = b
<1>1. a \in [id : Entries] /\ b \in [id : Entries]
      BY InboxAssumption DEF PlacesFor
<1>2. DOMAIN a = {"id"}
      BY <1>1
<1>3. "id" \in DOMAIN a
      BY <1>2
<1>4. a.id \in Int /\ b.id \in Int
      BY <1>1, InboxAssumption
<1>5. a.id = b.id => a = b
      BY <1>1
<1>6. QED BY <1>3, <1>4, <1>5 DEF Below

\* The places of a list are ordered, and none is the start.
LEMMA PlaceOrder ==
    ASSUME NEW kind \in Kinds
    PROVE  /\ \A a \in PlacesFor(kind) : ~Below(a, a) /\ a # Start
           /\ \A a, b, c \in PlacesFor(kind) : Below(a, b) /\ Below(b, c) => Below(a, c)
           /\ \A a, b \in PlacesFor(kind) : a = b \/ Below(a, b) \/ Below(b, a)
<1>1. CASE kind = 0
  <2>1. ASSUME NEW a \in PlacesFor(kind)
        PROVE  ~Below(a, a) /\ a # Start
    <3>1. a \in [at : 1..MaxClock, key : ClientChats]
          BY <1>1 DEF PlacesFor
    <3>2. DOMAIN a = {"at", "key"} /\ DOMAIN Start = {"start"}
          BY <3>1 DEF Start
    <3>3. a # Start
          BY <3>2
    <3>4. QED BY <1>1, <3>3, TimeOrder
  <2>2. ASSUME NEW a \in PlacesFor(kind), NEW b \in PlacesFor(kind)
        PROVE  a = b \/ Below(a, b) \/ Below(b, a)
        BY <1>1, TimeOrder
  <2>3. ASSUME NEW a \in PlacesFor(kind), NEW b \in PlacesFor(kind), NEW c \in PlacesFor(kind),
               Below(a, b), Below(b, c)
        PROVE  Below(a, c)
    <3>1. a.at < b.at \/ (a.at = b.at /\ a.key < b.key)
          BY <1>1, <2>3, TimeOrder
    <3>2. b.at < c.at \/ (b.at = c.at /\ b.key < c.key)
          BY <1>1, <2>3, TimeOrder
    <3>3. /\ a.at \in Int /\ a.key \in Int /\ b.at \in Int /\ b.key \in Int
          /\ c.at \in Int /\ c.key \in Int
          BY <1>1, TimeOrder
    <3>4. a.at < c.at \/ (a.at = c.at /\ a.key < c.key)
          BY <3>1, <3>2, <3>3
    <3>5. QED BY <1>1, <3>4, TimeOrder
  <2>4. QED BY <2>1, <2>2, <2>3
<1>2. CASE kind \in ReadChats
  <2>1. ASSUME NEW a \in PlacesFor(kind)
        PROVE  ~Below(a, a) /\ a # Start
    <3>1. a \in [id : Entries]
          BY <1>2, InboxAssumption DEF PlacesFor
    <3>2. DOMAIN a = {"id"} /\ DOMAIN Start = {"start"}
          BY <3>1 DEF Start
    <3>3. a # Start
          BY <3>2
    <3>4. QED BY <1>2, <3>3, EntryOrder
  <2>2. ASSUME NEW a \in PlacesFor(kind), NEW b \in PlacesFor(kind)
        PROVE  a = b \/ Below(a, b) \/ Below(b, a)
        BY <1>2, EntryOrder
  <2>3. ASSUME NEW a \in PlacesFor(kind), NEW b \in PlacesFor(kind), NEW c \in PlacesFor(kind),
               Below(a, b), Below(b, c)
        PROVE  Below(a, c)
        BY <1>2, <2>3, EntryOrder
  <2>4. QED BY <2>1, <2>2, <2>3
<1>3. QED BY <1>1, <1>2 DEF Kinds

\* The items of a list are finitely many, each at a place of its own.
LEMMA ItemPlaces ==
    ASSUME Lists, NEW kind \in Kinds
    PROVE  /\ IsFiniteSet(All(kind)) /\ All(kind) \subseteq ClientChats \cup Entries
           /\ \A i \in All(kind) : PlaceOf(kind, i) \in PlacesFor(kind)
           /\ \A i, j \in All(kind) : PlaceOf(kind, i) = PlaceOf(kind, j) => i = j
<1>1. CASE kind = 0
  <2>1. All(kind) \subseteq ClientChats
        BY <1>1 DEF All
  <2>2. ASSUME NEW i \in All(kind)
        PROVE  /\ PlaceOf(kind, i) = [at |-> newest[i], key |-> i]
               /\ PlaceOf(kind, i) \in PlacesFor(kind)
    <3>1. newest[i] \in 1..MaxClock /\ i \in ClientChats
          BY <1>1, InboxAssumption DEF All, Lists
    <3>2. QED BY <1>1, <3>1 DEF PlaceOf, PlacesFor
  <2>3. IsFiniteSet(All(kind))
        BY <2>1, InboxAssumption, FS_Subset
  <2>4. ASSUME NEW i \in All(kind), NEW j \in All(kind), PlaceOf(kind, i) = PlaceOf(kind, j)
        PROVE  i = j
    <3>1. PlaceOf(kind, i).key = i /\ PlaceOf(kind, j).key = j
          BY <2>2
    <3>2. QED BY <2>4, <3>1
  <2>5. QED BY <2>1, <2>2, <2>3, <2>4
<1>2. CASE kind \in ReadChats
  <2>1. kind # 0
        BY <1>2, InboxAssumption
  <2>2. All(kind) \subseteq Entries
        BY <1>2, <2>1 DEF All, Lists
  <2>3. ASSUME NEW i \in All(kind)
        PROVE  PlaceOf(kind, i) = [id |-> i] /\ PlaceOf(kind, i) \in PlacesFor(kind)
        BY <2>1, <2>2 DEF PlaceOf, PlacesFor
  <2>4. IsFiniteSet(All(kind))
        BY <2>2, InboxAssumption, FS_Subset
  <2>5. ASSUME NEW i \in All(kind), NEW j \in All(kind), PlaceOf(kind, i) = PlaceOf(kind, j)
        PROVE  i = j
    <3>1. PlaceOf(kind, i).id = i /\ PlaceOf(kind, j).id = j
          BY <2>3
    <3>2. QED BY <2>5, <3>1
  <2>6. QED BY <2>2, <2>3, <2>4, <2>5
<1>3. QED BY <1>1, <1>2 DEF Kinds

-----------------------------------------------------------------------------
(* What a page shows.                                                      *)

\* The page ends the list, or what is under its end is what was under its
\* beginning, less what it shows.
LEMMA PageSplits ==
    ASSUME Lists, NEW kind \in Kinds, NEW place \in PlacesFor(kind) \cup {Start}
    PROVE  /\ Items(kind, place) \subseteq Under(kind, place)
           /\ PageEnd(kind, place) = Start => Items(kind, place) = Under(kind, place)
           /\ PageEnd(kind, place) # Start =>
                /\ PageEnd(kind, place) \in PlacesFor(kind)
                /\ Under(kind, PageEnd(kind, place)) = Under(kind, place) \ Items(kind, place)
<1> DEFINE S == Under(kind, place)
           F == Items(kind, place)
           R == {t \in S \X S : Below(PlaceOf(kind, t[1]), PlaceOf(kind, t[2]))}
<1>1. S \subseteq All(kind) /\ F \subseteq S
      BY DEF Under, Items
<1>2. IsFiniteSet(S)
      BY <1>1, ItemPlaces, FS_Subset
<1>3. \A i \in S : PlaceOf(kind, i) \in PlacesFor(kind)
      BY <1>1, ItemPlaces
<1>4. \A i, j \in S : <<i, j>> \in R <=> Below(PlaceOf(kind, i), PlaceOf(kind, j))
      OBVIOUS
<1>5. \A i \in S : Before(R, S, i) = {j \in S : Below(PlaceOf(kind, i), PlaceOf(kind, j))}
      BY <1>4 DEF Before
<1>6. F = First(R, S, Limit)
  <2>1. \A i \in S : i \in F <=>
            Cardinality({j \in S : Below(PlaceOf(kind, i), PlaceOf(kind, j))}) < Limit
        BY DEF Items
  <2>2. \A i \in S : i \in First(R, S, Limit) <=> Cardinality(Before(R, S, i)) < Limit
        BY DEF First
  <2>3. First(R, S, Limit) \subseteq S
        BY DEF First
  <2> HIDE DEF F, S, R
  <2>4. \A i \in S : i \in F <=> i \in First(R, S, Limit)
        BY <1>5, <2>1, <2>2
  <2>5. QED BY <1>1, <2>3, <2>4
<1>7. Strict(R, S) /\ Total(R, S)
  <2> HIDE DEF R, S
  <2>1. \A i, j \in S : PlaceOf(kind, i) = PlaceOf(kind, j) => i = j
        BY <1>1, ItemPlaces
  <2>2. Strict(R, S)
        BY <1>3, <1>4, PlaceOrder DEF Strict
  <2>3. Total(R, S)
        BY <1>3, <1>4, <2>1, PlaceOrder DEF Total
  <2>4. QED BY <2>2, <2>3
<1>8. /\ S # {} => F # {}
      /\ \A i \in F, j \in S : <<i, j>> \in R => j \in F
      /\ F # {} => \E i \in F : \A j \in F \ {i} : <<i, j>> \in R
  <2> HIDE DEF F, S, R
  <2>1. Limit \in Nat \ {0}
        BY InboxAssumption
  <2>2. /\ S # {} => First(R, S, Limit) # {}
        /\ \A i \in First(R, S, Limit), j \in S : <<i, j>> \in R => j \in First(R, S, Limit)
        /\ First(R, S, Limit) # {} =>
             \E i \in First(R, S, Limit) :
                 \A j \in First(R, S, Limit) \ {i} : <<i, j>> \in R
        BY <1>2, <1>7, <2>1, FirstOnes
  <2>3. QED BY <1>6, <2>2
<1>9. CASE S = F
  <2>1. PageEnd(kind, place) = Start
        BY <1>9 DEF PageEnd
  <2>2. QED BY <1>1, <1>9, <2>1
<1>10. CASE S # F
  <2> DEFINE Lowest(i) == \A j \in F \ {i} : Below(PlaceOf(kind, i), PlaceOf(kind, j))
             i == CHOOSE k \in F : Lowest(k)
  <2>1. PageEnd(kind, place) = PlaceOf(kind, i)
        BY <1>10 DEF PageEnd
  <2>2. F # {}
        BY <1>1, <1>8, <1>10
  <2>3. \E k \in F : Lowest(k)
    <3>1. PICK k \in F : \A j \in F \ {k} : <<k, j>> \in R
          BY <1>8, <2>2
    <3> HIDE DEF F, S, R
    <3>2. Lowest(k)
          BY <1>1, <1>4, <3>1
    <3>3. QED BY <3>2
  <2>4. i \in F /\ Lowest(i)
        BY <2>3, Zenon
  <2> HIDE DEF i
  <2>5. PlaceOf(kind, i) \in PlacesFor(kind) /\ PlaceOf(kind, i) # Start
        BY <1>1, <1>3, <2>4, PlaceOrder
  <2>6. Under(kind, PlaceOf(kind, i))
          = {j \in All(kind) : Below(PlaceOf(kind, j), PlaceOf(kind, i))}
        BY <2>5 DEF Under
  <2>7. ASSUME NEW j \in S \ F
        PROVE  j \in Under(kind, PlaceOf(kind, i))
    <3>1. ~Below(PlaceOf(kind, i), PlaceOf(kind, j))
          BY <1>1, <1>4, <1>8, <2>4, <2>7
    <3>2. PlaceOf(kind, i) # PlaceOf(kind, j)
          BY <1>1, <2>4, <2>7, ItemPlaces
    <3>3. PlaceOf(kind, j) \in PlacesFor(kind)
          BY <1>3, <2>7
    <3>4. Below(PlaceOf(kind, j), PlaceOf(kind, i))
          BY <2>5, <3>1, <3>2, <3>3, PlaceOrder
    <3>5. QED BY <1>1, <2>6, <2>7, <3>4
  <2>8. ASSUME NEW j \in Under(kind, PlaceOf(kind, i))
        PROVE  j \in S \ F
    <3>1. j \in All(kind) /\ Below(PlaceOf(kind, j), PlaceOf(kind, i))
          BY <2>6, <2>8
    <3>2. PlaceOf(kind, j) \in PlacesFor(kind)
          BY <3>1, ItemPlaces
    <3>3. j \in S
      <4>1. CASE place = Start
            BY <3>1, <4>1 DEF Under
      <4>2. CASE place # Start
        <5>1. place \in PlacesFor(kind) /\ Below(PlaceOf(kind, i), place)
              BY <1>1, <2>4, <4>2 DEF Under
        <5>2. Below(PlaceOf(kind, j), place)
              BY <2>5, <3>1, <3>2, <5>1, PlaceOrder
        <5>3. QED BY <3>1, <5>2 DEF Under
      <4>3. QED BY <4>1, <4>2
    <3>4. j \notin F
      <4>1. j # i
            BY <2>5, <3>1, PlaceOrder
      <4>2. ~Below(PlaceOf(kind, i), PlaceOf(kind, j))
            BY <2>5, <3>1, <3>2, PlaceOrder
      <4>3. QED BY <2>4, <4>1, <4>2
    <3>5. QED BY <3>3, <3>4
  <2>9. Under(kind, PlaceOf(kind, i)) = S \ F
        BY <2>7, <2>8
  <2>10. QED BY <1>1, <2>1, <2>5, <2>9
<1>11. QED BY <1>9, <1>10

-----------------------------------------------------------------------------
(* The pages that are saved.                                               *)

\* All that the walk of a page still owes is under the place where the page
\* ends; nothing that the walk has shown is.
Walk(r) ==
    /\ r.of \in Kinds
    /\ r.from \in PlacesFor(r.of) \cup {Start}
    /\ r.next \in PlacesFor(r.of) \cup {Start}
    /\ ~r.twice
    /\ r.seen \subseteq All(r.of)
    /\ r.next = Start => r.owed = {}
    /\ r.next # Start => /\ r.owed \subseteq Under(r.of, r.next)
                         /\ r.seen \cap Under(r.of, r.next) = {}

\* The pages are numbered, and the page before one that is saved is saved.
PagesNumbered ==
    /\ pages \in Seq(Page) /\ Len(pages) <= MaxPages
    /\ \A p \in 1..Len(pages) : pages[p].previous \in 0..Len(pages)

WalkInv == \A p \in 1..Len(pages) : Walk(pages[p])

InboxInv == clock \in 1..MaxClock /\ Lists /\ PagesNumbered /\ WalkInv

LEMMA InboxStarts == InboxInit => InboxInv
<1> SUFFICES ASSUME InboxInit
             PROVE  InboxInv
    OBVIOUS
<1>1. clock \in 1..MaxClock /\ 0 \in 0..MaxClock
      BY InboxAssumption DEF InboxInit
<1>2. Lists
      BY <1>1 DEF InboxInit, Lists
<1>3. pages \in Seq(Page) /\ Len(pages) = 0
      BY DEF InboxInit
<1>4. PagesNumbered /\ WalkInv
      BY <1>3, InboxAssumption DEF PagesNumbered, WalkInv
<1>5. QED BY <1>1, <1>2, <1>4 DEF InboxInv

LEMMA PlacesOfPages ==
    ASSUME NEW kind \in Kinds
    PROVE  PlacesFor(kind) \subseteq Place
BY DEF PlacesFor, Place

\* A page that continues a walk, or begins one, from any place.
LEMMA PageShown ==
    ASSUME Lists, NEW kind \in Kinds, NEW place \in PlacesFor(kind) \cup {Start},
           NEW previous \in 0..MaxPages,
           NEW owed, owed \subseteq Under(kind, place),
           NEW seen, seen \subseteq All(kind), seen \cap Under(kind, place) = {},
           NEW r, r = [of |-> kind, from |-> place, next |-> PageEnd(kind, place),
                       previous |-> previous, owed |-> owed \ Items(kind, place),
                       seen |-> seen \cup Items(kind, place),
                       twice |-> seen \cap Items(kind, place) # {}]
    PROVE  r \in Page /\ Walk(r)
<1> DEFINE items == Items(kind, place)
           next == PageEnd(kind, place)
<1>1. /\ items \subseteq Under(kind, place)
      /\ next = Start => items = Under(kind, place)
      /\ next # Start => /\ next \in PlacesFor(kind)
                         /\ Under(kind, next) = Under(kind, place) \ items
      BY PageSplits
<1> HIDE DEF items, next
<1>2. Under(kind, place) \subseteq All(kind)
      BY DEF Under
<1>3. All(kind) \subseteq ClientChats \cup Entries
      BY ItemPlaces
<1>4. seen \cap items = {} /\ seen \cup items \subseteq All(kind)
      BY <1>1, <1>2
<1>5. /\ r.of = kind /\ r.from = place /\ r.next = next /\ r.previous = previous
      /\ r.owed = owed \ items /\ r.seen = seen \cup items /\ r.twice = (seen \cap items # {})
      BY DEF items, next
<1>6. Walk(r)
  <2>1. next = Start => owed \ items = {}
        BY <1>1
  <2>2. next # Start => /\ owed \ items \subseteq Under(kind, next)
                        /\ (seen \cup items) \cap Under(kind, next) = {}
        BY <1>1
  <2>3. next \in PlacesFor(kind) \cup {Start}
        BY <1>1
  <2>4. QED BY <1>4, <1>5, <2>1, <2>2, <2>3 DEF Walk
<1>7. r \in Page
  <2>1. kind \in {0} \cup ReadChats
        BY DEF Kinds
  <2>2. place \in Place \cup {Start} /\ next \in Place \cup {Start}
        BY <1>1, PlacesOfPages
  <2>3. owed \ items \subseteq ClientChats \cup Entries /\ seen \cup items \subseteq ClientChats \cup Entries
        BY <1>2, <1>3, <1>4
  <2>4. (seen \cap items # {}) \in BOOLEAN
        OBVIOUS
  <2>5. r = [of |-> kind, from |-> place, next |-> next, previous |-> previous,
             owed |-> owed \ items, seen |-> seen \cup items,
             twice |-> seen \cap items # {}]
        BY DEF items, next
  <2>6. QED BY <2>1, <2>2, <2>3, <2>4, <2>5 DEF Page
<1>8. QED BY <1>6, <1>7

\* A walk is about the lists only.
LEMMA SameWalk ==
    ASSUME newest' = newest, messages' = messages, NEW r, Walk(r)
    PROVE  Walk(r)'
BY DEF Walk, All, Under, PlaceOf

\* Showing a page keeps the invariant, whatever place it is shown from.
LEMMA ShowPageKeeps ==
    ASSUME InboxInv, NEW kind \in Kinds, NEW place \in PlacesFor(kind) \cup {Start},
           NEW previous \in 0..Len(pages),
           NEW owed, owed \subseteq Under(kind, place),
           NEW seen, seen \subseteq All(kind), seen \cap Under(kind, place) = {},
           ShowPage(kind, place, previous, owed, seen)
    PROVE  InboxInv'
<1> DEFINE r == [of |-> kind, from |-> place, next |-> PageEnd(kind, place),
                 previous |-> previous, owed |-> owed \ Items(kind, place),
                 seen |-> seen \cup Items(kind, place),
                 twice |-> seen \cap Items(kind, place) # {}]
<1>1. /\ pages \in Seq(Page) /\ Len(pages) \in Nat /\ Lists
      /\ \A p \in 1..Len(pages) : pages[p].previous \in 0..Len(pages) /\ Walk(pages[p])
      BY DEF InboxInv, PagesNumbered, WalkInv
<1>2. /\ pages' = Append(pages, r) /\ Cardinality(Saved) < MaxPages
      /\ clock' = clock /\ newest' = newest /\ messages' = messages
      BY DEF ShowPage
<1>3. Len(pages) < MaxPages
  <2>1. Saved = 1..Len(pages)
        BY <1>1 DEF Saved
  <2>2. Cardinality(1..Len(pages)) = Len(pages)
    <3>1. \A n \in Nat : Cardinality(1..n) = n
          BY FS_Interval
    <3>2. QED BY <1>1, <3>1
  <2>3. QED BY <1>2, <2>1, <2>2
<1>4. r \in Page /\ Walk(r)
  <2>1. previous \in 0..MaxPages
        BY <1>1, <1>3, InboxAssumption
  <2>2. QED BY <1>1, <2>1, PageShown
<1>5. r.previous = previous
      OBVIOUS
<1> HIDE DEF r
<1>6. /\ pages' \in Seq(Page) /\ Len(pages') = Len(pages) + 1
      /\ \A p \in 1..Len(pages) : pages'[p] = pages[p]
      /\ pages'[Len(pages) + 1] = r
      BY <1>1, <1>2, <1>4
<1>7. ASSUME NEW p \in 1..Len(pages')
      PROVE  pages'[p].previous \in 0..Len(pages') /\ Walk(pages[p])'
  <2>1. PICK q : q = pages'[p] /\ q.previous \in 0..Len(pages) /\ Walk(q)
        BY <1>1, <1>4, <1>5, <1>6, <1>7
  <2>2. Walk(q)'
        BY <1>2, <2>1, SameWalk
  <2>3. Walk(pages[p])'
        BY <2>1, <2>2 DEF Walk, All, Under, PlaceOf
  <2>4. QED BY <1>1, <1>6, <2>1, <2>3
<1>8. PagesNumbered' /\ WalkInv'
  <2>1. Len(pages') <= MaxPages
        BY <1>1, <1>3, <1>6, InboxAssumption
  <2>2. PagesNumbered'
        BY <1>6, <1>7, <2>1 DEF PagesNumbered
  <2>3. WalkInv'
        BY <1>7 DEF WalkInv
  <2>4. QED BY <2>2, <2>3
<1>9. QED BY <1>2, <1>8 DEF InboxInv, Lists

\* A conversation that moves leaves every walk: it is owed no more, and it
\* does not count as seen.
LEMMA MovesKeeps ==
    ASSUME InboxInv, NEW c \in ClientChats, Moves(c)
    PROVE  InboxInv'
<1> DEFINE moved(r) == IF r.of = 0 THEN [r EXCEPT !.owed = @ \ {c}, !.seen = @ \ {c}] ELSE r
<1>1. /\ pages \in Seq(Page) /\ Len(pages) \in Nat /\ Lists
      /\ clock \in 1..MaxClock
      /\ \A p \in 1..Len(pages) :
            /\ pages[p] \in Page /\ Walk(pages[p])
            /\ pages[p].previous \in 0..Len(pages)
      /\ Len(pages) <= MaxPages
      BY DEF InboxInv, PagesNumbered, WalkInv
<1>2. /\ newest' = [newest EXCEPT ![c] = clock] /\ messages' = messages /\ clock' = clock
      /\ pages' = [p \in 1..Len(pages) |-> moved(pages[p])]
  <2>1. Saved = 1..Len(pages)
        BY <1>1 DEF Saved
  <2>2. pages' = [p \in Saved |-> moved(pages[p])]
        BY DEF Moves
  <2>3. QED BY <2>1, <2>2 DEF Moves
<1>3. Lists'
  <2>1. clock \in 0..MaxClock
        BY <1>1, InboxAssumption
  <2>2. QED BY <1>1, <1>2, <2>1 DEF Lists
<1>4. /\ All(0)' = All(0) \cup {c}
      /\ \A k \in ReadChats : All(k)' = All(k)
  <2>1. clock # 0
        BY <1>1, InboxAssumption
  <2>2. All(0)' = All(0) \cup {c}
        BY <1>1, <1>2, <2>1 DEF All, Lists
  <2>3. QED BY <1>2, <2>2, InboxAssumption DEF All
<1>5. ASSUME NEW r \in Page, Walk(r)
      PROVE  moved(r) \in Page /\ moved(r).previous = r.previous /\ Walk(moved(r))'
  <2>1. CASE r.of = 0
    <3>1. PICK m : m = [r EXCEPT !.owed = @ \ {c}, !.seen = @ \ {c}]
          OBVIOUS
    <3>2. moved(r) = m
          BY <2>1, <3>1
    <3>3. /\ m \in Page /\ m.previous = r.previous /\ m.of = 0 /\ m.from = r.from
          /\ m.next = r.next /\ m.owed = r.owed \ {c} /\ m.seen = r.seen \ {c}
          /\ m.twice = r.twice
          BY <2>1, <3>1 DEF Page
    <3>4. \A i \in ClientChats \ {c} : PlaceOf(0, i)' = PlaceOf(0, i)
          BY <1>1, <1>2 DEF PlaceOf, Lists
    <3>5. \A i \in All(0) \ {c} : PlaceOf(0, i)' = PlaceOf(0, i)
          BY <3>4 DEF All
    <3>6. Under(0, r.next)' \ {c} = Under(0, r.next) \ {c}
          BY <1>4, <3>5 DEF Under
    <3>7. Under(m.of, m.next)' \ {c} = Under(r.of, r.next) \ {c}
          BY <2>1, <3>3, <3>6
    <3>8. /\ m.seen \subseteq All(m.of)'
          /\ m.next = Start => m.owed = {}
          /\ m.next # Start => /\ m.owed \subseteq Under(m.of, m.next)'
                               /\ m.seen \cap Under(m.of, m.next)' = {}
      <4>1. m.seen \subseteq All(m.of)'
            BY <1>4, <1>5, <2>1, <3>3 DEF Walk
      <4>2. m.next = Start => m.owed = {}
            BY <1>5, <3>3 DEF Walk
      <4>3. ASSUME m.next # Start
            PROVE  /\ m.owed \subseteq Under(m.of, m.next)'
                   /\ m.seen \cap Under(m.of, m.next)' = {}
            BY <1>5, <3>3, <3>7, <4>3 DEF Walk
      <4>4. QED BY <4>1, <4>2, <4>3
    <3>9. /\ m.of \in Kinds /\ ~m.twice
          /\ m.from \in PlacesFor(m.of) \cup {Start} /\ m.next \in PlacesFor(m.of) \cup {Start}
          BY <1>5, <2>1, <3>3 DEF Walk
    <3>10. Walk(m)'
          BY <3>8, <3>9 DEF Walk
    <3>11. QED BY <3>2, <3>3, <3>10
  <2>2. CASE r.of # 0
    <3>1. r.of \in ReadChats
          BY <1>5, <2>2 DEF Walk, Kinds
    <3>2. All(r.of)' = All(r.of)
          BY <1>4, <3>1
    <3>3. \A i : PlaceOf(r.of, i)' = PlaceOf(r.of, i)
          BY <2>2 DEF PlaceOf
    <3>4. Under(r.of, r.next)' = Under(r.of, r.next)
          BY <3>2, <3>3 DEF Under
    <3>5. Walk(r)'
          BY <1>5, <3>2, <3>4 DEF Walk
    <3>6. moved(r) = r
          BY <2>2
    <3>7. QED BY <3>5, <3>6
  <2>3. QED BY <2>1, <2>2
<1>6. PICK n \in Nat : n = Len(pages)
      BY <1>1
<1> DEFINE f(p) == moved(pages[p])
<1> HIDE DEF moved
<1>7. /\ pages' = [p \in 1..n |-> f(p)] /\ \A p \in 1..n : f(p) \in Page
      BY <1>1, <1>2, <1>5, <1>6
<1>8. pages' \in Seq(Page) /\ Len(pages') = n
  <2> HIDE DEF f
  <2>1. [p \in 1..n |-> f(p)] \in [1..n -> Page]
        BY <1>7
  <2>2. pages' \in Seq(Page) /\ DOMAIN pages' = 1..n
        BY <1>7, <2>1, SeqDef
  <2>3. QED BY <2>2, LenProperties
<1>9. ASSUME NEW p \in 1..n
      PROVE  pages'[p].previous \in 0..n /\ Walk(pages[p])'
  <2>1. PICK q : q = pages[p] /\ q \in Page /\ Walk(q) /\ q.previous \in 0..n
        BY <1>1, <1>6
  <2>2. PICK m : m = moved(q)
        OBVIOUS
  <2>3. m.previous = q.previous /\ Walk(m)'
        BY <1>5, <2>1, <2>2
  <2>4. pages'[p] = m
        BY <1>7, <2>1, <2>2
  <2>5. Walk(pages[p])'
        BY <2>3, <2>4 DEF Walk, All, Under, PlaceOf
  <2>6. QED BY <2>1, <2>3, <2>4, <2>5
<1>10. PagesNumbered' /\ WalkInv'
       BY <1>1, <1>6, <1>8, <1>9 DEF PagesNumbered, WalkInv
<1>11. QED BY <1>1, <1>2, <1>3, <1>10 DEF InboxInv

\* A message that comes in late may be under the end of a page.  No walk has
\* seen it, and none owes it.
LEMMA MessageStoredKeeps ==
    ASSUME InboxInv, NEW c \in ReadChats, NEW m \in Entries, MessageStored(c, m)
    PROVE  InboxInv'
<1>1. Lists
      BY DEF InboxInv
<1>2. /\ m \notin messages[c] /\ messages' = [messages EXCEPT ![c] = @ \cup {m}]
      /\ clock' = clock /\ newest' = newest /\ pages' = pages
      BY DEF MessageStored
<1>3. Lists'
      BY <1>1, <1>2 DEF Lists
<1>4. /\ All(c)' = All(c) \cup {m} /\ m \notin All(c)
      /\ \A k \in Kinds \ {c} : All(k)' = All(k)
      BY <1>1, <1>2, InboxAssumption DEF All, Lists, Kinds
<1>5. \A k \in Kinds : All(k) \subseteq All(k)' /\ All(k)' \subseteq All(k) \cup {m}
      BY <1>4
<1>6. ASSUME NEW r, Walk(r)
      PROVE  Walk(r)'
  <2>1. r.of \in Kinds
        BY <1>6 DEF Walk
  <2>2. \A i : PlaceOf(r.of, i)' = PlaceOf(r.of, i)
        BY <1>2 DEF PlaceOf
  <2>3. Under(r.of, r.next) \subseteq Under(r.of, r.next)'
        BY <1>5, <2>1, <2>2 DEF Under
  <2>4. r.seen \cap Under(r.of, r.next)' \subseteq Under(r.of, r.next)
    <3>1. ASSUME NEW i \in r.seen, i \in Under(r.of, r.next)'
          PROVE  i \in Under(r.of, r.next)
      <4>1. i \in All(r.of)
            BY <1>6, <3>1 DEF Walk
      <4>2. QED BY <2>2, <3>1, <4>1 DEF Under
    <3>2. QED BY <3>1
  <2>5. r.seen \subseteq All(r.of)'
        BY <1>5, <1>6, <2>1 DEF Walk
  <2>6. QED BY <1>6, <2>3, <2>4, <2>5 DEF Walk
<1>7. WalkInv'
  <2> SUFFICES ASSUME NEW p \in 1..Len(pages')
               PROVE  Walk(pages[p])'
      BY DEF WalkInv
  <2>1. PICK q : q = pages[p] /\ Walk(q)
        BY <1>2 DEF InboxInv, WalkInv
  <2>2. Walk(q)'
        BY <1>6, <2>1
  <2>3. QED BY <1>2, <2>1, <2>2 DEF Walk, All, Under, PlaceOf
<1>8. PagesNumbered'
      BY <1>2 DEF InboxInv, PagesNumbered
<1>9. QED BY <1>2, <1>3, <1>7, <1>8 DEF InboxInv

LEMMA InboxStep == InboxInv /\ [InboxNext]_inboxVars => InboxInv'
<1> SUFFICES ASSUME InboxInv, [InboxNext]_inboxVars
             PROVE  InboxInv'
    OBVIOUS
<1>a. /\ Lists /\ pages \in Seq(Page) /\ Len(pages) \in Nat /\ Saved = 1..Len(pages)
      /\ \A p \in Saved : Walk(pages[p]) /\ pages[p].previous \in 0..Len(pages)
      BY DEF InboxInv, PagesNumbered, WalkInv, Saved
<1>1. ASSUME NEW kind \in Kinds, OpenPage(kind)
      PROVE  InboxInv'
  <2>1. Under(kind, Start) = All(kind)
        BY DEF Under
  <2>2. QED BY <1>1, <1>a, <2>1, ShowPageKeeps DEF OpenPage
<1>2. ASSUME NEW p \in Saved, Further(p)
      PROVE  InboxInv'
  <2>1. PICK r : r = pages[p] /\ Walk(r)
        BY <1>a
  <2>2. r.next # Start /\ ShowPage(r.of, r.next, IF r.of = 0 THEN 0 ELSE p, r.owed, r.seen)
        BY <1>2, <2>1 DEF Further
  <2>3. /\ r.of \in Kinds /\ r.next \in PlacesFor(r.of) \cup {Start}
        /\ r.owed \subseteq Under(r.of, r.next) /\ r.seen \subseteq All(r.of)
        /\ r.seen \cap Under(r.of, r.next) = {}
        BY <2>1, <2>2 DEF Walk
  <2>4. (IF r.of = 0 THEN 0 ELSE p) \in 0..Len(pages)
        BY <1>a
  <2>5. QED BY <2>2, <2>3, <2>4, ShowPageKeeps
<1>3. ASSUME NEW p \in Saved, BackPage(p)
      PROVE  InboxInv'
  <2>1. PICK q \in Saved :
            ShowPage(pages[q].of, pages[q].from, pages[q].previous,
                     Under(pages[q].of, pages[q].from), {})
    <3>1. pages[p].previous \in Saved
          BY <1>3, <1>a DEF BackPage
    <3>2. QED BY <1>3, <3>1 DEF BackPage
  <2>2. PICK r : r = pages[q] /\ Walk(r) /\ r.previous \in 0..Len(pages)
        BY <1>a
  <2>3. r.of \in Kinds /\ r.from \in PlacesFor(r.of) \cup {Start}
        BY <2>2 DEF Walk
  <2>4. ShowPage(r.of, r.from, r.previous, Under(r.of, r.from), {})
        BY <2>1, <2>2
  <2>5. QED BY <2>2, <2>3, <2>4, ShowPageKeeps
<1>4. ASSUME NEW c \in ClientChats, Moves(c)
      PROVE  InboxInv'
      BY <1>4, MovesKeeps
<1>5. ASSUME NEW c \in ReadChats, NEW m \in Entries, MessageStored(c, m)
      PROVE  InboxInv'
      BY <1>5, MessageStoredKeeps
<1>6. ASSUME newest' = newest, messages' = messages, pages' = pages, clock' \in 1..MaxClock
      PROVE  InboxInv'
      BY <1>6 DEF InboxInv, Lists, PagesNumbered, WalkInv, Walk, All, Under, PlaceOf
<1>7. CASE ClockTicks
  <2>1. clock' \in 1..MaxClock
        BY <1>7, InboxAssumption DEF ClockTicks, InboxInv
  <2>2. QED BY <1>6, <1>7, <2>1 DEF ClockTicks
<1>8. CASE UNCHANGED inboxVars
  <2>1. clock' \in 1..MaxClock
        BY <1>8 DEF inboxVars, InboxInv
  <2>2. QED BY <1>6, <1>8, <2>1 DEF inboxVars
<1>9. QED
    BY <1>1, <1>2, <1>3, <1>4, <1>5, <1>7, <1>8 DEF InboxNext, Kinds

\* The inductive invariant holds in every reachable state.
THEOREM InboxInvariance == InboxSpec => []InboxInv
BY InboxStarts, InboxStep, PTL DEF InboxSpec

\* The pages that are saved keep their types: places of a list, a number of
\* the page before, histories of conversations or messages.
THEOREM InboxTypes == InboxSpec => []InboxTypeOK
<1>1. ASSUME InboxInv
      PROVE  InboxTypeOK
  <2>1. /\ pages \in Seq(Page) /\ Len(pages) \in Nat
        BY <1>1 DEF InboxInv, PagesNumbered
  <2>2. Saved = 1..Len(pages) /\ \A p \in Saved : pages[p] \in Page
        BY <2>1 DEF Saved
  <2>3. \A n \in Nat : Cardinality(1..n) = n
        BY FS_Interval
  <2>4. Saved = 1..Cardinality(Saved)
        BY <2>1, <2>2, <2>3
  <2>5. QED BY <1>1, <2>2, <2>4 DEF InboxInv, Lists, InboxTypeOK
<1>2. QED BY InboxInvariance, <1>1, PTL

\* A walk that has come to its end has shown everything that was there when
\* it began and has not moved since, and none of it twice, whatever moved or
\* arrived between two presses (TelegramConversations and InboxHistory start
\* strictly under the place that was saved with the page before).
THEOREM NothingIsMissed == InboxSpec => []WalksMissNothing
<1>1. InboxInv => WalksMissNothing
  <2>1. ASSUME InboxInv, NEW p \in Saved
        PROVE  ~pages[p].twice /\ (pages[p].next = Start => pages[p].owed = {})
    <3>1. p \in 1..Len(pages)
          BY <2>1 DEF InboxInv, PagesNumbered, Saved
    <3>2. Walk(pages[p])
          BY <2>1, <3>1 DEF InboxInv, WalkInv
    <3>3. QED BY <3>2 DEF Walk
  <2>2. QED BY <2>1 DEF WalksMissNothing
<1>2. QED BY InboxInvariance, <1>1, PTL
=============================================================================
