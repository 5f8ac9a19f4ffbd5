----------------------- MODULE CatalogueDialogue_proofs ---------------------
(***************************************************************************)
(* Proofs about CatalogueDialogue, for any catalogue, length of a page and *)
(* number of tools and faults.                                             *)
(*                                                                         *)
(* Two of the properties are about the place of the customer, and hold     *)
(* because every way of moving it keeps a place good (Good): parts of an   *)
(* older choice never stay with a newer one, and no choice leaves an older *)
(* proposal behind.  The third is about the options that were numbered: in *)
(* the window between the reply and its record they agree with the turn    *)
(* and not with the conversation (NumbersInv).                             *)
(***************************************************************************)
EXTENDS CatalogueDialogue, FiniteSetTheorems, SequenceTheorems, TLAPS

-----------------------------------------------------------------------------
(* Places.                                                                 *)

\* The treatment, the specialist and the date of the times that are offered
\* were asked for together.
Coherent(c) ==
    c.phase = "times" /\ c.service # Nothing =>
        /\ c.date # Nothing
        /\ c.vouched = <<c.service, c.staff, c.date>>

Good(c) == c \in Places /\ Coherent(c) /\ c.draft # "older"

GoodAnswer(a) ==
    /\ Good(a.place) /\ a.options \in Seq(Texts) /\ a.handled \in BOOLEAN

\* The parts of a place.
LEMMA PlaceParts ==
    ASSUME NEW c \in Places
    PROVE  /\ c.category \in Categories \cup {Nothing} /\ c.service \in Services \cup {Nothing}
           /\ c.staff \in Staff \cup {Nothing} /\ c.date \in Dates \cup {Nothing}
           /\ c.phase \in Phase /\ c.page \in 0..MaxPage /\ c.page \in Nat
           /\ c.draft \in {"none", "newer", "older"}
           /\ c.vouched \in (Services \X Staff \X Dates) \cup {<<>>}
<1>1. c.page \in 0..MaxPage
      BY DEF Places
<1>2. c.page \in Nat
      BY <1>1, DialogueAssumption
<1>3. QED BY <1>1, <1>2 DEF Places

LEMMA FirstPage == 0 \in 0..MaxPage
BY DialogueAssumption

LEMMA AtRootGood ==
    ASSUME NEW c, Good(c)
    PROVE  Good(AtRoot(c)) /\ AtRoot(c).phase = ""
<1>1. c \in Places
      BY DEF Good
<1>2. /\ AtRoot(c) \in Places /\ AtRoot(c).draft = c.draft /\ AtRoot(c).phase = ""
      BY <1>1, FirstPage DEF AtRoot, Places, Phase
<1>3. QED BY <1>2 DEF Good, Coherent

LEMMA AtCategoryGood ==
    ASSUME NEW c, Good(c), NEW k \in Categories
    PROVE  Good(AtCategory(c, k))
<1> DEFINE r == AtRoot(c)
<1>1. Good(r) /\ r.phase = ""
      BY AtRootGood
<1> HIDE DEF r
<1>2. /\ [r EXCEPT !.category = k] \in Places /\ [r EXCEPT !.category = k].draft = r.draft
      /\ [r EXCEPT !.category = k].phase = r.phase
      BY <1>1 DEF Good, Places
<1>3. Good([r EXCEPT !.category = k])
      BY <1>1, <1>2 DEF Good, Coherent
<1>4. QED BY <1>3 DEF AtCategory, r

LEMMA AtServiceGood ==
    ASSUME NEW c, Good(c), c.draft = "none", NEW s \in Services
    PROVE  Good(AtService(c, s))
<1>1. c \in Places
      BY DEF Good
<1>2. Outdated(c.draft) = "none"
      BY DEF Outdated
<1>3. /\ AtService(c, s) \in Places /\ AtService(c, s).draft = "none"
      /\ AtService(c, s).phase = "detail"
      BY <1>1, <1>2, FirstPage DEF AtService, Places, Phase
<1>4. QED BY <1>3 DEF Good, Coherent

LEMMA OneBackGood ==
    ASSUME NEW c, Good(c)
    PROVE  Good(OneBack(c))
<1>1. c \in Places
      BY DEF Good
<1>2. CASE c.phase = "times"
  <2>1. OneBack(c) = [c EXCEPT !.date = Nothing, !.phase = "dates", !.page = 0]
        BY <1>2 DEF OneBack
  <2>2. /\ OneBack(c) \in Places /\ OneBack(c).draft = c.draft /\ OneBack(c).phase = "dates"
        BY <1>1, <2>1, FirstPage DEF Places, Phase
  <2>3. QED BY <2>2 DEF Good, Coherent
<1>3. CASE c.phase \in {"dates", "staff"}
  <2>1. OneBack(c) = [c EXCEPT !.staff = Nothing, !.date = Nothing, !.phase = "detail",
                               !.page = 0]
        BY <1>3 DEF OneBack
  <2>2. /\ OneBack(c) \in Places /\ OneBack(c).draft = c.draft /\ OneBack(c).phase = "detail"
        BY <1>1, <2>1, FirstPage DEF Places, Phase
  <2>3. QED BY <2>2 DEF Good, Coherent
<1>4. CASE c.phase \notin {"times", "dates", "staff"} /\ c.service # Nothing
  <2>1. OneBack(c) = [c EXCEPT !.service = Nothing, !.staff = Nothing, !.phase = "",
                               !.date = Nothing, !.page = 0]
        BY <1>4 DEF OneBack
  <2>2. /\ OneBack(c) \in Places /\ OneBack(c).draft = c.draft /\ OneBack(c).phase = ""
        BY <1>1, <2>1, FirstPage DEF Places, Phase
  <2>3. QED BY <2>2 DEF Good, Coherent
<1>5. CASE c.phase \notin {"times", "dates", "staff"} /\ c.service = Nothing
  <2>1. OneBack(c) = [c EXCEPT !.category = Nothing, !.page = 0]
        BY <1>5 DEF OneBack
  <2>2. /\ OneBack(c) \in Places /\ OneBack(c).draft = c.draft
        /\ OneBack(c).phase = c.phase
        BY <1>1, <2>1, FirstPage DEF Places, Phase
  <2>3. QED BY <1>5, <2>2 DEF Good, Coherent
<1>6. QED BY <1>2, <1>3, <1>4, <1>5

\* Turning pages, and giving up a proposal.
LEMMA PageGood ==
    ASSUME NEW c, Good(c), NEW n \in 0..MaxPage
    PROVE  /\ Good([c EXCEPT !.page = n])
           /\ [c EXCEPT !.page = n].page = n
<1> DEFINE d == [c EXCEPT !.page = n]
<1>1. c \in Places
      BY DEF Good
<1>2. /\ d \in Places /\ d.draft = c.draft /\ d.phase = c.phase /\ d.service = c.service
      /\ d.staff = c.staff /\ d.date = c.date /\ d.vouched = c.vouched /\ d.page = n
      BY <1>1 DEF Places
<1> HIDE DEF d
<1>3. Good(d)
      BY <1>2 DEF Good, Coherent
<1>4. QED BY <1>2, <1>3 DEF d

LEMMA DraftGood ==
    ASSUME NEW c, Good(c), NEW w \in {"none", "newer"}
    PROVE  /\ Good([c EXCEPT !.draft = w]) /\ [c EXCEPT !.draft = w].draft = w
           /\ [c EXCEPT !.draft = w].page = c.page
<1> DEFINE d == [c EXCEPT !.draft = w]
<1>1. c \in Places
      BY DEF Good
<1>2. /\ d \in Places /\ d.draft = w /\ d.phase = c.phase /\ d.service = c.service
      /\ d.staff = c.staff /\ d.date = c.date /\ d.vouched = c.vouched /\ d.page = c.page
      BY <1>1 DEF Places
<1> HIDE DEF d
<1>3. Good(d)
      BY <1>2 DEF Good, Coherent
<1>4. QED BY <1>2, <1>3 DEF d

-----------------------------------------------------------------------------
(* Options.                                                                *)

\* What an option of each kind is of.
LEMMA TextKinds ==
    ASSUME NEW text \in Texts
    PROVE  /\ text.kind = "category" => text.of \in Categories
           /\ text.kind = "service" => text.of \in Services
           /\ text.kind = "staff" => text.of \in Staff
           /\ text.kind = "date" => text.of \in Dates
BY DEF Texts, Option, Root, Back, Next, Previous, Book, Time, Words

LEMMA FixedTexts ==
    /\ Root \in Texts /\ Back \in Texts /\ Next \in Texts /\ Previous \in Texts
    /\ Book \in Texts /\ Time \in Texts /\ Words \in Texts
BY DEF Texts

LEMMA ListedTexts ==
    /\ \A k \in Categories : Option("category", k) \in Texts
    /\ \A s \in Services : Option("service", s) \in Texts
    /\ \A p \in Staff : Option("staff", p) \in Texts
    /\ \A d \in Dates : Option("date", d) \in Texts
BY DEF Texts

\* The options made of a finite set are a sequence of options.
LEMMA ListedType ==
    ASSUME NEW S, IsFiniteSet(S), NEW kind, \A i \in S : Option(kind, i) \in Texts
    PROVE  Listed(kind, S) \in Seq(Texts)
<1> DEFINE seq == SetToSeq(S)
           n == Cardinality(S)
<1>1. n \in Nat /\ ExistsBijection(1..n, S)
      BY FS_CardinalityType
<1>2. \E f \in [1..n -> S] : IsInjective(f)
      BY <1>1 DEF ExistsBijection, Bijection, Injection
<1>3. seq \in [1..n -> S]
      BY <1>2 DEF SetToSeq
<1> HIDE DEF seq, n
<1>4. Listed(kind, S) = [i \in 1..n |-> Option(kind, seq[i])]
      BY <1>3 DEF Listed, seq
<1>5. Listed(kind, S) \in [1..n -> Texts]
      BY <1>3, <1>4
<1>6. QED BY <1>1, <1>5, SeqDef

LEMMA OnPageType ==
    ASSUME NEW labels \in Seq(Texts), NEW page \in Nat, NEW size \in Nat
    PROVE  OnPage(labels, page, size) \in Seq(Texts)
<1> DEFINE end == IF (page + 1) * size < Len(labels) THEN (page + 1) * size ELSE Len(labels)
           shownHere == SubSeq(labels, page * size + 1, end)
           back == IF page > 0 THEN <<Previous>> ELSE <<>>
           more == IF end < Len(labels) THEN <<Next>> ELSE <<>>
<1>1. Len(labels) \in Nat /\ page * size \in Nat /\ (page + 1) * size \in Nat
      BY LenProperties
<1>2. end \in Nat /\ end <= Len(labels)
      BY <1>1
<1>3. \A i \in (page * size + 1)..end : labels[i] \in Texts
  <2> SUFFICES ASSUME NEW i \in (page * size + 1)..end
               PROVE  labels[i] \in Texts
      OBVIOUS
  <2>1. i \in 1..Len(labels)
        BY <1>1, <1>2
  <2>2. QED BY <2>1, ElementOfSeq
<1>4. shownHere \in Seq(Texts)
  <2>1. page * size + 1 \in Int /\ end \in Int
        BY <1>1, <1>2
  <2> HIDE DEF end
  <2>2. QED BY <1>3, <2>1, SubSeqProperties
<1>5. back \in Seq(Texts) /\ more \in Seq(Texts)
  <2>1. <<Previous>> \in Seq(Texts) /\ <<Next>> \in Seq(Texts) /\ <<>> \in Seq(Texts)
        BY FixedTexts
  <2> HIDE DEF end
  <2>2. QED BY <2>1
<1> HIDE DEF shownHere, back, more
<1>6. shownHere \o back \in Seq(Texts)
      BY <1>4, <1>5, ConcatProperties
<1>7. (shownHere \o back) \o more \in Seq(Texts)
      BY <1>5, <1>6, ConcatProperties
<1>8. QED BY <1>7 DEF OnPage, shownHere, back, more

\* A menu keeps the place, at the page that was asked for or at the first.
LEMMA MenuGood ==
    ASSUME NEW c, Good(c), NEW labels \in Seq(Texts), NEW size \in Nat,
           NEW rest \in Seq(Texts)
    PROVE  GoodAnswer(Menu(c, labels, size, rest))
<1> DEFINE page == InRange(labels, c.page, size)
           a == Menu(c, labels, size, rest)
<1>1. c.page \in 0..MaxPage /\ c.page \in Nat
      BY PlaceParts DEF Good
<1>2. page \in 0..MaxPage /\ page \in Nat
      BY <1>1, FirstPage DEF InRange
<1> HIDE DEF page
<1>3. Good([c EXCEPT !.page = page])
      BY <1>2, PageGood
<1>4. OnPage(labels, page, size) \o rest \in Seq(Texts)
      BY <1>2, OnPageType, ConcatProperties
<1>5. /\ a.place = [c EXCEPT !.page = page] /\ a.handled = TRUE
      /\ a.options = OnPage(labels, page, size) \o rest
      BY DEF Menu, Answer, page
<1>6. QED BY <1>3, <1>4, <1>5 DEF GoodAnswer

LEMMA PlainAnswers ==
    ASSUME NEW c, Good(c)
    PROVE  GoodAnswer(NotHandled(c)) /\ GoodAnswer(Unavailable(c))
<1>1. <<>> \in Seq(Texts)
      OBVIOUS
<1>2. QED BY <1>1 DEF GoodAnswer, NotHandled, Unavailable, Answer

LEMMA Buttons ==
    /\ <<Back, Root>> \in Seq(Texts) /\ <<Words>> \in Seq(Texts) /\ <<Back>> \in Seq(Texts)
    /\ <<Book, Back, Root>> \in Seq(Texts) /\ <<Time>> \in Seq(Texts) /\ <<>> \in Seq(Texts)
BY FixedTexts

LEMMA Sizes == PageSize \in Nat /\ RootSize \in Nat
BY DialogueAssumption

-----------------------------------------------------------------------------
(* Lookups.                                                                *)

LEMMA Lookups ==
    ASSUME catalogue \in Catalogues, NEW s \in Services \cup {Nothing}
    PROVE  /\ catalogue.services \subseteq Services
           /\ s = Nothing \/ Offered(s) => Team(s) \subseteq Staff
           /\ \A p : OpenDates(s, p) \subseteq Dates
<1>1. catalogue.services \subseteq Services /\ catalogue.team \in [Services -> SUBSET Staff]
      BY DEF Catalogues
<1>2. QED BY <1>1 DEF Offered, Team, OpenDates

\* The lists that menus are made of.
LEMMA OptionLists ==
    ASSUME catalogue \in Catalogues
    PROVE  /\ \A S \in SUBSET Services : Listed("service", S) \in Seq(Texts)
           /\ \A S \in SUBSET Staff : Listed("staff", S) \in Seq(Texts)
           /\ \A S \in SUBSET Dates : Listed("date", S) \in Seq(Texts)
           /\ Listed("category", {CategoryOf[s] : s \in catalogue.services}) \in Seq(Texts)
<1>1. ASSUME NEW S \in SUBSET Services
      PROVE  Listed("service", S) \in Seq(Texts)
      BY ListedType, ListedTexts, FS_Subset, DialogueAssumption
<1>2. ASSUME NEW S \in SUBSET Staff
      PROVE  Listed("staff", S) \in Seq(Texts)
      BY ListedType, ListedTexts, FS_Subset, DialogueAssumption
<1>3. ASSUME NEW S \in SUBSET Dates
      PROVE  Listed("date", S) \in Seq(Texts)
      BY ListedType, ListedTexts, FS_Subset, DialogueAssumption
<1>4. Listed("category", {CategoryOf[s] : s \in catalogue.services}) \in Seq(Texts)
  <2> DEFINE K == {CategoryOf[s] : s \in catalogue.services}
  <2>1. catalogue.services \subseteq Services
        BY DEF Catalogues
  <2>2. K \subseteq Categories
        BY <2>1 DEF Categories
  <2>3. IsFiniteSet(K)
    <3>1. IsFiniteSet(catalogue.services)
          BY <2>1, FS_Subset, DialogueAssumption
    <3> DEFINE f == [s \in catalogue.services |-> CategoryOf[s]]
    <3>2. f \in Surjection(catalogue.services, K)
          BY DEF Surjection
    <3>3. QED BY <3>1, <3>2, FS_Surjection
  <2> HIDE DEF K
  <2>4. Listed("category", K) \in Seq(Texts)
        BY <2>2, <2>3, ListedType, ListedTexts
  <2>5. QED BY <2>4 DEF K
<1>5. QED BY <1>1, <1>2, <1>3, <1>4

-----------------------------------------------------------------------------
(* Menus.                                                                  *)

LEMMA TimeMenuGood ==
    ASSUME catalogue \in Catalogues, NEW c, Good(c), NEW up
    PROVE  GoodAnswer(TimeMenu(c, up))
<1>1. CASE ~up \/ c.date = Nothing \/ ~Offered(c.service)
      BY <1>1, PlainAnswers DEF TimeMenu
<1>2. CASE ~(~up \/ c.date = Nothing \/ ~Offered(c.service))
  <2> DEFINE labels == IF c.staff # Nothing /\ c.date \in OpenDates(c.service, c.staff)
                       THEN <<Time>> ELSE <<>>
  <2>1. labels \in Seq(Texts)
        BY Buttons
  <2>2. TimeMenu(c, up) = Menu(c, labels, PageSize, <<Back, Root>>)
        BY <1>2 DEF TimeMenu
  <2> HIDE DEF labels
  <2>3. QED BY <2>1, <2>2, MenuGood, Buttons, Sizes
<1>3. QED BY <1>1, <1>2

LEMMA DateMenuGood ==
    ASSUME catalogue \in Catalogues, NEW c, Good(c), NEW up
    PROVE  GoodAnswer(DateMenu(c, up))
<1> DEFINE dates == OpenDates(c.service, c.staff)
           d == [c EXCEPT !.staff = Nothing, !.phase = "staff", !.page = 0]
<1>1. c \in Places /\ c.service \in Services \cup {Nothing}
      BY PlaceParts DEF Good
<1>2. CASE ~up \/ ~Offered(c.service)
      BY <1>2, PlainAnswers DEF DateMenu
<1>3. CASE up /\ Offered(c.service) /\ dates = {}
  <2>1. Good(d)
    <3>1. d \in Places /\ d.phase = "staff" /\ d.draft = c.draft
          BY <1>1, FirstPage DEF Places, Phase
    <3>2. QED BY <3>1 DEF Good, Coherent
  <2>2. Listed("staff", Team(c.service)) \in Seq(Texts)
        BY <1>1, <1>3, Lookups, OptionLists
  <2>3. DateMenu(c, up) = Menu(d, Listed("staff", Team(c.service)), PageSize, <<Back, Root>>)
        BY <1>3 DEF DateMenu
  <2> HIDE DEF d
  <2>4. QED BY <2>1, <2>2, <2>3, MenuGood, Buttons, Sizes
<1>4. CASE up /\ Offered(c.service) /\ dates # {}
  <2>1. Listed("date", dates) \in Seq(Texts)
        BY <1>1, Lookups, OptionLists
  <2>2. DateMenu(c, up) = Menu(c, Listed("date", dates), PageSize, <<Back, Root>>)
        BY <1>4 DEF DateMenu
  <2> HIDE DEF dates
  <2>3. QED BY <2>1, <2>2, MenuGood, Buttons, Sizes
<1>5. QED BY <1>2, <1>3, <1>4

\* Reached only from a treatment in the catalogue.
LEMMA StaffMenuGood ==
    ASSUME catalogue \in Catalogues, NEW c, Good(c), Offered(c.service), NEW up
    PROVE  GoodAnswer(StaffMenu(c, up))
<1> DEFINE team == Team(c.service)
<1>1. c \in Places /\ c.service \in Services \cup {Nothing}
      BY PlaceParts DEF Good
<1>2. team \subseteq Staff
      BY <1>1, Lookups
<1>3. CASE ~up \/ team = {}
      BY <1>3, PlainAnswers DEF StaffMenu
<1>4. CASE up /\ team # {} /\ \E p \in Staff : team = {p}
  <2> DEFINE q == CHOOSE p \in Staff : team = {p}
             d == [c EXCEPT !.staff = q, !.phase = "dates", !.page = 0]
  <2>1. q \in Staff
        BY <1>4
  <2>2. StaffMenu(c, up) = DateMenu(d, up)
        BY <1>4 DEF StaffMenu
  <2> HIDE DEF q
  <2>3. Good(d)
    <3>1. d \in Places /\ d.phase = "dates" /\ d.draft = c.draft
          BY <1>1, <2>1, FirstPage DEF Places, Phase
    <3>2. QED BY <3>1 DEF Good, Coherent
  <2> HIDE DEF d
  <2>4. QED BY <2>2, <2>3, DateMenuGood
<1>5. CASE up /\ team # {} /\ ~\E p \in Staff : team = {p}
  <2> DEFINE d == [c EXCEPT !.staff = Nothing, !.phase = "staff"]
  <2>1. Good(d)
    <3>1. d \in Places /\ d.phase = "staff" /\ d.draft = c.draft
          BY <1>1 DEF Places, Phase
    <3>2. QED BY <3>1 DEF Good, Coherent
  <2>2. Listed("staff", team) \in Seq(Texts)
        BY <1>2, OptionLists
  <2>3. StaffMenu(c, up) = Menu(d, Listed("staff", team), PageSize, <<Back, Root>>)
        BY <1>5 DEF StaffMenu
  <2> HIDE DEF d, team
  <2>4. QED BY <2>1, <2>2, <2>3, MenuGood, Buttons, Sizes
<1>6. QED BY <1>3, <1>4, <1>5

LEMMA RootMenuGood ==
    ASSUME catalogue \in Catalogues, NEW c, Good(c)
    PROVE  GoodAnswer(RootMenu(c))
BY MenuGood, OptionLists, Buttons, Sizes DEF RootMenu

LEMMA ListMenuGood ==
    ASSUME catalogue \in Catalogues, NEW c, Good(c)
    PROVE  GoodAnswer(ListMenu(c))
<1> DEFINE inCategory == {s \in catalogue.services : CategoryOf[s] = c.category}
<1>1. CASE c.category = Nothing
      BY <1>1, RootMenuGood DEF ListMenu
<1>2. CASE c.category # Nothing /\ inCategory = {}
      BY <1>2, AtRootGood, RootMenuGood DEF ListMenu
<1>3. CASE c.category # Nothing /\ inCategory # {}
  <2>1. inCategory \subseteq Services
        BY DEF Catalogues
  <2>2. Listed("service", inCategory) \in Seq(Texts)
        BY <2>1, OptionLists
  <2>3. ListMenu(c) = Menu(c, Listed("service", inCategory), PageSize, <<Back>>)
        BY <1>3 DEF ListMenu
  <2> HIDE DEF inCategory
  <2>4. QED BY <2>2, <2>3, MenuGood, Buttons, Sizes
<1>4. QED BY <1>1, <1>2, <1>3

LEMMA ServiceMenuGood ==
    ASSUME catalogue \in Catalogues, NEW c, Good(c), Offered(c.service), NEW text, NEW up
    PROVE  GoodAnswer(ServiceMenu(c, text, up))
<1>1. CASE text = Book \/ c.phase = "staff"
      BY <1>1, StaffMenuGood DEF ServiceMenu
<1>2. CASE ~(text = Book \/ c.phase = "staff")
           /\ text \notin {Book, Root, Back, Option("service", c.service)}
  <2>1. ServiceMenu(c, text, up) = NotHandled(c)
        BY <1>2 DEF ServiceMenu
  <2>2. QED BY <2>1, PlainAnswers
<1>3. CASE ~(text = Book \/ c.phase = "staff")
           /\ text \in {Book, Root, Back, Option("service", c.service)}
  <2>1. ServiceMenu(c, text, up) = Answer(c, <<Book, Back, Root>>)
        BY <1>3 DEF ServiceMenu
  <2>2. QED BY <2>1, Buttons DEF GoodAnswer, Answer
<1>4. QED BY <1>1, <1>2, <1>3

LEMMA ShowGood ==
    ASSUME catalogue \in Catalogues, NEW c, Good(c), NEW text, NEW up
    PROVE  GoodAnswer(Show(c, text, up))
<1> DEFINE down == /\ c.phase = "dates" /\ c.staff # Nothing
                   /\ (~up \/ ~(c.service = Nothing \/ Offered(c.service)))
           dates == /\ c.phase = "dates" /\ c.staff # Nothing /\ up
                    /\ (c.service = Nothing \/ Offered(c.service))
                    /\ c.staff \in Team(c.service)
<1>1. CASE c.phase = "times"
      BY <1>1, TimeMenuGood DEF Show
<1>2. CASE c.phase # "times" /\ down
      BY <1>2, PlainAnswers DEF Show
<1>3. CASE c.phase # "times" /\ ~down /\ dates
      BY <1>3, DateMenuGood DEF Show
<1>4. CASE c.phase # "times" /\ ~down /\ ~dates
  <2> DEFINE d == [c EXCEPT !.service = Nothing, !.staff = Nothing]
  <2>1. Good(d)
    <3>1. d \in Places /\ d.service = Nothing /\ d.draft = c.draft
          BY DEF Good, Places
    <3>2. QED BY <3>1 DEF Good, Coherent
  <2>2. Show(c, text, up) \in
            {ListMenu(c), ListMenu(d)} \cup (IF Offered(c.service)
                                             THEN {ServiceMenu(c, text, up)} ELSE {})
        BY <1>4 DEF Show
  <2> HIDE DEF d
  <2>3. QED BY <2>1, <2>2, ListMenuGood, ServiceMenuGood
<1>5. QED BY <1>1, <1>2, <1>3, <1>4

-----------------------------------------------------------------------------
(* Navigation.                                                             *)

LEMMA MoveGood ==
    ASSUME NEW c, Good(c), NEW text \in Texts, text = Next => c.page < MaxPage
    PROVE  Good(Move(c, text))
<1> DEFINE a == Abandon(c)
<1>1. Good(a) /\ a.draft = "none" /\ a.page = c.page
      BY DraftGood DEF Abandon
<1>2. c.page \in 0..MaxPage /\ c.page \in Nat
      BY PlaceParts DEF Good
<1> HIDE DEF a
<1>3. CASE text = Next
  <2>1. text.kind = "next"
        BY <1>3 DEF Next, Option
  <2>2. text # Root /\ text # Back /\ text # Previous
        BY <1>3 DEF Root, Back, Previous, Next, Option
  <2>3. Move(c, text) = [a EXCEPT !.page = a.page + 1]
        BY <1>3, <2>1, <2>2 DEF Move, a
  <2>4. a.page + 1 \in 0..MaxPage
        BY <1>1, <1>2, <1>3, DialogueAssumption
  <2>5. QED BY <1>1, <2>3, <2>4, PageGood
<1>4. CASE text # Next
  <2>1. \/ Move(c, text) = AtRoot(a)
        \/ Move(c, text) = OneBack(a)
        \/ c.page > 0 /\ Move(c, text) = [a EXCEPT !.page = a.page - 1]
        \/ text.kind = "category" /\ Move(c, text) = AtCategory(a, text.of)
        \/ text.kind = "service" /\ Move(c, text) = AtService(a, text.of)
        \/ Move(c, text) = a
        BY <1>4 DEF Move, a
  <2>2. CASE Move(c, text) = AtRoot(a)  BY <1>1, <2>2, AtRootGood
  <2>3. CASE Move(c, text) = OneBack(a) BY <1>1, <2>3, OneBackGood
  <2>4. CASE c.page > 0 /\ Move(c, text) = [a EXCEPT !.page = a.page - 1]
    <3>1. a.page - 1 \in 0..MaxPage
          BY <1>1, <1>2, <2>4, DialogueAssumption
    <3>2. QED BY <1>1, <2>4, <3>1, PageGood
  <2>5. CASE text.kind = "category" /\ Move(c, text) = AtCategory(a, text.of)
        BY <1>1, <2>5, AtCategoryGood, TextKinds
  <2>6. CASE text.kind = "service" /\ Move(c, text) = AtService(a, text.of)
        BY <1>1, <2>6, AtServiceGood, TextKinds
  <2>7. CASE Move(c, text) = a BY <1>1, <2>7
  <2>8. QED BY <2>1, <2>2, <2>3, <2>4, <2>5, <2>6, <2>7
<1>5. QED BY <1>3, <1>4

\* What was asked for together goes together.
LEMMA PickedGood ==
    ASSUME NEW c, Good(c), c.service \in Services, c.staff \in Staff, NEW d \in Dates
    PROVE  Good([c EXCEPT !.date = d, !.phase = "times", !.page = 0,
                          !.vouched = <<c.service, c.staff, d>>])
<1> DEFINE v == <<c.service, c.staff, d>>
           r == [c EXCEPT !.date = d, !.phase = "times", !.page = 0, !.vouched = v]
<1>1. v \in Services \X Staff \X Dates
      OBVIOUS
<1>2. c \in Places
      BY DEF Good
<1> HIDE DEF v
<1>3. /\ r \in Places /\ r.phase = "times" /\ r.draft = c.draft /\ r.service = c.service
      /\ r.staff = c.staff /\ r.date = d /\ r.vouched = v
      BY <1>1, <1>2, FirstPage DEF Places, Phase
<1> HIDE DEF r
<1>4. Good(r)
      BY <1>3, DialogueAssumption DEF Good, Coherent, v
<1>5. QED BY <1>4 DEF r, v

LEMMA PickGood ==
    ASSUME catalogue \in Catalogues, NEW c, Good(c), NEW text \in Texts, NEW up
    PROVE  GoodAnswer(Pick(c, text, up))
<1> DEFINE possible == up /\ IF c.service = Nothing THEN c.staff # Nothing
                             ELSE Offered(c.service)
           ofDates == c.phase = "dates" /\ c.staff # Nothing
           date == /\ possible /\ ofDates /\ Offered(c.service) /\ text.kind = "date"
                   /\ text.of \in OpenDates(c.service, c.staff)
           specialist == /\ possible /\ ~ofDates
                         /\ text.kind = "staff" /\ text.of \in Team(c.service)
<1>1. c \in Places /\ c.service \in Services \cup {Nothing} /\ c.staff \in Staff \cup {Nothing}
      BY PlaceParts DEF Good
<1>2. CASE date
  <2> DEFINE a == Abandon(c)
             d == [a EXCEPT !.date = text.of, !.phase = "times", !.page = 0,
                            !.vouched = <<c.service, c.staff, text.of>>]
  <2>1. Pick(c, text, up) = TimeMenu(d, up)
        BY <1>2 DEF Pick
  <2>2. /\ Good(a) /\ a.service = c.service /\ a.staff = c.staff
    <3>1. Good(a)
          BY DraftGood DEF Abandon
    <3>2. a.service = c.service /\ a.staff = c.staff
          BY <1>1 DEF Abandon, Places
    <3>3. QED BY <3>1, <3>2
  <2>3. c.service \in Services /\ c.staff \in Staff /\ text.of \in Dates
        BY <1>1, <1>2, Lookups DEF Offered, Catalogues
  <2>4. d = [a EXCEPT !.date = text.of, !.phase = "times", !.page = 0,
                      !.vouched = <<a.service, a.staff, text.of>>]
        BY <2>2
  <2> HIDE DEF a
  <2>5. Good(d)
        BY <2>2, <2>3, <2>4, PickedGood
  <2> HIDE DEF d
  <2>6. QED BY <2>1, <2>5, TimeMenuGood
<1>3. CASE specialist
  <2> DEFINE d == [c EXCEPT !.staff = text.of, !.phase = "dates", !.page = 0]
  <2>1. Pick(c, text, up) = DateMenu(d, up)
        BY <1>3 DEF Pick
  <2>2. text.of \in Staff
        BY <1>3, TextKinds
  <2>3. d \in Places /\ d.phase = "dates" /\ d.draft = c.draft
        BY <1>1, <2>2, FirstPage DEF Places, Phase
  <2>4. Good(d)
        BY <2>3 DEF Good, Coherent
  <2> HIDE DEF d
  <2>5. QED BY <2>1, <2>4, DateMenuGood
<1>4. CASE ~date /\ ~specialist
  <2>1. Pick(c, text, up) = NotHandled(c)
        BY <1>4 DEF Pick
  <2>2. QED BY <2>1, PlainAnswers
<1>5. QED BY <1>2, <1>3, <1>4

LEMMA NavigateGood ==
    ASSUME catalogue \in Catalogues, NEW c, Good(c), NEW text \in Texts,
           text = Next => c.page < MaxPage, NEW selected \in BOOLEAN, NEW calendar
    PROVE  GoodAnswer(Navigate(c, text, selected, calendar))
<1>1. \/ Navigate(c, text, selected, calendar) = NotHandled(c)
      \/ Navigate(c, text, selected, calendar) = Unavailable(c)
      \/ Navigate(c, text, selected, calendar) = Show(Move(c, text), text, calendar = "all")
      \/ Navigate(c, text, selected, calendar) = Pick(c, text, calendar = "all")
      BY DEF Navigate
<1>2. Good(Move(c, text))
      BY MoveGood
<1>3. GoodAnswer(Show(Move(c, text), text, calendar = "all"))
      BY <1>2, ShowGood
<1>4. QED BY <1>1, <1>3, PlainAnswers, PickGood

-----------------------------------------------------------------------------
(* Types, and places that stay good.                                       *)

Turns == [pc : {"model", "save", "send", "record"}, place : Places, options : Seq(Texts),
          tools : 0..MaxTools, hidden : BOOLEAN, stale : BOOLEAN]

TurnInv == turn = NoTurn \/ (turn \in Turns /\ Good(turn.place))

\* The numbers that the customer sees stand for what the conversation says.
Agree ==
    \/ unrecorded
    \/ \A n \in DOMAIN shown \cap DOMAIN saved.presented : saved.presented[n] = shown[n]

\* The options that were numbered last are the conversation's, but between
\* the reply and its record those of the turn.
NumbersInv ==
    /\ turn.pc # "record" => Agree
    /\ turn.pc = "record" => turn.stale \/ shown = Numbered

PlacesInv ==
    /\ saved \in Conversations /\ Good(saved.place)
    /\ TurnInv
    /\ catalogue \in Catalogues
    /\ shown \in Seq(Texts) /\ unrecorded \in BOOLEAN /\ faults \in 0..MaxFaults

DialogueInv == PlacesInv /\ NumbersInv

LEMMA DialogueStarts == DialogueInit => DialogueInv
<1> SUFFICES ASSUME DialogueInit
             PROVE  DialogueInv
    OBVIOUS
<1>1. NoPlace \in Places /\ NoPlace.phase = "" /\ NoPlace.draft = "none"
      BY FirstPage DEF NoPlace, Places, Phase
<1>2. Good(NoPlace)
      BY <1>1 DEF Good, Coherent
<1>3. saved = [place |-> NoPlace, presented |-> <<>>] /\ saved \in Conversations
      BY <1>1, Buttons DEF DialogueInit, Conversations
<1>4. catalogue \in Catalogues
      BY DEF DialogueInit, Catalogues
<1>5. shown \in Seq(Texts) /\ unrecorded \in BOOLEAN /\ faults \in 0..MaxFaults
  <2>1. 0 \in 0..MaxFaults
        BY DialogueAssumption
  <2>2. shown = <<>> /\ unrecorded = FALSE /\ faults = 0
        BY DEF DialogueInit
  <2>3. QED BY <2>1, <2>2, Buttons
<1>6. PlacesInv
      BY <1>2, <1>3, <1>4, <1>5 DEF DialogueInit, PlacesInv, TurnInv
<1>7. NumbersInv
  <2>1. DOMAIN shown = {}
        BY DEF DialogueInit
  <2>2. turn.pc = "idle"
        BY DEF DialogueInit, NoTurn
  <2>3. QED BY <2>1, <2>2 DEF NumbersInv, Agree
<1>8. QED BY <1>6, <1>7 DEF DialogueInv

\* A step that changes neither the conversation nor the catalogue.
LEMMA OnlyTheTurn ==
    ASSUME PlacesInv, UNCHANGED <<saved, catalogue, shown, unrecorded>>,
           faults' \in 0..MaxFaults, TurnInv'
    PROVE  PlacesInv'
BY DEF PlacesInv

LEMMA ReceiveKeeps ==
    ASSUME PlacesInv, NEW text \in Texts, Receive(text)
    PROVE  PlacesInv' /\ turn'.pc \in {"save", "model"}
<1> DEFINE m == Meant(text)
<1>1. m \in Texts
  <2>1. saved.presented \in Seq(Texts)
        BY DEF PlacesInv, Conversations
  <2>2. \A n \in DOMAIN saved.presented : saved.presented[n] \in Texts
        BY <2>1
  <2>3. QED BY <2>2 DEF Meant
<1>2. Selected(text) \in BOOLEAN
      BY DEF Selected
<1>3. PICK calendar \in {"none", "list", "all"} :
          LET a == Navigate(saved.place, m, Selected(text), calendar)
          IN  /\ m = Next => saved.place.page < MaxPage
              /\ calendar # "all" => faults < MaxFaults
              /\ faults' = IF calendar = "all" THEN faults ELSE faults + 1
              /\ turn' = [pc |-> IF a.handled THEN "save" ELSE "model",
                          place |-> a.place, options |-> a.options,
                          tools |-> 0, hidden |-> FALSE, stale |-> FALSE]
      BY DEF Receive
<1> DEFINE a == Navigate(saved.place, m, Selected(text), calendar)
<1> HIDE DEF m
<1>4. GoodAnswer(a)
      BY <1>1, <1>2, <1>3, NavigateGood DEF PlacesInv
<1>5. turn' = [pc |-> IF a.handled THEN "save" ELSE "model",
               place |-> a.place, options |-> a.options,
               tools |-> 0, hidden |-> FALSE, stale |-> FALSE]
      BY <1>3
<1> HIDE DEF a
<1>6. 0 \in 0..MaxTools
      BY DialogueAssumption
<1>7. /\ turn' \in Turns /\ turn'.place = a.place
      /\ turn'.pc = IF a.handled THEN "save" ELSE "model"
      BY <1>4, <1>5, <1>6 DEF GoodAnswer, Good, Turns
<1>8. faults' \in 0..MaxFaults
      BY <1>3, DialogueAssumption DEF PlacesInv
<1>9. TurnInv'
      BY <1>4, <1>7 DEF TurnInv, GoodAnswer
<1>10. PlacesInv'
      BY <1>8, <1>9, OnlyTheTurn DEF Receive
<1>11. QED BY <1>7, <1>10

LEMMA ToolKeeps ==
    ASSUME PlacesInv, NEW c, Good(c), NEW options \in Seq(Texts), Tool(c, options)
    PROVE  PlacesInv' /\ turn'.pc = "model"
<1>1. /\ turn.pc = "model" /\ turn.tools < MaxTools
      /\ turn' = [turn EXCEPT !.place = c, !.options = options, !.tools = turn.tools + 1]
      BY DEF Tool
<1>2. turn \in Turns
      BY <1>1 DEF PlacesInv, TurnInv, NoTurn
<1>3. turn.tools + 1 \in 0..MaxTools
      BY <1>1, <1>2, DialogueAssumption DEF Turns
<1>4. turn' \in Turns /\ turn'.place = c /\ turn'.pc = "model"
      BY <1>1, <1>2, <1>3 DEF Turns, Good
<1>5. TurnInv'
      BY <1>4 DEF TurnInv
<1>6. faults' \in 0..MaxFaults
      BY DEF Tool, PlacesInv
<1>7. PlacesInv'
      BY <1>5, <1>6, OnlyTheTurn DEF Tool
<1>8. QED BY <1>4, <1>7

LEMMA MenusKeeps ==
    ASSUME PlacesInv, NEW c, Good(c), NEW labels \in Seq(Texts),
           Menus(c, labels, PageSize, <<Back, Root>>)
    PROVE  PlacesInv' /\ turn'.pc = "model"
<1> DEFINE a == Menu(c, labels, PageSize, <<Back, Root>>)
<1>1. GoodAnswer(a)
      BY MenuGood, Buttons, Sizes
<1>2. Tool(a.place, a.options)
      BY DEF Menus
<1> HIDE DEF a
<1>3. QED BY <1>1, <1>2, ToolKeeps DEF GoodAnswer

\* The place of a turn that the model answers.
LEMMA ModelTurn ==
    ASSUME PlacesInv, turn.pc = "model"
    PROVE  /\ turn \in Turns /\ Good(turn.place) /\ turn.place \in Places
           /\ turn.options \in Seq(Texts) /\ catalogue \in Catalogues
<1>1. turn \in Turns /\ Good(turn.place) /\ catalogue \in Catalogues
      BY DEF PlacesInv, TurnInv, NoTurn
<1>2. QED BY <1>1 DEF Turns

LEMMA AvailableDatesKeeps ==
    ASSUME PlacesInv, NEW s \in Services, NEW p \in Staff, AvailableDates(s, p)
    PROVE  PlacesInv' /\ turn'.pc = "model"
<1> DEFINE c == turn.place
           d == [c EXCEPT !.staff = p, !.service = s, !.date = Nothing, !.phase = "dates",
                          !.page = 0]
<1>1. Good(c) /\ c \in Places /\ catalogue \in Catalogues
      BY ModelTurn DEF AvailableDates
<1>2. Menus(d, Listed("date", OpenDates(s, p)), PageSize, <<Back, Root>>)
      BY DEF AvailableDates
<1> HIDE DEF c
<1>3. d \in Places /\ d.phase = "dates" /\ d.draft = c.draft
      BY <1>1, FirstPage DEF Places, Phase
<1>4. Good(d)
      BY <1>1, <1>3 DEF Good, Coherent
<1>5. Listed("date", OpenDates(s, p)) \in Seq(Texts)
      BY <1>1, Lookups, OptionLists
<1> HIDE DEF d
<1>6. QED BY <1>2, <1>4, <1>5, MenusKeeps

LEMMA AvailableSlotsKeeps ==
    ASSUME PlacesInv, NEW s \in Services, NEW p \in Staff, NEW d \in Dates,
           AvailableSlots(s, p, d)
    PROVE  PlacesInv' /\ turn'.pc = "model"
<1> DEFINE c == turn.place
           v == <<s, p, d>>
           r == [c EXCEPT !.staff = p, !.service = s, !.date = d, !.phase = "times",
                          !.page = 0, !.vouched = v]
           labels == IF d \in OpenDates(s, p) THEN <<Time>> ELSE <<>>
<1>1. Good(c) /\ c \in Places
      BY ModelTurn DEF AvailableSlots
<1>2. Menus(r, labels, PageSize, <<Back, Root>>)
      BY DEF AvailableSlots
<1>3. v \in Services \X Staff \X Dates
      OBVIOUS
<1> HIDE DEF c, v
<1>4. /\ r \in Places /\ r.phase = "times" /\ r.draft = c.draft /\ r.service = s
      /\ r.staff = p /\ r.date = d /\ r.vouched = v
      BY <1>1, <1>3, FirstPage DEF Places, Phase
<1> HIDE DEF r
<1>5. Good(r)
      BY <1>1, <1>4, DialogueAssumption DEF Good, Coherent, v
<1>6. labels \in Seq(Texts)
      BY Buttons
<1> HIDE DEF labels
<1>7. QED BY <1>2, <1>5, <1>6, MenusKeeps

LEMMA ListsKeep ==
    ASSUME PlacesInv,
           \/ \E s \in Services \cup {Nothing} : ListStaff(s)
           \/ \E k \in Categories : ListServices(k)
           \/ ListCategories
    PROVE  PlacesInv' /\ turn'.pc = "model"
<1>1. turn.pc = "model"
      BY DEF ListStaff, ListServices, ListCategories
<1>2. Good(turn.place) /\ catalogue \in Catalogues
      BY <1>1, ModelTurn
<1>3. ASSUME NEW s \in Services \cup {Nothing}, ListStaff(s)
      PROVE  PlacesInv' /\ turn'.pc = "model"
  <2> DEFINE options == IF \E p, q \in Team(s) : p # q THEN Listed("staff", Team(s)) ELSE <<>>
  <2>1. Team(s) \subseteq Staff
        BY <1>2, <1>3, Lookups DEF ListStaff
  <2>2. options \in Seq(Texts)
        BY <1>2, <2>1, OptionLists, Buttons
  <2>3. Tool(turn.place, options)
        BY <1>3 DEF ListStaff
  <2> HIDE DEF options
  <2>4. QED BY <1>2, <2>2, <2>3, ToolKeeps
<1>4. ASSUME NEW k \in Categories, ListServices(k)
      PROVE  PlacesInv' /\ turn'.pc = "model"
  <2>1. PICK named \in {{}, {s \in catalogue.services : CategoryOf[s] = k}} :
            Tool(turn.place, Listed("service", named))
        BY <1>4 DEF ListServices
  <2>2. named \subseteq Services
        BY <1>2 DEF Catalogues
  <2>3. QED BY <1>2, <2>1, <2>2, OptionLists, ToolKeeps
<1>5. CASE ListCategories
  <2> DEFINE a == RootMenu(AtRoot(turn.place))
  <2>1. GoodAnswer(a)
        BY <1>2, AtRootGood, RootMenuGood
  <2>2. Tool(a.place, a.options)
        BY <1>5 DEF ListCategories
  <2> HIDE DEF a
  <2>3. QED BY <2>1, <2>2, ToolKeeps DEF GoodAnswer
<1>6. QED BY <1>3, <1>4, <1>5

LEMMA PrepareBookingKeeps ==
    ASSUME PlacesInv, NEW s \in Services, NEW p \in Staff, NEW d \in Dates,
           PrepareBooking(s, p, d)
    PROVE  PlacesInv' /\ turn'.pc = "model"
<1> DEFINE none == [turn.place EXCEPT !.draft = "none"]
           newer == [none EXCEPT !.draft = "newer"]
<1>1. Good(turn.place) /\ turn.options \in Seq(Texts) /\ catalogue \in Catalogues
      BY ModelTurn DEF PrepareBooking
<1>2. Good(none)
      BY <1>1, DraftGood
<1>3. \/ Tool(none, turn.options)
      \/ Offered(s) /\ Tool(none, Listed("staff", Team(s)))
      \/ Tool(newer, <<>>)
      BY DEF PrepareBooking
<1> HIDE DEF none
<1>4. Good(newer)
      BY <1>2, DraftGood
<1> HIDE DEF newer
<1>5. CASE Tool(none, turn.options) BY <1>1, <1>2, <1>5, ToolKeeps
<1>6. CASE Offered(s) /\ Tool(none, Listed("staff", Team(s)))
  <2>1. Listed("staff", Team(s)) \in Seq(Texts)
        BY <1>1, <1>6, Lookups, OptionLists
  <2>2. QED BY <1>2, <1>6, <2>1, ToolKeeps
<1>7. CASE Tool(newer, <<>>) BY <1>4, <1>7, Buttons, ToolKeeps
<1>8. QED BY <1>3, <1>5, <1>6, <1>7

LEMMA ConfirmBookingKeeps ==
    ASSUME PlacesInv, ConfirmBooking
    PROVE  PlacesInv' /\ turn'.pc = "model"
<1> DEFINE none == [turn.place EXCEPT !.draft = "none"]
           done == [none EXCEPT !.category = Nothing, !.service = Nothing, !.staff = Nothing,
                                !.page = 0]
<1>1. Good(turn.place) /\ turn.options \in Seq(Texts)
      BY ModelTurn DEF ConfirmBooking
<1>2. Good(none)
      BY <1>1, DraftGood
<1>3. Tool(done, <<>>) \/ Tool(none, turn.options)
      BY DEF ConfirmBooking
<1> HIDE DEF none
<1>4. Good(done)
  <2>1. done \in Places /\ done.service = Nothing /\ done.draft = none.draft
        BY <1>2, FirstPage DEF Good, Places
  <2>2. QED BY <1>2, <2>1 DEF Good, Coherent
<1> HIDE DEF done
<1>5. QED BY <1>1, <1>2, <1>3, <1>4, Buttons, ToolKeeps

\* A place without a date gives up what it vouched for, and had no times.
LEMMA SettledGood ==
    ASSUME NEW c, Good(c)
    PROVE  Good(Settled(c))
<1> DEFINE d == [c EXCEPT !.vouched = <<>>]
<1>1. c \in Places
      BY DEF Good
<1>2. CASE c.date = Nothing
  <2>1. /\ d \in Places /\ d.draft = c.draft /\ d.phase = c.phase
        /\ d.service = c.service
        BY <1>1 DEF Places
  <2>2. ~(c.phase = "times" /\ c.service # Nothing)
        BY <1>2 DEF Good, Coherent
  <2>3. Good(d)
        BY <2>1, <2>2 DEF Good, Coherent
  <2>4. QED BY <1>2, <2>3 DEF Settled
<1>3. CASE c.date # Nothing
      BY <1>3 DEF Settled
<1>4. QED BY <1>2, <1>3

\* A turn that goes on stays a turn.
LEMMA TurnParts ==
    ASSUME PlacesInv, turn # NoTurn
    PROVE  turn \in Turns /\ Good(turn.place) /\ turn.options \in Seq(Texts)
<1>1. turn \in Turns /\ Good(turn.place)
      BY DEF PlacesInv, TurnInv
<1>2. QED BY <1>1 DEF Turns

LEMMA TurnGoesOn ==
    ASSUME PlacesInv, turn # NoTurn, NEW w \in {"model", "save", "send", "record"},
           turn' = [turn EXCEPT !.pc = w]
    PROVE  TurnInv' /\ turn'.pc = w
<1>1. turn \in Turns /\ Good(turn.place)
      BY TurnParts
<1>2. turn' \in Turns /\ turn'.place = turn.place /\ turn'.pc = w
      BY <1>1 DEF Turns
<1>3. QED BY <1>1, <1>2 DEF TurnInv

LEMMA ComposeKeeps ==
    ASSUME PlacesInv, Compose
    PROVE  PlacesInv' /\ turn'.pc = "save"
<1>1. turn \in Turns /\ Good(turn.place)
      BY ModelTurn DEF Compose
<1>2. PICK hidden \in BOOLEAN :
          turn' = [turn EXCEPT !.pc = "save", !.tools = 0, !.hidden = hidden]
      BY DEF Compose
<1>3. 0 \in 0..MaxTools
      BY DialogueAssumption
<1>4. turn' \in Turns /\ turn'.place = turn.place /\ turn'.pc = "save"
      BY <1>1, <1>2, <1>3 DEF Turns
<1>5. TurnInv'
      BY <1>1, <1>4 DEF TurnInv
<1>6. faults' \in 0..MaxFaults
      BY DEF Compose, PlacesInv
<1>7. PlacesInv'
      BY <1>5, <1>6, OnlyTheTurn DEF Compose
<1>8. QED BY <1>4, <1>7

\* Steps that are neither the model's nor the customer's.
LEMMA SaveTurnKeeps ==
    ASSUME DialogueInv, SaveTurn
    PROVE  DialogueInv'
<1>1. /\ turn.pc = "save" /\ PlacesInv /\ Agree /\ turn # NoTurn
      /\ UNCHANGED <<catalogue, shown, unrecorded, faults>>
      BY DEF DialogueInv, NumbersInv, SaveTurn, NoTurn
<1>2. saved \in Conversations
      BY <1>1 DEF PlacesInv
<1>3. CASE turn.stale
  <2>1. turn' = NoTurn /\ saved' = saved /\ turn'.pc = "idle"
        BY <1>3 DEF SaveTurn, EndTurn, NoTurn
  <2>2. PlacesInv'
        BY <1>1, <2>1 DEF PlacesInv, TurnInv
  <2>3. Agree'
        BY <1>1, <2>1 DEF Agree
  <2>4. QED BY <2>1, <2>2, <2>3 DEF DialogueInv, NumbersInv
<1>4. CASE ~turn.stale
  <2> DEFINE c == Settled(turn.place)
  <2>1. saved' = [saved EXCEPT !.place = c] /\ turn' = [turn EXCEPT !.pc = "send"]
        BY <1>4 DEF SaveTurn
  <2>2. Good(c)
        BY <1>1, TurnParts, SettledGood
  <2> HIDE DEF c
  <2>3. /\ saved' \in Conversations /\ saved'.place = c
        /\ saved'.presented = saved.presented
        BY <1>2, <2>1, <2>2 DEF Conversations, Good
  <2>4. TurnInv' /\ turn'.pc = "send"
        BY <1>1, <2>1, TurnGoesOn
  <2>5. PlacesInv'
        BY <1>1, <2>2, <2>3, <2>4 DEF PlacesInv
  <2>6. Agree'
        BY <1>1, <2>3 DEF Agree
  <2>7. QED BY <2>4, <2>5, <2>6 DEF DialogueInv, NumbersInv
<1>5. QED BY <1>3, <1>4

LEMMA SendReplyKeeps ==
    ASSUME DialogueInv, SendReply
    PROVE  DialogueInv'
<1>1. /\ turn.pc = "send" /\ PlacesInv /\ turn # NoTurn
      /\ turn' = [turn EXCEPT !.pc = "record"] /\ shown' = Numbered
      /\ UNCHANGED <<saved, catalogue, unrecorded, faults>>
      BY DEF DialogueInv, SendReply, NoTurn
<1>2. turn \in Turns /\ turn.options \in Seq(Texts)
      BY <1>1, TurnParts
<1>3. TurnInv' /\ turn'.pc = "record"
      BY <1>1, TurnGoesOn
<1>4. turn'.hidden = turn.hidden /\ turn'.options = turn.options
      BY <1>1, <1>2 DEF Turns
<1>5. shown' \in Seq(Texts)
      BY <1>1, <1>2, Buttons DEF Numbered
<1>6. Numbered' = Numbered
      BY <1>4 DEF Numbered
<1>7. PlacesInv'
      BY <1>1, <1>3, <1>5 DEF PlacesInv
<1>8. QED BY <1>1, <1>3, <1>6, <1>7 DEF DialogueInv, NumbersInv

\* A turn that ends without saving anything.
LEMMA TurnEnds ==
    ASSUME PlacesInv, turn' = NoTurn, UNCHANGED <<saved, catalogue>>,
           faults' \in 0..MaxFaults, Agree', shown' \in Seq(Texts), unrecorded' \in BOOLEAN
    PROVE  DialogueInv'
<1>1. PlacesInv'
      BY DEF PlacesInv, TurnInv
<1>2. turn'.pc = "idle"
      BY DEF NoTurn
<1>3. QED BY <1>1, <1>2 DEF DialogueInv, NumbersInv

LEMMA UnrecordedAgrees ==
    ASSUME Unrecorded
    PROVE  Agree' /\ shown' \in Seq(Texts) /\ unrecorded' \in BOOLEAN
BY Buttons DEF Unrecorded, Agree

LEMMA FaultType ==
    ASSUME PlacesInv, Fault
    PROVE  faults' \in 0..MaxFaults
BY DialogueAssumption DEF PlacesInv, Fault

LEMMA SendFailsKeeps ==
    ASSUME DialogueInv, SendFails
    PROVE  DialogueInv'
<1>1. PlacesInv /\ Agree /\ shown \in Seq(Texts) /\ unrecorded \in BOOLEAN
      BY DEF DialogueInv, NumbersInv, PlacesInv, SendFails
<1>2. /\ turn' = NoTurn /\ UNCHANGED <<saved, catalogue>>
      /\ (shown' = shown /\ unrecorded' = unrecorded) \/ Unrecorded
      BY DEF SendFails, EndTurn
<1>3. faults' \in 0..MaxFaults
      BY <1>1, FaultType DEF SendFails
<1>4. Agree' /\ shown' \in Seq(Texts) /\ unrecorded' \in BOOLEAN
  <2>1. CASE shown' = shown /\ unrecorded' = unrecorded
        BY <1>1, <1>2, <2>1 DEF Agree
  <2>2. QED BY <1>2, <2>1, UnrecordedAgrees
<1>5. QED BY <1>1, <1>2, <1>3, <1>4, TurnEnds

LEMMA RecordChoicesKeeps ==
    ASSUME DialogueInv, RecordChoices
    PROVE  DialogueInv'
<1>1. /\ turn.pc = "record" /\ turn # NoTurn /\ PlacesInv
      /\ turn.stale \/ shown = Numbered
      BY DEF DialogueInv, NumbersInv, RecordChoices, NoTurn
<1>2. turn' = NoTurn /\ turn'.pc = "idle" /\ UNCHANGED <<catalogue, faults>>
      BY DEF RecordChoices, EndTurn, NoTurn
<1>3. CASE turn.stale
  <2>1. Unrecorded /\ saved' = saved
        BY <1>3 DEF RecordChoices
  <2>2. faults' \in 0..MaxFaults
        BY <1>1, <1>2 DEF PlacesInv
  <2>3. QED BY <1>1, <1>2, <2>1, <2>2, UnrecordedAgrees, TurnEnds
<1>4. CASE ~turn.stale
  <2>1. /\ saved' = [saved EXCEPT !.presented = turn.options]
        /\ unrecorded' = FALSE /\ shown' = shown
        BY <1>4 DEF RecordChoices
  <2>2. turn.options \in Seq(Texts)
        BY <1>1, TurnParts
  <2>3. saved \in Conversations /\ Good(saved.place)
        BY <1>1 DEF PlacesInv
  <2>4. /\ saved' \in Conversations /\ saved'.place = saved.place
        /\ saved'.presented = turn.options
        BY <2>1, <2>2, <2>3 DEF Conversations
  <2>5. PlacesInv'
        BY <1>1, <1>2, <2>1, <2>3, <2>4 DEF PlacesInv, TurnInv
  <2>6. shown = <<>> \/ shown = turn.options
        BY <1>1, <1>4 DEF Numbered
  <2>7. \A n \in DOMAIN shown' \cap DOMAIN saved'.presented :
            saved'.presented[n] = shown'[n]
        BY <2>1, <2>4, <2>6
  <2>8. QED BY <1>2, <2>5, <2>7 DEF DialogueInv, NumbersInv, Agree
<1>5. QED BY <1>3, <1>4

LEMMA TurnFailsKeeps ==
    ASSUME DialogueInv, TurnFails
    PROVE  DialogueInv'
<1>1. PlacesInv /\ shown \in Seq(Texts) /\ unrecorded \in BOOLEAN
      BY DEF DialogueInv, PlacesInv
<1>2. turn' = NoTurn /\ UNCHANGED <<saved, catalogue>>
      BY DEF TurnFails, EndTurn
<1>3. faults' \in 0..MaxFaults
      BY <1>1, FaultType DEF TurnFails
<1>4. Agree' /\ shown' \in Seq(Texts) /\ unrecorded' \in BOOLEAN
  <2>1. CASE turn.pc = "record"
        BY <2>1, UnrecordedAgrees DEF TurnFails
  <2>2. CASE turn.pc # "record"
    <3>1. Agree /\ shown' = shown /\ unrecorded' = unrecorded /\ saved' = saved
          BY <2>2 DEF TurnFails, DialogueInv, NumbersInv
    <3>2. QED BY <1>1, <3>1 DEF Agree
  <2>3. QED BY <2>1, <2>2
<1>5. QED BY <1>1, <1>2, <1>3, <1>4, TurnEnds

LEMMA StaffRepliesKeeps ==
    ASSUME DialogueInv, StaffReplies
    PROVE  DialogueInv'
<1>1. PlacesInv /\ saved \in Conversations /\ Good(saved.place)
      BY DEF DialogueInv, PlacesInv
<1>2. /\ saved' = [saved EXCEPT !.presented = <<>>] /\ shown' = <<>>
      /\ unrecorded' = FALSE /\ catalogue' = catalogue
      /\ turn' = IF turn = NoTurn THEN NoTurn ELSE [turn EXCEPT !.stale = TRUE]
      BY DEF StaffReplies
<1>3. faults' \in 0..MaxFaults
      BY <1>1, FaultType DEF StaffReplies
<1>4. saved' \in Conversations /\ saved'.place = saved.place
      BY <1>1, <1>2, Buttons DEF Conversations
<1>5. TurnInv' /\ (turn'.pc = "record" => turn'.stale)
  <2>1. CASE turn = NoTurn
        BY <1>2, <2>1 DEF TurnInv, NoTurn
  <2>2. CASE turn # NoTurn
    <3>1. turn \in Turns /\ Good(turn.place)
          BY <1>1, <2>2, TurnParts
    <3>2. turn' \in Turns /\ turn'.place = turn.place /\ turn'.stale = TRUE
          BY <1>2, <2>2, <3>1 DEF Turns
    <3>3. QED BY <3>1, <3>2 DEF TurnInv
  <2>3. QED BY <2>1, <2>2
<1>6. Agree'
  <2>1. DOMAIN shown' = {}
        BY <1>2
  <2>2. QED BY <2>1 DEF Agree
<1>7. PlacesInv'
      BY <1>1, <1>2, <1>3, <1>4, <1>5, Buttons DEF PlacesInv
<1>8. QED BY <1>5, <1>6, <1>7 DEF DialogueInv, NumbersInv

LEMMA CatalogueChangesKeeps ==
    ASSUME DialogueInv, CatalogueChanges
    PROVE  DialogueInv'
<1>1. PlacesInv /\ NumbersInv /\ catalogue \in Catalogues
      BY DEF DialogueInv, PlacesInv
<1>2. UNCHANGED <<saved, turn, shown, unrecorded>>
      BY DEF CatalogueChanges
<1>3. faults' \in 0..MaxFaults
      BY <1>1, FaultType DEF CatalogueChanges
<1>4. catalogue' \in Catalogues
  <2>1. CASE \E s \in catalogue.services :
                catalogue' = [catalogue EXCEPT !.services = @ \ {s}]
        BY <1>1, <2>1 DEF Catalogues
  <2>2. CASE \E s \in Services, p \in Staff :
                catalogue' = [catalogue EXCEPT !.team[s] = @ \ {p}]
        BY <1>1, <2>2 DEF Catalogues
  <2>3. CASE \E t \in catalogue.open : catalogue' = [catalogue EXCEPT !.open = @ \ {t}]
        BY <1>1, <2>3 DEF Catalogues
  <2>4. QED BY <2>1, <2>2, <2>3 DEF CatalogueChanges
<1>5. PlacesInv'
      BY <1>1, <1>2, <1>3, <1>4 DEF PlacesInv, TurnInv
<1>6. NumbersInv'
      BY <1>1, <1>2 DEF NumbersInv, Agree, Numbered
<1>7. QED BY <1>5, <1>6 DEF DialogueInv

-----------------------------------------------------------------------------
(* The theorems.                                                           *)

\* A step of the customer, the model or its tools leaves the conversation
\* and the numbers alone, and does not end between a reply and its record.
LEMMA NumbersUntouched ==
    ASSUME NumbersInv, turn.pc # "record", turn'.pc # "record",
           UNCHANGED <<saved, shown, unrecorded>>
    PROVE  NumbersInv'
BY DEF NumbersInv, Agree

LEMMA DialogueSteps ==
    ASSUME DialogueInv, DialogueNext
    PROVE  DialogueInv'
<1>1. PlacesInv /\ NumbersInv
      BY DEF DialogueInv
<1>2. ASSUME turn.pc = "model", UNCHANGED <<saved, shown, unrecorded>>,
             PlacesInv' /\ turn'.pc \in {"model", "save"}
      PROVE  DialogueInv'
      BY <1>1, <1>2, NumbersUntouched DEF DialogueInv
<1>3. ASSUME NEW text \in Texts, Receive(text)
      PROVE  DialogueInv'
  <2>1. turn.pc # "record" /\ UNCHANGED <<saved, shown, unrecorded>>
        BY <1>3 DEF Receive, NoTurn
  <2>2. PlacesInv' /\ turn'.pc \in {"save", "model"}
        BY <1>1, <1>3, ReceiveKeeps
  <2>3. QED BY <1>1, <2>1, <2>2, NumbersUntouched DEF DialogueInv
<1>4. ASSUME NEW s \in Services, NEW p \in Staff, AvailableDates(s, p)
      PROVE  DialogueInv'
  <2>1. turn.pc = "model" /\ UNCHANGED <<saved, shown, unrecorded>>
        BY <1>4 DEF AvailableDates, Menus, Tool
  <2>2. QED BY <1>1, <1>2, <1>4, <2>1, AvailableDatesKeeps
<1>5. ASSUME NEW s \in Services, NEW p \in Staff, NEW d \in Dates, AvailableSlots(s, p, d)
      PROVE  DialogueInv'
  <2>1. turn.pc = "model" /\ UNCHANGED <<saved, shown, unrecorded>>
        BY <1>5 DEF AvailableSlots, Menus, Tool
  <2>2. QED BY <1>1, <1>2, <1>5, <2>1, AvailableSlotsKeeps
<1>6. ASSUME NEW s \in Services, NEW p \in Staff, NEW d \in Dates, PrepareBooking(s, p, d)
      PROVE  DialogueInv'
  <2>1. turn.pc = "model" /\ UNCHANGED <<saved, shown, unrecorded>>
        BY <1>6 DEF PrepareBooking, Tool
  <2>2. QED BY <1>1, <1>2, <1>6, <2>1, PrepareBookingKeeps
<1>7. ASSUME \/ \E s \in Services \cup {Nothing} : ListStaff(s)
             \/ \E k \in Categories : ListServices(k)
             \/ ListCategories
      PROVE  DialogueInv'
  <2>1. turn.pc = "model" /\ UNCHANGED <<saved, shown, unrecorded>>
        BY <1>7 DEF ListStaff, ListServices, ListCategories, Tool
  <2>2. QED BY <1>1, <1>2, <1>7, <2>1, ListsKeep
<1>8. CASE ConfirmBooking
  <2>1. turn.pc = "model" /\ UNCHANGED <<saved, shown, unrecorded>>
        BY <1>8 DEF ConfirmBooking, Tool
  <2>2. QED BY <1>1, <1>2, <1>8, <2>1, ConfirmBookingKeeps
<1>9. CASE Compose
  <2>1. turn.pc = "model" /\ UNCHANGED <<saved, shown, unrecorded>>
        BY <1>9 DEF Compose
  <2>2. QED BY <1>1, <1>2, <1>9, <2>1, ComposeKeeps
<1>10. CASE SaveTurn         BY <1>10, SaveTurnKeeps
<1>11. CASE SendReply        BY <1>11, SendReplyKeeps
<1>12. CASE SendFails        BY <1>12, SendFailsKeeps
<1>13. CASE RecordChoices    BY <1>13, RecordChoicesKeeps
<1>14. CASE TurnFails        BY <1>14, TurnFailsKeeps
<1>15. CASE StaffReplies     BY <1>15, StaffRepliesKeeps
<1>16. CASE CatalogueChanges BY <1>16, CatalogueChangesKeeps
<1>17. QED BY <1>3, <1>4, <1>5, <1>6, <1>7, <1>8, <1>9, <1>10, <1>11, <1>12, <1>13, <1>14,
              <1>15, <1>16 DEF DialogueNext

LEMMA DialogueStutters ==
    ASSUME DialogueInv, UNCHANGED dialogueVars
    PROVE  DialogueInv'
BY DEF DialogueInv, PlacesInv, NumbersInv, Agree, Numbered, TurnInv, dialogueVars

\* Whatever the customer writes and the model's tools do, a place stays in
\* one piece, and between a reply and its record the numbers are the turn's.
THEOREM DialogueInvariance == DialogueSpec => []DialogueInv
<1>1. DialogueInv /\ [DialogueNext]_dialogueVars => DialogueInv'
      BY DialogueSteps, DialogueStutters
<1>2. QED BY <1>1, DialogueStarts, PTL DEF DialogueSpec

\* The conversation, the turn and the catalogue keep their types (Conversation
\* and its Selection).
THEOREM DialogueTypes == DialogueSpec => []DialogueTypeOK
<1>1. DialogueInv => DialogueTypeOK
  <2> SUFFICES ASSUME DialogueInv PROVE DialogueTypeOK OBVIOUS
  <2>1. PlacesInv
        BY DEF DialogueInv
  <2>2. turn = NoTurn \/ turn \in Turns
        BY <2>1 DEF PlacesInv, TurnInv
  <2>3. turn \in Turns =>
            /\ turn.pc \in {"model", "save", "send", "record"}
            /\ turn.place \in Places /\ turn.options \in Seq(Texts)
            /\ turn.tools \in 0..MaxTools /\ turn.hidden \in BOOLEAN
            /\ turn.stale \in BOOLEAN
        BY DEF Turns
  <2>4. QED BY <2>1, <2>2, <2>3 DEF PlacesInv, DialogueTypeOK
<1>2. QED BY <1>1, DialogueInvariance, PTL

\* Outside a turn, and unless a reply that reached the customer could not be
\* recorded, a number that the customer sees stands for the option that
\* ResolvePresentedChoice takes it for.
THEOREM NumbersAreThoseSeen == DialogueSpec => []NumbersMeanWhatIsShown
<1>1. DialogueInv => NumbersMeanWhatIsShown
  <2> SUFFICES ASSUME DialogueInv, turn = NoTurn
               PROVE  NumbersMeanWhatIsShown
      BY DEF NumbersMeanWhatIsShown
  <2>1. turn.pc # "record"
        BY DEF NoTurn
  <2>2. QED BY <2>1 DEF DialogueInv, NumbersInv, Agree, NumbersMeanWhatIsShown
<1>2. QED BY <1>1, DialogueInvariance, PTL

\* The times that a customer chooses from are those of a treatment, a
\* specialist and a date that were asked for together: navigateCatalogue's
\* resets and the tools leave no part of an older choice.
THEOREM TimesGoTogether == DialogueSpec => []TimesBelongTogether
<1>1. DialogueInv => TimesBelongTogether
      BY DEF DialogueInv, PlacesInv, Good, Coherent, TimesBelongTogether
<1>2. QED BY <1>1, DialogueInvariance, PTL

\* "A later yes must not confirm a draft from a different treatment": no
\* proposal survives the choice of another treatment (navigateCatalogue).
THEOREM NoOlderDraft == DialogueSpec => []DraftIsNewerThanChoice
<1>1. DialogueInv => DraftIsNewerThanChoice
      BY DEF DialogueInv, PlacesInv, Good, DraftIsNewerThanChoice
<1>2. QED BY <1>1, DialogueInvariance, PTL
=============================================================================
