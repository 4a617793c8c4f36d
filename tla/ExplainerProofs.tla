--------------------------- MODULE ExplainerProofs ---------------------------
(***************************************************************************)
(* Proofs about Explainer for every page, whatever its script writes into  *)
(* it.  What markTerms does to a page is a loop over its text nodes; the   *)
(* first part proves what that loop computes, by induction over the nodes, *)
(* stated for sets of numbers rather than for a predicate.                 *)
(***************************************************************************)
EXTENDS Explainer, WellFoundedInduction, TLAPS

-------------------------------------------------------------------------------
(* Numbers *)

LEMMA LeastNumber ==
  ASSUME NEW T \in SUBSET Nat, T # {}
  PROVE  \E x \in T : \A y \in T : x <= y
<1>1. IsWellFoundedOn(OpToRel(<, Nat), Nat)
  BY NatLessThanWellFounded
<1>2. PICK x \in T : \A y \in T : ~(<<y, x>> \in OpToRel(<, Nat))
  BY <1>1, WFMin
<1>3. \A y \in T : ~(y < x)
  BY <1>2 DEF OpToRel
<1> QED
  BY <1>3

(* Induction up to N: a set that has 0 and with each k also k + 1.         *)
LEMMA Climb ==
  ASSUME NEW N \in Nat, NEW S, 0 \in S,
         \A k \in 0..(N - 1) : k \in S => k + 1 \in S
  PROVE  0..N \subseteq S
<1> DEFINE T == (0..N) \ S
<1> SUFFICES ASSUME T # {} PROVE FALSE
  OBVIOUS
<1>0. T \in SUBSET Nat
  OBVIOUS
<1>1. PICK x \in T : \A y \in T : x <= y
  <2> HIDE DEF T
  <2> QED BY <1>0, LeastNumber
<1>2. x # 0 /\ x - 1 \in 0..(N - 1) /\ x - 1 \notin T
  BY <1>1
<1> QED
  BY <1>1, <1>2

(* Longest first, then first in the file, as one number.                   *)
LEMMA RankOrders ==
  ASSUME NEW a \in 1..20, NEW b \in 1..20, NEW c \in 1..20, NEW d \in 1..20,
         100 * (20 - a) + b <= 100 * (20 - c) + d
  PROVE  ~(c > a) /\ ~(c = a /\ d < b)
<1>1. ASSUME c > a PROVE FALSE
  <2>1. 100 * (20 - c) <= 100 * (20 - a) - 100
    BY <1>1
  <2> QED BY <2>1
<1>2. ASSUME c = a, d < b PROVE FALSE
  BY <1>2
<1> QED
  BY <1>1, <1>2

-------------------------------------------------------------------------------
(* The glossary *)

LEMMA GlossaryFacts ==
  /\ \A t \in Glossary : t.chars \in 1..20 /\ t.at \in 1..20
  /\ NoTerm \notin Glossary
  /\ NoTerm.chars = 0
<1>1. \A t \in Glossary : t.chars \in 1..20 /\ t.at \in 1..20
  BY DEF Glossary, Term
<1>2. NoTerm.chars = 0 /\ NoTerm.at = 0
  BY DEF NoTerm, Term
<1> QED
  BY <1>1, <1>2

(* markTerms tries the terms longest first: of those that it could mark it *)
(* marks one that no other is longer than.                                 *)
LEMMA FirstIsLongest ==
  ASSUME NEW terms \in SUBSET Glossary
  PROVE  /\ terms = {} => FirstOf(terms) = NoTerm
         /\ terms # {} => /\ FirstOf(terms) \in terms
                          /\ \A u \in terms : u.chars <= FirstOf(terms).chars
<1>1. CASE terms = {}
  BY <1>1 DEF FirstOf
<1>2. CASE terms # {}
  <2> DEFINE Rank(t) == 100 * (20 - t.chars) + t.at
             ranks == {Rank(t) : t \in terms}
  <2>1. \A t \in terms : t.chars \in 1..20 /\ t.at \in 1..20
    BY GlossaryFacts
  <2>2. ranks \in SUBSET Nat /\ ranks # {}
    BY <1>2, <2>1
  <2>3. PICK x \in ranks : \A y \in ranks : x <= y
    BY <2>2, LeastNumber
  <2>4. PICK t \in terms : x = Rank(t)
    BY <2>3
  <2>5. ASSUME NEW u \in terms PROVE ~Before(u, t)
    <3>1. 100 * (20 - t.chars) + t.at <= 100 * (20 - u.chars) + u.at
      BY <2>3, <2>4
    <3>2. t.chars \in 1..20 /\ t.at \in 1..20 /\ u.chars \in 1..20 /\ u.at \in 1..20
      BY <2>1
    <3>3. ~(u.chars > t.chars) /\ ~(u.chars = t.chars /\ u.at < t.at)
      BY <3>1, <3>2, RankOrders
    <3> QED
      BY <3>3 DEF Before
  <2>6. /\ FirstOf(terms) \in terms
        /\ \A u \in terms : ~Before(u, FirstOf(terms))
    BY <1>2, <2>5 DEF FirstOf
  <2>7. \A u \in terms : u.chars <= FirstOf(terms).chars
    BY <2>1, <2>6 DEF Before
  <2> QED
    BY <1>2, <2>6, <2>7
<1> QED
  BY <1>1, <1>2

(* What one text node gets, given the terms done before it.                *)
LEMMA OneNode ==
  ASSUME NEW done, NEW words
  PROVE  /\ MarkOf(done, words) \in Glossary \cup {NoTerm}
         /\ MarkOf(done, words) # NoTerm =>
              /\ MarkOf(done, words) \notin done
              /\ Occurs(MarkOf(done, words), words)
         /\ \A t \in Glossary : Occurs(t, words) =>
              t \in done \/ MarkOf(done, words).chars >= t.chars
<1> DEFINE fresh == {t \in Glossary \ done : Occurs(t, words)}
<1>1. MarkOf(done, words) = FirstOf(fresh)
  BY DEF MarkOf
<1>2. fresh \in SUBSET Glossary
  OBVIOUS
<1>3. CASE fresh = {}
  BY <1>1, <1>2, <1>3, FirstIsLongest
<1>4. CASE fresh # {}
  <2>1. /\ FirstOf(fresh) \in fresh
        /\ \A u \in fresh : u.chars <= FirstOf(fresh).chars
    BY <1>2, <1>4, FirstIsLongest
  <2>2. FirstOf(fresh).chars \in Int /\ \A u \in fresh : u.chars \in Int
    BY <2>1, GlossaryFacts
  <2> QED
    BY <1>1, <2>1, <2>2
<1> QED
  BY <1>3, <1>4

-------------------------------------------------------------------------------
(* The loop over the nodes *)

LEMMA PageLength ==
  /\ Len(Page) \in Nat
  /\ DOMAIN Page = 1..Len(Page)
  /\ Page = [n \in DOMAIN Page |-> Page[n]]
<1>1. PICK X : Page \in Seq(X)
  BY ExplainerAssumption
<1> QED
  BY <1>1

(* The loop is well defined: there is one account of what is done after    *)
(* each node, and Done is it.                                              *)
LEMMA DoneUnfolds ==
  ASSUME NEW nodes
  PROVE  Done(nodes) =
           [n \in 0..Len(Page) |->
              IF n = 0 THEN {} ELSE DoneAfter(Done(nodes)[n - 1], nodes[n])]
<1> DEFINE N == Len(Page)
           Unfold(g) == [n \in 0..N |->
                           IF n = 0 THEN {} ELSE DoneAfter(g[n - 1], nodes[n])]
           Upto(g, k) ==
             /\ g = [n \in 0..k |-> g[n]]
             /\ g[0] = {}
             /\ \A n \in 1..k : g[n] = DoneAfter(g[n - 1], nodes[n])
           S == {k \in 0..N : \E g : Upto(g, k)}
<1>1. N \in Nat
  BY PageLength
<1>2. 0 \in S
  <2>1. Upto([n \in 0..0 |-> {}], 0)
    OBVIOUS
  <2> HIDE DEF Upto
  <2> QED BY <1>1, <2>1
<1>3. ASSUME NEW k \in 0..(N - 1), k \in S PROVE k + 1 \in S
  <2>1. PICK g : Upto(g, k)
    BY <1>3
  <2> DEFINE h == [n \in 0..(k + 1) |->
                     IF n = k + 1 THEN DoneAfter(g[k], nodes[k + 1]) ELSE g[n]]
  <2>2. h[0] = {}
    BY <1>1, <2>1
  <2>3. ASSUME NEW n \in 1..(k + 1) PROVE h[n] = DoneAfter(h[n - 1], nodes[n])
    <3>1. n - 1 \in 0..(k + 1) /\ n - 1 # k + 1 /\ k \in Nat
      BY <1>1
    <3>2. h[n - 1] = g[n - 1]
      BY <3>1
    <3>3. CASE n = k + 1
      BY <3>1, <3>2, <3>3
    <3>4. CASE n # k + 1
      <4>1. n \in 1..k
        BY <3>1, <3>4
      <4>2. h[n] = g[n] /\ g[n] = DoneAfter(g[n - 1], nodes[n])
        BY <2>1, <3>4, <4>1
      <4> QED BY <3>2, <4>2
    <3> QED BY <3>3, <3>4
  <2>4. h = [n \in 0..(k + 1) |-> h[n]]
    OBVIOUS
  <2>5. Upto(h, k + 1)
    BY <2>2, <2>3, <2>4
  <2> HIDE DEF h, Upto
  <2> QED BY <1>1, <2>5
<1>4. N \in S
  <2> HIDE DEF S
  <2>1. 0..N \subseteq S
    BY <1>1, <1>2, <1>3, Climb
  <2> QED BY <1>1, <2>1
<1>5. PICK g : Upto(g, N)
  BY <1>4
<1>6. g = Unfold(g)
  <2>1. ASSUME NEW n \in 0..N
        PROVE  g[n] = IF n = 0 THEN {} ELSE DoneAfter(g[n - 1], nodes[n])
    <3>1. CASE n = 0
      BY <1>5, <3>1
    <3>2. CASE n # 0
      <4>1. n \in 1..N
        BY <1>1, <3>2
      <4> QED BY <1>5, <3>2, <4>1
    <3> QED BY <3>1, <3>2
  <2>2. [n \in 0..N |-> g[n]] = Unfold(g)
    BY <2>1
  <2> QED BY <1>5, <2>2
<1>7. Done(nodes) = Unfold(Done(nodes))
  BY <1>6 DEF Done
<1> QED
  BY <1>7

(* After each node, what is done is what the nodes so far are marked with. *)
LEMMA DoneIsMarked ==
  ASSUME NEW nodes, NEW n \in 0..Len(Page)
  PROVE  Done(nodes)[n] = {MarkTerms(nodes)[i] : i \in 1..n} \ {NoTerm}
<1> DEFINE N == Len(Page)
           D == Done(nodes)
           M == MarkTerms(nodes)
           Marked(k) == {M[i] : i \in 1..k} \ {NoTerm}
           S == {k \in 0..N : D[k] = Marked(k)}
<1>1. N \in Nat /\ DOMAIN Page = 1..N
  BY PageLength
<1>2. \A k \in 0..N : D[k] = IF k = 0 THEN {} ELSE DoneAfter(D[k - 1], nodes[k])
  BY DoneUnfolds
<1>3. \A k \in 1..N : M[k] = MarkOf(D[k - 1], nodes[k])
  BY <1>1 DEF MarkTerms
<1> HIDE DEF N, D, M
<1>4. 0 \in S
  BY <1>1, <1>2
<1>5. ASSUME NEW k \in 0..(N - 1), k \in S PROVE k + 1 \in S
  <2>1. k + 1 \in 1..N /\ k + 1 \in 0..N /\ k + 1 # 0 /\ (k + 1) - 1 = k
    BY <1>1
  <2>2. D[k + 1] = DoneAfter(D[k], nodes[k + 1])
    BY <1>2, <2>1
  <2>3. M[k + 1] = MarkOf(D[k], nodes[k + 1])
    BY <1>3, <2>1
  <2>4. D[k + 1] = Marked(k) \cup ({M[k + 1]} \ {NoTerm})
    BY <1>5, <2>2, <2>3 DEF DoneAfter
  <2>5. 1..(k + 1) = 1..k \cup {k + 1}
    BY <1>1
  <2>6. Marked(k + 1) = Marked(k) \cup ({M[k + 1]} \ {NoTerm})
    BY <2>5
  <2> QED BY <2>1, <2>4, <2>6
<1>6. 0..N \subseteq S
  <2> HIDE DEF S
  <2> QED BY <1>1, <1>4, <1>5, Climb
<1>7. n \in S
  BY <1>6 DEF N
<1> QED
  BY <1>7 DEF D, M

(* What markTerms does to a page: each mark is a term of the glossary that *)
(* occurs in its node, no term is marked twice, and a term that occurs in  *)
(* a node is marked somewhere or is no longer than that node's mark.       *)
LEMMA WhatMarkTermsDoes ==
  ASSUME NEW nodes
  PROVE  /\ MarkTerms(nodes) \in [DOMAIN Page -> Glossary \cup {NoTerm}]
         /\ \A n \in DOMAIN Page : MarkTerms(nodes)[n] # NoTerm =>
              Occurs(MarkTerms(nodes)[n], nodes[n])
         /\ \A m, n \in DOMAIN Page :
              m # n /\ MarkTerms(nodes)[m] = MarkTerms(nodes)[n] =>
                MarkTerms(nodes)[m] = NoTerm
         /\ \A n \in DOMAIN Page : \A t \in Glossary : Occurs(t, nodes[n]) =>
              \/ \E m \in DOMAIN Page : MarkTerms(nodes)[m] = t
              \/ MarkTerms(nodes)[n].chars >= t.chars
<1> DEFINE N == Len(Page)
           D == Done(nodes)
           M == MarkTerms(nodes)
<1>1. N \in Nat /\ DOMAIN Page = 1..N
  BY PageLength
<1>2. M = [n \in DOMAIN Page |-> MarkOf(D[n - 1], nodes[n])]
  BY DEF MarkTerms
<1>3. ASSUME NEW n \in 1..N
      PROVE  n - 1 \in 0..N /\ D[n - 1] = {M[i] : i \in 1..(n - 1)} \ {NoTerm}
  <2>1. n - 1 \in 0..N
    BY <1>1
  <2> QED BY <2>1, DoneIsMarked
<1> HIDE DEF N, D, M
<1>4. ASSUME NEW n \in 1..N
      PROVE  /\ M[n] \in Glossary \cup {NoTerm}
             /\ M[n] # NoTerm => M[n] \notin D[n - 1] /\ Occurs(M[n], nodes[n])
             /\ \A t \in Glossary : Occurs(t, nodes[n]) =>
                  t \in D[n - 1] \/ M[n].chars >= t.chars
  <2>1. M[n] = MarkOf(D[n - 1], nodes[n])
    BY <1>1, <1>2
  <2> QED BY <2>1, OneNode
<1>5. M \in [DOMAIN Page -> Glossary \cup {NoTerm}]
  BY <1>1, <1>2, <1>4
<1>6. ASSUME NEW m \in 1..N, NEW n \in 1..N, m < n, M[m] = M[n]
      PROVE  M[m] = NoTerm
  <2>1. m \in 1..(n - 1)
    BY <1>1, <1>6
  <2>2. M[m] # NoTerm => M[m] \in D[n - 1]
    BY <1>3, <2>1
  <2> QED BY <1>4, <1>6, <2>2
<1>7. ASSUME NEW m \in 1..N, NEW n \in 1..N, m # n, M[m] = M[n]
      PROVE  M[m] = NoTerm
  <2>1. m < n \/ n < m
    BY <1>1, <1>7
  <2> QED BY <1>6, <1>7, <2>1
<1>8. ASSUME NEW n \in 1..N, NEW t \in Glossary, Occurs(t, nodes[n])
      PROVE  (\E m \in 1..N : M[m] = t) \/ M[n].chars >= t.chars
  <2>1. CASE t \in D[n - 1]
    <3>1. PICK i \in 1..(n - 1) : t = M[i]
      BY <1>3, <2>1
    <3>2. i \in 1..N
      BY <1>1
    <3> QED BY <3>1, <3>2
  <2> QED BY <1>4, <1>8, <2>1
<1> QED
  BY <1>1, <1>4, <1>5, <1>7, <1>8 DEF M

-------------------------------------------------------------------------------
(* The inductive invariant *)

(* A mark is in a node that says its term. *)
MarksOccur ==
  \A n \in DOMAIN Page : marks[n] # NoTerm => Occurs(marks[n], text[n])

(* Nothing is marked before boot, which is what lets boot mark the page.   *)
BlankUntilBoot == ~booted => marks = Unmarked

(* A browser that remembers has remembered whoever met the panel. *)
Remembered == ~private /\ met => seen

IInv ==
  /\ TypeOK
  /\ MarksOccur
  /\ BlankUntilBoot
  /\ LongestWins
  /\ Remembered

LEMMA InitIInv == Init => IInv
<1> SUFFICES ASSUME Init PROVE IInv
  OBVIOUS
<1>1. text \in [DOMAIN Page -> UNION {Texts(n) : n \in DOMAIN Page}]
  <2>1. \A n \in DOMAIN Page : Page[n] \in Texts(n)
    BY DEF Texts
  <2>2. Page = [n \in DOMAIN Page |-> Page[n]]
    BY PageLength
  <2> QED
    BY <2>1, <2>2 DEF Init
<1>2. TypeOK
  BY <1>1, ExplainerAssumption DEF Init, TypeOK, Texts, Unmarked, Views
<1>3. MarksOccur /\ BlankUntilBoot /\ LongestWins
  BY DEF Init, MarksOccur, BlankUntilBoot, LongestWins, Unmarked
<1>4. Remembered
  BY DEF Init, Remembered
<1> QED
  BY <1>2, <1>3, <1>4 DEF IInv

(* The page's text and marks change in three ways only. *)
PageStays == UNCHANGED <<text, marks, booted>>

LEMMA PageSteps ==
  ASSUME [Next]_vars
  PROVE  \/ PageStays
         \/ Reload
         \/ Boot
         \/ \E n \in DOMAIN Rewrites : \E words \in Rewrites[n] : Rewrite(n, words)
<1>1. CASE Greet \/ ClickFab \/ Close \/ ClickElsewhere \/ OpenElsewhere
  BY <1>1 DEF Greet, ClickFab, Close, ClickElsewhere, OpenElsewhere, loadVars,
              PageStays
<1>2. CASE \E view \in Views : ClickTab(view)
  BY <1>2 DEF ClickTab, loadVars, PageStays
<1>3. CASE \E query \in Queries : Type(query)
  BY <1>3 DEF Type, loadVars, PageStays
<1>4. CASE \E n \in DOMAIN Page : ClickMark(n)
  BY <1>4 DEF ClickMark, loadVars, PageStays
<1>5. CASE UNCHANGED vars
  BY <1>5 DEF vars, loadVars, PageStays
<1> QED
  BY <1>1, <1>2, <1>3, <1>4, <1>5 DEF Next

(* The page's text and marks, and what is true of them. *)
PageOK ==
  /\ text \in [DOMAIN Page -> UNION {Texts(n) : n \in DOMAIN Page}]
  /\ \A n \in DOMAIN Page : text[n] \in Texts(n)
  /\ marks \in [DOMAIN Page -> Glossary \cup {NoTerm}]
  /\ MarksOccur
  /\ BlankUntilBoot
  /\ LongestWins

LEMMA NextPageOK == PageOK /\ booted \in BOOLEAN /\ [Next]_vars => PageOK'
<1> SUFFICES ASSUME PageOK, booted \in BOOLEAN, [Next]_vars PROVE PageOK'
  OBVIOUS
<1>1. CASE PageStays
  BY <1>1 DEF PageStays, PageOK, MarksOccur, BlankUntilBoot, LongestWins
<1>2. CASE Reload
  <2>1. /\ Page = [n \in DOMAIN Page |-> Page[n]]
        /\ \A n \in DOMAIN Page : Page[n] \in Texts(n)
    BY PageLength DEF Texts
  <2>2. text' = Page /\ marks' = Unmarked /\ booted' = FALSE
    BY <1>2 DEF Reload
  <2> QED
    BY <2>1, <2>2 DEF PageOK, MarksOccur, BlankUntilBoot, LongestWins, Unmarked
<1>3. CASE Boot
  <2>1. text' = text /\ marks' = MarkTerms(text) /\ booted' = TRUE
    BY <1>3 DEF Boot
  <2>2. /\ marks' \in [DOMAIN Page -> Glossary \cup {NoTerm}]
        /\ MarksOccur'
    BY <2>1, WhatMarkTermsDoes DEF MarksOccur
  <2>3. LongestWins'
    BY <2>1, WhatMarkTermsDoes DEF LongestWins
  <2> QED
    BY <2>1, <2>2, <2>3 DEF PageOK, BlankUntilBoot
<1>4. ASSUME NEW k \in DOMAIN Rewrites, NEW words \in Rewrites[k], Rewrite(k, words)
      PROVE  PageOK'
  <2>1. /\ text' = [text EXCEPT ![k] = words]
        /\ marks' = [marks EXCEPT ![k] = NoTerm]
        /\ booted' = booted
    BY <1>4 DEF Rewrite, loadVars
  <2>2. k \in DOMAIN Page /\ words \in Texts(k)
    BY ExplainerAssumption DEF Texts
  <2>3. /\ text' \in [DOMAIN Page -> UNION {Texts(n) : n \in DOMAIN Page}]
        /\ \A n \in DOMAIN Page : text'[n] \in Texts(n)
    BY <2>1, <2>2 DEF PageOK
  <2>4. marks' \in [DOMAIN Page -> Glossary \cup {NoTerm}]
    BY <2>1 DEF PageOK
  <2>5. \A n \in DOMAIN Page :
          marks'[n] = IF n = k THEN NoTerm ELSE marks[n]
    BY <2>1 DEF PageOK
  <2>6. MarksOccur'
    BY <2>1, <2>5 DEF PageOK, MarksOccur
  <2>7. BlankUntilBoot'
    BY <2>1, <2>2 DEF PageOK, BlankUntilBoot, Unmarked
  <2>8. ASSUME booted
        PROVE  LongestWins'
    <3>1. ASSUME NEW m \in DOMAIN Page, NEW n \in DOMAIN Page,
                 m # n, marks'[m] = marks'[n]
          PROVE  marks'[m] = NoTerm
      BY <2>5, <2>8, <3>1 DEF PageOK, LongestWins
    <3>2. ASSUME NEW n \in DOMAIN Page \ DOMAIN Rewrites, NEW t \in Glossary,
                 Occurs(t, text'[n])
          PROVE  \/ \E m \in DOMAIN Page : marks'[m] = t
                 \/ marks'[n].chars >= t.chars
                 \/ \E m \in DOMAIN Rewrites : \E w \in Texts(m) : Occurs(t, w)
      <4>1. n # k /\ text'[n] = text[n] /\ marks'[n] = marks[n]
        BY <2>1, <2>5 DEF PageOK
      <4>2. CASE marks[k] = t
        <5>1. Occurs(t, text[k]) /\ text[k] \in Texts(k)
          BY <2>2, <4>2, GlossaryFacts DEF PageOK, MarksOccur
        <5> QED
          BY <5>1
      <4>3. CASE marks[k] # t
        <5>1. \A m \in DOMAIN Page : marks[m] = t => marks'[m] = t
          BY <2>5, <4>3
        <5> QED
          BY <2>8, <3>2, <4>1, <5>1 DEF PageOK, LongestWins
      <4> QED
        BY <4>2, <4>3
    <3> QED
      BY <3>1, <3>2 DEF LongestWins, Texts
  <2>9. LongestWins'
    BY <2>1, <2>8 DEF LongestWins
  <2> QED
    BY <2>3, <2>4, <2>6, <2>7, <2>9 DEF PageOK
<1> QED
  BY <1>1, <1>2, <1>3, <1>4, PageSteps

PanelTypes ==
  /\ {isOpen, timer, booted, private, seen, met} \subseteq BOOLEAN
  /\ tab \in Views \cup {"none"}
  /\ body \in Views
  /\ filter \in Queries
  /\ link \in Links

(* Opening the panel draws the view of the tab and remembers the visit.    *)
LEMMA Opened ==
  ASSUME PanelTypes, NEW view \in Views, Open(view)
  PROVE  /\ isOpen' = TRUE /\ tab' = view /\ body' = view /\ filter' = ""
         /\ met' = TRUE /\ seen' \in BOOLEAN /\ (~private => seen')
  BY DEF Open, Highlight, Render, Remember, PanelTypes

LEMMA NextPanel ==
  PanelTypes /\ Remembered /\ [Next]_vars => PanelTypes' /\ Remembered'
<1> SUFFICES ASSUME PanelTypes, Remembered, [Next]_vars
             PROVE  PanelTypes' /\ Remembered'
  OBVIOUS
<1> USE DEF Remembered
<1>0. "" \in Queries /\ "what" \in Views
  BY ExplainerAssumption DEF Views
<1>1. CASE Reload
  BY <1>0, <1>1 DEF Reload, PanelTypes
<1>2. CASE Boot
  <2>1. CASE link = "none"
    <3>1. /\ UNCHANGED <<isOpen, tab, body, filter, seen, link, private, met>>
          /\ booted' = TRUE /\ timer' = (private \/ ~seen)
      BY <1>2, <2>1 DEF Boot, panelVars
    <3> QED
      BY <3>1 DEF PanelTypes
  <2>2. CASE link \in {"bare", "how", "words"}
    <3>1. ViewOf(link) \in Views /\ Open(ViewOf(link))
      BY <1>2, <2>2 DEF Boot, ViewOf, Views
    <3>2. UNCHANGED <<timer, link, private>> /\ booted' = TRUE
      BY <1>2, <2>2 DEF Boot
    <3> QED
      BY <1>0, <3>1, <3>2, Opened DEF PanelTypes
  <2>3. CASE link = "inherited"
    <3>1. /\ UNCHANGED <<body, filter, timer, link, private>>
          /\ booted' = TRUE /\ tab' = "none"
          /\ (isOpen' = TRUE /\ Remember) \/ UNCHANGED <<isOpen, seen, met>>
      BY <1>2, <2>3 DEF Boot, Highlight, Views
    <3>2. CASE isOpen' = TRUE /\ Remember
      <4>1. met' = TRUE /\ seen' \in BOOLEAN /\ (~private => seen')
        BY <3>2 DEF Remember
      <4> QED
        BY <3>1, <3>2, <4>1 DEF PanelTypes
    <3>3. CASE UNCHANGED <<isOpen, seen, met>>
      BY <3>1, <3>3 DEF PanelTypes
    <3> QED
      BY <3>1, <3>2, <3>3
  <2> QED
    BY <2>1, <2>2, <2>3 DEF PanelTypes, Links
<1>3. CASE Greet \/ ClickFab
  <2>1. Open("what") /\ UNCHANGED <<booted, link, private>>
    BY <1>3 DEF Greet, ClickFab, loadVars
  <2>2. timer' = FALSE \/ timer' = timer
    BY <1>3 DEF Greet, ClickFab
  <2>3. /\ isOpen' = TRUE /\ tab' = "what" /\ body' = "what" /\ filter' = ""
        /\ met' = TRUE /\ seen' \in BOOLEAN /\ (~private => seen')
    BY <1>0, <2>1, Opened
  <2> QED
    BY <1>0, <2>1, <2>2, <2>3 DEF PanelTypes
<1>4. ASSUME NEW view \in Views, ClickTab(view) PROVE PanelTypes' /\ Remembered'
  BY <1>0, <1>4 DEF ClickTab, Highlight, Render, loadVars, PanelTypes
<1>5. ASSUME NEW query \in Queries, Type(query) PROVE PanelTypes' /\ Remembered'
  BY <1>5 DEF Type, loadVars, PanelTypes
<1>6. CASE Close
  BY <1>6 DEF Close, loadVars, PanelTypes
<1>7. CASE OpenElsewhere
  BY <1>7 DEF OpenElsewhere, Remember, panelVars, loadVars, PanelTypes
<1>8. ASSUME UNCHANGED <<panelVars, timer, loadVars, seen, met>>
      PROVE  PanelTypes' /\ Remembered'
  BY <1>8 DEF panelVars, loadVars, PanelTypes
<1>9. CASE ClickElsewhere
  BY <1>8, <1>9 DEF ClickElsewhere
<1>10. ASSUME NEW n \in DOMAIN Page, ClickMark(n) PROVE PanelTypes' /\ Remembered'
  BY <1>8, <1>10 DEF ClickMark
<1>11. ASSUME NEW n \in DOMAIN Rewrites, NEW words \in Rewrites[n], Rewrite(n, words)
       PROVE  PanelTypes' /\ Remembered'
  BY <1>8, <1>11 DEF Rewrite
<1>12. CASE UNCHANGED vars
  BY <1>8, <1>12 DEF vars
<1> QED
  BY <1>1, <1>2, <1>3, <1>4, <1>5, <1>6, <1>7, <1>9, <1>10, <1>11, <1>12 DEF Next

(* A popup shows a term of the glossary: it copies a mark. *)
LEMMA NextPop ==
  PageOK /\ pop \in Glossary \cup {NoTerm} /\ [Next]_vars
    => pop' \in Glossary \cup {NoTerm}
<1> SUFFICES ASSUME PageOK, pop \in Glossary \cup {NoTerm}, [Next]_vars
             PROVE  pop' \in Glossary \cup {NoTerm}
  OBVIOUS
<1>1. CASE UNCHANGED pop
  BY <1>1
<1>2. CASE pop' = NoTerm
  BY <1>2
<1>3. ASSUME NEW n \in DOMAIN Page, ClickMark(n) PROVE pop' \in Glossary \cup {NoTerm}
  BY <1>3 DEF ClickMark, PageOK
<1> QED
  BY <1>1, <1>2, <1>3
     DEF Next, Reload, Boot, Greet, ClickFab, ClickTab, Type, Close, ClickElsewhere,
         Rewrite, OpenElsewhere, vars

LEMMA NextIInv == IInv /\ [Next]_vars => IInv'
<1>1. IInv <=> PageOK /\ PanelTypes /\ Remembered /\ pop \in Glossary \cup {NoTerm}
  BY DEF IInv, TypeOK, PageOK, PanelTypes
<1>2. PanelTypes => booted \in BOOLEAN
  BY DEF PanelTypes
<1>3. (IInv <=> PageOK /\ PanelTypes /\ Remembered /\ pop \in Glossary \cup {NoTerm})'
  BY DEF IInv, TypeOK, PageOK, PanelTypes
<1> QED
  BY <1>1, <1>2, <1>3, NextPageOK, NextPanel, NextPop

-------------------------------------------------------------------------------
(* The invariants *)

(* The inductive invariant holds in every reachable state. *)
THEOREM Inductive == Spec => []IInv
  BY InitIInv, NextIInv, PTL DEF Spec

(* The page, its marks and the panel keep their types, for any page and    *)
(* whatever its script writes (explain.js 265-466).                        *)
THEOREM TypeCorrect == Spec => []TypeOK
<1>1. IInv => TypeOK
  BY DEF IInv
<1> QED
  BY <1>1, Inductive, PTL

(* Of any page markTerms marks each term once, the longest first, and what *)
(* goes unmarked is beside a longer mark or was wiped out by the page.     *)
THEOREM LongestMarked == Spec => []LongestWins
<1>1. IInv => LongestWins
  BY DEF IInv
<1> QED
  BY <1>1, Inductive, PTL

(* The greeting is prepared only for a visitor who has not met the panel   *)
(* in any window so far, as long as the browser remembers (explain.js 348, *)
(* 457-459).                                                               *)
THEOREM GreetsStrangers == Spec => OnlyStrangersAwaitGreeting
<1>1. ASSUME IInv, [Next]_vars, ~timer, timer'
      PROVE  ~met \/ private
  <2>1. Boot
    BY <1>1
       DEF Next, Reload, Greet, ClickFab, ClickTab, Type, Close, ClickMark,
           ClickElsewhere, Rewrite, OpenElsewhere, vars
  <2>2. timer' = (private \/ ~seen)
    BY <1>1, <2>1 DEF Boot
  <2> QED
    BY <1>1, <2>2 DEF IInv, Remembered, TypeOK
<1>2. IInv /\ [Next]_vars => [~timer /\ timer' => ~met \/ private]_vars
  BY <1>1
<1> QED
  BY <1>2, Inductive, PTL DEF Spec, OnlyStrangersAwaitGreeting
===============================================================================
