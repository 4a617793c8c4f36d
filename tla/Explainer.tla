------------------------------ MODULE Explainer ------------------------------
(***************************************************************************)
(* The explainer of the two pages: static/explain.js, the same file beside *)
(* the console and the dashboard.  It opens a panel with three views,      *)
(* greets a first visitor with it after a pause, underlines glossary terms *)
(* in the page's text and pops up their definitions.  The page's own       *)
(* script goes on rewriting some of that text.                             *)
(*                                                                         *)
(* Text is a sequence of words.  Markup, styles, the wording of the views  *)
(* and the matching of the filter are left out; so are text nodes inside   *)
(* controls and nodes the page adds later, which are never underlined.     *)
(***************************************************************************)
EXTENDS Integers, Sequences

CONSTANTS
  Page,       \* the text nodes of the page as it is loaded
  Rewrites,   \* per node that the page's script writes, what it may write
  Queries     \* what may be typed into the filter

ASSUME ExplainerAssumption ==
  /\ Page \in Seq(Seq(STRING))
  /\ DOMAIN Rewrites \subseteq DOMAIN Page
  /\ "" \in Queries

VARIABLES
  text,      \* the text nodes
  marks,     \* per node, the term underlined in it
  pop,       \* the term whose definition is popped up
  isOpen,    \* whether the panel is on
  tab,       \* the highlighted tab
  body,      \* the view in the panel
  filter,    \* what the filter of the words view says
  timer,     \* whether the greeting is due
  booted,    \* whether boot has run since the page was loaded
  link,      \* the fragment the page was loaded with
  private,   \* whether localStorage refuses to be used
  seen,      \* localStorage has the key
  met        \* ghost: the panel has been opened, in whatever window

panelVars == <<isOpen, tab, body, filter>>
loadVars == <<booted, link, private>>
vars == <<text, marks, pop, panelVars, timer, loadVars, seen, met>>

-------------------------------------------------------------------------------
(* Terms and marks *)

(* A key of the glossary: its place in the file, its words, its length.    *)
Term(at, words, chars) == [at |-> at, words |-> words, chars |-> chars]

Glossary == {
  Term(1, <<"rate", "limiter">>, 12),   Term(2, <<"token", "bucket">>, 12),
  Term(3, <<"sliding", "window">>, 14), Term(4, <<"fixed", "window">>, 12),
  Term(5, <<"burst">>, 5),              Term(6, <<"tier">>, 4),
  Term(7, <<"quota">>, 5),              Term(8, <<"throttled">>, 9),
  Term(9, <<"429">>, 3),                Term(10, <<"breaker">>, 7),
  Term(11, <<"fail", "policy">>, 11),   Term(12, <<"p95">>, 3),
  Term(13, <<"p99">>, 3),               Term(14, <<"throughput">>, 10),
  Term(15, <<"redis">>, 5),             Term(16, <<"gateway">>, 7),
  Term(17, <<"anonymous">>, 9) }

NoTerm == Term(0, <<>>, 0)

(* Longest first, and as in the file among terms of one length. *)
Before(s, t) == s.chars > t.chars \/ (s.chars = t.chars /\ s.at < t.at)

Occurs(term, words) ==
  \E i \in 1..(Len(words) - Len(term.words) + 1) :
    SubSeq(words, i, i + Len(term.words) - 1) = term.words

FirstOf(terms) ==
  IF terms = {} THEN NoTerm
  ELSE CHOOSE t \in terms : \A u \in terms : ~Before(u, t)

(* Mutant: every node gets a mark, whatever is marked already. *)
MarkAgain(done, words) == FirstOf({t \in Glossary : Occurs(t, words)})

(* One text node: the first term, longest first, that is in it and not     *)
(* done yet.  The node is split there and not looked at again.             *)
MarkOf(done, words) == FirstOf({t \in Glossary \ done : Occurs(t, words)})

DoneAfter(done, words) == done \cup ({MarkOf(done, words)} \ {NoTerm})

(* The terms done after each node, in document order. *)
Done(nodes) ==
  LET done[n \in 0..Len(Page)] ==
        IF n = 0 THEN {} ELSE DoneAfter(done[n - 1], nodes[n])
  IN  done

MarkTerms(nodes) == [n \in DOMAIN Page |-> MarkOf(Done(nodes)[n - 1], nodes[n])]

-------------------------------------------------------------------------------
Views == {"what", "how", "words"}
Links == {"none", "bare", "how", "words", "inherited"}

(* What a node of the page may say. *)
Texts(n) == {Page[n]} \cup (IF n \in DOMAIN Rewrites THEN Rewrites[n] ELSE {})

TypeOK ==
  /\ text \in [DOMAIN Page -> UNION {Texts(n) : n \in DOMAIN Page}]
  /\ \A n \in DOMAIN Page : text[n] \in Texts(n)
  /\ marks \in [DOMAIN Page -> Glossary \cup {NoTerm}]
  /\ pop \in Glossary \cup {NoTerm}
  /\ {isOpen, timer, booted, private, seen, met} \subseteq BOOLEAN
  /\ tab \in Views \cup {"none"}
  /\ body \in Views
  /\ filter \in Queries
  /\ link \in Links

Unmarked == [n \in DOMAIN Page |-> NoTerm]

(* The page as the browser loads it; explain.js runs a little later. *)
Init ==
  /\ text = Page /\ marks = Unmarked /\ pop = NoTerm
  /\ isOpen = FALSE /\ tab = "what" /\ body = "what" /\ filter = ""
  /\ timer = FALSE
  /\ booted = FALSE /\ link \in Links
  /\ private \in BOOLEAN
  /\ seen = FALSE
  /\ met = FALSE

(* A tab is highlighted if it has the name of the view. *)
Highlight(view) == tab' = IF view \in Views THEN view ELSE "none"

(* The view is drawn; the words start unfiltered. *)
Render(view) == body' = view /\ filter' = ""

Remember == seen' = (seen \/ ~private) /\ met' = TRUE

(* Mutant: nobody remembers. *)
OpenForgetful(view) ==
  /\ Highlight(view)
  /\ Render(view)
  /\ isOpen' = TRUE
  /\ met' = TRUE
  /\ UNCHANGED seen

Open(view) ==
  /\ Highlight(view)
  /\ Render(view)
  /\ isOpen' = TRUE
  /\ Remember

(* Mutant: a link without a view is taken at its word. *)
ViewAsLinked(l) == l

ViewOf(l) == IF l = "bare" THEN "what" ELSE l

(* The page is loaded again. *)
Reload ==
  /\ text' = Page /\ marks' = Unmarked /\ pop' = NoTerm
  /\ isOpen' = FALSE /\ tab' = "what" /\ body' = "what" /\ filter' = ""
  /\ timer' = FALSE
  /\ booted' = FALSE /\ link' \in Links
  /\ UNCHANGED <<private, seen, met>>

(* boot: a link opens the panel at its view; without one a visitor who has *)
(* not seen it is greeted in a while.  A link that names a property every  *)
(* object inherits finds a "view" without a tab that draws nothing, or     *)
(* cannot be called: then boot ends before the panel is on.                *)
Boot ==
  /\ ~booted
  /\ booted' = TRUE
  /\ marks' = MarkTerms(text)
  /\ \/ /\ link = "none"
        /\ timer' = (private \/ ~seen)
        /\ UNCHANGED <<panelVars, seen, met>>
     \/ /\ link \in {"bare", "how", "words"}
        /\ Open(ViewOf(link))
        /\ UNCHANGED timer
     \/ /\ link = "inherited"
        /\ Highlight(link)
        /\ (isOpen' = TRUE /\ Remember) \/ UNCHANGED <<isOpen, seen, met>>
        /\ UNCHANGED <<body, filter, timer>>
  /\ UNCHANGED <<text, pop, link, private>>

(* The greeting, whatever the visitor has done in the meantime. *)
Greet ==
  /\ timer
  /\ timer' = FALSE
  /\ Open("what")
  /\ UNCHANGED <<text, marks, pop, loadVars>>

-------------------------------------------------------------------------------
(* The visitor.  Every click outside a mark also takes the popup away. *)

ClickFab ==
  /\ booted
  /\ Open("what")
  /\ pop' = NoTerm
  /\ UNCHANGED <<text, marks, timer, loadVars>>

ClickTab(view) ==
  /\ isOpen
  /\ Highlight(view)
  /\ Render(view)
  /\ pop' = NoTerm
  /\ UNCHANGED <<text, marks, isOpen, timer, loadVars, seen, met>>

(* renderWords, for every key typed into the filter. *)
Type(query) ==
  /\ isOpen
  /\ body = "words"
  /\ filter' = query
  /\ UNCHANGED <<text, marks, pop, isOpen, tab, body, timer, loadVars, seen, met>>

(* The cross, the scrim or the Escape key. *)
Close ==
  /\ booted
  /\ isOpen' = FALSE
  /\ pop' = NoTerm
  /\ UNCHANGED <<text, marks, tab, body, filter, timer, loadVars, seen, met>>

(* showPop: an open panel's scrim covers the marks. *)
ClickMark(n) ==
  /\ ~isOpen
  /\ marks[n] # NoTerm
  /\ pop' = marks[n]
  /\ UNCHANGED <<text, marks, panelVars, timer, loadVars, seen, met>>

ClickElsewhere ==
  /\ pop # NoTerm
  /\ pop' = NoTerm
  /\ UNCHANGED <<text, marks, panelVars, timer, loadVars, seen, met>>

-------------------------------------------------------------------------------
(* The surroundings *)

(* The page's script writes a text: a mark in it is gone. *)
Rewrite(n, words) ==
  /\ text' = [text EXCEPT ![n] = words]
  /\ marks' = [marks EXCEPT ![n] = NoTerm]
  /\ UNCHANGED <<pop, panelVars, timer, loadVars, seen, met>>

(* The panel is opened in another window of the same origin. *)
OpenElsewhere ==
  /\ Remember
  /\ UNCHANGED <<text, marks, pop, panelVars, timer, loadVars>>

Next ==
  \/ Reload \/ Boot \/ Greet \/ ClickFab \/ Close \/ ClickElsewhere \/ OpenElsewhere
  \/ \E view \in Views : ClickTab(view)
  \/ \E query \in Queries : Type(query)
  \/ \E n \in DOMAIN Page : ClickMark(n)
  \/ \E n \in DOMAIN Rewrites : \E words \in Rewrites[n] : Rewrite(n, words)

Spec == Init /\ [][Next]_vars

-------------------------------------------------------------------------------
(* Properties *)

(* "Wrap the first occurrence of each glossary term" (explain.js 393), as  *)
(* far as the code goes: no term is marked twice, and in a text as it was  *)
(* at boot a term goes unmarked everywhere only beside a mark of a term    *)
(* that is not shorter, or because the page's script wiped its mark out.   *)
LongestWins ==
  booted =>
    /\ \A m, n \in DOMAIN Page : m # n /\ marks[m] = marks[n] => marks[m] = NoTerm
    /\ \A n \in DOMAIN Page \ DOMAIN Rewrites : \A t \in Glossary :
         Occurs(t, text[n]) =>
           \/ \E m \in DOMAIN Page : marks[m] = t
           \/ marks[n].chars >= t.chars
           \/ \E m \in DOMAIN Rewrites : \E words \in Texts(m) : Occurs(t, words)

(* The greeting is prepared only for a visitor who has not met the panel   *)
(* so far, in this window or another, now or before the page was loaded    *)
(* again, unless the browser does not remember (explain.js 348, 457-459).  *)
(* Meeting it afterwards, in the 600 ms until the greeting, does not call  *)
(* the greeting off.                                                       *)
OnlyStrangersAwaitGreeting == [][~timer /\ timer' => ~met \/ private]_vars
===============================================================================
