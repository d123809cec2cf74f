------------------------------- MODULE Exhibit -------------------------------
(* The reader of a filer's list of subsidiaries (sec_ex21.py, parse_exhibit).  *)
(* A filer draws its group as a tree: by indentation, by headings over the     *)
(* sections of the list, by a column that names each company's direct parent,  *)
(* or by several of these, over printed pages that repeat a line here and a    *)
(* header there. The reader sees rows alone, one after another, and gives each *)
(* its parent back. Here the filer draws a tree, and what is read is compared  *)
(* with what was drawn. Markup, the cells of a row and the spelling of names   *)
(* and places are left out: a row has a name, a place and an indent.           *)
EXTENDS Integers, Sequences, FiniteSets, SequencesExt

CONSTANTS
  Co,         \* the companies of the group: 1 .. n, in the order they are listed first
  Styles,     \* the ways a filer draws its tree: sets of "indent", "heading", "column"
  MaxItems    \* bound: rows and headings of a list

VARIABLES
  style,      \* how this filer draws, "none" before it begins
  doc,        \* what is printed: rows, headings and page breaks
  path,       \* the line of companies the next row can hang on
  section,    \* the parent the last heading named
  drawn,      \* the tree: the parent of every company listed
  read        \* what the reader made of it

vars == <<style, doc, path, section, drawn, read>>

Filer    == 0      \* the filer, by its name
Stranger == -1     \* the filer under a name that is none of its own
Unread   == [done |-> FALSE, list |-> <<>>]
None     == -2     \* no parent, or none named

Row(co, name, place, indent, holder, again) ==
  [kind |-> "row", co |-> co, name |-> name, place |-> place, indent |-> indent,
   holder |-> holder, again |-> again]
Heading(of) == [kind |-> "heading", of |-> of]
Page(header) == [kind |-> "page", header |-> header]

Listed    == DOMAIN drawn
NextCo    == Cardinality(Listed) + 1
OwnLine   == doc # <<>> /\ \E k \in DOMAIN doc : doc[k].kind = "row" /\ doc[k].co = Filer

Init ==
  /\ style = {} /\ doc = <<>> /\ path = <<>> /\ section = Filer
  /\ drawn = <<>> /\ read = Unread

\* --- The filer draws --------------------------------------------------------

\* A list begins, with the filer's own line at its root or without; a list in
\* sections has none.
Begin(s, own) ==
  /\ doc = <<>> /\ style = {} /\ (own => "heading" \notin s)
  /\ style' = s
  /\ doc' = <<Page("own")>> \o (IF own THEN <<Row(Filer, Filer, "home", 0, None, FALSE)>> ELSE <<>>)
  /\ UNCHANGED <<path, section, drawn, read>>

Drawing == style # {} /\ read = Unread /\ Len(doc) < MaxItems

Depth(line) == IF "indent" \in style THEN Len(line) - (IF OwnLine THEN 0 ELSE 1) ELSE 0

\* The next company, under the k-th of the line above it, or under the section.
\* A company of the filer's own name is one registered elsewhere.
List(k, namesake, place, holder) ==
  LET co == NextCo
      up == IF k = 0 THEN section ELSE path[k]
      line == Append(SubSeq(path, 1, k), co)
  IN /\ Drawing /\ co \in Co /\ k <= Len(path)
     /\ k > 0 => "indent" \in style
     /\ IF "column" \in style THEN holder \in ((1 .. co + 1) \cap Co) \cup {Filer} /\ holder # co ELSE holder = None
     /\ place = "unknown" => \E j \in DOMAIN doc : doc[j].kind = "page" /\ doc[j].header = "carried"
     /\ (place = "away") = namesake
     /\ namesake => style = {"indent"} /\ ~\E j \in DOMAIN doc : doc[j].kind = "row" /\ doc[j].name = Filer /\ doc[j].co # Filer
     /\ drawn' = Append(drawn, IF holder # None THEN holder ELSE IF up \in {Stranger, co} THEN Filer ELSE up)
     /\ path' = line
     /\ doc' = Append(doc, Row(co, IF namesake THEN Filer ELSE co, place, Depth(line), holder, FALSE))
     /\ UNCHANGED <<style, section, read>>

\* A section of the list, headed by the company its rows hang on.
Headed(of) ==
  /\ Drawing /\ "heading" \in style /\ Last(doc).kind # "heading"
  /\ of \in ((1 .. NextCo) \cap Co) \cup {Filer, Stranger}
  /\ doc' = Append(doc, Heading(of)) /\ section' = of /\ path' = <<>>
  /\ UNCHANGED <<style, drawn, read>>

\* A page ends. The next one repeats the header, or a line of the tree, or neither.
Turn(header, k) ==
  /\ Drawing /\ Last(doc).kind = "row" /\ k <= Len(path)
  /\ doc' = doc \o <<Page(header)>>
            \o (IF k = 0 THEN <<>>
                ELSE LET j == CHOOSE j \in DOMAIN doc : doc[j].kind = "row" /\ doc[j].co = path[k] /\ ~doc[j].again
                     IN <<[doc[j] EXCEPT !.again = TRUE]>>)
  /\ path' = IF k = 0 THEN path ELSE SubSeq(path, 1, k)
  /\ UNCHANGED <<style, section, drawn, read>>

\* --- The reader -------------------------------------------------------------

Country(place) == place # "unknown"

\* What a heading names, unless it is the filer or nobody in particular.
NamedParent(of) == IF of = Filer THEN None ELSE of

\* One row as an entry: a parent the filer names in a column, or the section's.
Entry(row, over) ==
  LET bare == [co |-> row.co, name |-> row.name, place |-> row.place, indent |-> row.indent]
      With(parent, basis) == bare @@ [parent |-> parent, basis |-> basis]
  IN IF row.holder = Filer THEN With(None, "column")
     ELSE IF row.holder \notin {None, row.name} THEN With(row.holder, "column")
     ELSE IF over \notin {None, row.name} THEN With(over, "heading")
     ELSE With(None, "flat")

\* The rows in the order they are printed, each under the last heading; a page
\* with a header carried over is believed where half its places are places.
Entries(d) ==
  LET Over(k) == LET hs == {j \in 1 .. k : d[j].kind = "heading"}
                 IN IF hs = {} THEN None ELSE NamedParent(d[Max(hs)].of)
      PageOf(k) == Max({j \in 1 .. k : d[j].kind = "page"})
      OnPage(j) == {k \in DOMAIN d : d[k].kind = "row" /\ PageOf(k) = j}
      Sane(j) == d[j].header = "own"
                 \/ 2 * Cardinality({k \in OnPage(j) : Country(d[k].place)}) >= Cardinality(OnPage(j))
      taken == {k \in DOMAIN d : d[k].kind = "row" /\ Sane(PageOf(k))}
      order == SetToSortSeq(taken, <)
  IN [i \in DOMAIN order |-> Entry(d[order[i]], Over(order[i]))]

\* Broken form: one entry per name, whatever the place.
Once_ByName(es) ==
  FoldLeft(LAMBDA done, e : IF \E i \in DOMAIN done : done[i].name = e.name THEN done ELSE Append(done, e), <<>>, es)

\* One entry per name and place.
Once(es) ==
  FoldLeft(LAMBDA done, e : IF \E i \in DOMAIN done : done[i].name = e.name /\ done[i].place = e.place
                            THEN done ELSE Append(done, e), <<>>, es)

\* A parent named by a heading is one the list names, or the filer under
\* another name.
AsListed(es) ==
  [i \in DOMAIN es |->
     IF es[i].basis = "heading" /\ ~\E j \in DOMAIN es : es[j].name = es[i].parent
     THEN [es[i] EXCEPT !.parent = None, !.basis = "flat"] ELSE es[i]]

\* Broken form: the row just above is the parent.
Above_Last(es, i) == IF i = 1 THEN 0 ELSE i - 1

\* The nearest row above that is less indented.
Above(es, i) ==
  LET less == {j \in 1 .. i - 1 : es[j].indent < es[i].indent}
  IN IF less = {} THEN 0 ELSE Max(less)

\* The parents an indented list draws, if it draws a tree: three rows indented
\* at least, and each under another one. A named parent beats a drawn one; what
\* hangs on the filer's own line hangs on the filer.
Indented(es) ==
  LET base == Min({es[i].indent : i \in DOMAIN es})
      deep == {i \in DOMAIN es : es[i].indent > base}
      Root(j) == es[j].indent = base /\ es[j].name = Filer
      tree == Len(es) >= 4 /\ Cardinality(deep) >= 3
  IN [i \in DOMAIN es |->
        IF ~tree \/ es[i].basis = "column" THEN es[i]
        ELSE IF i \in deep
        THEN LET j == Above(es, i)
             IN [es[i] EXCEPT !.parent = IF Root(j) THEN None ELSE es[j].name, !.basis = "indent"]
        ELSE IF es[i].name = Filer THEN [es[i] EXCEPT !.basis = "indent"] ELSE es[i]]

\* The filer's own row goes, a namesake registered elsewhere stays.
WithoutOwn(es) ==
  LET Own(e) == e.name = Filer /\ e.place = "home"
      kept   == SelectSeq(es, LAMBDA e : ~Own(e))
      gone   == {es[i].name : i \in {j \in DOMAIN es : Own(es[j])}} \ {kept[i].name : i \in DOMAIN kept}
  IN [i \in DOMAIN kept |-> IF kept[i].parent \in gone THEN [kept[i] EXCEPT !.parent = None] ELSE kept[i]]

\* The whole list is read.
Read ==
  /\ style # {} /\ read = Unread /\ drawn # <<>>
  /\ LET es == Once(Entries(doc))
     IN read' = [done |-> TRUE, list |-> IF es = <<>> THEN <<>> ELSE WithoutOwn(Indented(AsListed(es)))]
  /\ UNCHANGED <<style, doc, path, section, drawn>>

Next ==
  \/ \E s \in Styles, own \in BOOLEAN : Begin(s, own)
  \/ \E k \in 0 .. MaxItems, namesake \in BOOLEAN, place \in {"home", "away", "unknown"}, holder \in Co \cup {Filer, None} :
       List(k, namesake, place, holder)
  \/ \E of \in Co \cup {Filer, Stranger} : Headed(of)
  \/ \E header \in {"own", "carried"}, k \in 0 .. MaxItems : Turn(header, k)
  \/ Read

Spec == Init /\ [][Next]_vars

\* --- Properties -------------------------------------------------------------

PrintedAs(co) == IF \E k \in DOMAIN doc : doc[k].kind = "row" /\ doc[k].co = co /\ doc[k].name = Filer THEN Filer ELSE co

\* A company and all it hangs on.
Line(co) ==
  LET up[n \in 0 .. Cardinality(Co)] ==
        IF n = 0 THEN {co} ELSE LET below == up[n - 1] IN below \cup {drawn[c] : c \in below \cap Listed}
  IN up[Cardinality(Co)]

\* A page without a header, most of whose places are none, is taken for another
\* kind of table.
EveryPageRead ==
  LET es == Entries(doc)
      kept == {es[i].co : i \in DOMAIN es}
  IN \A k \in DOMAIN doc : doc[k].kind = "row" => doc[k].co \in kept

\* The parent read is the one drawn. Where fewer than three rows are indented
\* the list counts as flat, and a row may be read under a company higher up; a
\* parent that is not listed itself is nobody a row can hang on. A company of the
\* filer's name at the root is taken for the filer by the rows drawn under it.
ReadRight(e) ==
  LET drawnAs == drawn[e.co]
      tree == Cardinality({k \in DOMAIN doc : doc[k].kind = "row" /\ ~doc[k].again /\ doc[k].indent > 0}) >= 3
  IN \/ e.parent = IF drawnAs = Filer THEN None ELSE PrintedAs(drawnAs)
     \/ e.parent = None /\ (drawnAs \notin Listed \/ PrintedAs(drawnAs) = Filer)
     \/ ~tree /\ e.parent \in {IF c = Filer THEN None ELSE PrintedAs(c) : c \in Line(drawnAs)}

\* A list is read as it was drawn, however it was drawn and wherever its pages
\* end: every company once, the filer itself never, each under its own parent.
TreeRead ==
  read # Unread /\ EveryPageRead =>
    /\ \A co \in Listed : Cardinality({i \in DOMAIN read.list : read.list[i].co = co}) = 1
    /\ \A i \in DOMAIN read.list : read.list[i].co \in Listed /\ ReadRight(read.list[i])
=============================================================================
