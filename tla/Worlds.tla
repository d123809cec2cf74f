------------------------------- MODULE Worlds -------------------------------
(* The small worlds of the runs: what sources say of a few persons, and what a *)
(* few Wikidata pages and GLEIF's old files list.                             *)
EXTENDS TLC

Name(words, mark, given) == [words |-> words, mark |-> mark, given |-> given]
Sighted(by, full, also, cik, qid, birth, ent) ==
  [by |-> by, full |-> full, also |-> also, cik |-> cik, qid |-> qid, birth |-> birth, ent |-> ent]

\* A name with and without an initial, its son's, two filers' and two items'.
Namesakes == {
  Sighted("sec", Name("tm", "none", "last"), {}, "c1", "none", "none", "A"),
  Sighted("sec", Name("tom m", "none", "last"), {}, "c2", "none", "none", "A"),
  Sighted("wikidata", Name("tm", "none", "first"), {Name("tom m", "none", "first")}, "none", "q1", "b9", "A"),
  Sighted("wikidata", Name("tm", "jr", "first"), {Name("tm", "none", "first")}, "none", "q2", "b7", "A"),
  Sighted("sec", Name("tm", "none", "first"), {}, "none", "none", "none", "B"),
  Sighted("sec", Name("tm", "sr", "last"), {}, "c3", "none", "none", "A")}

\* Three spellings of one name at one company.
Spellings == {
  Sighted("sec", Name("tm", "none", "last"), {}, "c1", "none", "none", "A"),
  Sighted("wikidata", Name("tm", "none", "first"), {Name("tm", "none", "more")}, "none", "q1", "none", "A"),
  Sighted("sec", Name("tm", "none", "more"), {}, "none", "none", "none", "A")}

\* A parent with a brand, a blank page and two statements of one holding, and a
\* subsidiary met at two depths.
Pages == ("t" :> <<"u", "o", "a", "a", "b", "c">>) @@ ("a" :> <<"b", "b", "t">>) @@ ("b" :> <<"d", "p">>)
         @@ ("c" :> <<"d">>) @@ [i \in {"d", "u", "o", "p"} |-> <<>>]
PageOwners == [i \in DOMAIN Pages |-> IF i = "b" THEN {"a", "u"} ELSE {}]

AskFor(own, cik, lei, hits, plain) == [own |-> own, cik |-> cik, lei |-> lei, hits |-> hits, plain |-> plain]
Questions == {
  AskFor("t", {}, {}, <<>>, {}), AskFor("none", {"t", "p"}, {"a"}, <<>>, {}),
  AskFor("none", {}, {}, <<"p", "u">>, {}), AskFor("p", {}, {}, <<"p">>, {"o"}),
  AskFor("none", {}, {}, <<"p">>, {})}

\* Who may hold whom below a root, with a cross-holding.
Below == {<<"r", "a">>, <<"r", "b">>, <<"a", "b">>, <<"b", "a">>, <<"b", "c">>, <<"a", "c">>}

\* A chain, the holding it makes redundant, and one back.
Chain == {<<"a", "b">>, <<"b", "c">>, <<"a", "c">>, <<"c", "b">>}

\* What GLEIF's monthly files say of two companies and, the other way round, of
\* the child and its own subsidiary: relationships that begin, change and end,
\* and a file that is short.
Rel(pair, marker, since, until) == [pair |-> pair, marker |-> marker, since |-> since, until |-> until]
Up   == <<"p", "c">>
Down == <<"c", "d">>
Copied(says, length) == [says |-> says, length |-> length]
Monthly == {
  Copied({Rel(Down, "indirect", 0, 0)}, 20),
  Copied({Rel(Up, "direct", 1, 0), Rel(Up, "indirect", 2, 0)}, 20),
  Copied({Rel(Up, "indirect", 0, 0)}, 18),
  Copied({Rel(Up, "direct", 3, 0), Rel(Up, "direct", 1, 2)}, 20),
  Copied({Rel(Up, "indirect", 1, 3)}, 15)}

\* A group whose head, branch, twin record and later namesake share a name, its
\* corporate owner in the UK register; a filer that took its parent's name when
\* the subsidiary of that name was split off, and an old record of neither.
Titled(stem, form)    == [stem |-> stem, form |-> form]
Seated(country, state) == [country |-> country, state |-> state]
Numbers == ("lei" :> "none") @@ ("ch" :> "none") @@ ("cik" :> "none") @@ ("qid" :> "none") @@ ("reg" :> "none")
Vertex(id, stem, cred, of) ==
  [id |-> id, name |-> [stem |-> stem], cred |-> cred, ids |-> Numbers, former |-> {}, office |-> "none",
   heads |-> {}, of |-> {of}, sure |-> TRUE]
Listed(lei, stem, of) == [Vertex(<<"lei", lei>>, stem, 92, of) EXCEPT !.ids["lei"] = lei]

Paris    == Seated("FR", "none")
Delaware == Seated("US", "DE")
BetaSa     == Titled("beta", "sa")
AcmeInc     == Titled("acme", "inc")
Words(name, place, status, buildings, born) ==
  [names |-> {name}, place |-> place, status |-> status, updated |-> 0, selfReported |-> FALSE,
   buildings |-> buildings, born |-> born, parents |-> {}, children |-> {}]
GleifSays ==
  ("head"   :> Words(BetaSa, Paris, "ISSUED", {"x"}, 1)) @@
  ("branch" :> Words(BetaSa, Paris, "ISSUED", {"x", "y"}, 1)) @@
  ("twin"   :> Words(BetaSa, Paris, "DUPLICATE", {"x"}, 1)) @@
  ("heir"   :> Words(BetaSa, Paris, "ISSUED", {"x"}, 3)) @@
  ("top"    :> Words(AcmeInc, Delaware, "ISSUED", {"u"}, 1)) @@
  ("sub"    :> [Words(AcmeInc, Delaware, "ISSUED", {"u"}, 1) EXCEPT !.parents = {[lei |-> "top", from |-> 1, until |-> 0]}]) @@
  ("past"   :> [Words(AcmeInc, Delaware, "LAPSED", {"v"}, 1) EXCEPT !.updated = 1])
EdgarKnows ==
  "c" :> [name |-> AcmeInc, former |-> {[name |-> Titled("acme holdings", "inc"), until |-> 1]}, home |-> Delaware,
          office |-> <<"u", "v">>, held |-> {}]
NoticeSays == "p" :> [name |-> BetaSa, place |-> Paris, building |-> "x", notified |-> 2]
CompanyLoads == {
  {[Listed("head", "beta", "B") EXCEPT !.heads = {"p"}], Listed("branch", "beta", "Br"), Listed("twin", "beta", "B"),
   Listed("heir", "beta", "H"), [Listed("top", "acme", "A") EXCEPT !.former = {"r2"}], Listed("sub", "acme", "S"),
   [Listed("past", "acme", "P") EXCEPT !.ids["ch"] = "h"]},
  {Vertex(<<"chpsc", "p">>, "beta", 97, "B"), [Vertex(<<"gb-coh", "h">>, "former uk", 95, "P") EXCEPT !.ids["ch"] = "h"]},
  {[Vertex(<<"sec", "c">>, "acme", 98, "A") EXCEPT !.ids["cik"] = "c", !.ids["reg"] = "r2"]}}

\* A company met under two ids, and what it owns or who owns it.
Houses == ("a1" :> "A") @@ ("a2" :> "A") @@ ("b" :> "B")

\* A sale in two rows with a trust beside it, one of two classes at once, and how many
\* shares of each there are.
Stood(class, via, n) == [class |-> class, via |-> via, n |-> n]
Sales == {
  [rows |-> <<Stood("common", "d", 6), Stood("common", "d", 1), Stood("common", "trust", 2)>>,
   left |-> [class \in {"common", "a", "b"} |-> IF class = "common" THEN 3 ELSE 0]],
  [rows |-> <<Stood("a", "d", 4), Stood("a", "d", 2), Stood("b", "d", 30)>>,
   left |-> ("common" :> 0) @@ ("a" :> 2) @@ ("b" :> 30)]}
Issued == ("common" :> 8) @@ ("a" :> 8) @@ ("b" :> 40)

=============================================================================
