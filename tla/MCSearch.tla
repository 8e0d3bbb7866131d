------------------------------ MODULE MCSearch ------------------------------
(***************************************************************************)
(* An instance of Search: a small corpus with two names of which one is    *)
(* the beginning of the other, an exact subject in two projects, a pair    *)
(* that only the id tells apart, a memory that policy keeps back, and a    *)
(* term that more memories hold than a candidate query returns.            *)
(***************************************************************************)
EXTENDS Search

Fact(kind, project, subject, content, importance) ==
  [kind |-> kind, project |-> project, subject |-> subject, content |-> content,
   importance |-> importance, updated |-> 1, tainted |-> FALSE]

MCFacts == <<
  Fact("USER_PREFERENCE", "", <<"c1", "c2">>, <<"ember", "warm", "policy">>, 800),
  Fact("LESSON", "P", <<"ember">>, <<"policy">>, 500),
  Fact("LESSON", "P", <<"backup", "key7">>, <<"policy", "warm">>, 200),
  Fact("LESSON", "P", <<"backup", "key7">>, <<"policy", "warm">>, 200),
  Fact("PERSONAL_GOAL", "", <<"c1", "c2", "c3", "c4">>, <<"bank", "ember", "policy">>, 800),
  [Fact("LESSON", "", <<"ember">>, <<"policy">>, 800) EXCEPT !.tainted = TRUE],
  Fact("LESSON", "Q", <<"ember">>, <<"c3", "c4">>, 500) >>

MCAliases == <<
  [canonical |-> <<"c1", "c2">>, aliases |-> << <<"ember">>, <<"live", "ember">> >>],
  [canonical |-> <<"c1", "c2", "c3", "c4">>, aliases |-> << <<"warm", "near", "bank">> >>] >>

MCSynonyms == [a \in {"backup", "copy"} |-> IF a = "copy" THEN {"backup"} ELSE {"copy"}]

MCCanonical == [t \in {<<"near">>} |-> <<"warm">>]

MCQueries == { <<"ember">>, <<"the", "policy">>, <<"copy", "key7">>, <<"warm", "near", "bank">>,
               <<"c1", "c2", "c3", "c4", "c5">> }

\* The vectors find the names a query is about, and one memory of it weakly.
MCCosine == [q \in MCQueries |-> [m \in 1 .. 7 |->
               CASE m = 5 -> 800 [] m \in {2, 3, 7} -> 700 [] m = 6 -> 900 [] OTHER -> 0]]
=============================================================================
