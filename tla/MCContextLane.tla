---------------------------- MODULE MCContextLane ----------------------------
(***************************************************************************)
(* An instance of ContextLane: two sessions of one project, one of which   *)
(* another client owns, an identity memory that the query does not name,   *)
(* lessons, and a lesson of another project.                               *)
(***************************************************************************)
EXTENDS ContextLane, TLC

Fact(kind, project, subject, content) ==
  [kind |-> kind, project |-> project, subject |-> subject, content |-> content,
   importance |-> 500, updated |-> 1, tainted |-> FALSE]

MCFacts == <<
  Fact("USER_PREFERENCE", "", <<"near">>, <<"warm">>),
  Fact("LESSON", "P", <<"ember">>, <<"funds", "policy">>),
  Fact("LESSON", "Q", <<"ember">>, <<"policy">>),
  Fact("LESSON", "P", <<"ember", "money">>, <<"policy">>) >>

MCCanonical == [t \in {<<"money">>} |-> <<"funds">>]
MCNone == [a \in {} |-> {}]
MCAliases == <<>>
MCSymmetry == Permutations(Sessions) \cup Permutations(Calls)
MCQuery == <<"ember", "funds">>
=============================================================================
