---- MODULE MCAssociations ----
(* Four queries: two rows of one author who is shown eagerly and lazily;    *)
(* one row that shows its author and the list of the author's posts, where a *)
(* user's loader of the first loads the second; a composite column that is   *)
(* NULL in part or altogether; and one that names a column rows do not have. *)
EXTENDS Associations, TLC

CONSTANTS a, t, nil, g1, g2

Author(isLazy) == [select |-> "author", load |-> "T", lazy |-> isLazy,
                   composite |-> FALSE, sources |-> <<"author">>]
Posts == [select |-> "author", load |-> "list", lazy |-> TRUE,
          composite |-> FALSE, sources |-> <<"author">>]
Team == [select |-> "team", load |-> "T", lazy |-> FALSE, composite |-> TRUE,
         sources |-> <<"author", "team">>]
Missing == [Team EXCEPT !.sources = <<"author", "missing">>]

NoLoads == [cell \in (1..2) \X (1..3) |-> nil]
Row(author, team) == [author |-> author, team |-> team]

MCQueries ==
    {[rows |-> <<Row(a, t), Row(a, nil)>>, plans |-> <<Author(FALSE), Author(TRUE)>>,
      loads |-> NoLoads],
     [rows |-> <<Row(a, t)>>, plans |-> <<Posts, Author(TRUE)>>,
      loads |-> [NoLoads EXCEPT ![1, 2] = <<1, 1>>]],
     [rows |-> <<Row(a, nil), Row(nil, nil)>>, plans |-> <<Team, Author(TRUE)>>, loads |-> NoLoads],
     [rows |-> <<Row(a, t)>>, plans |-> <<Author(FALSE), Missing>>, loads |-> NoLoads]}
MCCallers == {g1, g2}
====
