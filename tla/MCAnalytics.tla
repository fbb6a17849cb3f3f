------------------------------ MODULE MCAnalytics ------------------------------
(* Two repositories of one service, and what two contributors do in them in *)
(* two months, on the days at the boundary too: y has a pull request in the *)
(* month in which the first commit of b has no author.                      *)
EXTENDS Analytics, TLC

Message(length, body) ==
    [subject |-> length, trivial |-> length = 3, body |-> body, issue |-> TRUE, imperative |-> length > 9,
     conventional |-> FALSE]
Commit(r, c, day, message) == [kind |-> "commit", repo |-> r, by |-> c, day |-> day, message |-> message]
Other(kind, r, c, day) ==
    [kind |-> kind, repo |-> r, by |-> c, day |-> day, merged |-> TRUE, approved |-> TRUE]

MCActivity ==
    {Commit("a", "x", 0, Message(30, 40)), Commit("a", "x", 2, Message(3, 0)),
     Commit("b", NoOne, 0, Message(0, 0)), Commit("b", "y", 1, Message(50, 0)),
     Other("pull", "b", "y", 0), Other("review", "a", "x", 1)}
MCServices == [s \in {"all"} |-> {"a", "b"}]
MCUsage == {[all |-> {"p"}, exposed |-> {"p"}]}
Symmetry == Permutations(Workers)

=============================================================================
