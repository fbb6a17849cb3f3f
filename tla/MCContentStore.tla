---------------------------- MODULE MCContentStore ----------------------------
(* Listings for ContentStore: two repositories that share two authors, two *)
(* packages, a team and a commit, in opposite orders.                      *)
EXTENDS ContentStore

MCRepos == {"r1", "r2"}
MCAzureRepos == {"r2"}

MCNormal == [e \in {"", "Ann", "ann", "bob"} |-> IF e = "Ann" THEN "ann" ELSE e]

File(path, above) == [path |-> path, parent |-> above]
Commits(c, e) == [sha |-> c, author |-> e]
Uses(p, reply, cves) == [package |-> p, reply |-> reply, cves |-> cves]

\* A request opened by a deleted user, reviewed by another.
Request == [number |-> 1, author |-> "", reviewers |-> <<"bob">>, commenters |-> <<"ann", "bob">>]

MCListing ==
    [r \in MCRepos |->
       IF r = "r1"
       THEN [organization  |-> {[name |-> "o", project |-> "o"]},
             repository    |-> {[project |-> "o", team |-> {"t"}, service |-> {"s"}]},
             branches      |-> {<<"main", "dev">>},
             languages     |-> {<<>>},
             detections    |-> {<<"Django">>},
             readmes       |-> {<<File("README", "none"), File("docs/README", "README")>>},
             commits       |-> {<<Commits("c1", "Ann"), Commits("c2", "bob")>>},
             pull_requests |-> {<<Request>>},
             dependencies  |-> {<<Uses("p", "answered", {"v"})>>}]
       ELSE [organization  |-> {[name |-> "a", project |-> "x"]},
             project       |-> {[name |-> "a", project |-> "x"]},
             repository    |-> {[project |-> "x", team |-> {"t"}, service |-> {}]},
             branches      |-> {<<>>},
             languages     |-> {<<"Go">>},
             technologies  |-> {<<>>},
             readmes       |-> {<<>>},
             commits       |-> {<<Commits("c3", "bob"), Commits("c1", "ann")>>},
             pull_requests |-> {<<>>},
             dependencies  |-> {<<Uses("q", "raised", {}), Uses("p", "outage", {})>>}]]

=============================================================================
