------------------------------ MODULE MCExtractors ------------------------------
(* A scope with two repositories and a third to come; the first of them, a, has  *)
(* two commits and two revisions: a tree with two READMEs in the root and more    *)
(* below, and one with an empty README, and a README and a manifest that are not  *)
(* UTF-8 beside others that are.                                                  *)
EXTENDS Extractors

MCRepos == {"a", "b", "c"}
MCOrgs == {<<"a", "b">>}
MCTrees ==
    [r \in MCRepos |->
       IF r = "a"
       THEN << << <<"README.md">>, <<"README.txt">>, <<"src", "x", "README.md">>, <<"package.json">> >>,
               << <<"src", "README.md">>, <<"README.rst">>, <<"README">>, <<"package.json">>, <<"setup.py">>,
                  <<"lib.py">> >> >>
       ELSE << << >> >>]

MCFirstCommits == [r \in MCRepos |-> IF r = "a" THEN 2 ELSE 1]

MCSegments == {"README.md", "README.rst", "README.txt", "README", "src", "x", "package.json", "setup.py", "lib.py"}
MCReadmes == {"README.md", "README.rst", "README.txt", "README"}
MCEcosystem == [n \in {"package.json", "setup.py"} |-> IF n = "setup.py" THEN "pypi" ELSE "npm"]
MCProjectFile == [n \in {"package.json"} |-> "JavaScript"]
MCExtension == [n \in {"lib.py"} |-> "Python"]
MCReveals == [n \in {"package.json"} |-> {"npm"}]

Comment(author, kind) == [author |-> author, kind |-> kind]
Reviewer(email, vote, date, state) == [email |-> email, vote |-> vote, date |-> date, state |-> state]
MCPulls ==
    [p \in {"github", "azure_devops"} |->
       LET threads == <<Comment("x", "text"), Comment("z", "text"), Comment("x", "system")>>
           reviewers == <<Reviewer("x", 10, 2, "APPROVED")>>
       IN  IF p = "github"
           THEN << [state |-> "closed", created |-> 1, merged |-> 3, closed |-> 3, changes |-> 1,
                    threads |-> threads, reviewers |-> reviewers] >>
           ELSE << [status |-> "completed", created |-> 1, queued |-> 2, closed |-> 3, changes |-> 1,
                    threads |-> threads, reviewers |-> reviewers],
                   [status |-> "active", created |-> 1, queued |-> NoDate, closed |-> NoDate, changes |-> 0,
                    threads |-> <<>>, reviewers |-> <<Reviewer("y", 0, 1, "")>>] >>]

=============================================================================
