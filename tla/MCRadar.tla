-------------------------------- MODULE MCRadar --------------------------------
(* Two repositories of a service that use two packages, in versions below and *)
(* above a fix and without one.  The advisory on one of the packages has a    *)
(* fix, or two fixes and no CVE number, or a score that is not readable.      *)
EXTENDS Radar

MCRepos == {"r1", "r2"}
MCPackages == {"p", "q"}
MCServices == [s \in {"s"} |-> {"r1"}]

Uses(p, v) == [package |-> p, version |-> v, dev |-> FALSE]
DevUses(p, v) == [package |-> p, version |-> v, dev |-> TRUE]
File(deps) == [parses |-> TRUE, fits |-> TRUE, declares |-> deps]
Broken == [parses |-> FALSE, fits |-> TRUE, declares |-> <<Uses("q", 1)>>]

MCManifests ==
    [r \in MCRepos |->
       IF r = "r1"
       THEN {Outage, <<File(<<Uses("p", 9)>>), File(<<DevUses("p", 10)>>), Broken>>}
       ELSE {<<File(<<DevUses("p", 9), Uses("p", 9)>>), File(<<Uses("p", 10), Uses("q", NoVersion)>>)>>}]

Advisory(cve, score, fixed) ==
    [id |-> "a", cve |-> cve, score |-> score, introduced |-> 1, fixed |-> fixed]

MCAdvisories ==
    [p \in MCPackages |->
       IF p = "p" THEN {Advisory("cve", 7, {10}), Advisory(NoCve, 9, {8, 10}),
                        Advisory("cve", Unreadable, {10})}
                  ELSE {}]

MCReleases == [v \in {9} |-> 1]

MCExclusions == {{}, {"p"}}

=============================================================================
