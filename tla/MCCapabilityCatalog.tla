------------------------ MODULE MCCapabilityCatalog -------------------------
(* An instance of CapabilityCatalog for TLC: one provider, the term "lp"    *)
(* and two capabilities whose bodies differ in all the ranking looks at.    *)
EXTENDS CapabilityCatalog, TLC

SmallProviders == {[status |-> "active", kind |-> "self"], [status |-> "inactive", kind |-> "self"]}

Body(status, tags, precision, text) ==
    [status |-> status, provider_id |-> 1, task_type |-> "lp", tags |-> tags, supported_solvers |-> {"highs"},
     model_version |-> [semver |-> <<1, text, 0>>, text |-> text],
     metadata |-> [matching |-> precision, precision |-> Absent]]

Term(status, refs, named) ==
    [status |-> status, refs |-> refs, aliases |-> [t \in Tags |-> IF t \in named THEN "active" ELSE "none"]]

SmallTerms == {Term("active", {}, {"x"}), Term("active", {"lp"}, {}), Term("deprecated", {}, {}), Term("active", {}, {"lp"})}

SmallCapabilities == {Body("v1", {"lp"}, One, 1), Body("v1", {"lp", "x"}, Absent, 2), Body("shadow", {"x"}, Invalid, 1)}

SmallKeys == {<<"capability", "t", 1>>, <<"equivalents", "t", 1>>}

(* The vocabulary starts with the active term "lp", with or without "x" as  *)
(* its alias; the provider may or may not be configured for all tenants.    *)
MCInit ==
    \E x \in {NoAlias, [status |-> "active", canonical |-> "lp"]},
       provider \in {NoProvider, [status |-> "active", kind |-> "self"]} :
        InitCatalog([p \in ProviderIds |-> provider],
                    [t \in Tags |-> IF t = "lp" THEN [status |-> "active", refs |-> {}] ELSE NoTerm],
                    [t \in Tags |-> IF t = "x" THEN x ELSE NoAlias])

MCSpec == MCInit /\ [][Next]_vars /\ Fairness
=============================================================================
