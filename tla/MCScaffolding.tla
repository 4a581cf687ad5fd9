---------------------------- MODULE MCScaffolding ----------------------------
EXTENDS Scaffolding, TLC

CONSTANTS run1, run2, command1, command2

\* Packages of the repository: the tools, a package of the templates, a sample.
MCFound == <<"create-dolittle-app", "create-dolittle-microservice", "web", "Shop">>
MCDependencies ==
  "create-dolittle-app" :> {"create-dolittle-microservice"}
    @@ "create-dolittle-microservice" :> {} @@ "web" :> {} @@ "Shop" :> {"web"}
\* pascalCase leaves the hyphen out.
MCDirectory == "Portal" :> "Portal" @@ "Portal-" :> "Portal" @@ "Shop" :> "Shop"
MCSymmetry == Permutations(Runs) \cup Permutations(Commands)
=============================================================================
