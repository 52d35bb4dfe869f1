-------------------------- MODULE MCTimoniModule ----------------------------
(* Small instances of TimoniModule.                                           *)
EXTENDS TimoniModule, TLC

T(file, kind, name) == [file |-> file, kind |-> kind, name |-> name]

D(file) == T(file, "Deployment", "d")
S(file, name) == T(file, "Service", name)

(* Runs of one template and of two; a file shared by two templates; one label *)
(* or one type for two names; a name whose label is no identifier, one whose  *)
(* type is none, one that gives the type of config.cue's own #Instance, one   *)
(* that gives its field config; a template in config.cue; one type in         *)
(* different files of two runs.                                               *)
MCInputs ==
    {<< >>, <<S("a.cue", "a")>>, <<S("deployment.cue", "a")>>,
     <<D("deployment.cue"), S("a.cue", "a")>>,
     <<S("a.cue", "a"), T("a.cue", "ConfigMap", "b")>>,
     <<S("deployment.cue", "a-b"), S("a.cue", "ab")>>,
     <<S("deployment.cue", "a-b"), S("a.cue", "a_b")>>,
     <<S("a.cue", "a.b")>>, <<S("a.cue", "1")>>,
     <<S("a.cue", "instance")>>, <<S("a.cue", "con-fig")>>,
     <<S("a.cue", "a"), S("config.cue", "b")>>}
MCTemplateFiles == {"deployment.cue", "a.cue", "config.cue"}
MCCamel ==
    "a" :> "A" @@ "b" :> "B" @@ "ab" :> "Ab" @@ "a-b" :> "AB" @@ "a_b" :> "AB"
    @@ "a.b" :> "AB" @@ "1" :> "1" @@ "instance" :> "Instance" @@ "con-fig" :> "ConFig"
MCDashless ==
    "a" :> "a" @@ "b" :> "b" @@ "ab" :> "ab" @@ "a-b" :> "ab" @@ "a_b" :> "a_b"
    @@ "a.b" :> "a.b" @@ "1" :> "1" @@ "instance" :> "instance" @@ "con-fig" :> "config"
MCIdentifiers ==
    {"a", "b", "ab", "a_b", "instance", "config", "deploy",
     "A", "B", "Ab", "AB", "Instance", "ConFig"}

(* For the runs on what the documents say of the result.                     *)
OneObject == {<<T("a.cue", "Service", "a")>>}
TwoDeployments ==
    {<<T("deployment.cue", "Deployment", "d1"), T("deployment.cue", "Deployment", "d2")>>}
FilesOfOne == {"a.cue"}
FilesOfDeployments == {"deployment.cue"}
=============================================================================
