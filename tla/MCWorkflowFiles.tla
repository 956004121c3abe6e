--------------------------- MODULE MCWorkflowFiles ---------------------------
(* Inputs of WorkflowFiles for TLC, in five families, each of which varies a *)
(* few strings of a small document: expansion, payloads, outputs, target and *)
(* display.                                                                  *)
EXTENDS WorkflowFiles, TLC

Ref(name) == <<"$", "{", name, "}">>
OneOf(path, values) == {path :> v : v \in values}
Both(texts, others) == {s @@ t : s \in texts, t \in others}
Strings(tokens, most) == UNION {[1 .. k -> tokens] : k \in 0 .. most}

NoFlags == [gateway |-> <<>>, workspace |-> <<>>, name |-> <<>>, agent |-> <<>>, outputDir |-> TRUE]
NoEnv == [v \in {} |-> <<>>]
NamedX == <<"name">> :> <<"x">>

Document(t) == [form |-> "v1", text |-> t, optional |-> {2}, keep |-> FALSE, tty |-> FALSE]
Command(c, t, env) == [command |-> c, doc |-> Document(t), flags |-> NoFlags, env |-> env]

\* Every string of five tokens as the name; the value of A looks like a
\* reference itself, x is not set.
ExpansionInputs ==
    {Command("show", t, <<"A">> :> Ref("x")) :
        t \in OneOf(<<"name">>, Strings({"$", "{", "}", "A", "x"}, 5)
                                \cup {<<"$", "$">> \o Ref("A") \o Ref("A"), <<"$">> \o Ref("A") \o Ref("x"),
                                      Ref("OPENSHELL_OIDC_CLIENT_SECRET")})}
    \cup {[Command("plan", NamedX, NoEnv) EXCEPT !.doc.form = f] : f \in Forms}
    \cup {Command("show", NamedX @@ t, <<"OPENSHELL_OIDC_CLIENT_SECRET">> :> <<"secret">>) :
             t \in OneOf(<<"env", "TOKEN">>, {Ref("OPENSHELL_OIDC_CLIENT_SECRET"), <<"x">>})}

Destinations == Strings({"/", "..", "d"}, 4) \cup {<<"d", "\\", "..">>, <<"d", "/", ".">>, <<"NUL">>, <<"d", "/", "NUL">>}

PayloadInputs ==
    {Command("apply", NamedX @@ (<<"source", "repo">> :> <<"repo">>) @@ t, NoEnv) :
        t \in Both(OneOf(<<"payloads", 1, "destination">>, Destinations),
                   Both(OneOf(<<"payloads", 1, "source">>, {<<>>, <<"f">>}),
                        OneOf(<<"payloads", 1, "content">>, {<<>>, <<"text">>})))}
    \cup {Command("apply", NamedX @@ (<<"source", "repo">> :> <<"repo">>) @@ t, NoEnv) :
             t \in Both(OneOf(<<"source", "destination">>, {<<>>, <<"/", "d">>, <<"/", "..">>, <<"/", "NUL">>}),
                        Both(OneOf(<<"source", "submodules">>, {<<>>, <<"shallow">>, <<"deep">>}),
                             OneOf(<<"sandbox", "image">>, {<<>>, <<"i">>, <<"/", "i">>})))}

Box == <<"/", "sandbox">>
Sources == {Box \o <<"/", "a">>, Box \o <<"/", ".">>, Box, <<"a">>, <<>>,
            Box \o <<"/", "..", "/", "a">>, Box \o <<"/", "NUL">>, <<"/", ".">> \o Box \o <<"/", "/", "a">>}
HostPaths == {<<"a">>, <<".", "/", "a">>, <<"a", "/", "b">>, <<"a", "/", "c">>, <<"b">>, <<"a", "/">>,
              <<>>, <<".">>, <<"/", "a">>, <<"a", "\\", "..">>}

OutputInputs ==
    {Command("apply", NamedX @@ (<<"outputs", 1, "destination">> :> <<"b">>) @@ t, NoEnv) :
        t \in OneOf(<<"outputs", 1, "source">>, Sources)}
    \cup {Command("apply", NamedX @@ s @@ t, NoEnv) :
        s \in {[p \in {<<"outputs", 1, "source">>, <<"outputs", 2, "source">>} |-> Box \o <<"/", "a">>]},
        t \in Both(OneOf(<<"outputs", 1, "destination">>, HostPaths),
                   OneOf(<<"outputs", 2, "destination">>, HostPaths))}
    \cup {[Command("apply", NamedX @@ (<<"outputs", 1, "source">> :> Box \o <<"/", "a">>)
                   @@ (<<"outputs", 1, "destination">> :> <<"b">>), NoEnv) EXCEPT !.flags.outputDir = FALSE]}

Registrations ==
    {[p \in {} |-> <<>>], <<"registration", "endpoint">> :> <<"docEndpoint">>,
     (<<"registration", "endpoint">> :> <<"docEndpoint">>) @@ (<<"oidc", "issuer">> :> <<"docIssuer">>)
       @@ (<<"oidc", "clientId">> :> <<"docClient">>) @@ (<<"oidc", "audience">> :> <<"docAudience">>)}

GatewayEnvs ==
    LET names == {<<"OPENSHELL_GATEWAY_ENDPOINT">>, <<"OPENSHELL_OIDC_ISSUER">>,
                  <<"OPENSHELL_OIDC_CLIENT_ID">>, <<"OPENSHELL_OIDC_AUDIENCE">>}
    IN  {[v \in s |-> <<"env", v[1]>>] : s \in {{}, names, names \ {<<"OPENSHELL_OIDC_AUDIENCE">>}}}

TargetInputs ==
    {[Command(c, NamedX @@ (<<"agent", "type">> :> <<"run">>) @@ r @@ g, e @@ d)
        EXCEPT !.flags.gateway = f, !.flags.workspace = f, !.flags.name = f] :
        c \in {"plan", "apply"}, r \in Registrations, f \in {<<>>, <<"flagged">>},
        g \in OneOf(<<"target", "gateway">>, {<<>>, <<"documented">>}),
        e \in OneOf(<<"OPENSHELL_GATEWAY">>, {<<>>, <<"fromEnv">>}), d \in GatewayEnvs}

Values == {<<"s1">>, <<"s1", "s2">>, <<"s2">>, <<"s1", "s1">>}

\* Two interpolated strings that may contain each other, in every place where
\* the plan joins strings, with a literal one among them; a third that may
\* contain what joins them is in the sandbox's environment, which is not shown.
DisplayInputs ==
    {Command(c, NamedX @@ (<<"env", "K">> :> Ref("C")) @@ t
                @@ (<<"inference", "route">> :> <<"inference.local">>) @@ (<<"inference", "timeout">> :> <<"60s">>),
             (<<"A">> :> v) @@ (<<"B">> :> w) @@ (<<"C">> :> x)) :
        c \in {"plan", "show"}, v \in Values, w \in Values, x \in {<<"s2">>, <<" ", "s1">>, <<"s2", ",", " ", "s1">>},
        t \in {(<<"args", 1>> :> Ref("A")) @@ (<<"args", 2>> :> Ref("B")) @@ (<<"agent", "type">> :> <<"x">>)
                 @@ (<<"inference", "provider">> :> Ref("B")) @@ (<<"inference", "model">> :> Ref("A")),
               (<<"providers", 1>> :> Ref("A")) @@ (<<"providers", 2>> :> <<"x">>) @@ (<<"providers", 3>> :> Ref("B"))
                 @@ (<<"inference", "provider">> :> <<"x">>) @@ (<<"inference", "model">> :> <<"m">> \o Ref("A")),
               (<<"outputs", 1, "source">> :> Box \o <<"/">> \o Ref("A"))
                 @@ (<<"outputs", 1, "destination">> :> Ref("B") \o <<"/", ".">>)
                 @@ (<<"inference", "provider">> :> <<"x">>) @@ (<<"inference", "model">> :> <<"m">>)
                 @@ (<<"payloads", 1, "content">> :> Ref("A")) @@ (<<"payloads", 1, "destination">> :> Ref("B") \o <<"x">>)}}

AllInputs == ExpansionInputs \cup PayloadInputs \cup OutputInputs \cup TargetInputs \cup DisplayInputs

Routes == {<<"inference.local">>}
Durations == {<<"60s">>}

FileA == <<"a">>
FileB == <<"b">>
FileC == <<"c">>
FileNames == {FileA, FileB, FileC}
OneFile == <<[path |-> <<>>, kind |-> "file"]>>
Directory == <<[path |-> <<>>, kind |-> "dir"], [path |-> <<FileB>>, kind |-> "file"]>>
TwoTrees == {OneFile, Directory}
OthersPaths == {<<FileA>>, <<FileA, FileB>>, <<FileA, FileC>>}
=============================================================================
