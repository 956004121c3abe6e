-------------------------- MODULE WorkflowDocument --------------------------
(***************************************************************************)
(* A workflow document from its file to the values that plan and apply     *)
(* use: parsing (config/parse.go), resolution (config/env.go), the choice  *)
(* of the target (cmd/workflow.go, openshell/target.go, sdkclient/client.go*)
(* New), what is shown of it (cmd/plan_redaction.go, redactedWorkflow) and *)
(* the run request that is built from it (cmd/workflow_apply.go).          *)
(*                                                                         *)
(* A document is a record: form says how the file parses, text gives each  *)
(* string of the document by its path, and optional holds the outputs that *)
(* are not required.  A path is a tuple such as <<"agent", "type">> or     *)
(* <<"payloads", 1, "source">>; a string that the file leaves out is empty *)
(* (At), and policy, registration and its oidc part are absent when they   *)
(* have no path in text.                                                   *)
(***************************************************************************)
EXTENDS WorkflowText

CONSTANTS
    RouteNames,    \* the strings that are well-formed inference routes
    WholeSeconds   \* the strings that are durations of whole seconds

At(text, path) == IF path \in DOMAIN text THEN text[path] ELSE <<>>

Indices(text, list) == {path[2] : path \in {p \in DOMAIN text : p[1] = list}}

Listed(text, list) == [i \in Indices(text, list) |-> text[<<list, i>>]]

Forms == {"v1", "otherVersion", "unknownField", "manyDocuments", "unreadable"}

Parses(doc) == doc.form = "v1" /\ At(doc.text, <<"name">>) # <<>>

-----------------------------------------------------------------------------
(* Resolve                                                                 *)

Protected == <<"OPENSHELL_OIDC_CLIENT_SECRET">>

\* The variables that Resolve lets a document use.
Usable(env) == [name \in DOMAIN env \ {Protected} |-> env[name]]

\* Every string expanded; the paths of outputs are cleaned.
ResolvedText(doc, env) ==
    [path \in DOMAIN doc.text |->
        LET value == Expand(doc.text[path], Usable(env)).out
        IN  IF path[1] = "outputs" THEN Clean(value) ELSE value]

Unresolved(doc, env) ==
    {path \in DOMAIN doc.text : Expand(doc.text[path], Usable(env)).missing # {}}

RegistrationErrors(text) ==
    LET parts == {<<"oidc", "issuer">>, <<"oidc", "clientId">>, <<"oidc", "audience">>}
    IN  IF <<"registration", "endpoint">> \in DOMAIN text
        THEN {p \in parts \cup {<<"registration", "endpoint">>} : At(text, p) = <<>>}
        ELSE {}

InferenceConfigured(text) ==
    \E part \in {"route", "provider", "model", "timeout"} :
        At(text, <<"inference", part>>) # <<>>

InferenceErrors(text) ==
    LET Part(name) == At(text, <<"inference", name>>)
    IN  {<<"inference", name>> : name \in
           {n \in {"route"} : Part(n) \notin RouteNames \cup {<<>>}}
           \cup {n \in {"timeout"} : Part(n) \notin WholeSeconds \cup {<<>>}}
           \cup {n \in {"provider", "model"} : InferenceConfigured(text) /\ Part(n) = <<>>}}

PayloadErrors(text) ==
    {<<"payloads", i>> : i \in {k \in Indices(text, "payloads") :
        LET destination == At(text, <<"payloads", k, "destination">>)
            hasSource == At(text, <<"payloads", k, "source">>) # <<>>
            hasContent == At(text, <<"payloads", k, "content">>) # <<>>
        IN  destination = <<>> \/ hasSource = hasContent \/ HasTraversal(destination)}}

\* A changed form: the source is not cleaned before it is compared.
Bug_ValidOutputSource(s) ==
    /\ IsAbsolute(s) /\ ~Occurs("NUL", s) /\ ~HasTraversal(s)
    /\ Len(Segments(s, {"/"})) > 2 /\ Segments(s, {"/"})[2] = <<"sandbox">>

ValidOutputSource(s) ==
    /\ s # <<>> /\ ~Occurs("NUL", s)
    /\ ~HasTraversal(s)
    /\ BelowSandbox(s)

ValidOutputDestination(s) ==
    /\ s # <<>> /\ ~Occurs("NUL", s)
    /\ ~IsAbsolute(s) /\ ~HasTraversal(s)
    /\ Clean(s) # <<".">>

\* A changed form: destinations are compared as they are written.
Bug_DuplicateDestinations(text) ==
    {i \in Indices(text, "outputs") : \E j \in Indices(text, "outputs") :
        /\ j < i
        /\ ValidOutputDestination(At(text, <<"outputs", j, "destination">>))
        /\ At(text, <<"outputs", j, "destination">>) = At(text, <<"outputs", i, "destination">>)}

\* Only valid destinations are remembered.
DuplicateDestinations(text) ==
    LET Destination(i) == At(text, <<"outputs", i, "destination">>)
    IN  {i \in Indices(text, "outputs") : \E j \in Indices(text, "outputs") :
            j < i /\ ValidOutputDestination(Destination(j)) /\ Clean(Destination(j)) = Clean(Destination(i))}

OutputErrors(text) ==
    {<<"outputs", i>> : i \in DuplicateDestinations(text)
        \cup {k \in Indices(text, "outputs") :
                 \/ ~ValidOutputSource(At(text, <<"outputs", k, "source">>))
                 \/ ~ValidOutputDestination(At(text, <<"outputs", k, "destination">>))}}

\* Every error of Resolve, by the path it is reported for; the checks see the
\* values as they were expanded.
ResolveErrors(doc, env) ==
    LET text == [p \in DOMAIN doc.text |-> Expand(doc.text[p], Usable(env)).out]
    IN  Unresolved(doc, env)
        \cup {p \in {<<"name">>} : At(text, p) = <<>>}
        \cup RegistrationErrors(text) \cup InferenceErrors(text)
        \cup {p \in DOMAIN text : p[1] = "providers" /\ text[p] = <<>>}
        \cup {p \in {<<"source", "destination">>} : HasTraversal(At(text, p))}
        \cup PayloadErrors(text) \cup OutputErrors(text)

-----------------------------------------------------------------------------
(* The target                                                              *)

NoDirect == [endpoint |-> <<>>, issuer |-> <<>>, clientId |-> <<>>, audience |-> <<>>]

\* openshell.resolveField
ResolveField(flag, envValue, configured) ==
    IF flag # <<>> THEN flag ELSE IF envValue # <<>> THEN envValue ELSE configured

\* loadWorkflow: ResolveTarget, and the registration of the document unless a
\* flag or the environment names a gateway.
WorkflowTarget(text, flags, env) ==
    LET gatewayEnv == Value(env, <<"OPENSHELL_GATEWAY">>)
        external == flags.gateway # <<>> \/ gatewayEnv # <<>>
    IN  [gateway |-> ResolveField(flags.gateway, gatewayEnv, At(text, <<"target", "gateway">>)),
         workspace |-> ResolveField(flags.workspace, Value(env, <<"OPENSHELL_WORKSPACE">>),
                                    At(text, <<"target", "workspace">>)),
         direct |-> IF <<"registration", "endpoint">> \in DOMAIN text /\ ~external
                    THEN [endpoint |-> text[<<"registration", "endpoint">>],
                          issuer |-> At(text, <<"oidc", "issuer">>),
                          clientId |-> At(text, <<"oidc", "clientId">>),
                          audience |-> At(text, <<"oidc", "audience">>)]
                    ELSE NoDirect]

EnvDirect(env) ==
    [endpoint |-> Value(env, <<"OPENSHELL_GATEWAY_ENDPOINT">>),
     issuer |-> Value(env, <<"OPENSHELL_OIDC_ISSUER">>),
     clientId |-> Value(env, <<"OPENSHELL_OIDC_CLIENT_ID">>),
     audience |-> Value(env, <<"OPENSHELL_OIDC_AUDIENCE">>)]

Complete(direct) == \A part \in DOMAIN direct : direct[part] # <<>>

\* A changed form: the name of a gateway does not keep the environment out.
Bug_ResolveDirectTarget(target, env) ==
    CASE target.direct # NoDirect -> target
      [] target.direct = NoDirect /\ Complete(EnvDirect(env)) ->
            [target EXCEPT !.direct = EnvDirect(env)]
      [] OTHER -> target

\* What New connects to: a direct connection, or with none the registration
\* called gateway, or the active one if that name is empty.
ResolveDirectTarget(target, env) ==
    IF target.direct = NoDirect /\ target.gateway = <<>> /\ Complete(EnvDirect(env))
    THEN [target EXCEPT !.direct = EnvDirect(env)]
    ELSE target

-----------------------------------------------------------------------------
(* The defaults and overrides of loadWorkflow                              *)

DefaultImage == <<"ghcr.io", "/", "base">>

RunConfigured(doc, text) ==
    \/ doc.keep \/ doc.tty
    \/ \E path \in {<<"sandbox", "image">>, <<"agent", "type">>, <<"source", "repo">>} :
          At(text, path) # <<>>
    \/ \E path \in DOMAIN text : path[1] \in {"providers", "policy", "env", "payloads", "outputs"}

\* Resolve's copy with the target and the overrides.
Overridden(text, target, flags) ==
    LET Override(path, flag) == IF flag # <<>> THEN flag ELSE At(text, path)
        set == {<<"target", "gateway">>, <<"target", "workspace">>, <<"name">>, <<"agent", "type">>}
    IN  [path \in DOMAIN text \cup set |->
           CASE path = <<"target", "gateway">> -> target.gateway
             [] path = <<"target", "workspace">> -> target.workspace
             [] path = <<"name">> -> Override(path, flags.name)
             [] path = <<"agent", "type">> -> Override(path, flags.agent)
             [] OTHER -> text[path]]

\* The same with the image, which is set last and only for a run.
Desired(doc, text, target, flags, env) ==
    LET overridden == Overridden(text, target, flags)
        path == <<"sandbox", "image">>
        image == ResolveField(Value(env, <<"HARNESS_OS_IMAGE">>), At(text, path), DefaultImage)
    IN  IF RunConfigured(doc, overridden)
        THEN [p \in DOMAIN overridden \cup {path} |-> IF p = path THEN image ELSE overridden[p]]
        ELSE overridden

-----------------------------------------------------------------------------
(* What is shown                                                           *)

\* A changed form: the string itself is asked for a dollar sign, not its source.
Bug_RedactedWorkflow(text, raw) ==
    {IF path[1] = "env" \/ Occurs("$", text[path]) THEN Marker ELSE text[path]
        : path \in DOMAIN text}

\* redactedWorkflow: a string whose source has a dollar sign, and any value
\* of the sandbox's environment, is not shown.
RedactedWorkflow(text, raw) ==
    {IF path[1] = "env" \/ Occurs("$", At(raw, path)) THEN Marker ELSE text[path]
        : path \in DOMAIN text}

ProviderNames(text) ==
    {At(text, <<"inference", "provider">>)} \cup {text[p] : p \in {q \in DOMAIN text : q[1] = "providers"}}

\* What the program writes next to the strings of a document.
Space == " "
Comma == ","
Semicolon == ";"

\* strings.Join(parts, ", ")
Spaced(parts) == [i \in DOMAIN parts |-> IF i = 1 THEN parts[i] ELSE <<Space>> \o parts[i]]
Listing(parts) == Join(Spaced(parts), Comma)

\* Provider and model; the client serves no inference state, so that the timeout
\* is not named and a remark follows.
InferenceDetail(text) ==
    LET provider == At(text, <<"inference", "provider">>)
        model == At(text, <<"inference", "model">>)
    IN  (IF provider # <<>> /\ model # <<>> THEN provider \o <<"/">> \o model ELSE provider \o model)
        \o <<Semicolon, Space, "config only">>

\* The target and the names of the plan's resources (plan.Build).
PlanNames(text) ==
    {At(text, path) : path \in {<<"target", "gateway">>, <<"target", "workspace">>, <<"sandbox", "image">>,
                                <<"source", "repo">>, <<"agent", "type">>}}
    \cup ProviderNames(text)
    \cup {LET source == At(text, <<"payloads", i, "source">>)
          IN  IF source = <<>> THEN At(text, <<"payloads", i, "destination">>) ELSE source
          : i \in Indices(text, "payloads")}
    \cup {At(text, <<"outputs", i, "source">>) : i \in Indices(text, "outputs")}

\* A description, and the tokens of the program that stand next to a string of
\* the document in it.
Detail(edges, whole) == [edges |-> edges, whole |-> whole]

\* The details of the resources that hold a string of the document, or say that
\* the gateway was not reached; "v" stands for the gateway's version.
PlanDetails(text, reached) ==
    {IF reached THEN Detail({Space}, <<"gateway", Space>> \o At(text, <<"target", "gateway">>) \o <<Space, "v">>)
                ELSE Detail({}, <<"gateway not inspected">>),
     Detail({Space, Comma}, <<"sandbox providers:", Space>> \o Listing(Listed(text, "providers"))),
     Detail({Space, Comma}, <<"args:", Space>> \o Listing(Listed(text, "args"))),
     Detail({"/", Semicolon}, InferenceDetail(text))}
    \cup {Detail({Space}, <<"host output:", Space>> \o At(text, <<"outputs", i, "destination">>))
            : i \in Indices(text, "outputs")}

PlanStrings(text, reached) == PlanNames(text) \cup {detail.whole : detail \in PlanDetails(text, reached)}

\* The registration is not part of a plan.
InterpolatedValues(text, raw) ==
    {text[p] : p \in {q \in DOMAIN text :
                         /\ q[1] \notin {"registration", "oidc"}
                         /\ Occurs("$", At(raw, q)) /\ text[q] # <<>>}}

RedactedPlan(text, raw, reached) ==
    {RedactAll(s, InterpolatedValues(text, raw)) : s \in PlanStrings(text, reached)}

-----------------------------------------------------------------------------
(* The run request                                                         *)

\* Where an upload goes: the directory it is unpacked in, and its name there.
UploadPlace(destination, fileLike, base) ==
    LET slashes == {i \in DOMAIN destination : destination[i] = "/"}
        slash == CHOOSE i \in slashes : \A j \in slashes : j <= i
    IN  CASE fileLike /\ slashes = {} -> [directory |-> <<".">>, name |-> destination]
          [] fileLike /\ slashes # {} /\ slash \notin {1, Len(destination)}
             /\ SubSeq(destination, 1, slash - 1) # <<"/">> ->
                [directory |-> SubSeq(destination, 1, slash - 1),
                 name |-> SubSeq(destination, slash + 1, Len(destination))]
          [] OTHER -> [directory |-> destination, name |-> base]

NoUpload == [directory |-> <<>>, name |-> <<>>]

\* uploadTarget, with which the client begins an upload to the ready sandbox:
\* it refuses a destination that is empty or has a NUL in it.
UploadTarget(destination, fileLike, base) ==
    IF destination = <<>> \/ Occurs("NUL", destination)
    THEN NoUpload
    ELSE UploadPlace(destination, fileLike, base)

SourceDestination(text) ==
    LET destination == At(text, <<"source", "destination">>)
    IN  IF destination = <<>> THEN <<"/", "sandbox">> ELSE destination

SourceUpload(text) == UploadTarget(SourceDestination(text), FALSE, <<"repository">>)

\* A source is a file or a directory of the host; inline content is staged
\* in a file named after the payload's index.
PayloadUpload(text, i, sourceIsFile) ==
    LET destination == At(text, <<"payloads", i, "destination">>)
        source == At(text, <<"payloads", i, "source">>)
    IN  IF source # <<>>
        THEN UploadTarget(destination, sourceIsFile, <<"source-base">>)
        ELSE UploadTarget(destination, TRUE, <<"payload-file">>)

\* The reasons for which buildRunRequest refuses by the text alone; the
\* payload checks and the escape of an output are also Resolve's.
Refusals(text, flags) ==
    LET outputs == Indices(text, "outputs")
        Destination(i) == At(text, <<"outputs", i, "destination">>)
        Payload(i, part) == At(text, <<"payloads", i, part>>)
    IN  {r \in {"image"} : IsAbsolute(At(text, <<"sandbox", "image">>))}
        \cup {r \in {"submodules"} :
                /\ At(text, <<"source", "repo">>) # <<>>
                /\ At(text, <<"source", "submodules">>) \notin {<<>>, <<"shallow">>}}
        \cup {r \in {"payloads"} : \E i \in Indices(text, "payloads") :
                \/ Payload(i, "destination") = <<>>
                \/ (Payload(i, "source") = <<>>) = (Payload(i, "content") = <<>>)}
        \cup {r \in {"outputDir"} : outputs # {} /\ ~flags.outputDir}
        \cup {r \in {"escape"} : \E i \in outputs : Occurs(<<"..">>, PathSegments(Destination(i)))}

\* Downloads in the order of the outputs; a destination is a path below the
\* output directory.
Downloads(doc, text) ==
    [i \in Indices(text, "outputs") |->
        [src |-> text[<<"outputs", i, "source">>],
         dst |-> PathSegments(text[<<"outputs", i, "destination">>]),
         required |-> i \notin doc.optional]]

Uploads(text, sourceIsFile) ==
    (IF At(text, <<"source", "repo">>) = <<>> THEN <<>> ELSE <<SourceUpload(text)>>)
    \o [i \in Indices(text, "payloads") |-> PayloadUpload(text, i, sourceIsFile)]

\* sandboxRelativePath, with which the client checks the source of a download
\* once the agent has run.
Downloadable(source) ==
    /\ IsAbsolute(source) /\ ~Occurs("NUL", source)
    /\ ~HasTraversal(source)
    /\ BelowSandbox(source)
=============================================================================
