---------------------------- MODULE WorkflowFiles ----------------------------
(***************************************************************************)
(* One command on one workflow file, seen through its values: what the     *)
(* document says is resolved, combined with the flags and the environment, *)
(* shown, or turned into a request, whose outputs are installed on the     *)
(* host when the agent has run.  ApplyCommand has the errors, signals and  *)
(* results of the same path, WorkflowPlan the actions of the plan;         *)
(* WorkflowDocument has the values and OutputInstall the host's files.     *)
(***************************************************************************)
EXTENDS WorkflowDocument, OutputInstall, FiniteSets, Functions

CONSTANT Inputs   \* the commands to consider: see InputType

\* The entries of a list of the document are numbered from 1.
Numbered(text, list) ==
    /\ IsFiniteSet(Indices(text, list))
    /\ Indices(text, list) = 1 .. Cardinality(Indices(text, list))

\* The entries of the list are strings.
OfStrings(text, list) == \A path \in DOMAIN text : path[1] = list => path = <<list, path[2]>>

InputType(input) ==
    /\ input.command \in {"plan", "show", "apply"}   \* show: apply --output
    /\ input.doc.form \in Forms
    /\ input.doc.keep \in BOOLEAN /\ input.doc.tty \in BOOLEAN
    /\ \A path \in DOMAIN input.doc.text : input.doc.text[path] \in Seq(STRING)
    /\ IsFiniteSet(DOMAIN input.doc.text)
    /\ \A list \in {"outputs", "payloads", "providers", "args"} : Numbered(input.doc.text, list)
    /\ \A list \in {"providers", "args"} : OfStrings(input.doc.text, list)
    /\ \A name \in DOMAIN input.env : input.env[name] \in Seq(STRING)
    /\ \A flag \in {"gateway", "workspace", "name", "agent"} : input.flags[flag] \in Seq(STRING)
    /\ input.flags.outputDir \in BOOLEAN

ASSUME InputAssumption == \A input \in Inputs : InputType(input)

\* Names has every name of the outputs that a command may install.
ASSUME NamesAssumption ==
    \A input \in Inputs : input.command = "apply" /\ ResolveErrors(input.doc, input.env) = {} =>
        \A i \in Indices(input.doc.text, "outputs") :
            PathSegments(At(ResolvedText(input.doc, input.env), <<"outputs", i, "destination">>)) \in Paths

VARIABLES
    pc,
    input,      \* the command, its flags, the file and the process environment
    text,       \* the document's strings: as read, resolved, desired
    errors,     \* Resolve's errors
    target,     \* resolvedWorkflow.Target
    connection, \* what New connects to
    shown,      \* the strings shown on stdout
    request,    \* the uploads and downloads of the run request
    refusals    \* why buildRunRequest refused the text

documentVars == <<pc, input, text, errors, target, connection, shown, request, refusals>>
filesVars == <<documentVars, installVars>>

NoTarget == [gateway |-> <<>>, workspace |-> <<>>, direct |-> NoDirect]
NoRequest == [uploads |-> <<>>, downloads |-> <<>>]

Doc == input.doc
Env == input.env

FilesInit ==
    /\ input \in Inputs
    /\ pc = "start" /\ text = input.doc.text /\ errors = {}
    /\ target = NoTarget /\ connection = NoTarget
    /\ shown = {} /\ request = NoRequest /\ refusals = {}
    /\ InstallInit

Load ==
    /\ pc = "start"
    /\ Parses(Doc)
    /\ pc' = "loaded"
    /\ UNCHANGED <<input, text, errors, target, connection, shown, request, refusals, installVars>>

LoadFails ==
    /\ pc = "start"
    /\ ~Parses(Doc)
    /\ pc' = "failed"
    /\ UNCHANGED <<input, text, errors, target, connection, shown, request, refusals, installVars>>

Resolve ==
    /\ pc = "loaded"
    /\ ResolveErrors(Doc, Env) = {}
    /\ text' = ResolvedText(Doc, Env)
    /\ pc' = "resolved"
    /\ UNCHANGED <<input, errors, target, connection, shown, request, refusals, installVars>>

ResolveFails ==
    /\ pc = "loaded"
    /\ ResolveErrors(Doc, Env) # {}
    /\ errors' = ResolveErrors(Doc, Env)
    /\ pc' = "failed"
    /\ UNCHANGED <<input, text, target, connection, shown, request, refusals, installVars>>

\* The rest of loadWorkflow: the effective target is stored in the document,
\* then the overrides and the default image.
LoadWorkflow ==
    /\ pc = "resolved"
    /\ target' = WorkflowTarget(text, input.flags, Env)
    /\ text' = Desired(Doc, text, target', input.flags, Env)
    /\ pc' = "desired"
    /\ UNCHANGED <<input, errors, connection, shown, request, refusals, installVars>>

RenderWorkflow ==
    /\ pc = "desired"
    /\ input.command = "show"
    /\ shown' = RedactedWorkflow(text, Doc.text)
    /\ pc' = "done"
    /\ UNCHANGED <<input, text, errors, target, connection, request, refusals, installVars>>

Connect ==
    /\ pc = "desired"
    /\ input.command # "show"
    /\ connection' = ResolveDirectTarget(target, Env)
    /\ pc' = "connected"
    /\ UNCHANGED <<input, text, errors, target, shown, request, refusals, installVars>>

\* A plan goes on without the gateway (offline).
ConnectFails ==
    /\ pc = "desired"
    /\ input.command # "show"
    /\ pc' = IF input.command = "plan" THEN "offline" ELSE "failed"
    /\ UNCHANGED <<input, text, errors, target, connection, shown, request, refusals, installVars>>

RenderPlan ==
    /\ pc \in {"connected", "offline"}
    /\ input.command = "plan"
    /\ shown' = RedactedPlan(text, Doc.text, pc = "connected")
    /\ pc' = "done"
    /\ UNCHANGED <<input, text, errors, target, connection, request, refusals, installVars>>

\* preflight: managed inference, an unusable gateway, a missing provider.
PreflightFails ==
    /\ pc = "connected"
    /\ input.command = "apply"
    /\ pc' = "failed"
    /\ UNCHANGED <<input, text, errors, target, connection, shown, request, refusals, installVars>>

CanApply ==
    /\ pc = "connected"
    /\ input.command = "apply"
    /\ ~InferenceConfigured(text)
    /\ RunConfigured(Doc, text)

BuildRunRequest ==
    /\ CanApply
    /\ Refusals(text, input.flags) = {}
    /\ \E sourceIsFile \in BOOLEAN :
          request' = [uploads |-> Uploads(text, sourceIsFile), downloads |-> Downloads(Doc, text)]
    /\ pc' = "running"
    /\ UNCHANGED <<input, text, errors, target, connection, shown, refusals, installVars>>

\* The text is refused, or the host fails: no clone, no payload file, no policy
\* file, no output directory (refusals stays empty).
BuildFails ==
    /\ CanApply
    /\ refusals' = Refusals(text, input.flags)
    /\ pc' = "failed"
    /\ UNCHANGED <<input, text, errors, target, connection, shown, request, installVars>>

\* Every upload was accepted and the agent has run; its failure does not keep
\* the outputs from being collected.
CollectOutputs ==
    /\ pc = "running"
    /\ \A i \in DOMAIN request.uploads : request.uploads[i] # NoUpload
    /\ StartDownloads([i \in DOMAIN request.downloads |-> request.downloads[i].dst])
    /\ pc' = "collecting"
    /\ UNCHANGED <<input, text, errors, target, connection, shown, request, refusals>>

\* The sandbox could not be had, or an upload was refused or failed.
RunFails ==
    /\ pc = "running"
    /\ pc' = "failed"
    /\ UNCHANGED <<input, text, errors, target, connection, shown, request, refusals, installVars>>

Collect == pc = "collecting" /\ InstallNext /\ UNCHANGED documentVars

FilesNext ==
    \/ Load \/ LoadFails \/ Resolve \/ ResolveFails \/ LoadWorkflow
    \/ RenderWorkflow \/ Connect \/ ConnectFails \/ RenderPlan
    \/ PreflightFails \/ BuildRunRequest \/ BuildFails
    \/ CollectOutputs \/ RunFails \/ Collect

FilesSpec == FilesInit /\ [][FilesNext]_filesVars

-----------------------------------------------------------------------------
(* Properties                                                              *)

\* The scanner of expand gives every string the one meaning that the comment
\* above expandStrict describes: "$$" and a dollar sign that opens nothing
\* stay, a value is not scanned again, and a reference to a variable that is
\* unset, empty or protected is an error of its field, never an empty string.
ExpansionExact ==
    pc \notin {"start", "loaded"} /\ Parses(Doc) =>
        \A path \in DOMAIN Doc.text :
            \E reading \in Readings(Doc.text[path]) :
                /\ Cardinality(Readings(Doc.text[path])) = 1
                /\ MissingIn(reading, Usable(Env)) # {} <=>
                     path \in Unresolved(Doc, Env)
                /\ path \in Unresolved(Doc, Env) => path \in errors
                /\ pc = "resolved" /\ path[1] # "outputs" =>
                     text[path] = MeaningOf(reading, Usable(Env))

\* The first of these that is there decides what the command talks to: a
\* gateway named by flag or environment, the registration in the document, the
\* document's gateway, a complete direct connection in the environment, the
\* active registration.  No connection mixes the parts of two of them.
TargetByPrecedence ==
    pc \in {"connected", "running", "collecting"} =>
        LET named == ResolveField(input.flags.gateway, Value(Env, <<"OPENSHELL_GATEWAY">>), <<>>)
            registered == <<"registration", "endpoint">> \in DOMAIN Doc.text
            documented == IF <<"target", "gateway">> \in DOMAIN Doc.text
                          THEN Expand(Doc.text[<<"target", "gateway">>], Usable(Env)).out ELSE <<>>
            registration == [part \in DOMAIN NoDirect |->
                IF part = "endpoint" THEN text[<<"registration", part>>] ELSE text[<<"oidc", part>>]]
            Is(gateway, direct) == connection.gateway = gateway /\ connection.direct = direct
        IN  /\ named # <<>> => Is(named, NoDirect)
            /\ named = <<>> /\ registered => Is(documented, registration)
            /\ named = <<>> /\ ~registered /\ documented # <<>> => Is(documented, NoDirect)
            /\ named = <<>> /\ ~registered /\ documented = <<>> =>
                  Is(<<>>, IF Complete(EnvDirect(Env)) THEN EnvDirect(Env) ELSE NoDirect)

\* The variables that choose the target and the image without being referred to.
Settings == {<<"OPENSHELL_GATEWAY">>, <<"OPENSHELL_WORKSPACE">>, <<"HARNESS_OS_IMAGE">>}

\* The words of the program in a plan.
PlanWords == {"gateway", "v", "gateway not inspected", "sandbox providers:", "args:", "host output:", "config only"}

\* The tokens that somebody wrote: the author of the document, the caller in
\* the flags and settings, or the program itself.
Written ==
    {"/", "."} \cup MarkTokens \cup Range(DefaultImage)
    \cup {Space, Comma, Semicolon} \cup PlanWords
    \cup (UNION {Range(Doc.text[path]) : path \in DOMAIN Doc.text})
    \cup (UNION {Range(input.flags[flag]) : flag \in {"gateway", "workspace", "name", "agent"}})
    \cup (UNION {Range(Value(Env, name)) : name \in Settings})

\* The tokens that only interpolation can bring into the document.
Interpolated == (UNION {Range(Env[name]) : name \in DOMAIN Env}) \ Written

ShowsNone == \A s \in shown : \A token \in Interpolated : ~Occurs(token, s)

\* "Interpolated values are redacted from display projections" (workflow-format.md
\* 95-96), of a document: no part of an interpolated value is left in any of its
\* strings that is shown, whichever of them refer to it and whatever takes their
\* place.
DocumentShowsNoInterpolation == input.command = "show" => ShowsNone

\* The same of a plan.  It does not hold: a plan joins the strings of the
\* document before it is redacted, and a value that contains what stands between
\* two of them may begin within the first and end within the second, so that of
\* their own values a part is left.
PlanHidesInterpolation == input.command = "plan" => ShowsNone

\* s comes from a detail that a value tears: it contains a token that stands in
\* the detail next to a string of the document.
MayTear(s) ==
    LET values == InterpolatedValues(text, Doc.text)
    IN  \E reached \in BOOLEAN : \E detail \in PlanDetails(text, reached) :
            /\ s = RedactAll(detail.whole, values)
            /\ \E edge \in detail.edges, value \in values : Occurs(edge, value)

\* That is the only way in which it fails: in every string of a plan that no value
\* tears nothing is left of an interpolated value, however one contains another
\* and wherever they stand in a joined string ("longest first prevents a shorter
\* interpolated value from partially consuming a longer one in a compound detail
\* string", plan_redaction.go 102-103).
PlanShowsNoInterpolation ==
    input.command = "plan" =>
        \A s \in shown : (\A token \in Interpolated : ~Occurs(token, s)) \/ MayTear(s)

\* "Interpolated secret values never leak into any plan output format"
\* (plan_test.go 216-218), as that test looks for them: no interpolated value
\* stands as a whole in a string that is shown, torn or not, neither where the
\* document has it nor put together from what the replacement of others leaves.
\* Excepted are the values that the marker itself may complete.
PlanShowsNoValue ==
    input.command = "plan" =>
        \A s \in shown, value \in InterpolatedValues(text, Doc.text) :
            Unmarked(value) => \A i \in DOMAIN s : ~Matches(s, i, value)

\* Where an upload ends up in the sandbox, and whether that is the path that
\* was asked for, or directly below it.
Lands(upload) == PathSegments(upload.directory) \o PathSegments(upload.name)
LandsAt(upload, asked) ==
    Lands(upload) = asked
      \/ (Lands(upload) # <<>> /\ SubSeq(Lands(upload), 1, Len(Lands(upload)) - 1) = asked)

\* The client refuses an upload for a NUL in the destination that was asked for,
\* and for nothing else.
CarriedOut(upload, asked) ==
    IF Occurs("NUL", asked)
    THEN upload = NoUpload
    ELSE upload # NoUpload /\ LandsAt(upload, PathSegments(asked))

\* A resolved document is one that can be carried out, but for a NUL.  Of the
\* checks that buildRunRequest makes only those of the image, of the submodules
\* and of the output directory can still refuse it; the client will accept the
\* source of every download, after the agent has run; and the repository and
\* every payload land at their destinations, or directly below them, unless
\* there is a NUL in it: Resolve does not look for one there, and the client
\* refuses the upload when the sandbox is ready.
RequestFollowsDocument ==
    /\ refusals \subseteq {"image", "submodules", "outputDir"}
    /\ pc = "running" =>
        /\ \A i \in DOMAIN request.downloads :
              /\ Downloadable(request.downloads[i].src)
              /\ request.downloads[i].dst # <<>>
        /\ At(text, <<"source", "repo">>) # <<>> => CarriedOut(request.uploads[1], SourceDestination(text))
        /\ LET first == Len(request.uploads) - Cardinality(Indices(text, "payloads"))
           IN  \A i \in Indices(text, "payloads") :
                  CarriedOut(request.uploads[first + i], text[<<"payloads", i, "destination">>])
=============================================================================
