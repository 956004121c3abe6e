---------------------------- MODULE WorkflowText ----------------------------
(***************************************************************************)
(* What the commands do with the text of a workflow: the expansion of      *)
(* ${VAR} references (config/env.go), the cleaning and checking of paths,  *)
(* and the replacement of interpolated values before a plan is shown       *)
(* (cmd/plan_redaction.go).                                                *)
(*                                                                         *)
(* A string is a sequence of tokens.  The tokens the code looks for stand  *)
(* alone ("$", "{", "}", "/", "\\", ".", ".."), and so do those that stand *)
(* next to a string of the document when strings are joined for display    *)
(* (" ", ",", ";") and those of the marker that replaces a value; any      *)
(* other token is a word.                                                  *)
(***************************************************************************)
EXTENDS Naturals, Sequences, FiniteSets

Occurs(token, s) == \E i \in DOMAIN s : s[i] = token

Value(env, name) == IF name \in DOMAIN env THEN env[name] ELSE <<>>

-----------------------------------------------------------------------------
(* expand                                                                  *)

\* The brace that closes a reference opened by the dollar sign at i, or 0.
ClosingBrace(s, i) ==
    LET braces == {j \in i + 2 .. Len(s) : s[j] = "}"}
    IN  IF i < Len(s) /\ s[i] = "$" /\ s[i + 1] = "{" /\ braces # {}
        THEN CHOOSE j \in braces : \A k \in braces : j <= k
        ELSE 0

Piece(width, out, missing) == [width |-> width, out |-> out, missing |-> missing]

\* A changed form: "$$" is not skipped as a pair, so the second sign may open
\* a reference.
Bug_PieceAt(s, i, env) ==
    LET brace == ClosingBrace(s, i)
        name == SubSeq(s, i + 2, brace - 1)
    IN  IF brace = 0 THEN Piece(1, <<s[i]>>, {})
        ELSE Piece(brace - i + 1, Value(env, name),
                   IF Value(env, name) = <<>> THEN {name} ELSE {})

\* What the scanner takes at position i, and what it writes for it.
PieceAt(s, i, env) ==
    LET brace == ClosingBrace(s, i)
        name == SubSeq(s, i + 2, brace - 1)
    IN  CASE s[i] = "$" /\ i < Len(s) /\ s[i + 1] = "$" -> Piece(2, <<"$", "$">>, {})
          [] brace # 0 -> Piece(brace - i + 1, Value(env, name),
                                IF Value(env, name) = <<>> THEN {name} ELSE {})
          [] OTHER -> Piece(1, <<s[i]>>, {})

\* An unset variable and one set to the empty string are both missing.
Expand(s, env) ==
    LET scan[i \in 1 .. Len(s) + 1] ==
          IF i > Len(s) THEN [out |-> <<>>, missing |-> {}]
          ELSE LET piece == PieceAt(s, i, env)
                   rest == scan[i + piece.width]
               IN  [out |-> piece.out \o rest.out, missing |-> piece.missing \cup rest.missing]
    IN  scan[1]

-----------------------------------------------------------------------------
(* Paths                                                                   *)

\* strings.Split on any of the separators: always at least one segment.
Segments(s, separators) ==
    LET split[i \in 0 .. Len(s)] ==
          IF i = 0 THEN <<<<>>>>
          ELSE IF s[i] \in separators THEN Append(split[i - 1], <<>>)
          ELSE [split[i - 1] EXCEPT ![Len(split[i - 1])] = Append(@, s[i])]
    IN  split[Len(s)]

\* destinationHasTraversal
HasTraversal(s) == Occurs(<<"..">>, Segments(s, {"/", "\\"}))

IsAbsolute(s) == s # <<>> /\ s[1] = "/"

\* strings.Join
Join(parts, separator) ==
    LET join[i \in 0 .. Len(parts)] ==
          IF i = 0 THEN <<>>
          ELSE IF i = 1 THEN parts[1] ELSE join[i - 1] \o <<separator>> \o parts[i]
    IN  join[Len(parts)]

Counted(parts) ==
    LET keep[i \in 0 .. Len(parts)] ==
          IF i = 0 THEN <<>>
          ELSE IF parts[i] \in {<<>>, <<".">>} THEN keep[i - 1] ELSE Append(keep[i - 1], parts[i])
    IN  keep[Len(parts)]

\* The segments of a path that count when it has none that is "..".
PathSegments(s) == Counted(Segments(s, {"/"}))

\* path.Clean, for paths without a ".." segment.
Clean(s) ==
    LET names == PathSegments(s)
    IN  IF IsAbsolute(s) THEN <<"/">> \o Join(names, "/")
        ELSE IF names = <<>> THEN <<".">> ELSE Join(names, "/")

\* The cleaned path begins with /sandbox/.
BelowSandbox(s) ==
    /\ IsAbsolute(s)
    /\ Len(PathSegments(s)) > 1
    /\ PathSegments(s)[1] = <<"sandbox">>

-----------------------------------------------------------------------------
(* Redaction                                                               *)

MarkTokens == {"<", "redacted", ">"}
Marker == <<"<", "redacted", ">">>

Matches(s, i, old) == i + Len(old) <= Len(s) + 1 /\ SubSeq(s, i, i + Len(old) - 1) = old

\* A changed form: only the first occurrence is replaced.
Bug_Redact(s, old) ==
    LET found == {i \in DOMAIN s : Matches(s, i, old)}
        first == CHOOSE i \in found : \A j \in found : i <= j
    IN  IF found = {} THEN s
        ELSE SubSeq(s, 1, first - 1) \o Marker \o SubSeq(s, first + Len(old), Len(s))

\* strings.ReplaceAll(s, old, "<redacted>")
Redact(s, old) ==
    LET scan[i \in 1 .. Len(s) + 1] ==
          IF i > Len(s) THEN <<>>
          ELSE IF Matches(s, i, old) THEN Marker \o scan[i + Len(old)]
          ELSE <<s[i]>> \o scan[i + 1]
    IN  scan[1]

IsOrder(order, values) == \A v \in values : \E i \in DOMAIN order : order[i] = v

\* A changed form: the shortest first.
Bug_LongestFirst(values) ==
    CHOOSE order \in [1 .. Cardinality(values) -> values] :
        IsOrder(order, values) /\ \A i, j \in DOMAIN order : i < j => Len(order[i]) <= Len(order[j])

\* An order of interpolatedValues.  Of two values of the same length the code
\* takes the one that is smaller byte by byte; here either may come first.
LongestFirst(values) ==
    CHOOSE order \in [1 .. Cardinality(values) -> values] :
        IsOrder(order, values) /\ \A i, j \in DOMAIN order : i < j => Len(order[i]) >= Len(order[j])

\* redactPlanString
RedactAll(s, values) ==
    LET order == LongestFirst(values)
        redacted[i \in 0 .. Len(order)] == IF i = 0 THEN s ELSE Redact(redacted[i - 1], order[i])
    IN  redacted[Len(order)]

-----------------------------------------------------------------------------
(* What a string means by the documentation of expand, for comparison: it  *)
(* is cut into single tokens, "$$" pairs and references ${name}, where a   *)
(* dollar sign stands alone only if it begins neither of the others.       *)

IsReference(p) ==
    /\ Len(p) >= 3 /\ p[1] = "$" /\ p[2] = "{" /\ p[Len(p)] = "}"
    /\ \A k \in 3 .. Len(p) - 1 : p[k] # "}"

Readings(s) ==
    LET Opens(i) == \E k \in i .. Len(s) : IsReference(SubSeq(s, i, k))
        Legal(i, k) ==
          \/ SubSeq(s, i, k) = <<"$", "$">>
          \/ IsReference(SubSeq(s, i, k))
          \/ /\ i = k
             /\ s[i] = "$" => ~Opens(i) /\ (i = Len(s) \/ s[i + 1] # "$")
        from[i \in 1 .. Len(s) + 1] ==
          IF i > Len(s) THEN {<<>>}
          ELSE UNION {{<<SubSeq(s, i, k)>> \o rest : rest \in from[k + 1]}
                        : k \in {j \in i .. Len(s) : Legal(i, j)}}
    IN  from[1]

NameOf(p) == SubSeq(p, 3, Len(p) - 1)

MeaningOf(pieces, env) ==
    LET meaning[i \in 0 .. Len(pieces)] ==
          IF i = 0 THEN <<>>
          ELSE meaning[i - 1] \o (IF IsReference(pieces[i]) THEN Value(env, NameOf(pieces[i])) ELSE pieces[i])
    IN  meaning[Len(pieces)]

MissingIn(pieces, env) ==
    {NameOf(p) : p \in {q \in {pieces[n] : n \in DOMAIN pieces} :
                           IsReference(q) /\ Value(env, NameOf(q)) = <<>>}}

\* Neither the marker nor a part of it can complete the value.
Unmarked(value) == ~Occurs("<", value) /\ ~Occurs(">", value) /\ value # <<"redacted">>
=============================================================================
