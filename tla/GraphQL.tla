------------------------------- MODULE GraphQL -------------------------------
(***************************************************************************)
(* The GraphQL body matcher: the parser that turns a query into a          *)
(* canonical string, and the comparison of a stub's query, variables and   *)
(* operation name with those of a request body.                            *)
(*                                                                         *)
(* A query is a sequence of lexemes.  How characters group into lexemes is *)
(* left out; which lexemes become tokens is not (tokenizeGraphQL).         *)
(***************************************************************************)
EXTENDS Sequences, FiniteSets, Naturals
LOCAL INSTANCE SequencesExt

CONSTANTS
    Names,          \* lexemes that are names, keywords included
    Strings,        \* lexemes that are quoted strings
    BlockStrings,   \* block string |-> the quoted string of the same value
    Numbers,        \* lexemes that are numbers
    Ignored,        \* commas, white space, comments
    Broken          \* lexemes tokenizeGraphQL gives up on

Puncts == {"!", "$", "(", ")", ":", "=", "@", "[", "]", "{", "}", "|", "..."}

Lexemes ==
    Names \cup Strings \cup DOMAIN BlockStrings \cup Numbers \cup Ignored \cup Broken \cup Puncts

ASSUME GraphQLAssumption ==
    /\ {"query", "mutation", "subscription", "fragment", "on"} \subseteq Names
    /\ BlockStrings \in [DOMAIN BlockStrings -> Strings]

-----------------------------------------------------------------------------
(* Results of the parsing methods: the next position with what was read,   *)
(* or an error.                                                            *)

Done(p, out) == [ok |-> TRUE, pos |-> p, out |-> out]
Error == [ok |-> FALSE, pos |-> 0, out |-> ""]

Then(result, F(_, _)) == IF result.ok THEN F(result.pos, result.out) ELSE Error

\* The tokens of a query, without the ignored lexemes.
tokenize(query) ==
    LET token(lexeme) == IF lexeme \in DOMAIN BlockStrings THEN BlockStrings[lexeme] ELSE lexeme
        kept == SelectSeq(query, LAMBDA lexeme : lexeme \notin Ignored)
    IN [i \in DOMAIN kept |-> token(kept[i])]

\* peekName, peekPunct; peekKind.
Peek(t, p, lexeme) == p <= Len(t) /\ t[p] = lexeme
PeekKind(t, p, kind) == p <= Len(t) /\ t[p] \in kind

expect(t, p, lexeme) == IF Peek(t, p, lexeme) THEN Done(p + 1, "") ELSE Error
expectName(t, p) == IF PeekKind(t, p, Names) THEN Done(p + 1, t[p]) ELSE Error

\* sort.Strings: one order for every bag.
RECURSIVE Sorted(_)
Sorted(s) ==
    IF s = <<>> THEN <<>>
    ELSE LET first == CHOOSE x \in ToSet(s) : TRUE
         IN SelectSeq(s, LAMBDA x : x = first) \o Sorted(SelectSeq(s, LAMBDA x : x # first))

RECURSIVE Join(_, _)
Join(s, separator) ==
    CASE s = <<>> -> ""
      [] Len(s) = 1 -> s[1]
      [] OTHER -> s[1] \o separator \o Join(Tail(s), separator)

-----------------------------------------------------------------------------
(* The parser.  Item reads one member of a list, Items the loop over its   *)
(* members; the loops end at their closing token, parseDirectives where no *)
(* "@" follows, parseDocument at the end.                                  *)

Closing ==
    [selection |-> "}", variable |-> ")", argument |-> ")", field |-> "}", value |-> "]"]

More(kind, t, p) ==
    CASE kind = "definition" -> p <= Len(t)
      [] kind = "directive" -> Peek(t, p, "@")
      [] OTHER -> ~ Peek(t, p, Closing[kind])

RECURSIVE Item(_, _, _), Items(_, _, _), parseTypeRef(_, _)

Items(kind, t, p) ==
    IF ~ More(kind, t, p)
    THEN Done(p, <<>>)
    ELSE Then(Item(kind, t, p), LAMBDA q, item :
         Then(Items(kind, t, q), LAMBDA r, items : Done(r, <<item>> \o items)))

\* A list, once its opening token has been read.
Enclosed(kind, t, p) ==
    Then(Items(kind, t, p), LAMBDA q, items :
    Then(expect(t, q, Closing[kind]), LAMBDA r, closed : Done(r, items)))

parseValue(t, p) ==
    CASE Peek(t, p, "$") -> Then(expectName(t, p + 1), LAMBDA q, name : Done(q, "$" \o name))
      [] Peek(t, p, "[") ->
           Then(Enclosed("value", t, p + 1), LAMBDA q, values :
                Done(q, "list[" \o Join(values, ",") \o "]"))
      [] Peek(t, p, "{") ->
           Then(Enclosed("field", t, p + 1), LAMBDA q, fields :
                Done(q, "obj{" \o Join(Sorted(fields), ",") \o "}"))
      [] PeekKind(t, p, Strings) -> Done(p + 1, "str:" \o t[p])
      [] PeekKind(t, p, Numbers) -> Done(p + 1, "num:" \o t[p])
      [] PeekKind(t, p, Names) -> Done(p + 1, "name:" \o t[p])
      [] OTHER -> Error

\* An argument, or a field of an object.
parseArgument(t, p) ==
    Then(expectName(t, p), LAMBDA q, name :
    Then(expect(t, q, ":"), LAMBDA r, colon :
    Then(parseValue(t, r), LAMBDA end, value : Done(end, name \o ":" \o value))))

\* Seeded bug: the order of the arguments counts.
parseArgumentsInOrder(t, p) ==
    IF ~ Peek(t, p, "(")
    THEN Done(p, "args[]")
    ELSE Then(Enclosed("argument", t, p + 1), LAMBDA q, args :
              Done(q, "args[" \o Join(args, ",") \o "]"))

parseArguments(t, p) ==
    IF ~ Peek(t, p, "(")
    THEN Done(p, "args[]")
    ELSE Then(Enclosed("argument", t, p + 1), LAMBDA q, args :
              Done(q, "args[" \o Join(Sorted(args), ",") \o "]"))

parseDirective(t, p) ==
    Then(expectName(t, p + 1), LAMBDA q, name :
    Then(parseArguments(t, q), LAMBDA r, args : Done(r, name \o ":" \o args)))

parseDirectives(t, p) ==
    Then(Items("directive", t, p), LAMBDA q, directives :
         Done(q, "dirs[" \o Join(Sorted(directives), ",") \o "]"))

\* Seeded bug: a selection set may be empty.
parseSelectionSetOrNone(t, p) ==
    Then(expect(t, p, "{"), LAMBDA q, open :
    Then(Enclosed("selection", t, q), LAMBDA r, selections :
         Done(r, "sel[" \o Join(Sorted(selections), ",") \o "]")))

parseSelectionSet(t, p) ==
    Then(expect(t, p, "{"), LAMBDA q, open :
    Then(Enclosed("selection", t, q), LAMBDA r, selections :
         IF selections = <<>> THEN Error
         ELSE Done(r, "sel[" \o Join(Sorted(selections), ",") \o "]")))

\* Directives and a selection set, which inline fragments, fragments and
\* operations end with.
parseRest(t, p, before) ==
    Then(parseDirectives(t, p), LAMBDA q, directives :
    Then(parseSelectionSet(t, q), LAMBDA r, selections :
         Done(r, before \o ":" \o directives \o ":" \o selections)))

parseField(t, p) ==
    Then(expectName(t, p), LAMBDA q, first :
    Then(IF Peek(t, q, ":")
         THEN Then(expectName(t, q + 1), LAMBDA r, name : Done(r, first \o ":" \o name))
         ELSE Done(q, ":" \o first), LAMBDA r, name :
    Then(parseArguments(t, r), LAMBDA u, args :
    Then(parseDirectives(t, u), LAMBDA v, directives :
    Then(IF Peek(t, v, "{") THEN parseSelectionSet(t, v) ELSE Done(v, ""), LAMBDA w, selections :
         Done(w, "field:" \o name \o ":" \o args \o ":" \o directives \o ":" \o selections))))))

parseSelection(t, p) ==
    IF ~ Peek(t, p, "...") THEN parseField(t, p)
    ELSE IF Peek(t, p + 1, "on")
    THEN Then(expectName(t, p + 2), LAMBDA q, type : parseRest(t, q, "inline:on:" \o type))
    ELSE Then(expectName(t, p + 1), LAMBDA q, name :
         Then(parseDirectives(t, q), LAMBDA r, directives :
              Done(r, "spread:" \o name \o ":" \o directives)))

parseTypeRef(t, p) ==
    Then(IF Peek(t, p, "[")
         THEN Then(parseTypeRef(t, p + 1), LAMBDA q, inner :
              Then(expect(t, q, "]"), LAMBDA r, closed : Done(r, "[" \o inner \o "]")))
         ELSE expectName(t, p), LAMBDA q, base :
         IF Peek(t, q, "!") THEN Done(q + 1, base \o "!") ELSE Done(q, base))

parseVariable(t, p) ==
    Then(expect(t, p, "$"), LAMBDA q, dollar :
    Then(expectName(t, q), LAMBDA r, name :
    Then(expect(t, r, ":"), LAMBDA u, colon :
    Then(parseTypeRef(t, u), LAMBDA v, type :
         IF Peek(t, v, "=")
         THEN Then(parseValue(t, v + 1), LAMBDA w, value :
                   Done(w, name \o ":" \o type \o "=" \o value))
         ELSE Done(v, name \o ":" \o type)))))

parseOperationDefinition(t, p) ==
    LET named == PeekKind(t, p + 1, Names) /\ ~ Peek(t, p + 1, "on")
        name == IF named THEN t[p + 1] ELSE ""
        q == IF named THEN p + 2 ELSE p + 1
        variables == IF Peek(t, q, "(") THEN Enclosed("variable", t, q + 1) ELSE Done(q, <<>>)
    IN Then(variables, LAMBDA r, defs :
            parseRest(t, r, "op:" \o t[p] \o ":" \o name \o ":[" \o Join(Sorted(defs), ",") \o "]"))

parseFragmentDefinition(t, p) ==
    Then(expectName(t, p + 1), LAMBDA q, name :
    Then(expect(t, q, "on"), LAMBDA r, on :
    Then(expectName(t, r), LAMBDA u, type :
         parseRest(t, u, "fragment:" \o name \o ":on:" \o type))))

parseDefinition(t, p) ==
    CASE Peek(t, p, "fragment") -> parseFragmentDefinition(t, p)
      [] PeekKind(t, p, {"query", "mutation", "subscription"}) -> parseOperationDefinition(t, p)
      [] Peek(t, p, "{") ->
           Then(parseSelectionSet(t, p), LAMBDA q, selections :
                Done(q, "op:query:::[]:" \o selections))
      [] OTHER -> Error

Item(kind, t, p) ==
    CASE kind = "definition" -> parseDefinition(t, p)
      [] kind = "selection" -> parseSelection(t, p)
      [] kind = "variable" -> parseVariable(t, p)
      [] kind \in {"argument", "field"} -> parseArgument(t, p)
      [] kind = "directive" -> parseDirective(t, p)
      [] kind = "value" -> parseValue(t, p)

\* parseGraphQLDocument: the canonical string of a query, or an error.
parseDocument(query) ==
    LET t == tokenize(query)
    IN IF t = <<>> \/ ToSet(t) \cap Broken # {} THEN Error
       ELSE Then(Items("definition", t, 1), LAMBDA p, definitions :
                 Done(p, "doc(" \o Join(Sorted(definitions), "|") \o ")"))

-----------------------------------------------------------------------------
(* The matcher.  Of variables and operation name, null is as good as no    *)
(* field.  Variables in a JSON string are those it contains ("quoted" has  *)
(* v1, "text" is no JSON).                                                 *)

Body == [query : Seq(Lexemes),
         variables : {"absent", "null", "v1", "quoted", "v2", "text"},
         operationName : {"absent", "null", "empty", "A", "number"}]

normalize(field) ==
    CASE field = "null" -> "absent"
      [] field = "quoted" -> "v1"
      [] OTHER -> field

\* parseGraphQLBodyMatcher and parseGraphQLRequestBody accept the same.
Accepts(body) ==
    /\ parseDocument(body.query).ok
    /\ body.variables # "text"
    /\ body.operationName # "number"

\* GraphQLBodyMatcher.Matches
MatchesBody(stub, request) ==
    /\ Accepts(request)
    /\ parseDocument(stub.query).out = parseDocument(request.query).out
    /\ normalize(stub.variables) = normalize(request.variables)
    /\ normalize(stub.operationName) = normalize(request.operationName)
=============================================================================
