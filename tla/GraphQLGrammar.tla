--------------------------- MODULE GraphQLGrammar ---------------------------
(***************************************************************************)
(* What queries mean, by a grammar: the trees a sequence of tokens can be  *)
(* derived as, with the members of lists whose order means nothing in one  *)
(* arrangement.  This is the reference the parser is compared with; it     *)
(* differs from the language's own grammar where the parser does: no       *)
(* operation is named "on", an inline fragment has a type, a fragment may  *)
(* be named "on", and { a } is not query { a }.                            *)
(***************************************************************************)
EXTENDS GraphQL

\* The right-hand sides of each symbol; a symbol without any is a terminal.
Grammar ==
    [Definition |->
        {<<"SelectionSet">>,
         <<"OperationType", "OperationName", "Variables", "Directives", "SelectionSet">>,
         <<"fragment", "Name", "on", "Name", "Directives", "SelectionSet">>},
     OperationType |-> {<<"query">>, <<"mutation">>, <<"subscription">>},
     OperationName |-> {<<>>, <<"NameButOn">>},
     Variables |-> {<<>>, <<"(", "VariableList", ")">>},
     Variable |-> {<<"$", "Name", ":", "Type">>, <<"$", "Name", ":", "Type", "=", "Value">>},
     Type |-> {<<"NullableType">>, <<"NullableType", "!">>},
     NullableType |-> {<<"Name">>, <<"[", "Type", "]">>},
     SelectionSet |-> {<<"{", "Selections", "}">>},
     Selection |->
        {<<"Alias", "Name", "Arguments", "Directives", "Fields">>,
         <<"...", "NameButOn", "Directives">>,
         <<"...", "on", "Name", "Directives", "SelectionSet">>},
     Alias |-> {<<>>, <<"Name", ":">>},
     Fields |-> {<<>>, <<"SelectionSet">>},
     Arguments |-> {<<>>, <<"(", "ArgumentList", ")">>},
     Argument |-> {<<"Name", ":", "Value">>},
     Directive |-> {<<"@", "Name", "Arguments">>},
     Value |->
        {<<"$", "Name">>, <<"[", "Values", "]">>, <<"{", "ArgumentList", "}">>,
         <<"String">>, <<"Number">>, <<"Name">>}]

\* Lists of a symbol, two of them never empty, one of them in order.
Lists ==
    [Definitions |-> "Definition", Selections |-> "Selection", VariableList |-> "Variable",
     ArgumentList |-> "Argument", Directives |-> "Directive", Values |-> "Value"]
NeverEmpty == {"Definitions", "Selections"}
Ordered == {"Values"}

\* The tokens a terminal stands for.
Terminal(symbol) ==
    CASE symbol = "Name" -> Names
      [] symbol = "NameButOn" -> Names \ {"on"}
      [] symbol = "String" -> Strings
      [] symbol = "Number" -> Numbers
      [] OTHER -> {symbol}

Node(label, children) == [label |-> label, children |-> children]

\* Empty parentheses mean the same as none.
Tree(symbol, children) ==
    Node(symbol, IF symbol \in {"Arguments", "Variables"} /\ children # <<>>
                 THEN children[2].children ELSE children)

\* A reading of tokens from a position: what it yields and where it ends.
Reading(tree, end) == [tree |-> tree, end |-> end]

RECURSIVE Read(_, _, _), ReadAll(_, _, _), ReadList(_, _, _)

\* All readings of tokens t from p as the symbols one after the other, and as
\* any number of members of a list.
ReadAll(symbols, t, p) ==
    IF symbols = <<>>
    THEN {Reading(<<>>, p)}
    ELSE UNION {{Reading(<<first.tree>> \o rest.tree, rest.end) :
                    rest \in ReadAll(Tail(symbols), t, first.end)} :
                        first \in Read(Head(symbols), t, p)}

ReadList(symbol, t, p) ==
    {Reading(<<>>, p)} \cup
        UNION {{Reading(<<first.tree>> \o rest.tree, rest.end) :
                    rest \in ReadList(symbol, t, first.end)} :
                        first \in Read(symbol, t, p)}

Read(symbol, t, p) ==
    CASE symbol \in DOMAIN Grammar ->
           {Reading(Tree(symbol, r.tree), r.end) :
                r \in UNION {ReadAll(rhs, t, p) : rhs \in Grammar[symbol]}}
      [] symbol \in DOMAIN Lists ->
           {Reading(Node(symbol, IF symbol \in Ordered THEN r.tree ELSE Sorted(r.tree)), r.end) :
                r \in {l \in ReadList(Lists[symbol], t, p) : symbol \in NeverEmpty => l.tree # <<>>}}
      [] OTHER ->
           IF p <= Len(t) /\ t[p] \in Terminal(symbol) THEN {Reading(Node(t[p], <<>>), p + 1)} ELSE {}

\* What a query can mean: nothing, when it is none.
Meanings(query) ==
    LET t == tokenize(query)
        whole == {r \in Read("Definitions", t, 1) : r.end = Len(t) + 1}
    IN IF \E i \in DOMAIN t : t[i] \in Broken THEN {} ELSE {r.tree : r \in whole}
=============================================================================
