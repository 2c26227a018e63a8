---------------------------- MODULE MCArguments ----------------------------
(* Bounds: values of three levels, with keys that make them look like       *)
(* encodings, and like errors; a client that kept a callback before or not. *)
EXTENDS Arguments

Examples ==
    {Null, Undefined, Number(1), Atom("number", "NaN", 0), Text("proxy"),
     Atom("date", "milliseconds", 0), Atom("error", "none", 0), Atom("buffer", "b", 0), Atom("bytes", "none", 0),
     Atom("symbol", "none", 0), Atom("function", "f", 0), Atom("function", "g", 0),
     Atom("proxy", "none", 1), Atom("proxy", "none", 2)}
Leaves == {v \in Examples : v.kind \in Kinds}
Pairs == Leaves \X Leaves
Flat ==
    {List(<<>>), Object(<<>>, <<>>)}
    \union {List(<<v>>) : v \in Leaves}
    \union {Object(<<"type">>, <<v>>) : v \in Leaves}
    \union {List(vs) : vs \in Pairs}
    \union {Object(<<"type", "values">>, vs) : vs \in Pairs}
    \union {Object(<<"message", "stack">>, vs) : vs \in Pairs}
MCKeys == STRING \ {"__proto__"}
MCTexts == STRING
MCDepth == 3
MCValues ==
    Leaves \union Flat
    \union {List(<<v>>) : v \in Flat}
    \union {Object(<<"type">>, <<v>>) : v \in Flat}
    \union {Object(<<"type", "values">>, <<List(<<u>>), List(<<v>>)>>) : u \in Leaves, v \in Leaves}
MCStores ==
    {[of |-> "function", has |-> <<>>], [of |-> "function", has |-> <<Atom("function", "h", 0)>>],
     [of |-> "proxy", has |-> <<>>], [of |-> "proxy", has |-> <<Atom("proxy", "none", 0)>>]}

=============================================================================
