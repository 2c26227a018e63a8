----------------------------- MODULE Arguments -----------------------------
(***************************************************************************)
(* How a value travels (common/arguments.ts): encode makes of it something *)
(* JSON can carry, JSON carries it (JSON.stringify and JSON.parse, by what *)
(* they do to each kind of value), and decode makes a value of what comes. *)
(* Values, encodings and parsed JSON are all JavaScript values and may be  *)
(* taken for one another: a plain object can look like an encoding.        *)
(***************************************************************************)
EXTENDS Naturals, Sequences, SequencesExt

CONSTANTS
    Kinds,   \* the kinds of the parts without parts that values are built from
    Keys,    \* the keys of objects
    Texts,   \* the texts there are
    Depth,   \* how deep they nest
    Values,  \* what is sent
    Stores   \* what a client keeps of its callbacks, or the server of its proxies, before

VARIABLES
    value,   \* what is sent
    store,   \* what its sender keeps, each under the id of its place
    stage,   \* "given", "encoded", "sent", "decoded" or "thrown"
    wire,    \* the encoding, then the parsed JSON
    arrived  \* what decode makes of it

vars == <<value, store, stage, wire, arrived>>

-----------------------------------------------------------------------------
(* Values.  Arrays and objects have parts; an object has a key for each.   *)
(* n is a number, or the id of a proxy; data is a text, a date to the      *)
(* milliseconds or the seconds, what a buffer holds, which function it is, *)
(* or "NaN" for the numbers that JSON has no notation for.                 *)

Atom(kind, data, n) == [kind |-> kind, data |-> data, n |-> n, keys |-> <<>>, parts |-> <<>>]
List(parts) == [kind |-> "array", data |-> "none", n |-> 0, keys |-> <<>>, parts |-> parts]
Object(keys, parts) == [kind |-> "object", data |-> "none", n |-> 0, keys |-> keys, parts |-> parts]
Text(data) == Atom("string", data, 0)
Number(n) == Atom("number", "none", n)

Null == Atom("null", "none", 0)
Undefined == Atom("undefined", "none", 0)
Gone == Atom("gone", "none", 0)       \* in the place of a part whose key is dropped
Thrown == Atom("thrown", "none", 0)
Nothing == Atom("nothing", "none", 0)

AtomKinds == {"null", "undefined", "number", "string", "boolean", "date", "error", "buffer",
              "bytes", "function", "proxy", "symbol"}

\* What an encoding says it is (the enumeration Type).
Types == {"array", "buffer", "date", "error", "function", "object", "proxy", "undefined"}

\* The values whose parts are in S.  A plain object with a function onEvent is a
\* proxy (util.ts:5), one with a function getTime a date (arguments.ts:101).
Node(kinds, S) ==
    {v \in [kind : kinds \union {"array", "object"}, data : Texts, n : Nat,
            keys : Seq(Keys), parts : Seq(S)] :
        /\ v.kind \notin {"string", "number", "boolean", "date", "buffer", "function"} => v.data = "none"
        /\ v.kind \notin {"number", "proxy"} => v.n = 0
        /\ v.kind \notin {"array", "object"} => v.parts = <<>>
        /\ Len(v.keys) = IF v.kind = "object" THEN Len(v.parts) ELSE 0
        /\ IsInjective(v.keys)
        /\ \A i \in DOMAIN v.keys : v.keys[i] \in {"onEvent", "getTime"} => v.parts[i].kind # "function"}

\* The values that nest at most d deep.
Trees(kinds) ==
    LET t[d \in 0 .. 2 * Depth + 1] == IF d = 0 THEN {} ELSE Node(kinds, t[d - 1]) IN t

Value == Trees(AtomKinds \union {"gone"})
Store == [of : {"function", "proxy"}, has : Seq(Value[1])]

\* A key __proto__ is none: encode would set the prototype by it (arguments.ts:106).
ASSUME ArgumentsAssumption ==
    /\ Kinds \subseteq AtomKinds
    /\ {"type", "values", "id", "data", "date", "0"} \subseteq Keys /\ "__proto__" \notin Keys
    /\ Types \union {"none", "seconds", "Buffer"} \subseteq Texts
    /\ Depth \in Nat \ {0}
    /\ Values \subseteq Trees(Kinds)[Depth]
    /\ Stores \subseteq Store

\* A key that is missing reads as undefined.
Get(v, key) ==
    IF v.kind = "object" /\ key \in ToSet(v.keys)
    THEN v.parts[CHOOSE i \in DOMAIN v.keys : v.keys[i] = key]
    ELSE Undefined

-----------------------------------------------------------------------------
(* encode.                                                                 *)

\* The error test comes before the others, and takes objects that look like one.
LikeError(v) == v.kind = "error" \/ (Get(v, "message") # Undefined /\ Get(v, "stack") # Undefined)

Encoding(type) == Object(<<"type">>, <<Text(type)>>)
EncodingOf(type, key, v) ==
    IF v = Thrown THEN Thrown ELSE Object(<<"type", key>>, <<Text(type), v>>)
With(v, parts) == IF Thrown \in ToSet(parts) THEN Thrown ELSE [v EXCEPT !.parts = parts]

\* An object's values are encoded under a key of their own.
EncodedObject(v) == EncodingOf("object", "values", v)

\* "undefined must be explicitly encoded".
PlainUndefined == Undefined
EncodedUndefined == Encoding("undefined")

\* v's parts converted one by one, by f, each with what is kept by then.
Parts(f, v, s) ==
    LET g[i \in 0 .. Len(v.parts)] ==
            IF i = 0 THEN [made |-> <<>>, store |-> s]
            ELSE IF Thrown \in ToSet(g[i - 1].made) THEN g[i - 1]
            ELSE LET r == f[<<v.parts[i], g[i - 1].store>>]
                 IN  [made |-> Append(g[i - 1].made, r.made), store |-> r.store]
    IN  g[Len(v.parts)]

\* What convert makes of what it has no need to keep.  A date's toString has no milliseconds.
Plain(v, made) ==
    IF LikeError(v) THEN Encoding("error")
    ELSE CASE v.kind = "proxy" -> EncodingOf("proxy", "id", Number(v.n))
           [] v.kind \in {"buffer", "bytes"} -> EncodingOf("buffer", "data", v)
           [] v.kind = "array" -> EncodingOf("array", "values", With(v, made))
           [] v.kind = "date" -> EncodingOf("date", "date", Text("seconds"))
           [] v.kind = "object" -> EncodedObject(With(v, made))
           [] v.kind = "undefined" -> EncodedUndefined
           [] v.kind \in {"null", "number", "string", "boolean"} -> v
           [] v.kind \in {"function", "symbol"} -> Thrown

\* convert: a client keeps the functions in v, the server the proxies, each under the next id.
ConvertWith(f, v, s) ==
    IF v.kind = s.of
    THEN [made |-> EncodingOf(v.kind, "id", Number(Len(s.has))),
          store |-> [s EXCEPT !.has = Append(@, v)]]
    ELSE IF v.kind \in {"array", "object"} /\ ~LikeError(v)
    THEN [made |-> Plain(v, Parts(f, v, s).made), store |-> Parts(f, v, s).store]
    ELSE [made |-> Plain(v, <<>>), store |-> s]
Convert[d \in 0 .. Depth] ==
    [x \in Value[d] \X Store |-> ConvertWith(IF d = 0 THEN <<>> ELSE Convert[d - 1], x[1], x[2])]

-----------------------------------------------------------------------------
(* JSON.  Numbers it has no notation for become null, undefined becomes    *)
(* null in an array and goes from an object, a Buffer has a toJSON and a   *)
(* Uint8Array is an object with a key for each index.                      *)

JsonWith(f, v) ==
    LET Carried(missing) ==
            [v EXCEPT !.parts = [i \in 1 .. Len(v.parts) |->
                IF v.parts[i] = Undefined THEN missing ELSE f[v.parts[i]]]]
    IN  CASE v.kind = "number" /\ v.data = "NaN" -> Null
          [] v.kind = "buffer" -> Object(<<"type", "data">>, <<Text("Buffer"), Text(v.data)>>)
          [] v.kind = "bytes" -> Object(<<"0">>, <<Number(1)>>)
          [] v.kind = "array" -> Carried(Null)
          [] v.kind = "object" -> Carried(Gone)
          [] OTHER -> v
Json[d \in 0 .. 2 * Depth] == [v \in Value[d] |-> JsonWith(IF d = 0 THEN <<>> ELSE Json[d - 1], v)]

-----------------------------------------------------------------------------
(* decode.                                                                 *)

\* Buffer.from takes what a Buffer's toJSON gives and no other plain object.
BufferFrom(w) ==
    IF Get(w, "type") = Text("Buffer") THEN Atom("buffer", Get(w, "data").data, 0) ELSE Thrown

\* What a decoded proxy or function stands for: what its sender keeps under the id.
\* An argument names a proxy by the id it has.
Under(s, id) == IF id.n + 1 \in DOMAIN s.has THEN s.has[id.n + 1] ELSE Nothing
Found(kind, id, s) == IF kind = s.of THEN Under(s, id) ELSE Atom(kind, "none", id.n)

\* convert: an encoding's values are two levels under it.
RevertWith(f, w, s) ==
    LET type == Get(w, "type").data
        values == Get(w, "values")
        parts == [i \in 1 .. Len(values.parts) |-> f[<<values.parts[i], s>>]]
    IN  CASE w.kind \in {"null", "number", "string", "boolean", "gone"} -> w
          [] type \in {"array", "object"} -> With(values, parts)
          [] type = "buffer" -> BufferFrom(Get(w, "data"))
          [] type = "date" -> Atom("date", Get(w, "date").data, 0)
          [] type = "error" -> Atom("error", "none", 0)
          [] type \in {"function", "proxy"} -> Found(type, Get(w, "id"), s)
          [] type = "undefined" -> Undefined
          [] OTHER -> Thrown
Revert[d \in 0 .. Depth] ==
    [x \in Value[2 * d + 1] \X Store |-> RevertWith(IF d = 0 THEN <<>> ELSE Revert[d - 1], x[1], x[2])]

-----------------------------------------------------------------------------

Init ==
    /\ value \in Values
    /\ store \in Stores
    /\ stage = "given"
    /\ wire = Nothing
    /\ arrived = Nothing

Encode ==
    /\ stage = "given"
    /\ LET r == Convert[Depth][<<value, store>>] IN wire' = r.made /\ store' = r.store
    /\ stage' = IF wire' = Thrown THEN "thrown" ELSE "encoded"
    /\ UNCHANGED <<value, arrived>>

Transmit ==
    /\ stage = "encoded"
    /\ wire' = Json[2 * Depth][wire]
    /\ stage' = "sent"
    /\ UNCHANGED <<value, store, arrived>>

Decode ==
    /\ stage = "sent"
    /\ arrived' = Revert[Depth][<<wire, store>>]
    /\ stage' = "decoded"
    /\ UNCHANGED <<value, store, wire>>

Next == Encode \/ Transmit \/ Decode

Spec == Init /\ [][Next]_vars

-----------------------------------------------------------------------------

\* What should arrive: the value itself, but for a date's milliseconds, a number
\* JSON cannot write, and an object that looks like an error, which becomes one.
MeantWith(f, v) ==
    IF LikeError(v) THEN Atom("error", "none", 0)
    ELSE CASE v.kind = "date" -> Atom("date", "seconds", 0)
           [] v.kind = "number" /\ v.data = "NaN" -> Null
           [] OTHER -> [v EXCEPT !.parts = [i \in 1 .. Len(v.parts) |-> f[v.parts[i]]]]
Meant[d \in 0 .. Depth] == [v \in Value[d] |-> MeantWith(IF d = 0 THEN <<>> ELSE Meant[d - 1], v)]

\* A value arrives as what it was: every part in its place, each proxy and each
\* function as the one that was sent, undefined where it was undefined, and no
\* plain object as what it looks like when encoded.
ArrivesIntact == stage = "decoded" => arrived = Meant[Depth][value]

\* arguments.ts:97 encodes a Uint8Array like a Buffer, and line 23 says that this is
\* what an EncodedBuffer has for data: whatever encode lets through, decode takes.
DecodesItsEncodings == stage = "decoded" => arrived # Thrown

=============================================================================
