-------------------------- MODULE ArgumentsProofs ---------------------------
(***************************************************************************)
(* Proofs about how a value travels, for values of every depth.            *)
(***************************************************************************)
EXTENDS Arguments, QueueLemmas

-----------------------------------------------------------------------------
(* The recursive functions, by what they are at each depth.                *)

\* Trees is built level by level.
LEMMA TreesAt ==
    ASSUME NEW kinds
    PROVE  /\ Trees(kinds)[0] = {}
           /\ \A d \in 1 .. 2 * Depth + 1 : Trees(kinds)[d] = Node(kinds, Trees(kinds)[d - 1])
<1> DEFINE N == 2 * Depth + 1
           Body(t, n) == [d \in 0 .. n |-> IF d = 0 THEN {} ELSE Node(kinds, t[d - 1])]
           S == {n \in 0 .. N : \E t : t = Body(t, n)}
<1>0. N \in Nat
  BY ArgumentsAssumption
<1> HIDE DEF N
<1>1. 0 \in S
  <2> DEFINE t == [d \in 0 .. 0 |-> {}]
  <2>1. t = Body(t, 0)
    OBVIOUS
  <2> HIDE DEF t
  <2> QED
    BY <1>0, <2>1
<1>2. ASSUME NEW n \in 1 .. N, n - 1 \in S PROVE n \in S
  <2>1. PICK t : t = Body(t, n - 1)
    BY <1>2
  <2> DEFINE u == [d \in 0 .. n |-> IF d = n THEN Node(kinds, t[n - 1]) ELSE t[d]]
  <2>2. \A d \in 0 .. n - 1 : t[d] = IF d = 0 THEN {} ELSE Node(kinds, t[d - 1])
    BY <2>1
  <2>3. ASSUME NEW d \in 0 .. n PROVE u[d] = IF d = 0 THEN {} ELSE Node(kinds, u[d - 1])
    <3>1. CASE d = n
      BY <1>0, <3>1
    <3>2. CASE d # n
      <4>1. d \in 0 .. n - 1 /\ u[d] = t[d]
        BY <1>0, <3>2
      <4>2. d # 0 => u[d - 1] = t[d - 1]
        BY <1>0, <3>2
      <4> HIDE DEF u
      <4> QED
        BY <2>2, <4>1, <4>2
    <3> QED
      BY <3>1, <3>2
  <2>4. u = [d \in 0 .. n |-> u[d]]
    OBVIOUS
  <2> HIDE DEF u
  <2>5. u = Body(u, n)
    BY <2>3, <2>4
  <2> QED
    BY <1>0, <2>5
<1>3. N \in S
  <2> HIDE DEF S
  <2>1. S \in SUBSET (0 .. N)
    BY DEF S
  <2> QED
    BY <1>0, <1>1, <1>2, <2>1, UpTo
<1>4. PICK t : t = Body(t, N)
  BY <1>3
<1>5. Trees(kinds) = Body(Trees(kinds), N)
  BY <1>4 DEF Trees, N
<1>6. \A d \in 0 .. N : Trees(kinds)[d] = IF d = 0 THEN {} ELSE Node(kinds, Trees(kinds)[d - 1])
  BY <1>5
<1>7. \A d \in 1 .. N : d \in 0 .. N /\ d # 0
  BY <1>0
<1>8. 0 \in 0 .. N
  BY <1>0
<1> QED
  BY <1>6, <1>7, <1>8 DEF N

\* Convert, Json, Revert and Meant are built level by level.
LEMMA ConvertAt ==
    \A d \in 0 .. Depth : Convert[d] = [x \in Value[d] \X Store |-> ConvertWith(IF d = 0 THEN <<>> ELSE Convert[d - 1], x[1], x[2])]
<1> DEFINE N == Depth
           G(d, p) == [x \in Value[d] \X Store |-> ConvertWith(p, x[1], x[2])]
           Body(t, n) == [d \in 0 .. n |-> G(d, IF d = 0 THEN <<>> ELSE t[d - 1])]
           S == {n \in 0 .. N : \E t : t = Body(t, n)}
<1>0. N \in Nat
  BY ArgumentsAssumption
<1> HIDE DEF N, G
<1>1. 0 \in S
  <2> DEFINE t == [d \in 0 .. 0 |-> G(0, <<>>)]
  <2>1. t = Body(t, 0)
    OBVIOUS
  <2> HIDE DEF t
  <2> QED
    BY <1>0, <2>1
<1>2. ASSUME NEW n \in 1 .. N, n - 1 \in S PROVE n \in S
  <2>1. PICK t : t = Body(t, n - 1)
    BY <1>2
  <2> DEFINE u == [d \in 0 .. n |-> IF d = n THEN G(n, t[n - 1]) ELSE t[d]]
  <2>2. \A d \in 0 .. n - 1 : t[d] = G(d, IF d = 0 THEN <<>> ELSE t[d - 1])
    BY <2>1
  <2>3. \A d \in 0 .. n : u[d] = G(d, IF d = 0 THEN <<>> ELSE u[d - 1])
    BY <1>0, <2>2
  <2>4. u = [d \in 0 .. n |-> u[d]]
    OBVIOUS
  <2> HIDE DEF u
  <2>5. u = Body(u, n)
    BY <2>3, <2>4
  <2> QED
    BY <1>0, <2>5
<1>3. N \in S
  <2> HIDE DEF S
  <2>1. S \in SUBSET (0 .. N)
    BY DEF S
  <2> QED
    BY <1>0, <1>1, <1>2, <2>1, UpTo
<1>4. PICK t : t = Body(t, N)
  BY <1>3
<1>5. Convert = Body(Convert, N)
  BY <1>4 DEF Convert, N, G
<1> HIDE DEF S
<1>6. \A d \in 0 .. N : Convert[d] = G(d, IF d = 0 THEN <<>> ELSE Convert[d - 1])
  BY <1>5
<1> QED
  BY <1>6 DEF N, G

\* See ConvertAt.
LEMMA JsonAt ==
    \A d \in 0 .. 2 * Depth : Json[d] = [v \in Value[d] |-> JsonWith(IF d = 0 THEN <<>> ELSE Json[d - 1], v)]
<1> DEFINE N == 2 * Depth
           G(d, p) == [v \in Value[d] |-> JsonWith(p, v)]
           Body(t, n) == [d \in 0 .. n |-> G(d, IF d = 0 THEN <<>> ELSE t[d - 1])]
           S == {n \in 0 .. N : \E t : t = Body(t, n)}
<1>0. N \in Nat
  BY ArgumentsAssumption
<1> HIDE DEF N, G
<1>1. 0 \in S
  <2> DEFINE t == [d \in 0 .. 0 |-> G(0, <<>>)]
  <2>1. t = Body(t, 0)
    OBVIOUS
  <2> HIDE DEF t
  <2> QED
    BY <1>0, <2>1
<1>2. ASSUME NEW n \in 1 .. N, n - 1 \in S PROVE n \in S
  <2>1. PICK t : t = Body(t, n - 1)
    BY <1>2
  <2> DEFINE u == [d \in 0 .. n |-> IF d = n THEN G(n, t[n - 1]) ELSE t[d]]
  <2>2. \A d \in 0 .. n - 1 : t[d] = G(d, IF d = 0 THEN <<>> ELSE t[d - 1])
    BY <2>1
  <2>3. \A d \in 0 .. n : u[d] = G(d, IF d = 0 THEN <<>> ELSE u[d - 1])
    BY <1>0, <2>2
  <2>4. u = [d \in 0 .. n |-> u[d]]
    OBVIOUS
  <2> HIDE DEF u
  <2>5. u = Body(u, n)
    BY <2>3, <2>4
  <2> QED
    BY <1>0, <2>5
<1>3. N \in S
  <2> HIDE DEF S
  <2>1. S \in SUBSET (0 .. N)
    BY DEF S
  <2> QED
    BY <1>0, <1>1, <1>2, <2>1, UpTo
<1>4. PICK t : t = Body(t, N)
  BY <1>3
<1>5. Json = Body(Json, N)
  BY <1>4 DEF Json, N, G
<1> HIDE DEF S
<1>6. \A d \in 0 .. N : Json[d] = G(d, IF d = 0 THEN <<>> ELSE Json[d - 1])
  BY <1>5
<1> QED
  BY <1>6 DEF N, G

\* See ConvertAt.
LEMMA RevertAt ==
    \A d \in 0 .. Depth : Revert[d] = [x \in Value[2 * d + 1] \X Store |-> RevertWith(IF d = 0 THEN <<>> ELSE Revert[d - 1], x[1], x[2])]
<1> DEFINE N == Depth
           G(d, p) == [x \in Value[2 * d + 1] \X Store |-> RevertWith(p, x[1], x[2])]
           Body(t, n) == [d \in 0 .. n |-> G(d, IF d = 0 THEN <<>> ELSE t[d - 1])]
           S == {n \in 0 .. N : \E t : t = Body(t, n)}
<1>0. N \in Nat
  BY ArgumentsAssumption
<1> HIDE DEF N, G
<1>1. 0 \in S
  <2> DEFINE t == [d \in 0 .. 0 |-> G(0, <<>>)]
  <2>1. t = Body(t, 0)
    OBVIOUS
  <2> HIDE DEF t
  <2> QED
    BY <1>0, <2>1
<1>2. ASSUME NEW n \in 1 .. N, n - 1 \in S PROVE n \in S
  <2>1. PICK t : t = Body(t, n - 1)
    BY <1>2
  <2> DEFINE u == [d \in 0 .. n |-> IF d = n THEN G(n, t[n - 1]) ELSE t[d]]
  <2>2. \A d \in 0 .. n - 1 : t[d] = G(d, IF d = 0 THEN <<>> ELSE t[d - 1])
    BY <2>1
  <2>3. \A d \in 0 .. n : u[d] = G(d, IF d = 0 THEN <<>> ELSE u[d - 1])
    BY <1>0, <2>2
  <2>4. u = [d \in 0 .. n |-> u[d]]
    OBVIOUS
  <2> HIDE DEF u
  <2>5. u = Body(u, n)
    BY <2>3, <2>4
  <2> QED
    BY <1>0, <2>5
<1>3. N \in S
  <2> HIDE DEF S
  <2>1. S \in SUBSET (0 .. N)
    BY DEF S
  <2> QED
    BY <1>0, <1>1, <1>2, <2>1, UpTo
<1>4. PICK t : t = Body(t, N)
  BY <1>3
<1>5. Revert = Body(Revert, N)
  BY <1>4 DEF Revert, N, G
<1> HIDE DEF S
<1>6. \A d \in 0 .. N : Revert[d] = G(d, IF d = 0 THEN <<>> ELSE Revert[d - 1])
  BY <1>5
<1> QED
  BY <1>6 DEF N, G

\* See ConvertAt.
LEMMA MeantAt ==
    \A d \in 0 .. Depth : Meant[d] = [v \in Value[d] |-> MeantWith(IF d = 0 THEN <<>> ELSE Meant[d - 1], v)]
<1> DEFINE N == Depth
           G(d, p) == [v \in Value[d] |-> MeantWith(p, v)]
           Body(t, n) == [d \in 0 .. n |-> G(d, IF d = 0 THEN <<>> ELSE t[d - 1])]
           S == {n \in 0 .. N : \E t : t = Body(t, n)}
<1>0. N \in Nat
  BY ArgumentsAssumption
<1> HIDE DEF N, G
<1>1. 0 \in S
  <2> DEFINE t == [d \in 0 .. 0 |-> G(0, <<>>)]
  <2>1. t = Body(t, 0)
    OBVIOUS
  <2> HIDE DEF t
  <2> QED
    BY <1>0, <2>1
<1>2. ASSUME NEW n \in 1 .. N, n - 1 \in S PROVE n \in S
  <2>1. PICK t : t = Body(t, n - 1)
    BY <1>2
  <2> DEFINE u == [d \in 0 .. n |-> IF d = n THEN G(n, t[n - 1]) ELSE t[d]]
  <2>2. \A d \in 0 .. n - 1 : t[d] = G(d, IF d = 0 THEN <<>> ELSE t[d - 1])
    BY <2>1
  <2>3. \A d \in 0 .. n : u[d] = G(d, IF d = 0 THEN <<>> ELSE u[d - 1])
    BY <1>0, <2>2
  <2>4. u = [d \in 0 .. n |-> u[d]]
    OBVIOUS
  <2> HIDE DEF u
  <2>5. u = Body(u, n)
    BY <2>3, <2>4
  <2> QED
    BY <1>0, <2>5
<1>3. N \in S
  <2> HIDE DEF S
  <2>1. S \in SUBSET (0 .. N)
    BY DEF S
  <2> QED
    BY <1>0, <1>1, <1>2, <2>1, UpTo
<1>4. PICK t : t = Body(t, N)
  BY <1>3
<1>5. Meant = Body(Meant, N)
  BY <1>4 DEF Meant, N, G
<1> HIDE DEF S
<1>6. \A d \in 0 .. N : Meant[d] = G(d, IF d = 0 THEN <<>> ELSE Meant[d - 1])
  BY <1>5
<1> QED
  BY <1>6 DEF N, G

-----------------------------------------------------------------------------
(* The values.                                                             *)

WireKinds == AtomKinds \union {"gone"}

\* What a value with parts in S is.
LEMMA NodeFields ==
    ASSUME NEW kinds, NEW S, NEW v \in Node(kinds, S)
    PROVE  /\ v = [kind |-> v.kind, data |-> v.data, n |-> v.n, keys |-> v.keys, parts |-> v.parts]
           /\ v.kind \in kinds \union {"array", "object"}
           /\ v.data \in Texts /\ v.n \in Nat
           /\ v.keys \in Seq(Keys) /\ v.parts \in Seq(S)
BY DEF Node

LEMMA NodeRules ==
    ASSUME NEW kinds, NEW S, NEW v \in Node(kinds, S)
    PROVE  /\ v.kind \notin {"string", "number", "boolean", "date", "buffer", "function"} => v.data = "none"
           /\ v.kind \notin {"number", "proxy"} => v.n = 0
           /\ v.kind \notin {"array", "object"} => v.parts = <<>>
           /\ Len(v.keys) = IF v.kind = "object" THEN Len(v.parts) ELSE 0
           /\ IsInjective(v.keys)
           /\ \A i \in DOMAIN v.keys : v.keys[i] \in {"onEvent", "getTime"} => v.parts[i].kind # "function"
BY DEF Node

LEMMA ValueAt ==
    /\ Value[0] = {}
    /\ \A d \in 1 .. 2 * Depth + 1 : Value[d] = Node(WireKinds, Value[d - 1])
BY TreesAt DEF Value, WireKinds

\* More kinds and more parts make more values.
LEMMA NodeGrows ==
    ASSUME NEW kinds, NEW more, kinds \subseteq more, NEW S, NEW T, S \subseteq T
    PROVE  Node(kinds, S) \subseteq Node(more, T)
<1> SUFFICES ASSUME NEW v \in Node(kinds, S) PROVE v \in Node(more, T)
  OBVIOUS
<1>1. v.parts \in Seq(T)
  BY NodeFields
<1>2. v.kind \in more \union {"array", "object"}
  BY NodeFields
<1>3. v \in [kind : more \union {"array", "object"}, data : Texts, n : Nat,
             keys : Seq(Keys), parts : Seq(T)]
  BY <1>1, <1>2, NodeFields
<1> QED
  BY <1>3, NodeRules DEF Node

\* What is sent is a value.
LEMMA SentIsValue == \A d \in 0 .. Depth : Trees(Kinds)[d] \subseteq Value[d]
<1> DEFINE S == {d \in 0 .. Depth : Trees(Kinds)[d] \subseteq Value[d]}
<1>0. Depth \in Nat /\ Kinds \subseteq WireKinds
  BY ArgumentsAssumption DEF WireKinds
<1>1. 0 \in S
  BY <1>0, TreesAt, ValueAt
<1>2. ASSUME NEW d \in 1 .. Depth, d - 1 \in S PROVE d \in S
  <2>1. d \in 1 .. 2 * Depth + 1
    BY <1>0
  <2>2. Trees(Kinds)[d] = Node(Kinds, Trees(Kinds)[d - 1]) /\ Value[d] = Node(WireKinds, Value[d - 1])
    BY <2>1, TreesAt, ValueAt
  <2>3. Trees(Kinds)[d - 1] \subseteq Value[d - 1]
    BY <1>2
  <2>4. Trees(Kinds)[d] \subseteq Value[d]
    BY <1>0, <2>2, <2>3, NodeGrows
  <2> QED
    BY <2>4
<1>3. S \in SUBSET (0 .. Depth)
  OBVIOUS
<1> HIDE DEF S
<1>4. S = 0 .. Depth
  BY <1>0, <1>1, <1>2, <1>3, UpTo
<1> QED
  BY <1>4 DEF S

\* Sequences of no, one and two values.
LEMMA SeqOf0 ==
    ASSUME NEW X
    PROVE  <<>> \in Seq(X) /\ Len(<<>>) = 0 /\ DOMAIN <<>> = {} /\ IsInjective(<<>>)
<1>1. <<>> \in Seq(X)
  OBVIOUS
<1>2. Len(<<>>) = 0 /\ DOMAIN <<>> = {}
  OBVIOUS
<1>3. IsInjective(<<>>)
  BY <1>2 DEF IsInjective
<1> QED
  BY <1>1, <1>2, <1>3

LEMMA SeqOf1 ==
    ASSUME NEW X, NEW a \in X
    PROVE  /\ <<a>> \in Seq(X) /\ Len(<<a>>) = 1 /\ DOMAIN <<a>> = {1} /\ <<a>>[1] = a
           /\ IsInjective(<<a>>)
<1>1. <<a>> \in Seq(X) /\ Len(<<a>>) = 1 /\ DOMAIN <<a>> = {1} /\ <<a>>[1] = a
  OBVIOUS
<1>2. IsInjective(<<a>>)
  BY <1>1 DEF IsInjective
<1> QED
  BY <1>1, <1>2

LEMMA SeqOf2 ==
    ASSUME NEW X, NEW a \in X, NEW b \in X
    PROVE  /\ <<a, b>> \in Seq(X) /\ Len(<<a, b>>) = 2 /\ DOMAIN <<a, b>> = {1, 2}
           /\ <<a, b>>[1] = a /\ <<a, b>>[2] = b
           /\ a # b => IsInjective(<<a, b>>)
<1>1. <<a, b>> \in Seq(X) /\ Len(<<a, b>>) = 2
  OBVIOUS
<1>2. DOMAIN <<a, b>> = {1, 2} /\ <<a, b>>[1] = a /\ <<a, b>>[2] = b
  OBVIOUS
<1>3. a # b => IsInjective(<<a, b>>)
  BY <1>2 DEF IsInjective
<1> QED
  BY <1>1, <1>2, <1>3

LEMMA AppendIsSeq ==
    ASSUME NEW X, NEW q \in Seq(X), NEW a \in X
    PROVE  Append(q, a) \in Seq(X)
OBVIOUS

\* Atoms are values of every depth.
LEMMA AtomIsValue ==
    ASSUME NEW d \in 1 .. 2 * Depth + 1, NEW kind \in WireKinds, NEW data \in Texts, NEW n \in Nat,
           kind \notin {"string", "number", "boolean", "date", "buffer", "function"} => data = "none",
           kind \notin {"number", "proxy"} => n = 0
    PROVE  Atom(kind, data, n) \in Value[d]
<1> DEFINE a == Atom(kind, data, n)
           S == Value[d - 1]
<1>3. a.kind = kind /\ a.data = data /\ a.n = n /\ a.keys = <<>> /\ a.parts = <<>>
  BY DEF Atom
<1>4. a \in [kind : WireKinds \union {"array", "object"}, data : Texts, n : Nat,
             keys : Seq(Keys), parts : Seq(S)]
  <2> HIDE DEF S
  <2> QED
    BY SeqOf0 DEF Atom
<1>5. kind \notin {"array", "object"}
  BY DEF WireKinds, AtomKinds
<1> HIDE DEF a, S
<1>8. a \in Node(WireKinds, S)
  BY <1>3, <1>4, <1>5, SeqOf0 DEF Node
<1> QED
  BY <1>8, ValueAt DEF a, S

\* So are encodings of one level less.
LEMMA EncodingIsValue ==
    ASSUME NEW d \in 2 .. 2 * Depth + 1, NEW a \in Value[d - 1]
    PROVE  Object(<<"type">>, <<a>>) \in Value[d]
<1> DEFINE ks == <<"type">>
           ps == <<a>>
           o == Object(ks, ps)
           S == Value[d - 1]
<1>1. ps \in Seq(S) /\ Len(ps) = 1
  BY SeqOf1
<1>2. "type" \in Keys
  BY ArgumentsAssumption
<1>3. ks \in Seq(Keys) /\ Len(ks) = 1 /\ IsInjective(ks) /\ DOMAIN ks = {1} /\ ks[1] = "type"
  BY <1>2, SeqOf1
<1> HIDE DEF ks, ps, S
<1>4. o.kind = "object" /\ o.data = "none" /\ o.n = 0 /\ o.keys = ks /\ o.parts = ps
  BY DEF Object
<1>5. o \in [kind : WireKinds \union {"array", "object"}, data : Texts, n : Nat,
             keys : Seq(Keys), parts : Seq(S)]
  BY <1>1, <1>3, ArgumentsAssumption DEF Object
<1> HIDE DEF o
<1>6. o \in Node(WireKinds, S)
  BY <1>1, <1>3, <1>4, <1>5 DEF Node
<1>7. o \in Value[d]
  BY <1>6, ValueAt DEF S
<1> QED
  BY <1>7 DEF o, ks, ps

EncodingKeys == {"values", "id", "data", "date"}

LEMMA EncodingOfIsValue ==
    ASSUME NEW d \in 2 .. 2 * Depth + 1, NEW key \in EncodingKeys,
           NEW a \in Value[d - 1], NEW b \in Value[d - 1]
    PROVE  Object(<<"type", key>>, <<a, b>>) \in Value[d]
<1> DEFINE ks == <<"type", key>>
           ps == <<a, b>>
           o == Object(ks, ps)
           S == Value[d - 1]
<1>1. ps \in Seq(S) /\ Len(ps) = 2
  BY SeqOf2
<1>2. "type" \in Keys /\ key \in Keys /\ key \notin {"type", "onEvent", "getTime"}
  BY ArgumentsAssumption DEF EncodingKeys
<1>3. ks \in Seq(Keys) /\ Len(ks) = 2 /\ DOMAIN ks = {1, 2} /\ ks[1] = "type" /\ ks[2] = key
  BY <1>2, SeqOf2
<1>4. IsInjective(ks)
  BY <1>2, SeqOf2
<1> HIDE DEF ks, ps, S
<1>5. o.kind = "object" /\ o.data = "none" /\ o.n = 0 /\ o.keys = ks /\ o.parts = ps
  BY DEF Object
<1>6. o \in [kind : WireKinds \union {"array", "object"}, data : Texts, n : Nat,
             keys : Seq(Keys), parts : Seq(S)]
  BY <1>1, <1>3, ArgumentsAssumption DEF Object
<1> HIDE DEF o
<1>7. \A i \in DOMAIN ks : ks[i] \notin {"onEvent", "getTime"}
  BY <1>2, <1>3
<1>8. o \in Node(WireKinds, S)
  BY <1>1, <1>3, <1>4, <1>5, <1>6, <1>7 DEF Node
<1>9. o \in Value[d]
  BY <1>8, ValueAt DEF S
<1> QED
  BY <1>9 DEF o, ks, ps

\* A value with others in the places of its parts.
LEMMA WithIsValue ==
    ASSUME NEW d \in 1 .. 2 * Depth + 1, NEW e \in 1 .. 2 * Depth + 1, NEW v \in Value[d],
           v.kind \in {"array", "object"}, NEW ps \in Seq(Value[e - 1]), Len(ps) = Len(v.parts),
           \A i \in 1 .. Len(ps) : ps[i].kind # "function"
    PROVE  /\ [v EXCEPT !.parts = ps] \in Value[e]
           /\ [v EXCEPT !.parts = ps].parts = ps
           /\ [v EXCEPT !.parts = ps].kind = v.kind
<1> DEFINE w == [v EXCEPT !.parts = ps]
           S == Value[e - 1]
<1>1. v \in Node(WireKinds, Value[d - 1])
  BY ValueAt
<1>2. w = [kind |-> v.kind, data |-> v.data, n |-> v.n, keys |-> v.keys, parts |-> ps]
  BY <1>1, NodeFields
<1>3. w.kind = v.kind /\ w.data = v.data /\ w.n = v.n /\ w.keys = v.keys /\ w.parts = ps
  BY <1>2
<1>4. w \in [kind : WireKinds \union {"array", "object"}, data : Texts, n : Nat,
             keys : Seq(Keys), parts : Seq(S)]
  BY <1>1, <1>2, NodeFields
<1>5. \A i \in DOMAIN v.keys : i \in 1 .. Len(ps)
  <2>1. v.keys \in Seq(Keys) /\ Len(v.keys) \in {0, Len(ps)}
    BY <1>1, NodeFields, NodeRules
  <2> QED
    BY <2>1
<1> HIDE DEF w, S
<1>6. w \in Node(WireKinds, S)
  BY <1>1, <1>3, <1>4, <1>5, NodeRules DEF Node
<1> QED
  BY <1>3, <1>6, ValueAt DEF w, S

-----------------------------------------------------------------------------
(* Encodings: what is read in them, and what JSON and decode do with them. *)

LEMMA ReadsType ==
    ASSUME NEW a PROVE Get(Object(<<"type">>, <<a>>), "type") = a
<1> DEFINE ks == <<"type">>
           ps == <<a>>
<1>1. DOMAIN ks = {1} /\ ks[1] = "type" /\ ps[1] = a
  OBVIOUS
<1> HIDE DEF ks, ps
<1>2. ToSet(ks) = {"type"}
  BY <1>1 DEF ToSet
<1>3. (CHOOSE i \in DOMAIN ks : ks[i] = "type") = 1
  BY <1>1
<1>4. Get(Object(ks, ps), "type") = ps[1]
  BY <1>2, <1>3 DEF Get, Object
<1> QED
  BY <1>1, <1>4 DEF ks, ps

LEMMA ReadsBoth ==
    ASSUME NEW a, NEW b, NEW key, key # "type"
    PROVE  /\ Get(Object(<<"type", key>>, <<a, b>>), "type") = a
           /\ Get(Object(<<"type", key>>, <<a, b>>), key) = b
<1> DEFINE ks == <<"type", key>>
           ps == <<a, b>>
<1>1. DOMAIN ks = {1, 2} /\ ks[1] = "type" /\ ks[2] = key /\ ps[1] = a /\ ps[2] = b
  OBVIOUS
<1> HIDE DEF ks, ps
<1>2. ToSet(ks) = {"type", key}
  BY <1>1 DEF ToSet
<1>3. (CHOOSE i \in DOMAIN ks : ks[i] = "type") = 1 /\ (CHOOSE i \in DOMAIN ks : ks[i] = key) = 2
  BY <1>1
<1>4. Get(Object(ks, ps), "type") = ps[1] /\ Get(Object(ks, ps), key) = ps[2]
  BY <1>2, <1>3 DEF Get, Object
<1> QED
  BY <1>1, <1>4 DEF ks, ps

\* What JSON does to what has no parts, and to encodings.
LEMMA JsonOf ==
    ASSUME NEW d \in 1 .. 2 * Depth, NEW v \in Value[d]
    PROVE  Json[d][v] = JsonWith(Json[d - 1], v)
<1>1. d \in 0 .. 2 * Depth /\ d # 0
  BY ArgumentsAssumption
<1> QED
  BY <1>1, JsonAt

LEMMA JsonAtom ==
    ASSUME NEW d \in 1 .. 2 * Depth, NEW v \in Value[d],
           v.kind \notin {"number", "buffer", "bytes", "array", "object"}
           \/ (v.kind = "number" /\ v.data # "NaN")
    PROVE  Json[d][v] = v
BY JsonOf DEF JsonWith

LEMMA JsonEncoding ==
    ASSUME NEW d \in 2 .. 2 * Depth, NEW a \in Value[d - 1], a # Undefined
    PROVE  Json[d][Object(<<"type">>, <<a>>)] = Object(<<"type">>, <<Json[d - 1][a]>>)
<1> DEFINE o == Object(<<"type">>, <<a>>)
           f == Json[d - 1]
<1>0. d \in 2 .. 2 * Depth + 1 /\ d \in 1 .. 2 * Depth
  BY ArgumentsAssumption
<1>1. Json[d][o] = JsonWith(f, o)
  BY <1>0, EncodingIsValue, JsonOf
<1>2. JsonWith(f, o) = [o EXCEPT !.parts = [i \in 1 .. Len(o.parts) |->
                            IF o.parts[i] = Undefined THEN Gone ELSE f[o.parts[i]]]]
  BY DEF JsonWith, Object
<1>3. o.parts = <<a>>
  BY DEF Object
<1>4. [i \in 1 .. Len(<<a>>) |-> IF <<a>>[i] = Undefined THEN Gone ELSE f[<<a>>[i]]] = <<f[a]>>
  <2> HIDE DEF f
  <2> QED
    OBVIOUS
<1>5. [o EXCEPT !.parts = <<f[a]>>] = Object(<<"type">>, <<f[a]>>)
  BY DEF Object
<1> HIDE DEF o, f
<1>6. Json[d][o] = [o EXCEPT !.parts = <<f[a]>>]
  BY <1>1, <1>2, <1>3, <1>4
<1> QED
  BY <1>5, <1>6 DEF o, f

LEMMA JsonEncodingOf ==
    ASSUME NEW d \in 2 .. 2 * Depth, NEW key \in EncodingKeys,
           NEW a \in Value[d - 1], a # Undefined, NEW b \in Value[d - 1], b # Undefined
    PROVE  Json[d][Object(<<"type", key>>, <<a, b>>)]
               = Object(<<"type", key>>, <<Json[d - 1][a], Json[d - 1][b]>>)
<1> DEFINE o == Object(<<"type", key>>, <<a, b>>)
           f == Json[d - 1]
<1>0. d \in 2 .. 2 * Depth + 1 /\ d \in 1 .. 2 * Depth
  BY ArgumentsAssumption
<1>1. Json[d][o] = JsonWith(f, o)
  BY <1>0, EncodingOfIsValue, JsonOf
<1>2. JsonWith(f, o) = [o EXCEPT !.parts = [i \in 1 .. Len(o.parts) |->
                            IF o.parts[i] = Undefined THEN Gone ELSE f[o.parts[i]]]]
  BY DEF JsonWith, Object
<1>3. o.parts = <<a, b>>
  BY DEF Object
<1>4. [i \in 1 .. Len(<<a, b>>) |-> IF <<a, b>>[i] = Undefined THEN Gone ELSE f[<<a, b>>[i]]] = <<f[a], f[b]>>
  <2> HIDE DEF f
  <2> QED
    OBVIOUS
<1>5. [o EXCEPT !.parts = <<f[a], f[b]>>] = Object(<<"type", key>>, <<f[a], f[b]>>)
  BY DEF Object
<1> HIDE DEF o, f
<1>6. Json[d][o] = [o EXCEPT !.parts = <<f[a], f[b]>>]
  BY <1>1, <1>2, <1>3, <1>4
<1> QED
  BY <1>5, <1>6 DEF o, f

-----------------------------------------------------------------------------
(* What it is to arrive, and that all parts do if each does.               *)

\* z keeps what s keeps under the same ids, and maybe more.
Extends(s, z) ==
    /\ z.of = s.of
    /\ Len(s.has) <= Len(z.has)
    /\ \A i \in 1 .. Len(s.has) : z.has[i] = s.has[i]

\* w carries v to one who asks for what z keeps.
Goes(d, v, w, z) ==
    /\ w \in Value[2 * d] /\ w.kind # "function" /\ w # Undefined
    /\ Json[2 * d][w] \in Value[2 * d + 1] /\ Json[2 * d][w].kind # "function"
    /\ Revert[d][<<Json[2 * d][w], z>>] = Meant[d][v]

\* r is what convert should make of v when s is kept: what it keeps is kept from
\* then on, and what it made carries v whatever is kept later.
Sound(d, v, s, r) ==
    /\ r.store \in Store /\ Extends(s, r.store)
    /\ r.made = Thrown \/ \A z \in Store : Extends(r.store, z) => Goes(d, v, r.made, z)

LEMMA StoreFields ==
    ASSUME NEW s \in Store
    PROVE  s.of \in {"function", "proxy"} /\ s.has \in Seq(Value[1]) /\ Len(s.has) \in Nat
BY DEF Store

LEMMA ExtendsSelf == ASSUME NEW s \in Store PROVE Extends(s, s)
BY StoreFields DEF Extends

LEMMA ExtendsOn ==
    ASSUME NEW s \in Store, NEW t \in Store, NEW z \in Store, Extends(s, t), Extends(t, z)
    PROVE  Extends(s, z)
<1>1. Len(s.has) \in Nat /\ Len(t.has) \in Nat /\ Len(z.has) \in Nat
  BY StoreFields
<1>2. \A i \in 1 .. Len(s.has) : i \in 1 .. Len(t.has)
  BY <1>1 DEF Extends
<1> QED
  BY <1>1, <1>2 DEF Extends

PartsBody(f, v, s, g) ==
    [i \in 0 .. Len(v.parts) |->
        IF i = 0 THEN [made |-> <<>>, store |-> s]
        ELSE IF Thrown \in ToSet(g[i - 1].made) THEN g[i - 1]
        ELSE LET r == f[<<v.parts[i], g[i - 1].store>>]
             IN  [made |-> Append(g[i - 1].made, r.made), store |-> r.store]]

\* The parts of v are converted one by one.
LEMMA PartsAt ==
    ASSUME NEW f, NEW v, NEW s, Len(v.parts) \in Nat
    PROVE  \E g : g = PartsBody(f, v, s, g) /\ Parts(f, v, s) = g[Len(v.parts)]
<1> DEFINE N == Len(v.parts)
           G(i, p) == IF i = 0 THEN [made |-> <<>>, store |-> s]
                      ELSE IF Thrown \in ToSet(p.made) THEN p
                      ELSE LET r == f[<<v.parts[i], p.store>>]
                           IN  [made |-> Append(p.made, r.made), store |-> r.store]
           Body(t, n) == [i \in 0 .. n |-> G(i, t[i - 1])]
           S == {n \in 0 .. N : \E t : t = Body(t, n)}
<1>0. N \in Nat
  OBVIOUS
<1>z. \A p, q : G(0, p) = G(0, q)
  OBVIOUS
<1> HIDE DEF N, G
<1>1. 0 \in S
  <2> DEFINE t == [i \in 0 .. 0 |-> G(0, <<>>)]
  <2>1. t = Body(t, 0)
    BY <1>z
  <2> HIDE DEF t
  <2> QED
    BY <1>0, <2>1
<1>2. ASSUME NEW n \in 1 .. N, n - 1 \in S PROVE n \in S
  <2>1. PICK t : t = Body(t, n - 1)
    BY <1>2
  <2> DEFINE u == [i \in 0 .. n |-> IF i = n THEN G(n, t[n - 1]) ELSE t[i]]
  <2>2. \A i \in 0 .. n - 1 : t[i] = G(i, t[i - 1])
    BY <2>1
  <2>3. ASSUME NEW i \in 0 .. n PROVE u[i] = G(i, u[i - 1])
    <3>1. CASE i = n
      BY <1>0, <3>1
    <3>2. CASE i = 0
      BY <1>0, <1>z, <2>2, <3>2
    <3>3. CASE i # n /\ i # 0
      BY <1>0, <2>2, <3>3
    <3> QED
      BY <3>1, <3>2, <3>3
  <2>4. u = [i \in 0 .. n |-> u[i]]
    OBVIOUS
  <2> HIDE DEF u
  <2>5. u = Body(u, n)
    BY <2>3, <2>4
  <2> QED
    BY <1>0, <2>5
<1>3. N \in S
  <2> HIDE DEF S
  <2>1. S \in SUBSET (0 .. N)
    BY DEF S
  <2> QED
    BY <1>0, <1>1, <1>2, <2>1, UpTo
<1>4. PICK t : t = Body(t, N)
  BY <1>3
<1> DEFINE g == CHOOSE g : g = PartsBody(f, v, s, g)
<1>5. t = PartsBody(f, v, s, t)
  BY <1>4 DEF PartsBody, G, N
<1>6. g = PartsBody(f, v, s, g)
  BY <1>5
<1>7. Parts(f, v, s) = g[Len(v.parts)]
  BY DEF Parts, PartsBody
<1> QED
  BY <1>6, <1>7

\* Whatever f is, if it is sound for each part, the parts are.
LEMMA PartsSound ==
    ASSUME NEW d \in Nat, NEW P, NEW v, v.parts \in Seq(P), NEW s \in Store, NEW f,
           \A x \in P, t \in Store : Sound(d, x, t, f[<<x, t>>])
    PROVE  LET p == Parts(f, v, s)
           IN  /\ p.store \in Store /\ Extends(s, p.store)
               /\ \/ Thrown \in ToSet(p.made)
                  \/ /\ p.made \in Seq(Value[2 * d]) /\ Len(p.made) = Len(v.parts)
                     /\ \A z \in Store : Extends(p.store, z) =>
                            \A k \in 1 .. Len(v.parts) : Goes(d, v.parts[k], p.made[k], z)
<1> DEFINE N == Len(v.parts)
           M == Value[2 * d] \union {Thrown}
           Carries(i, made, z) == \A k \in 1 .. i : Goes(d, v.parts[k], made[k], z)
           H(i, p) ==
               /\ p.store \in Store /\ Extends(s, p.store)
               /\ p.made \in Seq(M)
               /\ \/ Thrown \in ToSet(p.made)
                  \/ Len(p.made) = i /\ \A z \in Store : Extends(p.store, z) => Carries(i, p.made, z)
<1>0. N \in Nat
  OBVIOUS
<1>1. PICK g : g = PartsBody(f, v, s, g) /\ Parts(f, v, s) = g[N]
  BY <1>0, PartsAt
<1> DEFINE S == {i \in 0 .. N : H(i, g[i])}
<1>2. g[0] = [made |-> <<>>, store |-> s]
  BY <1>0, <1>1 DEF PartsBody
<1>3. 0 \in S
  <2>1. g[0].made = <<>> /\ g[0].store = s
    BY <1>2
  <2>2. g[0].made \in Seq(M) /\ Len(g[0].made) = 0
    BY <2>1, SeqOf0
  <2>3. \A z : Carries(0, g[0].made, z)
    OBVIOUS
  <2>4. Extends(s, s)
    BY ExtendsSelf
  <2>5. g[0].store = s
    BY <2>1
  <2> HIDE DEF Carries, M, N
  <2> QED
    BY <1>0, <2>2, <2>3, <2>4, <2>5
<1>4. ASSUME NEW i \in 1 .. N, i - 1 \in S PROVE i \in S
  <2> DEFINE q == g[i - 1]
             x == v.parts[i]
             r == f[<<x, q.store>>]
  <2>1. H(i - 1, q)
    BY <1>4
  <2>2. g[i] = IF Thrown \in ToSet(q.made) THEN q
               ELSE [made |-> Append(q.made, r.made), store |-> r.store]
    <3>1. i \in 0 .. N /\ i # 0
      BY <1>0
    <3>2. g[i] = PartsBody(f, v, s, g)[i]
      BY <1>1
    <3> QED
      BY <3>1, <3>2 DEF PartsBody
  <2>3. x \in P
    OBVIOUS
  <2>4. Sound(d, x, q.store, r)
    BY <2>1, <2>3
  <2> HIDE DEF q, x, r, Carries, M
  <2>5. CASE Thrown \in ToSet(q.made)
    <3>1. g[i] = q
      BY <2>2, <2>5
    <3> QED
      BY <2>1, <2>5, <3>1
  <2>6. CASE Thrown \notin ToSet(q.made)
    <3> DEFINE p == [made |-> Append(q.made, r.made), store |-> r.store]
    <3>1. p.made = Append(q.made, r.made) /\ p.store = r.store
      OBVIOUS
    <3>p. g[i] = p
      BY <2>2, <2>6
    <3> HIDE DEF p
    <3>2. r.store \in Store /\ Extends(q.store, r.store) /\ q.store \in Store
      BY <2>1, <2>4 DEF Sound
    <3>3. Extends(s, r.store)
      BY <2>1, <3>2, ExtendsOn
    <3>4. r.made \in M
      <4>1. Extends(r.store, r.store)
        BY <3>2, ExtendsSelf
      <4> QED
        BY <2>4, <3>2, <4>1 DEF Sound, Goes, M
    <3>5. Append(q.made, r.made) \in Seq(M)
          /\ Len(Append(q.made, r.made)) = Len(q.made) + 1
          /\ Append(q.made, r.made)[Len(q.made) + 1] = r.made
          /\ DOMAIN Append(q.made, r.made) = 1 .. Len(q.made) + 1
          /\ \A k \in 1 .. Len(q.made) : Append(q.made, r.made)[k] = q.made[k]
          /\ Len(q.made) \in Nat
      BY <2>1, <3>4
    <3>6. CASE r.made = Thrown
      <4>1. Thrown \in ToSet(p.made)
        BY <3>1, <3>5, <3>6 DEF ToSet
      <4>2. H(i, p)
        BY <3>1, <3>2, <3>3, <3>5, <4>1
      <4> QED
        BY <1>0, <3>p, <4>2
    <3>7. CASE r.made # Thrown
      <4>1. Len(q.made) = i - 1 /\ \A z \in Store : Extends(q.store, z) => Carries(i - 1, q.made, z)
        BY <2>1, <2>6
      <4>2. Len(p.made) = i
        BY <3>1, <3>5, <4>1
      <4>3. ASSUME NEW z \in Store, Extends(p.store, z) PROVE Carries(i, p.made, z)
        <5>1. Extends(q.store, z) /\ Extends(r.store, z)
          BY <3>1, <3>2, <4>3, ExtendsOn
        <5>2. Carries(i - 1, q.made, z)
          BY <4>1, <5>1
        <5>3. Goes(d, x, r.made, z)
          BY <2>4, <3>7, <5>1 DEF Sound
        <5>4. ASSUME NEW k \in 1 .. i PROVE Goes(d, v.parts[k], p.made[k], z)
          <6>1. CASE k = i
            <7>1. p.made[k] = r.made
              BY <3>1, <3>5, <4>1, <6>1
            <7> QED
              BY <5>3, <6>1, <7>1 DEF x
          <6>2. CASE k # i
            <7>1. k \in 1 .. i - 1 /\ p.made[k] = q.made[k]
              BY <3>1, <3>5, <4>1, <6>2
            <7> QED
              BY <5>2, <7>1 DEF Carries
          <6> QED
            BY <6>1, <6>2
        <5> QED
          BY <5>4 DEF Carries
      <4>4. H(i, p)
        BY <3>1, <3>2, <3>3, <3>5, <4>2, <4>3
      <4> QED
        BY <1>0, <3>p, <4>4
    <3> QED
      BY <3>6, <3>7
  <2> QED
    BY <2>5, <2>6
<1>5. N \in S
  <2>1. S \in SUBSET (0 .. N)
    OBVIOUS
  <2> HIDE DEF S
  <2> QED
    BY <1>0, <1>3, <1>4, <2>1, UpTo
<1> DEFINE p == Parts(f, v, s)
<1>6. H(N, p)
  BY <1>1, <1>5
<1>7. Thrown \in ToSet(p.made) \/ p.made \in Seq(Value[2 * d])
  <2>1. p.made \in Seq(M)
    BY <1>6
  <2>2. ASSUME Thrown \notin ToSet(p.made) PROVE p.made \in Seq(Value[2 * d])
    <3>1. \A k \in 1 .. Len(p.made) : p.made[k] \in Value[2 * d]
      BY <2>1, <2>2 DEF ToSet
    <3>2. p.made = [k \in 1 .. Len(p.made) |-> p.made[k]] /\ Len(p.made) \in Nat
      BY <2>1
    <3> HIDE DEF p
    <3> QED
      BY <3>1, <3>2
  <2> QED
    BY <2>2
<1> HIDE DEF p
<1> QED
  BY <1>6, <1>7 DEF p

-----------------------------------------------------------------------------
(* What has no parts, and what an encoding arrives as.                     *)

LEMMA Levels ==
    ASSUME NEW d \in 1 .. Depth
    PROVE  /\ Depth \in Nat /\ d \in 0 .. Depth /\ d # 0 /\ d \in 1 .. 2 * Depth + 1
           /\ 2 * d \in 2 .. 2 * Depth /\ 2 * d \in 2 .. 2 * Depth + 1
           /\ 2 * d \in 1 .. 2 * Depth /\ 2 * d \in 1 .. 2 * Depth + 1
           /\ 2 * d - 1 \in 1 .. 2 * Depth /\ 2 * d - 1 \in 1 .. 2 * Depth + 1
           /\ 2 * d + 1 \in 2 .. 2 * Depth + 1 /\ 2 * d + 1 \in 1 .. 2 * Depth + 1
           /\ (2 * d + 1) - 1 = 2 * d
BY ArgumentsAssumption

LEMMA RevertOf ==
    ASSUME NEW d \in 1 .. Depth, NEW w \in Value[2 * d + 1], NEW z \in Store
    PROVE  Revert[d][<<w, z>>] = RevertWith(Revert[d - 1], w, z)
<1> DEFINE f == IF d = 0 THEN <<>> ELSE Revert[d - 1]
<1>0. d \in 0 .. Depth /\ f = Revert[d - 1]
  BY Levels
<1>1. Revert[d] = [x \in Value[2 * d + 1] \X Store |-> RevertWith(f, x[1], x[2])]
  BY <1>0, RevertAt
<1> HIDE DEF f
<1>2. <<w, z>> \in Value[2 * d + 1] \X Store
  OBVIOUS
<1>3. Revert[d][<<w, z>>] = RevertWith(f, w, z)
  BY <1>1, <1>2
<1> QED
  BY <1>0, <1>3

LEMMA MeantOf ==
    ASSUME NEW d \in 1 .. Depth, NEW v \in Value[d]
    PROVE  Meant[d][v] = MeantWith(Meant[d - 1], v)
BY MeantAt, Levels

LEMMA ConvertOf ==
    ASSUME NEW d \in 1 .. Depth, NEW v \in Value[d], NEW s \in Store
    PROVE  Convert[d][<<v, s>>] = ConvertWith(Convert[d - 1], v, s)
<1> DEFINE f == IF d = 0 THEN <<>> ELSE Convert[d - 1]
<1>0. d \in 0 .. Depth /\ f = Convert[d - 1]
  BY Levels
<1>1. Convert[d] = [x \in Value[d] \X Store |-> ConvertWith(f, x[1], x[2])]
  BY <1>0, ConvertAt
<1> HIDE DEF f
<1>2. <<v, s>> \in Value[d] \X Store
  OBVIOUS
<1>3. Convert[d][<<v, s>>] = ConvertWith(f, v, s)
  BY <1>1, <1>2
<1> QED
  BY <1>0, <1>3

\* A value without parts is an atom, of every depth.
LEMMA IsAtom ==
    ASSUME NEW d \in 1 .. 2 * Depth + 1, NEW v \in Value[d], v.kind \notin {"array", "object"}
    PROVE  /\ v.parts = <<>> /\ v = Atom(v.kind, v.data, v.n)
           /\ \A e \in 1 .. 2 * Depth + 1 : v \in Value[e]
<1>1. v \in Node(WireKinds, Value[d - 1])
  BY ValueAt
<1>2. v.kind \in WireKinds /\ v.data \in Texts /\ v.n \in Nat /\ v.parts = <<>> /\ Len(v.keys) = 0
      /\ v.keys \in Seq(Keys)
  BY <1>1, NodeFields, NodeRules
<1>3. v.keys = <<>>
  BY <1>2
<1>4. v = Atom(v.kind, v.data, v.n)
  BY <1>1, <1>2, <1>3, NodeFields DEF Atom
<1>5. ASSUME NEW e \in 1 .. 2 * Depth + 1 PROVE v \in Value[e]
  <2>1. /\ v.kind \notin {"string", "number", "boolean", "date", "buffer", "function"} => v.data = "none"
        /\ v.kind \notin {"number", "proxy"} => v.n = 0
    BY <1>1, NodeRules
  <2>2. Atom(v.kind, v.data, v.n) \in Value[e]
    BY <1>2, <2>1, AtomIsValue
  <2> QED
    BY <1>4, <2>2
<1> QED
  BY <1>2, <1>4, <1>5

LEMMA NotLikeError ==
    ASSUME NEW v, v.kind \notin {"error", "object"} PROVE ~LikeError(v)
BY DEF LikeError, Get

LEMMA MeantAtom ==
    ASSUME NEW d \in 1 .. Depth, NEW v \in Value[d],
           v.kind \notin {"array", "object", "date", "error"}, ~(v.kind = "number" /\ v.data = "NaN")
    PROVE  Meant[d][v] = v
<1>1. ~LikeError(v)
  BY NotLikeError
<1>2. Meant[d][v] = [v EXCEPT !.parts = [i \in 1 .. Len(v.parts) |-> Meant[d - 1][v.parts[i]]]]
  BY <1>1, MeantOf DEF MeantWith
<1>3. v.parts = <<>> /\ v = Atom(v.kind, v.data, v.n)
  BY IsAtom, Levels
<1>4. [i \in 1 .. Len(<<>>) |-> Meant[d - 1][v.parts[i]]] = <<>>
  OBVIOUS
<1>5. Meant[d][v] = [v EXCEPT !.parts = <<>>]
  BY <1>2, <1>3, <1>4
<1>6. [Atom(v.kind, v.data, v.n) EXCEPT !.parts = <<>>] = Atom(v.kind, v.data, v.n)
  BY DEF Atom
<1> QED
  BY <1>3, <1>5, <1>6

\* What a text is.
LEMMA TextIsValue ==
    ASSUME NEW d \in 1 .. 2 * Depth + 1, NEW text \in Texts
    PROVE  Text(text) \in Value[d] /\ Text(text) # Undefined /\ Text(text).kind = "string"
           /\ Text(text).data = text
<1>1. "string" \in WireKinds
  BY DEF WireKinds, AtomKinds
<1>2. Atom("string", text, 0) \in Value[d]
  BY <1>1, AtomIsValue
<1> QED
  BY <1>2 DEF Text, Atom, Undefined

LEMMA TextsOfTypes == Types \subseteq Texts /\ {"none", "seconds", "Buffer"} \subseteq Texts
BY ArgumentsAssumption

\* An encoding with nothing but a type.
LEMMA EncodingGoes ==
    ASSUME NEW d \in 1 .. Depth, NEW type \in Types, NEW z \in Store
    PROVE  LET w == Encoding(type)
           IN  /\ w \in Value[2 * d] /\ w.kind = "object" /\ w # Undefined /\ Json[2 * d][w] = w
               /\ w \in Value[2 * d + 1]
               /\ Revert[d][<<w, z>>] = RevertWith(Revert[d - 1], w, z)
               /\ Get(w, "type").data = type
<1> DEFINE w == Encoding(type)
<1>1. type \in Texts
  BY TextsOfTypes
<1>2. Text(type) \in Value[2 * d - 1] /\ Text(type) \in Value[2 * d] /\ Text(type) # Undefined
      /\ Text(type).kind = "string" /\ Text(type).data = type
  BY <1>1, TextIsValue, Levels
<1>3. w \in Value[2 * d]
  BY <1>2, EncodingIsValue, Levels DEF Encoding
<1>4. w \in Value[2 * d + 1]
  BY <1>2, EncodingIsValue, Levels DEF Encoding
<1>5. Json[2 * d - 1][Text(type)] = Text(type)
  BY <1>2, JsonAtom, Levels
<1>6. Json[2 * d][w] = w
  BY <1>2, <1>5, JsonEncoding, Levels DEF Encoding
<1>7. w.kind = "object" /\ w # Undefined
  BY DEF Encoding, Object, Undefined, Atom
<1>8. Get(w, "type").data = type
  BY <1>2, ReadsType DEF Encoding
<1> HIDE DEF w
<1>9. Revert[d][<<w, z>>] = RevertWith(Revert[d - 1], w, z)
  BY <1>4, RevertOf
<1> QED
  BY <1>3, <1>4, <1>6, <1>7, <1>8, <1>9 DEF w

\* An encoding with a key beside its type.
LEMMA EncodingOfGoes ==
    ASSUME NEW d \in 1 .. Depth, NEW type \in Types, NEW key \in EncodingKeys, NEW z \in Store,
           NEW b \in Value[2 * d - 1], b # Undefined, NEW j \in Value[2 * d], Json[2 * d - 1][b] = j
    PROVE  LET w == Object(<<"type", key>>, <<Text(type), b>>)
               x == Object(<<"type", key>>, <<Text(type), j>>)
           IN  /\ w \in Value[2 * d] /\ w.kind = "object" /\ w # Undefined /\ Json[2 * d][w] = x
               /\ x \in Value[2 * d + 1] /\ x.kind = "object"
               /\ Revert[d][<<x, z>>] = RevertWith(Revert[d - 1], x, z)
               /\ Get(x, "type").data = type /\ Get(x, key) = j
<1> DEFINE w == Object(<<"type", key>>, <<Text(type), b>>)
           x == Object(<<"type", key>>, <<Text(type), j>>)
<1>1. type \in Texts /\ key # "type"
  BY TextsOfTypes DEF EncodingKeys
<1>2. Text(type) \in Value[2 * d - 1] /\ Text(type) \in Value[2 * d] /\ Text(type) # Undefined
      /\ Text(type).kind = "string" /\ Text(type).data = type
  BY <1>1, TextIsValue, Levels
<1>3. w \in Value[2 * d]
  BY <1>2, EncodingOfIsValue, Levels
<1>4. x \in Value[2 * d + 1]
  BY <1>2, EncodingOfIsValue, Levels
<1>5. Json[2 * d - 1][Text(type)] = Text(type)
  BY <1>2, JsonAtom, Levels
<1>6. Json[2 * d][w] = x
  BY <1>2, <1>5, JsonEncodingOf, Levels
<1>7. w.kind = "object" /\ w # Undefined /\ x.kind = "object"
  BY DEF Object, Undefined, Atom
<1>8. Get(x, "type").data = type /\ Get(x, key) = j
  BY <1>1, <1>2, ReadsBoth
<1> HIDE DEF w, x
<1>9. Revert[d][<<x, z>>] = RevertWith(Revert[d - 1], x, z)
  BY <1>4, RevertOf
<1> QED
  BY <1>3, <1>4, <1>6, <1>7, <1>8, <1>9 DEF w, x

-----------------------------------------------------------------------------
(* What convert makes of each kind of value.                               *)

\* It is enough that what keeps nothing goes.
LEMMA PlainSound ==
    ASSUME NEW d \in 1 .. Depth, NEW v \in Value[d], NEW s \in Store, v.kind # s.of,
           v.kind \in {"array", "object"} => LikeError(v),
           Plain(v, <<>>) = Thrown \/ \A z \in Store : z.of = s.of => Goes(d, v, Plain(v, <<>>), z)
    PROVE  Sound(d, v, s, Convert[d][<<v, s>>])
<1> DEFINE r == [made |-> Plain(v, <<>>), store |-> s]
<1>1. Convert[d][<<v, s>>] = r
  BY ConvertOf DEF ConvertWith
<1>2. r.made = Plain(v, <<>>) /\ r.store = s
  OBVIOUS
<1> HIDE DEF r
<1>3. Sound(d, v, s, r)
  <2>1. \A z : Extends(s, z) => z.of = s.of
    BY DEF Extends
  <2> QED
    BY <1>2, <2>1, ExtendsSelf DEF Sound
<1> QED
  BY <1>1, <1>3

LEMMA KeptSound ==
    ASSUME NEW d \in 1 .. Depth, NEW v \in Value[d], NEW s \in Store, v.kind = s.of
    PROVE  Sound(d, v, s, Convert[d][<<v, s>>])
<1> DEFINE n == Len(s.has)
           id == Number(n)
           t == [s EXCEPT !.has = Append(@, v)]
           w == Object(<<"type", "id">>, <<Text(v.kind), id>>)
           r == [made |-> w, store |-> t]
<1>1. v.kind \in {"function", "proxy"} /\ v.kind \in Types /\ s.has \in Seq(Value[1]) /\ n \in Nat
  BY StoreFields DEF Types
<1>2. id \in Value[2 * d - 1] /\ id \in Value[2 * d] /\ id # Undefined /\ id # Thrown
      /\ id.kind = "number" /\ id.data # "NaN" /\ id.n = n
  <2>1. "number" \in WireKinds /\ "none" \in Texts
    BY TextsOfTypes DEF WireKinds, AtomKinds
  <2>2. Atom("number", "none", n) \in Value[2 * d - 1] /\ Atom("number", "none", n) \in Value[2 * d]
    BY <1>1, <2>1, AtomIsValue, Levels
  <2> QED
    BY <2>2 DEF Number, Atom, Undefined, Thrown
<1>3. Json[2 * d - 1][id] = id
  BY <1>2, JsonAtom, Levels
<1>4. v \in Value[1]
  BY <1>1, IsAtom, Levels
<1>5. t \in Store /\ t.of = s.of /\ t.has = Append(s.has, v)
  <2>1. s = [of |-> s.of, has |-> s.has]
    BY DEF Store
  <2>2. t = [of |-> s.of, has |-> Append(s.has, v)]
    BY <2>1
  <2>3. Append(s.has, v) \in Seq(Value[1])
    BY <1>1, <1>4, AppendIsSeq
  <2> HIDE DEF t
  <2> QED
    BY <1>1, <2>2, <2>3 DEF Store
<1>6. Len(t.has) = n + 1 /\ t.has[n + 1] = v /\ \A i \in 1 .. n : t.has[i] = s.has[i]
  BY <1>1, <1>4, <1>5
<1>7. Extends(s, t)
  BY <1>1, <1>5, <1>6 DEF Extends
<1> HIDE DEF id, t, n
<1>8. Convert[d][<<v, s>>] = r
  BY <1>2, ConvertOf DEF ConvertWith, EncodingOf, id, t, n
<1>9. ASSUME NEW z \in Store, Extends(t, z) PROVE Goes(d, v, w, z)
  <2>1. "id" \in EncodingKeys
    BY DEF EncodingKeys
  <2>2. /\ w \in Value[2 * d] /\ w.kind = "object" /\ w # Undefined /\ Json[2 * d][w] = w
        /\ w \in Value[2 * d + 1]
        /\ Revert[d][<<w, z>>] = RevertWith(Revert[d - 1], w, z)
        /\ Get(w, "type").data = v.kind /\ Get(w, "id") = id
    BY <1>1, <1>2, <1>3, <2>1, EncodingOfGoes
  <2>3. z.of = v.kind /\ Len(z.has) \in Nat /\ z.has \in Seq(Value[1])
    BY <1>5, <1>9, StoreFields DEF Extends
  <2>4. n + 1 \in DOMAIN z.has /\ z.has[n + 1] = v
    BY <1>1, <1>6, <1>9, <2>3 DEF Extends
  <2>5. Found(v.kind, id, z) = v
    BY <1>2, <2>3, <2>4 DEF Found, Under
  <2> HIDE DEF w
  <2>6. RevertWith(Revert[d - 1], w, z) = v
    BY <1>1, <2>2, <2>5 DEF RevertWith
  <2>7. Meant[d][v] = v
    BY <1>1, MeantAtom
  <2> QED
    BY <2>2, <2>6, <2>7 DEF Goes
<1> HIDE DEF w
<1>10. r.made = w /\ r.store = t
  OBVIOUS
<1> HIDE DEF r
<1>11. Sound(d, v, s, r)
  BY <1>5, <1>7, <1>9, <1>10 DEF Sound
<1> QED
  BY <1>8, <1>11

LEMMA RevertPlain ==
    ASSUME NEW d \in 1 .. Depth, NEW w \in Value[2 * d + 1], NEW z \in Store,
           w.kind \in {"null", "number", "string", "boolean"}
    PROVE  Revert[d][<<w, z>>] = w
<1>0. Get(w, "type").data = "none"
  BY DEF Get, Undefined, Atom
<1>1. \A f : RevertWith(f, w, z) = w
  BY <1>0 DEF RevertWith
<1> QED
  BY <1>1, RevertOf

\* Null, and what is left to JSON as it is.
LEMMA GoesAsItIs ==
    ASSUME NEW d \in 1 .. Depth, NEW v \in Value[d], v.kind \in {"null", "number", "string", "boolean"},
           NEW z \in Store
    PROVE  Plain(v, <<>>) = v /\ Goes(d, v, v, z)
<1>1. ~LikeError(v)
  BY NotLikeError
<1>2. Plain(v, <<>>) = v
  BY <1>1 DEF Plain
<1>3. v \in Value[2 * d] /\ v \in Value[2 * d + 1] /\ v # Undefined
  <2>1. v \in Value[2 * d] /\ v \in Value[2 * d + 1]
    BY IsAtom, Levels
  <2>2. v # Undefined
    BY DEF Undefined, Atom
  <2> QED
    BY <2>1, <2>2
<1>4. CASE v.kind = "number" /\ v.data = "NaN"
  <2>1. Json[2 * d][v] = Null
    BY <1>3, <1>4, JsonOf, Levels DEF JsonWith
  <2>2. Null.kind = "null" /\ "null" \in WireKinds /\ "none" \in Texts
    BY TextsOfTypes DEF Null, Atom, WireKinds, AtomKinds
  <2>3. Null \in Value[2 * d + 1]
    BY <2>2, AtomIsValue, Levels DEF Null
  <2>4. Meant[d][v] = Null
    BY <1>1, <1>4, MeantOf DEF MeantWith
  <2>5. Revert[d][<<Null, z>>] = Null
    BY <2>2, <2>3, RevertPlain
  <2> QED
    BY <1>2, <1>3, <2>1, <2>2, <2>3, <2>4, <2>5 DEF Goes
<1>5. CASE ~(v.kind = "number" /\ v.data = "NaN")
  <2>1. Json[2 * d][v] = v
    BY <1>3, <1>5, JsonAtom, Levels
  <2>2. Meant[d][v] = v
    BY <1>5, MeantAtom
  <2>3. Revert[d][<<v, z>>] = v
    BY <1>3, RevertPlain
  <2> QED
    BY <1>2, <1>3, <2>1, <2>2, <2>3 DEF Goes
<1> QED
  BY <1>4, <1>5

LEMMA UndefinedGoes ==
    ASSUME NEW d \in 1 .. Depth, NEW v \in Value[d], v.kind = "undefined", NEW z \in Store
    PROVE  Goes(d, v, Plain(v, <<>>), z)
<1> DEFINE w == Encoding("undefined")
<1>1. Plain(v, <<>>) = w
  BY NotLikeError DEF Plain, EncodedUndefined
<1>2. "undefined" \in Types
  BY DEF Types
<1>3. /\ w \in Value[2 * d] /\ w.kind = "object" /\ w # Undefined /\ Json[2 * d][w] = w
      /\ w \in Value[2 * d + 1]
      /\ Revert[d][<<w, z>>] = RevertWith(Revert[d - 1], w, z)
      /\ Get(w, "type").data = "undefined"
  BY <1>2, EncodingGoes
<1>4. v = Undefined
  <2>1. v \in Node(WireKinds, Value[d - 1]) /\ v = Atom(v.kind, v.data, v.n)
    BY IsAtom, ValueAt, Levels
  <2> QED
    BY <2>1, NodeRules DEF Undefined
<1>5. Meant[d][v] = v
  BY MeantAtom
<1> HIDE DEF w
<1>6. RevertWith(Revert[d - 1], w, z) = Undefined
  BY <1>3 DEF RevertWith
<1> QED
  BY <1>1, <1>3, <1>4, <1>5, <1>6 DEF Goes

LEMMA ErrorGoes ==
    ASSUME NEW d \in 1 .. Depth, NEW v \in Value[d], LikeError(v), NEW z \in Store
    PROVE  Goes(d, v, Plain(v, <<>>), z)
<1> DEFINE w == Encoding("error")
<1>1. Plain(v, <<>>) = w
  BY DEF Plain
<1>2. "error" \in Types
  BY DEF Types
<1>3. /\ w \in Value[2 * d] /\ w.kind = "object" /\ w # Undefined /\ Json[2 * d][w] = w
      /\ w \in Value[2 * d + 1]
      /\ Revert[d][<<w, z>>] = RevertWith(Revert[d - 1], w, z)
      /\ Get(w, "type").data = "error"
  BY <1>2, EncodingGoes
<1>4. Meant[d][v] = Atom("error", "none", 0)
  BY MeantOf DEF MeantWith
<1> HIDE DEF w
<1>5. RevertWith(Revert[d - 1], w, z) = Atom("error", "none", 0)
  BY <1>3 DEF RevertWith
<1> QED
  BY <1>1, <1>3, <1>4, <1>5 DEF Goes

LEMMA DateGoes ==
    ASSUME NEW d \in 1 .. Depth, NEW v \in Value[d], v.kind = "date", NEW z \in Store
    PROVE  Goes(d, v, Plain(v, <<>>), z)
<1> DEFINE b == Text("seconds")
           w == Object(<<"type", "date">>, <<Text("date"), b>>)
<1>0. ~LikeError(v)
  BY NotLikeError
<1>1. b \in Value[2 * d - 1] /\ b \in Value[2 * d] /\ b # Undefined /\ b.kind = "string"
      /\ b.data = "seconds" /\ b # Thrown
  <2>1. b # Thrown
    BY DEF Text, Thrown, Atom
  <2> QED
    BY <2>1, TextsOfTypes, TextIsValue, Levels
<1>2. Json[2 * d - 1][b] = b
  BY <1>1, JsonAtom, Levels
<1> HIDE DEF b
<1>3. "date" \in Types /\ "date" \in EncodingKeys
  BY DEF Types, EncodingKeys
<1>4. Plain(v, <<>>) = w
  BY <1>0, <1>1 DEF Plain, EncodingOf, b
<1>5. /\ w \in Value[2 * d] /\ w.kind = "object" /\ w # Undefined /\ Json[2 * d][w] = w
      /\ w \in Value[2 * d + 1]
      /\ Revert[d][<<w, z>>] = RevertWith(Revert[d - 1], w, z)
      /\ Get(w, "type").data = "date" /\ Get(w, "date") = b
  BY <1>1, <1>2, <1>3, EncodingOfGoes
<1>6. Meant[d][v] = Atom("date", "seconds", 0)
  BY <1>0, MeantOf DEF MeantWith
<1> HIDE DEF w
<1>7. RevertWith(Revert[d - 1], w, z) = Atom("date", "seconds", 0)
  BY <1>1, <1>5 DEF RevertWith
<1> QED
  BY <1>4, <1>5, <1>6, <1>7 DEF Goes

LEMMA ProxyGoes ==
    ASSUME NEW d \in 1 .. Depth, NEW v \in Value[d], v.kind = "proxy", NEW z \in Store, z.of = "function"
    PROVE  Goes(d, v, Plain(v, <<>>), z)
<1> DEFINE b == Number(v.n)
           w == Object(<<"type", "id">>, <<Text("proxy"), b>>)
<1>0. ~LikeError(v)
  BY NotLikeError
<1>1. v \in Node(WireKinds, Value[d - 1]) /\ v = Atom(v.kind, v.data, v.n)
  BY IsAtom, ValueAt, Levels
<1>2. v.n \in Nat /\ v.data = "none"
  BY <1>1, NodeFields, NodeRules
<1>3. b \in Value[2 * d - 1] /\ b \in Value[2 * d] /\ b # Undefined /\ b.kind = "number"
      /\ b.data = "none" /\ b.n = v.n /\ b # Thrown
  <2>1. "number" \in WireKinds /\ "none" \in Texts
    BY TextsOfTypes DEF WireKinds, AtomKinds
  <2>2. Atom("number", "none", v.n) \in Value[2 * d - 1] /\ Atom("number", "none", v.n) \in Value[2 * d]
    BY <1>2, <2>1, AtomIsValue, Levels
  <2> QED
    BY <2>2 DEF Number, Atom, Undefined, Thrown
<1>4. Json[2 * d - 1][b] = b
  BY <1>3, JsonAtom, Levels
<1> HIDE DEF b
<1>5. "proxy" \in Types /\ "id" \in EncodingKeys
  BY DEF Types, EncodingKeys
<1>6. Plain(v, <<>>) = w
  BY <1>0, <1>3 DEF Plain, EncodingOf, b
<1>7. /\ w \in Value[2 * d] /\ w.kind = "object" /\ w # Undefined /\ Json[2 * d][w] = w
      /\ w \in Value[2 * d + 1]
      /\ Revert[d][<<w, z>>] = RevertWith(Revert[d - 1], w, z)
      /\ Get(w, "type").data = "proxy" /\ Get(w, "id") = b
  BY <1>3, <1>4, <1>5, EncodingOfGoes
<1>8. Meant[d][v] = v
  BY MeantAtom
<1>9. Found("proxy", b, z) = v
  BY <1>1, <1>2, <1>3 DEF Found
<1> HIDE DEF w
<1>10. RevertWith(Revert[d - 1], w, z) = v
  BY <1>7, <1>9 DEF RevertWith
<1> QED
  BY <1>6, <1>7, <1>8, <1>10 DEF Goes

LEMMA BufferGoes ==
    ASSUME NEW d \in 1 .. Depth, NEW v \in Value[d], v.kind = "buffer", NEW z \in Store
    PROVE  Goes(d, v, Plain(v, <<>>), z)
<1> DEFINE t == Text(v.data)
           j == Object(<<"type", "data">>, <<Text("Buffer"), t>>)
           w == Object(<<"type", "data">>, <<Text("buffer"), v>>)
           x == Object(<<"type", "data">>, <<Text("buffer"), j>>)
<1>0. ~LikeError(v)
  BY NotLikeError
<1>1. v \in Node(WireKinds, Value[d - 1]) /\ v = Atom(v.kind, v.data, v.n)
  BY IsAtom, ValueAt, Levels
<1>2. v.n = 0 /\ v.data \in Texts /\ v \in Value[2 * d - 1] /\ v # Undefined /\ v # Thrown
  <2>1. v.n = 0 /\ v.data \in Texts
    BY <1>1, NodeFields, NodeRules
  <2>2. v \in Value[2 * d - 1]
    BY IsAtom, Levels
  <2>3. v # Undefined /\ v # Thrown
    BY DEF Undefined, Thrown, Atom
  <2> QED
    BY <2>1, <2>2, <2>3
<1>3. t \in Value[2 * d - 1] /\ t.data = v.data
  BY <1>2, TextIsValue, Levels
<1>4. Text("Buffer") \in Value[2 * d - 1]
  BY TextsOfTypes, TextIsValue, Levels
<1>5. "buffer" \in Types /\ "data" \in EncodingKeys /\ "data" # "type"
  BY DEF Types, EncodingKeys
<1>6. j \in Value[2 * d]
  BY <1>3, <1>4, <1>5, EncodingOfIsValue, Levels
<1>7. Get(j, "type") = Text("Buffer") /\ Get(j, "data") = t
  BY <1>5, ReadsBoth
<1>8. Json[2 * d - 1][v] = j
  <2>1. \A f : JsonWith(f, v) = j
    BY DEF JsonWith
  <2>2. 2 * d - 1 \in 1 .. 2 * Depth
    BY Levels
  <2> QED
    BY <1>2, <2>1, <2>2, JsonOf
<1> HIDE DEF t, j
<1>9. Plain(v, <<>>) = w
  BY <1>0, <1>2 DEF Plain, EncodingOf
<1>10. /\ w \in Value[2 * d] /\ w.kind = "object" /\ w # Undefined /\ Json[2 * d][w] = x
       /\ x \in Value[2 * d + 1] /\ x.kind = "object"
       /\ Revert[d][<<x, z>>] = RevertWith(Revert[d - 1], x, z)
       /\ Get(x, "type").data = "buffer" /\ Get(x, "data") = j
  BY <1>2, <1>5, <1>6, <1>8, EncodingOfGoes
<1>11. BufferFrom(j) = v
  BY <1>1, <1>2, <1>3, <1>7 DEF BufferFrom
<1>12. Meant[d][v] = v
  BY MeantAtom
<1> HIDE DEF w, x
<1>13. RevertWith(Revert[d - 1], x, z) = v
  BY <1>10, <1>11 DEF RevertWith
<1> QED
  BY <1>9, <1>10, <1>12, <1>13 DEF Goes

LEMMA MeantNotThrown ==
    ASSUME NEW d \in 1 .. Depth, NEW v \in Value[d] PROVE Meant[d][v] # Thrown
<1>1. v \in Node(WireKinds, Value[d - 1])
  BY ValueAt, Levels
<1>2. v.kind # "thrown" /\ v = [kind |-> v.kind, data |-> v.data, n |-> v.n, keys |-> v.keys, parts |-> v.parts]
  BY <1>1, NodeFields DEF WireKinds, AtomKinds
<1>3. Meant[d][v].kind \in {"error", "date", "null", v.kind}
  <2>1. Meant[d][v] = MeantWith(Meant[d - 1], v)
    BY MeantOf
  <2>2. \A ps : [v EXCEPT !.parts = ps].kind = v.kind
    BY <1>2
  <2> QED
    BY <2>1, <2>2 DEF MeantWith, Null, Atom
<1> QED
  BY <1>2, <1>3 DEF Thrown, Atom

\* An array or an object goes if its parts do.
LEMMA PartsGo ==
    ASSUME NEW d \in 1 .. Depth, NEW v \in Value[d], v.kind \in {"array", "object"}, ~LikeError(v),
           NEW z \in Store, NEW made \in Seq(Value[2 * (d - 1)]), Len(made) = Len(v.parts),
           \A k \in 1 .. Len(v.parts) : Goes(d - 1, v.parts[k], made[k], z)
    PROVE  Goes(d, v, Plain(v, made), z)
<1> DEFINE u == [v EXCEPT !.parts = made]
           js == [k \in 1 .. Len(made) |-> Json[2 * (d - 1)][made[k]]]
           j == [u EXCEPT !.parts = js]
           ms == [k \in 1 .. Len(js) |-> Meant[d - 1][v.parts[k]]]
           w == Object(<<"type", "values">>, <<Text(v.kind), u>>)
           x == Object(<<"type", "values">>, <<Text(v.kind), j>>)
<1>0. v \in Node(WireKinds, Value[d - 1]) /\ d \in 1 .. 2 * Depth + 1
  BY ValueAt, Levels
<1>1. /\ v.parts \in Seq(Value[d - 1]) /\ Len(v.parts) \in Nat
      /\ v = [kind |-> v.kind, data |-> v.data, n |-> v.n, keys |-> v.keys, parts |-> v.parts]
  BY <1>0, NodeFields
<1>2. (2 * d - 1) - 1 = 2 * (d - 1) /\ 2 * d - 1 = 2 * (d - 1) + 1 /\ d - 1 \in 0 .. Depth
  BY ArgumentsAssumption
<1>3. \A k \in 1 .. Len(made) :
          /\ made[k].kind # "function" /\ made[k] # Undefined
          /\ Json[2 * (d - 1)][made[k]] \in Value[2 * d - 1] /\ Json[2 * (d - 1)][made[k]].kind # "function"
          /\ Revert[d - 1][<<Json[2 * (d - 1)][made[k]], z>>] = Meant[d - 1][v.parts[k]]
  BY <1>2 DEF Goes
<1>4. u \in Value[2 * d - 1] /\ u.parts = made /\ u.kind = v.kind
  <2> DEFINE e == 2 * d - 1
  <2>1. e \in 1 .. 2 * Depth + 1
    BY Levels
  <2>2. made \in Seq(Value[e - 1])
    BY <1>2
  <2>3. \A k \in 1 .. Len(made) : made[k].kind # "function"
    BY <1>3
  <2> HIDE DEF e
  <2>4. u \in Value[e] /\ u.parts = made /\ u.kind = v.kind
    BY <1>0, <2>1, <2>2, <2>3, WithIsValue
  <2> QED
    BY <2>4 DEF e
<1>5. js \in Seq(Value[2 * d - 1]) /\ Len(js) = Len(made) /\ Len(made) \in Nat
      /\ \A k \in 1 .. Len(js) : js[k] = Json[2 * (d - 1)][made[k]]
  <2> DEFINE J == Json[2 * (d - 1)]
  <2>1. Len(made) \in Nat /\ \A k \in 1 .. Len(made) : J[made[k]] \in Value[2 * d - 1]
    BY <1>1, <1>3
  <2> HIDE DEF J
  <2> QED
    BY <2>1 DEF J
<1> HIDE DEF js
<1>6. j \in Value[2 * d] /\ j.parts = js /\ j.kind = v.kind
  <2>1. \A k \in 1 .. Len(js) : js[k].kind # "function"
    BY <1>3, <1>5
  <2> HIDE DEF u
  <2> DEFINE e == 2 * d
             c == 2 * d - 1
  <2>2. e \in 1 .. 2 * Depth + 1 /\ c \in 1 .. 2 * Depth + 1 /\ e - 1 = c
    BY Levels
  <2>3. js \in Seq(Value[c]) /\ u \in Value[c] /\ Len(js) = Len(u.parts) /\ u.kind \in {"array", "object"}
    BY <1>4, <1>5
  <2>s. js \in Seq(Value[e - 1])
    BY <2>2, <2>3
  <2> HIDE DEF e, c
  <2>4. j \in Value[e] /\ j.parts = js /\ j.kind = u.kind
    BY <2>1, <2>2, <2>3, <2>s, WithIsValue
  <2> QED
    BY <1>4, <2>4 DEF e
<1>7. Json[2 * d - 1][u] = j
  <2>1. 2 * d - 1 \in 1 .. 2 * Depth
    BY Levels
  <2> HIDE DEF u
  <2>2. Json[2 * d - 1][u] = JsonWith(Json[2 * (d - 1)], u)
    BY <1>2, <1>4, <2>1, JsonOf
  <2>3. ASSUME NEW missing
        PROVE  [i \in 1 .. Len(u.parts) |-> IF u.parts[i] = Undefined THEN missing
                                            ELSE Json[2 * (d - 1)][u.parts[i]]] = js
    BY <1>3, <1>4 DEF js
  <2> QED
    BY <1>4, <2>2, <2>3 DEF JsonWith
<1>8. u # Undefined /\ u # Thrown /\ v.kind \in Types /\ "values" \in EncodingKeys
  BY <1>4 DEF Undefined, Thrown, Atom, Types, EncodingKeys
<1>9. Thrown \notin ToSet(made)
  <2>1. \A k \in 1 .. Len(made) : made[k] \in Value[2 * (d - 1)] /\ d # 1
    <3>1. Value[0] = {}
      BY ValueAt
    <3>2. \A k \in 1 .. Len(made) : made[k] \in Value[2 * (d - 1)]
      OBVIOUS
    <3> QED
      BY <3>1, <3>2
  <2>2. ASSUME d # 1 PROVE 2 * (d - 1) \in 1 .. 2 * Depth + 1
    BY <2>2, ArgumentsAssumption
  <2>3. d # 1 => Thrown \notin Value[2 * (d - 1)]
    <3>1. d # 1 => Value[2 * (d - 1)] = Node(WireKinds, Value[2 * (d - 1) - 1])
      BY <2>2, ValueAt
    <3>2. Thrown.kind \notin WireKinds \union {"array", "object"}
      BY DEF Thrown, Atom, WireKinds, AtomKinds
    <3> QED
      BY <3>1, <3>2, NodeFields
  <2> QED
    BY <2>1, <2>3 DEF ToSet
<1>10. Plain(v, made) = w
  <2>1. With(v, made) = u
    BY <1>9 DEF With
  <2> HIDE DEF u
  <2>2. EncodingOf(v.kind, "values", u) = w
    BY <1>8 DEF EncodingOf
  <2> HIDE DEF w
  <2> QED
    BY <2>1, <2>2 DEF Plain, EncodedObject
<1> HIDE DEF u, j
<1>11. /\ w \in Value[2 * d] /\ w.kind = "object" /\ w # Undefined /\ Json[2 * d][w] = x
       /\ x \in Value[2 * d + 1] /\ x.kind = "object"
       /\ Revert[d][<<x, z>>] = RevertWith(Revert[d - 1], x, z)
       /\ Get(x, "type").data = v.kind /\ Get(x, "values") = j
  BY <1>4, <1>6, <1>7, <1>8, EncodingOfGoes
<1>12. [i \in 1 .. Len(j.parts) |-> Revert[d - 1][<<j.parts[i], z>>]] = ms
  <2>1. Len(j.parts) = Len(js) /\ Len(js) = Len(made)
    BY <1>5, <1>6
  <2>2. \A i \in 1 .. Len(js) : j.parts[i] = Json[2 * (d - 1)][made[i]]
    BY <1>5, <1>6
  <2>3. \A i \in 1 .. Len(js) : Revert[d - 1][<<j.parts[i], z>>] = Meant[d - 1][v.parts[i]]
    BY <1>3, <2>1, <2>2
  <2> QED
    BY <2>1, <2>3
<1>13. [j EXCEPT !.parts = ms] = [v EXCEPT !.parts = ms]
  BY <1>1 DEF j, u
<1>14. Thrown \notin ToSet(ms)
  <2>1. ASSUME NEW k \in 1 .. Len(v.parts) PROVE Meant[d - 1][v.parts[k]] # Thrown
    <3>1. v.parts[k] \in Value[d - 1]
      BY <1>1
    <3>2. d - 1 \in 1 .. Depth
      <4>1. Value[0] = {}
        BY ValueAt
      <4>2. d - 1 # 0
        BY <3>1, <4>1
      <4> QED
        BY <1>2, <4>2
    <3> QED
      BY <3>1, <3>2, MeantNotThrown
  <2>2. DOMAIN ms = 1 .. Len(v.parts) /\ \A k \in DOMAIN ms : ms[k] # Thrown
    BY <1>5, <2>1
  <2> HIDE DEF ms
  <2> QED
    BY <2>2 DEF ToSet
<1>15. Meant[d][v] = [v EXCEPT !.parts = ms]
  <2>1. ms = [i \in 1 .. Len(v.parts) |-> Meant[d - 1][v.parts[i]]]
    BY <1>5
  <2> HIDE DEF ms
  <2> QED
    BY <2>1, MeantOf DEF MeantWith
<1> HIDE DEF w, x, ms
<1>16. RevertWith(Revert[d - 1], x, z) = With(j, ms)
  BY <1>11, <1>12 DEF RevertWith
<1>17. With(j, ms) = [v EXCEPT !.parts = ms]
  BY <1>13, <1>14 DEF With
<1> QED
  BY <1>10, <1>11, <1>15, <1>16, <1>17 DEF Goes

-----------------------------------------------------------------------------
(* All of it.                                                              *)

\* convert is sound for every value that is sent and holds no Uint8Array.
LEMMA ConvertSound ==
    ASSUME "bytes" \notin Kinds
    PROVE  \A d \in 0 .. Depth : \A v \in Trees(Kinds)[d], s \in Store : Sound(d, v, s, Convert[d][<<v, s>>])
<1> DEFINE P(d) == \A v \in Trees(Kinds)[d], s \in Store : Sound(d, v, s, Convert[d][<<v, s>>])
           S == {d \in 0 .. Depth : P(d)}
<1>0. Depth \in Nat
  BY ArgumentsAssumption
<1>1. 0 \in S
  BY <1>0, TreesAt
<1>2. ASSUME NEW d \in 1 .. Depth, d - 1 \in S PROVE d \in S
  <2>0. Trees(Kinds)[d] = Node(Kinds, Trees(Kinds)[d - 1])
    BY TreesAt, Levels
  <2>1. ASSUME NEW v \in Trees(Kinds)[d], NEW s \in Store
        PROVE  Sound(d, v, s, Convert[d][<<v, s>>])
    <3>1. v \in Value[d]
      BY SentIsValue, Levels
    <3>2. v.kind \in Kinds \union {"array", "object"} /\ v.parts \in Seq(Trees(Kinds)[d - 1])
      BY <2>0, NodeFields
    <3>3. v.kind \in AtomKinds \union {"array", "object"} /\ v.kind # "bytes"
      BY <3>2, ArgumentsAssumption
    <3>4. CASE v.kind = s.of
      BY <3>1, <3>4, KeptSound
    <3>5. CASE v.kind # s.of /\ (v.kind \in {"array", "object"} => LikeError(v))
      <4> DEFINE w == Plain(v, <<>>)
                 Fine == w = Thrown \/ \A z \in Store : z.of = s.of => Goes(d, v, w, z)
      <4>1. Fine
        <5>1. CASE LikeError(v)
          BY <3>1, <5>1, ErrorGoes
        <5>2. CASE ~LikeError(v) /\ v.kind \in {"null", "number", "string", "boolean"}
          <6>1. \A z \in Store : w = v /\ Goes(d, v, v, z)
            BY <3>1, <5>2, GoesAsItIs
          <6> HIDE DEF w
          <6> QED
            BY <6>1
        <5>3. CASE ~LikeError(v) /\ v.kind = "undefined"
          BY <3>1, <5>3, UndefinedGoes
        <5>4. CASE ~LikeError(v) /\ v.kind = "date"
          BY <3>1, <5>4, DateGoes
        <5>5. CASE ~LikeError(v) /\ v.kind = "buffer"
          BY <3>1, <5>5, BufferGoes
        <5>6. CASE ~LikeError(v) /\ v.kind = "proxy"
          <6>1. s.of = "function"
            BY <3>5, <5>6, StoreFields
          <6> QED
            BY <3>1, <5>6, <6>1, ProxyGoes
        <5>7. CASE ~LikeError(v) /\ v.kind \in {"function", "symbol"}
          BY <5>7 DEF Plain
        <5>8. CASE ~LikeError(v) /\ v.kind = "error"
          BY <5>8 DEF LikeError
        <5> QED
          BY <3>3, <3>5, <5>1, <5>2, <5>3, <5>4, <5>5, <5>6, <5>7, <5>8 DEF AtomKinds
      <4> QED
        BY <3>1, <3>5, <4>1, PlainSound
    <3>6. CASE v.kind # s.of /\ v.kind \in {"array", "object"} /\ ~LikeError(v)
      <4> DEFINE f == Convert[d - 1]
                 p == Parts(f, v, s)
                 r == [made |-> Plain(v, p.made), store |-> p.store]
      <4>1. d - 1 \in Nat /\ \A x \in Trees(Kinds)[d - 1], t \in Store : Sound(d - 1, x, t, f[<<x, t>>])
        BY <1>2
      <4> HIDE DEF f
      <4>2. /\ p.store \in Store /\ Extends(s, p.store)
            /\ \/ Thrown \in ToSet(p.made)
               \/ /\ p.made \in Seq(Value[2 * (d - 1)]) /\ Len(p.made) = Len(v.parts)
                  /\ \A z \in Store : Extends(p.store, z) =>
                         \A k \in 1 .. Len(v.parts) : Goes(d - 1, v.parts[k], p.made[k], z)
        BY <3>2, <4>1, PartsSound
      <4>3. Convert[d][<<v, s>>] = r
        BY <3>1, <3>6, ConvertOf DEF ConvertWith, f
      <4> HIDE DEF p
      <4>4. CASE Thrown \in ToSet(p.made)
        <5>1. Plain(v, p.made) = Thrown
          BY <3>6, <4>4 DEF Plain, With, EncodingOf, EncodedObject
        <5> QED
          BY <4>2, <4>3, <5>1 DEF Sound
      <4>5. CASE Thrown \notin ToSet(p.made)
        <5>1. \A z \in Store : Extends(p.store, z) => Goes(d, v, Plain(v, p.made), z)
          BY <3>1, <3>6, <4>2, <4>5, PartsGo
        <5>2. r.made = Plain(v, p.made) /\ r.store = p.store
          OBVIOUS
        <5> HIDE DEF r
        <5> QED
          BY <4>2, <4>3, <5>1, <5>2 DEF Sound
      <4> QED
        BY <4>4, <4>5
    <3> QED
      BY <3>4, <3>5, <3>6
  <2> QED
    BY <2>1
<1>3. S \in SUBSET (0 .. Depth)
  OBVIOUS
<1> HIDE DEF S
<1>4. S = 0 .. Depth
  BY <1>0, <1>1, <1>2, <1>3, UpTo
<1> QED
  BY <1>4 DEF S

-----------------------------------------------------------------------------

\* What each stage is after.
Along ==
    /\ value \in Trees(Kinds)[Depth] /\ store \in Store
    /\ stage \in {"encoded", "sent"} => wire # Thrown
    /\ stage = "encoded" => Goes(Depth, value, wire, store)
    /\ stage = "sent" => Revert[Depth][<<wire, store>>] = Meant[Depth][value]
    /\ stage = "decoded" => arrived = Meant[Depth][value]

\* Of every value without a Uint8Array that encode lets through, decode makes what
\* was meant, however deep it nests and whatever was kept before: each function and
\* each proxy is found under the id it was given among all that are kept (encode and
\* decode in common/arguments.ts).
THEOREM Intact == ASSUME "bytes" \notin Kinds PROVE Spec => []ArrivesIntact
<1>1. Init => Along
  BY ArgumentsAssumption DEF Init, Along
<1>2. Along /\ [Next]_vars => Along'
  <2> SUFFICES ASSUME Along, [Next]_vars PROVE Along'
    OBVIOUS
  <2>0. Depth \in 1 .. Depth /\ Depth \in 0 .. Depth /\ value \in Value[Depth] /\ 2 * Depth \in 1 .. 2 * Depth
    BY SentIsValue, ArgumentsAssumption DEF Along
  <2>1. CASE Encode
    <3> DEFINE r == Convert[Depth][<<value, store>>]
    <3>1. Sound(Depth, value, store, r)
      BY <2>0, ConvertSound DEF Along
    <3> HIDE DEF r
    <3>2. wire' = r.made /\ store' = r.store /\ value' = value
          /\ stage' = IF r.made = Thrown THEN "thrown" ELSE "encoded"
      BY <2>1 DEF Encode, r
    <3>3. r.store \in Store /\ (r.made # Thrown => Goes(Depth, value, r.made, r.store))
      BY <3>1, ExtendsSelf DEF Sound
    <3> QED
      BY <3>2, <3>3 DEF Along
  <2>2. CASE Transmit
    <3>1. Revert[Depth][<<wire', store>>] = Meant[Depth][value]
      BY <2>2 DEF Along, Goes, Transmit
    <3>2. Json[2 * Depth][wire] # Thrown
      <4>1. Json[2 * Depth][wire] \in Value[2 * Depth + 1]
        BY <2>2 DEF Along, Goes, Transmit
      <4>2. Json[2 * Depth][wire] \in Node(WireKinds, Value[2 * Depth + 1 - 1])
        BY <4>1, ValueAt, ArgumentsAssumption
      <4> QED
        BY <4>2, NodeFields DEF Thrown, Atom, WireKinds, AtomKinds
    <3> QED
      BY <2>2, <3>1, <3>2 DEF Along, Transmit
  <2>3. CASE Decode
    BY <2>3 DEF Along, Decode
  <2>4. CASE UNCHANGED vars
    BY <2>4 DEF vars, Along
  <2> QED
    BY <2>1, <2>2, <2>3, <2>4 DEF Next
<1>3. Along => ArrivesIntact
  BY DEF Along, ArrivesIntact
<1> QED
  BY <1>1, <1>2, <1>3, PTL DEF Spec

=============================================================================
