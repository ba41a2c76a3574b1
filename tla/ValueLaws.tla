----------------------------- MODULE ValueLaws -----------------------------
(***************************************************************************)
(* What the numbers, the values and the patterns of the language owe to a  *)
(* program, said with plain arithmetic and plain sequences, and the cases  *)
(* they are looked at.                                                     *)
(***************************************************************************)
EXTENDS Values

NumberCases ==
    {from_bigint(n) : n \in MinInt - 3..MaxInt + 3} \cup {Float(n) : n \in {-8, -1, 0, 1, 4, 6, 8}}
        \cup {Decimal(n) : n \in {-9, -1, 0, 1, 5, 8}}

\* What is added is taken away again and negated twice is as before, also
\* across the width of an Int; a remainder is that of a division, smaller
\* than the divisor and of its sign; two numbers are equal when the order says
\* so.
ExactKinds(a, b) ==
    \/ is_integer(a) /\ is_integer(b)
    \/ /\ a.k = "decimal" /\ b.k = "decimal"
       /\ {a.n + b.n, a.n * b.n} \subseteq -MaxDecimal..MaxDecimal
RemainderOf(r, a, b) ==
    /\ \E q \in -100..100 : a.n = q * b.n + r.n
    /\ Magnitude(r.n) < Magnitude(b.n)
    /\ r.n = 0 \/ (r.n < 0 <=> b.n < 0)
NumberLaw(a, b) ==
    /\ ExactKinds(a, b) =>
        /\ Checked("-", Checked("+", a, b), b) = a
        /\ neg(neg(a)) = a
        /\ ~is_zero(b) /\ modulo(a, b) # Panics =>
            /\ RemainderOf(modulo(a, b), a, b)
            /\ Checked("%", Checked("*", a, b), b) \in {Panics, Decimal(0), from_bigint(0)}
    /\ partial_cmp_num(a, b) # 2 => (num_eq(a, b) <=> partial_cmp_num(a, b) = 0)
    /\ partial_cmp_num(a, b) # 2 => partial_cmp_num(a, b) = -partial_cmp_num(b, a)

\* The remainder of two integers is a number whenever the divisor is not zero.
RemainderIsNumber(a, b) ==
    is_integer(a) /\ is_integer(b) /\ ~is_zero(b) => is_integer(modulo(a, b))

-----------------------------------------------------------------------------
Grid(shape) == Array(shape, [i \in Cells(shape) |-> FoldLeft(LAMBDA x, y : 2 * x + y, 0, i)])
Simple ==
    {from_bigint(n) : n \in {-1, 0, 1, 9}}
        \cup {Float(0), Float(1), Decimal(1), Bool(TRUE), Bool(FALSE), Nothing,
              Text(<<>>), Text(<<"a">>), Text(<<"1">>), Secret(<<>>), Secret(<<"a">>),
              Bytes(<<>>), Bytes(<<1>>), Complex(0, 0), Complex(1, 0), Complex(1, 1)}
Arrays == {Grid(s) : s \in {<<0>>, <<2>>, <<1, 2>>, <<2, 1>>, <<2, 2>>, <<3>>}}
Nested ==
    {List(<<>>), MapOf(<<>>), Task("t")} \cup {List(<<v>>) : v \in Simple}
        \cup {MapOf(<< <<"a", v>>, <<"b", Nothing>> >>) : v \in Simple}
        \cup {MapOf(<< <<"b", Nothing>>, <<"a", v>> >>) : v \in Simple}
ValueCases == Simple \cup Arrays \cup Nested

\* Nothing of it is a text after it crosses.
RECURSIVE Plain(_)
Plain(v) ==
    CASE v.k \in {"task", "secret"} -> FALSE
      [] v.k = "list" -> \A i \in DOMAIN v.items : Plain(v.items[i])
      [] v.k = "map" -> \A i \in DOMAIN v.pairs : Plain(v.pairs[i][2])
      [] OTHER -> TRUE
\* Equality is that of both sides, equal values count alike in a condition, and
\* a copy that crossed to another thread equals its original; what a secret is
\* added to is a secret, and its text does not cross; arrays of one shape are
\* added and taken away cell by cell, and a row is that of the array.
Copy(v) == from_send(to_send(v))
SecretLaw(both) == both.k = "secret" /\ ~syn_equals(Copy(both), both)
ArrayLaw(a, b, sum) ==
    /\ sum = exec_binary(b, "+", a)
    /\ sum # Fails /\ sum.shape = a.shape => exec_binary(sum, "-", b) = a
    /\ a.shape = b.shape =>
        \A i \in 0..a.shape[1] - 1 :
            exec_binary(IndexAccess(a, i), "+", IndexAccess(b, i)) = IndexAccess(sum, i)
ValueLaw(a, b) ==
    /\ syn_equals(a, b) <=> syn_equals(b, a)
    /\ syn_equals(a, b) => (is_truthy(a) <=> is_truthy(b))
    /\ Plain(a) => syn_equals(Copy(a), a)
    /\ "secret" \in {a.k, b.k} => SecretLaw(exec_binary(a, "+", b))
    /\ a.k = "array" /\ b.k = "array" => ArrayLaw(a, b, exec_binary(a, "+", b))

-----------------------------------------------------------------------------
Ints(s) == [i \in DOMAIN s |-> from_bigint(s[i])]
Items == {Ints(s) : s \in UNION {[1..n -> 0..2] : n \in 0..3}}
            \cup {[i \in 1..n |-> Text(<<>>)] : n \in 1..2}
            \cup {<<Text(<<"b">>), Text(<<"a", "b">>), Text(<<"a">>)>>}
ListPatterns ==
    [k : {"list"}, prefix : {<<>>, <<Binds("p")>>, <<Wild>>, <<Is(from_bigint(1)), Binds("p")>>},
     rest : {"r", Unnamed}, suffix : {<<>>, <<Binds("s")>>, <<Binds("s"), Is(Float(2))>>}]
NameOrSkip(p, names) == SelectSeq(p, LAMBDA x : x.k = "bind" /\ x.name \in names)
Ascending(items) == \A i, j \in DOMAIN items : i < j => sort_cmp(items[i], items[j]) # 1
Parity(v) == from_bigint(v.n % 2)
\* What is kept of a list: the items where keep is true, in their order.
Only(items, keep(_)) == SelectSeq(items, keep)
\* A pattern with a rest matches a list when its ends do, and then gives back
\* the list in its places.
MatchLaw(p, items, m) ==
    LET n == Len(items) - Len(p.suffix)
        asks(value, part) == Is(value) \in {part[i] : i \in DOMAIN part}
    IN  /\ m.k = "matched" <=>
            /\ Len(p.prefix) <= n
            /\ asks(from_bigint(1), p.prefix) => syn_equals(items[1], from_bigint(1))
            /\ asks(Float(2), p.suffix) => syn_equals(items[Len(items)], Float(2))
        /\ m.k = "matched" =>
            \A b \in {m.binds[i] : i \in DOMAIN m.binds} :
                CASE b[1] = "p" -> b[2] = items[Len(p.prefix)]
                  [] b[1] = "r" -> b[2].items = SubSeq(items, Len(p.prefix) + 1, n)
                  [] b[1] = "s" -> b[2] = items[n + 1]
\* Sorting keeps the items with equal keys in their order, and grouping keeps
\* every item, in its order, in the one group its key names.
SortLaw(items, sorted) ==
    /\ Ascending(sorted)
    /\ \A i \in DOMAIN items :
         LET same(x) == sort_cmp(x, items[i]) = 0
         IN  Only(sorted, same) = Only(items, same)
GroupLaw(items, keys, groups) ==
    \A i \in DOMAIN items :
        LET same(x) == Parity(x) = keys[i]
        IN  Get(groups, Shown(keys[i])).items = Only(items, same)
\* What is set at a place is found, there and nowhere else.
SetLaw(items, i, set) ==
    LET at == IF i < 0 THEN i + Len(items) ELSE i
    IN  set # Fails =>
            /\ contains(set.items, Nothing)
            /\ \A j \in 0..Len(items) - 1 :
                IndexAccess(set, j) = IF j = at THEN Nothing ELSE IndexAccess(List(items), j)
\* A list cut anywhere is whole when joined, and a slice is never longer than
\* it says; the laws above hold of patterns, sorting, groups and places; an
\* item is kept for an answer or for the other; the pairs of a list with
\* itself give back every item twice when flattened; and a range has what is
\* within it at its step.
ListLaw(items) ==
    /\ \A i \in -5..5 : slice(items, 0, i) \o slice(items, i, Len(items)) = items
    /\ \A i, j \in -5..5 : 0 <= i /\ i <= j => Len(slice(items, i, j)) <= j - i
    /\ \A p \in ListPatterns : MatchLaw(p, items, match_list_pattern(p, List(items)))
    /\ SortLaw(items, sort_by(items, items))
    /\ (\A i \in DOMAIN items : items[i].k = "int") =>
        \E keys \in {[i \in DOMAIN items |-> Parity(items[i])]} :
            GroupLaw(items, keys, group_by(items, keys))
    /\ \A i \in -4..4 : SetLaw(items, i, SetIndex(List(items), i, Nothing))
    /\ Len(where(items, items)) + Len(where(items, [i \in DOMAIN items |-> Bool(~is_truthy(items[i]))])) = Len(items)
    /\ \E twice \in {flatten(zip_with(items, items))} :
         \A i \in DOMAIN items : twice[2 * i - 1] = items[i] /\ twice[2 * i] = items[i]
    /\ \A lo, hi \in -2..2, step \in {-2, -1, 1, 3} :
        \A n \in -3..3 : contains(range(lo, hi, step), from_bigint(n)) <=>
            /\ IF step > 0 THEN lo <= n /\ n < hi ELSE hi < n /\ n <= lo
            /\ (n - lo) % Magnitude(step) = 0

-----------------------------------------------------------------------------
Params == {<<[name |-> "a", default |-> Missing]>>,
           <<[name |-> "a", default |-> Missing], [name |-> "b", default |-> Text(<<"c">>)]>>}
Given == {"", "a", "b", "c"} \X {Text(<<"a">>), Nothing}
CallCases == Params \X UNION {[1..n -> Given] : n \in 0..3}
\* A call that is made gives every argument that is not in excess to a
\* parameter of its own, under its name if it has one, and to the others what
\* they stand for; one that is not made has an argument that is nobody's, or
\* one too many of somebody's.
CallLaw(params, args) ==
    LET call == call_value_named(params, args)
        inPlace == {i \in DOMAIN args : args[i][1] = ""}
        takes(p) == {i \in DOMAIN args : args[i][1] = params[p].name \/ (args[i][1] = "" /\ i = p)}
        named == DOMAIN args \ inPlace
        legal == /\ inPlace = 1..Cardinality(inPlace)
                 /\ \A i \in named : \E p \in DOMAIN params : i \in takes(p)
                 /\ \A p \in DOMAIN params : Cardinality(takes(p)) <= 1
    IN  /\ call # Fails <=> legal
        /\ legal => \A p \in DOMAIN params :
             call.values[p] =
                IF takes(p) # {} THEN args[CHOOSE i \in takes(p) : TRUE][2]
                ELSE IF params[p].default = Missing THEN Nothing ELSE params[p].default

\* A variant that is made is told from the others, and its payload is what it
\* was made of, in the declared order.
Arms(names, guard) ==
    <<[pattern |-> Variant("E.w"), guard |-> ""], [pattern |-> VariantOf("E.v", names), guard |-> guard],
      [pattern |-> Wild, guard |-> ""]>>
MadeLaw(fields, args, names, v) ==
    /\ match_pattern(VariantOf("E.v", names), v)
         = Matched([i \in DOMAIN fields |-> <<fields[i], args[i]>>])
    /\ match_pattern(Variant("E.w"), v) = NoMatch
    /\ MatchStatement(Arms(names, IF fields = <<>> THEN "" ELSE fields[1]), v, <<>>)
         = IF fields = <<>> \/ is_truthy(args[1]) THEN 2 ELSE 3
VariantLaw(fields, args) ==
    Len(fields) = Len(args) =>
        MadeLaw(fields, args, [i \in DOMAIN fields |-> Binds(fields[i])], Construct("E.v", fields, args))
=============================================================================
