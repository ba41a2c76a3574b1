------------------------------- MODULE Values -------------------------------
(***************************************************************************)
(* The values of the language. First its numbers (synsema-                 *)
(* core/src/number.rs): integers of Width bits that become big ones when   *)
(* they do not fit, floats that keep Mantissa bits of an integer, and      *)
(* exact decimals up to MaxDecimal. The fractions of floats and decimals   *)
(* are left out: a float is an integer a float holds exactly. Then         *)
(* types.rs and the operators in interpreter.rs and arrays.rs: truth,      *)
(* equality, the copy that crosses threads, +, indexing, slices, arrays    *)
(* with broadcasting, and the list builtins. A text is a sequence of       *)
(* characters; a map is the sequence of its pairs in the order they were   *)
(* put in. The values of the server are left out. At the end, how values   *)
(* are taken apart.                                                        *)
(***************************************************************************)
EXTENDS Integers, SequencesExt

CONSTANTS Width, Mantissa, MaxDecimal

MinInt == -(2 ^ (Width - 1))
MaxInt == 2 ^ (Width - 1) - 1

Magnitude(n) == IF n < 0 THEN -n ELSE n
\* The float next to the integer n, ties to the even one.
Rounded(n) ==
    LET m == Magnitude(n)
        bits == CHOOSE b \in 0..30 : m < 2 ^ b /\ (b = 0 \/ m >= 2 ^ (b - 1))
        ulp == 2 ^ (IF bits > Mantissa THEN bits - Mantissa ELSE 0)
        low == m \div ulp
        up == 2 * (m % ulp) > ulp \/ (2 * (m % ulp) = ulp /\ low % 2 = 1)
        near == (IF up THEN low + 1 ELSE low) * ulp
    IN  IF n < 0 THEN -near ELSE near

Float(n) == [k |-> "float", n |-> Rounded(n)]
Decimal(n) == [k |-> "decimal", n |-> n]
Fails == [k |-> "error"]
\* The process stops: the code has no answer at all.
Panics == [k |-> "panic"]

\* An integer is an Int exactly when it fits.
from_bigint(n) == [k |-> IF n \in MinInt..MaxInt THEN "int" ELSE "big", n |-> n]

is_number(v) == v.k \in {"int", "big", "float", "decimal"}
is_integer(v) == v.k \in {"int", "big"}
is_zero(v) == v.n = 0
is_negative(v) == v.n < 0
to_f64(v) == Rounded(v.n)
HasDecimal(v) == v.k # "float" /\ v.n \in -MaxDecimal..MaxDecimal
mixes_decimal_float(a, b) == {a.k, b.k} = {"decimal", "float"}
any_decimal(a, b) == "decimal" \in {a.k, b.k}
any_float(a, b) == "float" \in {a.k, b.k}

Exact(op, x, y) ==
    CASE op = "+" -> x + y
      [] op = "-" -> x - y
      [] op = "*" -> x * y

\* What a decimal cannot hold is a float.
decimal_binop(op, a, b) ==
    LET r == Exact(op, a.n, b.n)
    IN  IF HasDecimal(a) /\ HasDecimal(b) /\ Magnitude(r) <= MaxDecimal
        THEN Decimal(r) ELSE Float(Exact(op, to_f64(a), to_f64(b)))

\* Fault: the sum of two small integers stays in their width.
Wrapping(op, a, b) ==
    LET r == Exact(op, a.n, b.n)
    IN  IF any_decimal(a, b) THEN decimal_binop(op, a, b)
        ELSE IF any_float(a, b) THEN Float(Exact(op, to_f64(a), to_f64(b)))
        ELSE IF a.k = "int" /\ b.k = "int"
             THEN [k |-> "int", n |-> ((r - MinInt) % (2 ^ Width)) + MinInt]
        ELSE from_bigint(r)
Arithmetic(op, a, b) ==
    IF any_decimal(a, b) THEN decimal_binop(op, a, b)
    ELSE IF any_float(a, b) THEN Float(Exact(op, to_f64(a), to_f64(b)))
    ELSE from_bigint(Exact(op, a.n, b.n))

\* The remainder has the sign of the divisor.
Floored(x, y) == IF y > 0 THEN x % y ELSE -((-x) % (-y))
\* The least Int modulo -1 is computed with the remainder of the machine, that
\* does not exist: it stops the thread.
modulo(a, b) ==
    IF is_zero(b) THEN Fails
    ELSE IF any_decimal(a, b) /\ ~any_float(a, b)
         THEN IF HasDecimal(a) /\ HasDecimal(b) THEN Decimal(Floored(a.n, b.n)) ELSE Fails
    ELSE IF any_float(a, b) THEN Float(Floored(to_f64(a), to_f64(b)))
    ELSE IF a.k = "int" /\ b.k = "int" /\ a.n = MinInt /\ b.n = -1 THEN Panics
    ELSE from_bigint(Floored(a.n, b.n))

\* A power of integers is one of them; a decimal takes integer exponents only
\* and fails where it overflows.  Negative exponents have fractions and are
\* left out.
pow(a, b) ==
    LET r == a.n ^ b.n
    IN  CASE any_decimal(a, b) ->
                IF HasDecimal(a) /\ Magnitude(r) <= MaxDecimal THEN Decimal(r) ELSE Fails
          [] any_float(a, b) -> Float(to_f64(a) ^ to_f64(b))
          [] OTHER -> from_bigint(r)
neg(v) ==
    CASE v.k = "float" -> Float(-v.n)
      [] v.k = "decimal" -> Decimal(-v.n)
      [] OTHER -> from_bigint(-v.n)

\* What the operators of the language answer.
Checked(op, a, b) ==
    CASE mixes_decimal_float(a, b) -> Fails
      [] op = "%" -> modulo(a, b)
      [] op = "**" -> pow(a, b)
      [] OTHER -> Arithmetic(op, a, b)

\* -1, 0, 1, or 2 where there is no order.
Sign(x, y) == IF x < y THEN -1 ELSE IF x = y THEN 0 ELSE 1
partial_cmp_num(a, b) ==
    CASE mixes_decimal_float(a, b) -> 2
      [] any_decimal(a, b) -> IF HasDecimal(a) /\ HasDecimal(b) THEN Sign(a.n, b.n) ELSE 2
      [] any_float(a, b) -> Sign(to_f64(a), to_f64(b))
      [] OTHER -> Sign(a.n, b.n)
num_eq(a, b) ==
    CASE mixes_decimal_float(a, b) -> FALSE
      [] any_decimal(a, b) -> HasDecimal(a) /\ HasDecimal(b) /\ a.n = b.n
      [] any_float(a, b) -> to_f64(a) = to_f64(b)
      [] OTHER -> a.n = b.n
-----------------------------------------------------------------------------
Text(s) == [k |-> "text", s |-> s]
Secret(s) == [k |-> "secret", s |-> s]
Bytes(b) == [k |-> "bytes", b |-> b]
Bool(b) == [k |-> "bool", bit |-> IF b THEN 1 ELSE 0]
Nothing == [k |-> "nothing"]
List(items) == [k |-> "list", items |-> items]
MapOf(pairs) == [k |-> "map", pairs |-> pairs]
Complex(re, im) == [k |-> "complex", re |-> re, im |-> im]
Task(name) == [k |-> "task", name |-> name]

\* An array: a number for each of the indexes of its shape.
Cells(shape) ==
    {i \in [DOMAIN shape -> 0..FoldLeft(LAMBDA x, y : x + y, 0, shape)] :
        \A d \in DOMAIN shape : i[d] < shape[d]}
Array(shape, at) == [k |-> "array", shape |-> shape, at |-> at]

-----------------------------------------------------------------------------
KeysOf(m) == {m.pairs[i][1] : i \in DOMAIN m.pairs}
Get(m, key) == m.pairs[CHOOSE i \in DOMAIN m.pairs : m.pairs[i][1] = key][2]
\* An insertion keeps the place of a key that is there.
Insert(m, key, v) ==
    IF key \in KeysOf(m)
    THEN MapOf([i \in DOMAIN m.pairs |-> IF m.pairs[i][1] = key THEN <<key, v>> ELSE m.pairs[i]])
    ELSE MapOf(Append(m.pairs, <<key, v>>))

is_truthy(v) ==
    CASE v.k = "nothing" -> FALSE
      [] v.k = "bool" -> v.bit = 1
      [] is_number(v) -> ~is_zero(v)
      [] v.k \in {"text", "secret"} -> v.s # <<>>
      [] v.k = "bytes" -> v.b # <<>>
      [] v.k = "list" -> v.items # <<>>
      [] v.k = "map" -> v.pairs # <<>>
      [] v.k = "complex" -> v.re # 0 \/ v.im # 0
      [] v.k = "array" -> Cells(v.shape) # {}
      [] OTHER -> TRUE

\* Equality by value.  A truth is the number 0 or 1, a secret is the text it
\* hides, a complex number without imaginary part is its real part.
RECURSIVE syn_equals(_, _)
syn_equals(a, b) ==
    CASE is_number(a) /\ is_number(b) -> num_eq(a, b)
      [] is_number(a) /\ b.k = "bool" -> num_eq(a, from_bigint(b.bit))
      [] a.k = "bool" /\ is_number(b) -> num_eq(b, from_bigint(a.bit))
      [] is_number(a) /\ b.k = "complex" -> b.im = 0 /\ b.re = to_f64(a)
      [] a.k = "complex" /\ is_number(b) -> a.im = 0 /\ a.re = to_f64(b)
      [] {a.k, b.k} \in {{"text", "secret"}, {"secret"}} -> a.s = b.s
      [] a.k # b.k \/ a.k = "task" -> FALSE
      [] a.k = "list" ->
            /\ Len(a.items) = Len(b.items)
            /\ \A i \in DOMAIN a.items : syn_equals(a.items[i], b.items[i])
      [] a.k = "map" ->
            /\ Len(a.pairs) = Len(b.pairs)
            /\ \A key \in KeysOf(a) : key \in KeysOf(b) /\ syn_equals(Get(a, key), Get(b, key))
      [] OTHER -> a = b

\* How a value reads in a text, as far as the properties tell: the number of
\* a float has a point, a secret is a mark.
RECURSIVE Shown(_)
Shown(v) ==
    CASE v.k = "text" -> v.s
      [] v.k = "float" -> <<ToString(v.n), ".0">>
      [] is_number(v) -> <<ToString(v.n)>>
      [] v.k = "bool" -> <<IF v.bit = 1 THEN "true" ELSE "false">>
      [] v.k = "list" -> FoldLeft(LAMBDA acc, x : acc \o Shown(x), <<"[">>, v.items) \o <<"]">>
      [] OTHER -> <<v.k>>

-----------------------------------------------------------------------------
\* The copy that crosses to another thread: a sent value is a value again,
\* tasks and secrets are but their texts.
Flat(a) ==
    LET row(i) == FoldLeft(LAMBDA acc, d : acc * a.shape[d] + i[d], 0, [d \in DOMAIN a.shape |-> d])
    IN  [n \in 1..Cardinality(Cells(a.shape)) |->
            a.at[CHOOSE i \in Cells(a.shape) : row(i) = n - 1]]
FromFlat(shape, data) ==
    LET row(i) == FoldLeft(LAMBDA acc, d : acc * shape[d] + i[d], 0, [d \in DOMAIN shape |-> d])
    IN  Array(shape, [i \in Cells(shape) |-> data[row(i) + 1]])
RECURSIVE to_send(_)
to_send(v) ==
    CASE v.k = "list" -> List([i \in DOMAIN v.items |-> to_send(v.items[i])])
      [] v.k = "map" -> MapOf([i \in DOMAIN v.pairs |-> <<v.pairs[i][1], to_send(v.pairs[i][2])>>])
      [] v.k = "array" -> [k |-> "array", shape |-> v.shape, data |-> Flat(v)]
      [] v.k \in {"task", "secret"} -> Text(Shown(v))
      [] OTHER -> v
RECURSIVE from_send(_)
from_send(v) ==
    CASE v.k = "list" -> List([i \in DOMAIN v.items |-> from_send(v.items[i])])
      [] v.k = "map" -> FoldLeft(LAMBDA m, p : Insert(m, p[1], from_send(p[2])), MapOf(<<>>), v.pairs)
      [] v.k = "array" -> FromFlat(v.shape, v.data)
      [] OTHER -> v

-----------------------------------------------------------------------------
\* Arrays.  Shapes are compared from the right; a side of one is stretched.
broadcast_shape(a, b) ==
    LET n == IF Len(a) > Len(b) THEN Len(a) ELSE Len(b)
        dim(s, i) == IF i + Len(s) <= n THEN 1 ELSE s[i + Len(s) - n]
        fits(i) == dim(a, i) = dim(b, i) \/ 1 \in {dim(a, i), dim(b, i)}
    IN  IF \A i \in 1..n : fits(i)
        THEN [ok |-> TRUE, shape |-> [i \in 1..n |-> IF dim(a, i) = 1 THEN dim(b, i) ELSE dim(a, i)]]
        ELSE [ok |-> FALSE]
Stretched(a, shape) ==
    [i \in Cells(shape) |->
        a.at[[d \in DOMAIN a.shape |->
            IF a.shape[d] = 1 THEN 0 ELSE i[d + Len(shape) - Len(a.shape)]]]]
array_binop(a, op, b) ==
    CASE a.k = "array" /\ b.k = "array" ->
            LET out == broadcast_shape(a.shape, b.shape)
                x == Stretched(a, out.shape)
                y == Stretched(b, out.shape)
            IN  IF out.ok THEN Array(out.shape, [i \in Cells(out.shape) |-> Rounded(Exact(op, x[i], y[i]))])
                ELSE Fails
      [] a.k = "array" /\ is_number(b) ->
            Array(a.shape, [i \in DOMAIN a.at |-> Rounded(Exact(op, a.at[i], to_f64(b)))])
      [] b.k = "array" /\ is_number(a) ->
            Array(b.shape, [i \in DOMAIN b.at |-> Rounded(Exact(op, to_f64(a), b.at[i]))])
      [] OTHER -> Fails
index_row(a, i) ==
    IF a.shape = <<>> \/ i \notin 0..a.shape[1] - 1 THEN Fails
    ELSE IF Len(a.shape) = 1 THEN Float(a.at[<<i>>])
    ELSE Array(Tail(a.shape), [j \in Cells(Tail(a.shape)) |-> a.at[<<i>> \o j]])

secret_concat(a, b) ==
    LET part(v) == IF v.k = "secret" THEN v.s ELSE Shown(v)
    IN  Secret(part(a) \o part(b))
AsComplex(v) == IF v.k = "complex" THEN v ELSE Complex(to_f64(v), 0)
complex_binop(a, op, b) ==
    IF op = "*" THEN Complex(a.re * b.re - a.im * b.im, a.re * b.im + a.im * b.re)
    ELSE Complex(Exact(op, a.re, b.re), Exact(op, a.im, b.im))

\* The binary operators that compute; what they have no meaning for fails.
exec_binary(a, op, b) ==
    CASE op = "+" /\ "secret" \in {a.k, b.k} -> secret_concat(a, b)
      [] op = "+" /\ "text" \in {a.k, b.k} -> Text(Shown(a) \o Shown(b))
      [] op = "+" /\ {a.k, b.k} = {"bytes"} -> Bytes(a.b \o b.b)
      [] op = "+" /\ {a.k, b.k} = {"list"} -> List(a.items \o b.items)
      [] op \in {"+", "-", "*"} /\ "complex" \in {a.k, b.k}
            /\ \A v \in {a, b} : is_number(v) \/ v.k = "complex" ->
            complex_binop(AsComplex(a), op, AsComplex(b))
      [] op \in {"+", "-", "*"} /\ "array" \in {a.k, b.k} -> array_binop(a, op, b)
      [] is_number(a) /\ is_number(b) -> Checked(op, a, b)
      [] OTHER -> Fails

-----------------------------------------------------------------------------
IndexAccess(v, i) ==
    CASE v.k = "list" -> IF i \in 0..Len(v.items) - 1 THEN v.items[i + 1] ELSE Fails
      [] v.k = "bytes" -> IF i \in 0..Len(v.b) - 1 THEN from_bigint(v.b[i + 1]) ELSE Fails
      [] v.k = "array" -> index_row(v, i)
      [] OTHER -> Fails
\* An assignment counts a negative index from the end, a reading does not.
SetIndex(v, i, x) ==
    LET at == IF i < 0 THEN i + Len(v.items) ELSE i
    IN  IF at \in 0..Len(v.items) - 1 THEN List([v.items EXCEPT ![at + 1] = x]) ELSE Fails

\* The bounds of a slice, like Python's: from the end where negative, and
\* within the list.
py_slice_range(len, start, end) ==
    LET from(x) == IF x < 0 THEN x + len ELSE x
        clamp(x) == IF from(x) < 0 THEN 0 ELSE IF from(x) > len THEN len ELSE from(x)
        s == clamp(start)
        e == clamp(end)
    IN  IF s >= e THEN <<s, s>> ELSE <<s, e>>
slice(items, start, end) ==
    LET r == py_slice_range(Len(items), start, end)
    IN  SubSeq(items, r[1] + 1, r[2])

\* Texts are in the order of a dictionary.
Alphabet == <<"a", "b", "c">>
Position(c) == CHOOSE i \in DOMAIN Alphabet : Alphabet[i] = c
TextCmp(s, t) ==
    LET common == {i \in DOMAIN s \cap DOMAIN t : s[i] # t[i]}
        first == CHOOSE i \in common : \A j \in common : i <= j
    IN  IF common = {} THEN Sign(Len(s), Len(t)) ELSE Sign(Position(s[first]), Position(t[first]))
sort_cmp(a, b) ==
    CASE is_number(a) /\ is_number(b) -> LET c == partial_cmp_num(a, b) IN IF c = 2 THEN 0 ELSE c
      [] a.k = "text" /\ b.k = "text" -> TextCmp(a.s, b.s)
      [] OTHER -> 0
\* The list sorted by what the task answered for each item, the keys; items with
\* equal keys stay in their order.
sort_by(items, keys) ==
    LET Place(acc, x) ==
            LET after == {i \in DOMAIN acc : sort_cmp(acc[i][1], x[1]) = 1}
                at == IF after = {} THEN Len(acc) + 1 ELSE CHOOSE i \in after : \A j \in after : i <= j
            IN  InsertAt(acc, at, x)
        sorted == FoldLeft(Place, <<>>, [i \in DOMAIN items |-> <<keys[i], items[i]>>])
    IN  [i \in DOMAIN sorted |-> sorted[i][2]]
group_by(items, keys) ==
    LET Put(m, x) ==
            LET g == Shown(x[1])
            IN  Insert(m, g, List(Append(IF g \in KeysOf(m) THEN Get(m, g).items ELSE <<>>, x[2])))
    IN  FoldLeft(Put, MapOf(<<>>), [i \in DOMAIN items |-> <<keys[i], items[i]>>])
\* The items for which the task answered a true value.
where(items, answers) ==
    LET kept == SelectSeq([i \in DOMAIN items |-> i], LAMBDA i : is_truthy(answers[i]))
    IN  [i \in DOMAIN kept |-> items[kept[i]]]
flatten(items) ==
    FoldLeft(LAMBDA acc, x : IF x.k = "list" THEN acc \o x.items ELSE Append(acc, x), <<>>, items)
contains(items, x) == \E i \in DOMAIN items : syn_equals(items[i], x)
\* Pairs of items, each what the task is called with; here it lists them.
zip_with(a, b) ==
    [i \in 1..(IF Len(a) < Len(b) THEN Len(a) ELSE Len(b)) |-> List(<<a[i], b[i]>>)]
range(lo, hi, step) ==
    LET n == IF step > 0 THEN (IF hi > lo THEN (hi - lo + step - 1) \div step ELSE 0)
             ELSE (IF lo > hi THEN (lo - hi - step - 1) \div (-step) ELSE 0)
    IN  [i \in 1..n |-> from_bigint(lo + (i - 1) * step)]
-----------------------------------------------------------------------------
(***************************************************************************)
(* Taking values apart (interpreter.rs): the patterns of match, the        *)
(* variants of an enum, and the arguments of a call.                       *)
(***************************************************************************)

Wild == [k |-> "wild"]
Binds(name) == [k |-> "bind", name |-> name]
Is(v) == [k |-> "is", value |-> v]
Variant(id) == [k |-> "variant", id |-> id]
VariantOf(id, subs) == [k |-> "variant_of", id |-> id, subs |-> subs]
\* rest: the name the middle is given, or one of these.
NoRest == "no rest"
Unnamed == "rest without a name"
ListOf(prefix, rest, suffix) == [k |-> "list", prefix |-> prefix, rest |-> rest, suffix |-> suffix]
\* A field: its key and the pattern of its value; a bare key binds its own
\* name, that is, it is the pattern Binds(key).
FieldsOf(fields) == [k |-> "map", fields |-> fields]

Matched(binds) == [k |-> "matched", binds |-> binds]
NoMatch == [k |-> "no match"]
Then(a, b) == IF a.k # "matched" THEN a ELSE IF b.k # "matched" THEN b ELSE Matched(a.binds \o b.binds)

-----------------------------------------------------------------------------
\* A variant is a map that names it, before the fields of its payload.  The
\* constructor takes exactly the declared fields.
Construct(id, fields, args) ==
    IF Len(fields) # Len(args) THEN Fails
    ELSE FoldLeft(LAMBDA m, i : Insert(m, fields[i], args[i]),
                  MapOf(<< <<"__variant", Text(<<id>>)>> >>), [i \in DOMAIN fields |-> i])
IsVariant(v, id) ==
    v.k = "map" /\ "__variant" \in KeysOf(v) /\ Get(v, "__variant") = Text(<<id>>)
Payload(v) == [i \in DOMAIN SelectSeq(v.pairs, LAMBDA p : p[1] # "__variant") |->
                  SelectSeq(v.pairs, LAMBDA p : p[1] # "__variant")[i][2]]

RECURSIVE match_pattern(_, _)
MatchAll(patterns, values) ==
    FoldLeft(LAMBDA acc, i : IF acc.k # "matched" THEN acc
                             ELSE Then(acc, match_pattern(patterns[i], values[i])),
             Matched(<<>>), [i \in DOMAIN patterns |-> i])
\* Fault: the end of the list is taken where the beginning ends.
SuffixAfterPrefix(p, v) ==
    LET n == Len(v.items)
        pre == Len(p.prefix)
        suf == Len(p.suffix)
        ends == Then(MatchAll(p.prefix, SubSeq(v.items, 1, pre)),
                     MatchAll(p.suffix, SubSeq(v.items, pre + 1, pre + suf)))
        middle == IF p.rest = Unnamed THEN <<>>
                  ELSE << <<p.rest, List(SubSeq(v.items, pre + 1, n - suf))>> >>
    IN  CASE v.k # "list" -> NoMatch
          [] p.rest = NoRest -> IF n # pre THEN NoMatch ELSE MatchAll(p.prefix, v.items)
          [] n < pre + suf -> NoMatch
          [] OTHER -> Then(ends, Matched(middle))
\* Without a rest the list has as many items as the pattern; with one, the
\* prefix is taken from its beginning and the suffix from its end.
match_list_pattern(p, v) ==
    LET n == Len(v.items)
        pre == Len(p.prefix)
        suf == Len(p.suffix)
        ends == Then(MatchAll(p.prefix, SubSeq(v.items, 1, pre)),
                     MatchAll(p.suffix, SubSeq(v.items, n - suf + 1, n)))
        middle == IF p.rest = Unnamed THEN <<>>
                  ELSE << <<p.rest, List(SubSeq(v.items, pre + 1, n - suf))>> >>
    IN  CASE v.k # "list" -> NoMatch
          [] p.rest = NoRest -> IF n # pre THEN NoMatch ELSE MatchAll(p.prefix, v.items)
          [] n < pre + suf -> NoMatch
          [] OTHER -> Then(ends, Matched(middle))
\* The keys of the pattern are among those of the map.
match_map_pattern(p, v) ==
    IF v.k # "map" THEN NoMatch
    ELSE FoldLeft(LAMBDA acc, f :
            IF acc.k # "matched" THEN acc
            ELSE IF f[1] \notin KeysOf(v) THEN NoMatch
            ELSE Then(acc, match_pattern(f[2], Get(v, f[1]))), Matched(<<>>), p.fields)
\* A pattern with a payload of another size is an error of the program.
match_variant(p, v) ==
    CASE ~IsVariant(v, p.id) -> NoMatch
      [] p.k = "variant" -> Matched(<<>>)
      [] Len(p.subs) # Len(Payload(v)) -> Fails
      [] OTHER -> MatchAll(p.subs, Payload(v))
match_pattern(p, v) ==
    CASE p.k = "wild" -> Matched(<<>>)
      [] p.k = "bind" -> Matched(<< <<p.name, v>> >>)
      [] p.k = "list" -> match_list_pattern(p, v)
      [] p.k = "map" -> match_map_pattern(p, v)
      [] p.k \in {"variant", "variant_of"} -> match_variant(p, v)
      [] OTHER -> IF syn_equals(v, p.value) THEN Matched(<<>>) ELSE NoMatch

\* What a name stands for after a match: the last of its bindings.
Bound(binds, name) ==
    binds[CHOOSE i \in DOMAIN binds :
            binds[i][1] = name /\ \A j \in i + 1..Len(binds) : binds[j][1] # name][2]
\* A name alone on an arm is compared with the variable, it does not bind.
match_pattern_top(p, v, env) ==
    IF p.k = "bind" THEN IF syn_equals(v, env[p.name]) THEN Matched(<<>>) ELSE NoMatch
    ELSE match_pattern(p, v)

\* The arm that is run: the first that matches and whose guard, if any, is
\* true of what it binds; 0 for the otherwise block, -1 where a pattern fails.
\* tried: what each arm's pattern said.
GuardValue(guard, binds, env) ==
    IF \E j \in DOMAIN binds : binds[j][1] = guard THEN Bound(binds, guard) ELSE env[guard]
FirstArm(arms, tried, env) ==
    LET taken(i) == /\ tried[i].k = "matched"
                    /\ arms[i].guard = "" \/ is_truthy(GuardValue(arms[i].guard, tried[i].binds, env))
        ends == {i \in DOMAIN arms : tried[i] = Fails \/ taken(i)}
        first == CHOOSE i \in ends : \A j \in ends : i <= j
    IN  IF ends = {} THEN 0 ELSE IF tried[first] = Fails THEN -1 ELSE first
MatchStatement(arms, v, env) ==
    FirstArm(arms, [i \in DOMAIN arms |-> match_pattern_top(arms[i].pattern, v, env)], env)

-----------------------------------------------------------------------------
\* The arguments of a call: in their places, then by their names; what is
\* given in excess is dropped, what is missing is the default or nothing.
\* params: records [name, default], args: pairs of a name ("" in place) and a
\* value.
Missing == [k |-> "missing"]
PositionalAfterNamed(args) ==
    \E i, j \in DOMAIN args : i < j /\ args[i][1] # "" /\ args[j][1] = ""
Unknown(params, args) ==
    \E i \in DOMAIN args : args[i][1] # "" /\ \A p \in DOMAIN params : params[p].name # args[i][1]
\* Where an argument goes; 0 for one in excess.
Slot(params, args, i) ==
    IF args[i][1] # ""
    THEN CHOOSE p \in DOMAIN params :
            params[p].name = args[i][1] /\ \A q \in 1..p - 1 : params[q].name # args[i][1]
    ELSE IF i <= Len(params) THEN i ELSE 0
Duplicate(params, args) ==
    \E i, j \in DOMAIN args :
        i < j /\ args[j][1] # "" /\ Slot(params, args, i) = Slot(params, args, j)
call_value_named(params, args) ==
    LET given(p) == {i \in DOMAIN args : Slot(params, args, i) = p}
        value(p) == IF given(p) # {} THEN args[CHOOSE i \in given(p) : TRUE][2]
                    ELSE IF params[p].default # Missing THEN params[p].default ELSE Nothing
    IN  IF PositionalAfterNamed(args) \/ Unknown(params, args) \/ Duplicate(params, args)
        THEN Fails
        ELSE [k |-> "called", values |-> [p \in DOMAIN params |-> value(p)]]
=============================================================================
