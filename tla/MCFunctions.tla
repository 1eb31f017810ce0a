----------------------------- MODULE MCFunctions -----------------------------
(***************************************************************************)
(* How every scalar function fails under SAFE, and all the functions       *)
(* together: a behaviour is one aggregate or window function over its      *)
(* rows, or one expression.                                                *)
(***************************************************************************)
EXTENDS MCCalendar

(***************************************************************************)
(* SAFE                                                                    *)
(***************************************************************************)
Both(f, args) == About("safe", <<Safely(f, args), Plainly(f, args)>>)
FewInts == {IntV(n) : n \in {-2, 0, 1, 3}}
OneText == Text(<<A, EAcute>>)
OneDay == DateAt(Day(2024, 1, 31))
\* A NULL in every place of every function, but those that look at no number of arguments and at
\* no NULL, and CAST, which takes types.
Trusting == {f \in DOMAIN Binder : Binder[f] = [arity |-> Unchecked, nulls |-> "own"]}
WithNull ==
  UNION {UNION {{<<f, args>> : args \in {a \in [1..n -> {Null, OneText}] : Null \in Range(a)}} :
                  n \in Binder[f].arity \intersect (1..4)} : f \in DOMAIN Binder \ (Trusting \union {"cast"})}

SafeExprs ==
  {Both(f, <<v, w>>) : f \in {"add", "subtract", "multiply", "mod", "div"}, v, w \in FewInts}
  \union {Both("divide", <<FloatV(q), FloatV(r)>>) : q, r \in {-6, 0, 4}}
  \union {Both(f, <<ArrayV(<<OneText>>), n>>) : f \in {"array_at_offset", "array_at_ordinal"}, n \in FewInts}
  \union {Both(f, <<OneText, n>>) : f \in {"left", "right", "lpad", "rpad", "repeat", "substr"}, n \in FewInts}
  \union {Both("instr", <<OneText, Text(<<A>>), n, m>>) : n, m \in FewInts}
  \union {Both(f, <<OneDay, n, PartV(p)>>) : f \in {"date_add", "date_sub"}, n \in FewInts, p \in {"DAY", "MONTH", "QUARTER", "HOUR"}}
  \union {Both(f, <<OneDay, PartV(p)>>) : f \in {"date_trunc", "last_day"}, p \in {"WEEK", "QUARTER", "HOUR"}}
  \union {Both("from_hex", <<Text(s)>>) : s \in SeqsUpTo({49, A, 103}, 2)}
  \union {Both("translate", <<OneText, Text(s), OneText>>) : s \in SeqsUpTo({A, B}, 2)}
  \union {Both(f, <<ArrayV(s)>>) : f \in {"array_first", "array_last"}, s \in SeqsUpTo({OneText}, 1)}
  \union {Both("error", <<OneText>>), Both("left", <<OneText>>)}
  \union {Both("cast", <<Text(s), TypeV(Type("string")), TypeV(Type(k)), BoolV(FALSE)>>) :
             s \in {<<>>, <<49>>, <<A>>}, k \in {"int", "float", "date", "bool"}}
  \union {Both(fa[1], fa[2]) : fa \in WithNull}

\* SAFE.f is f, but NULL where f is an error (function_register.go:13-280, 546-587): whatever the
\* function and its arguments, also NULLs in any place, no error comes through it and no value is
\* lost by it.  The arithmetic operators have a form of their own, which answers a FLOAT64.  What
\* panics does so when safe: a negative length of REPEAT or LPAD, and a NULL that some ask for its value.
SafeNeverFails ==
  Is("safe") =>
    LET c == expr.calls[1]
    IN  IF answers[1] = Panic THEN ExistsNull(c.args) \/ (c.f \in {"repeat", "lpad"} /\ Num(c.args[2]) < 0)
        ELSE /\ IsAnswer(answers[1])
             /\ IF answers[2] = Error THEN answers[1] = Null
                ELSE answers[1] = answers[2] \/ (c.f \in DOMAIN SafeFunc /\ answers[1] = FloatV(4 * Num(answers[2])))

(***************************************************************************)
(* The instance                                                            *)
(***************************************************************************)
MCExprs ==
  <<LogicExprs, OrderExprs, CastExprs, ElementExprs, ArithmeticExprs, ArrayExprs, PieceExprs, SearchExprs,
    CharacterExprs, PeriodExprs, AddExprs, TimeExprs, IntervalExprs, SafeExprs>>

NoExpr == [topic |-> "none", calls |-> <<>>]
NoRows ==
  /\ call = [builder |-> "single", frame |-> WholePartition, opt |-> Plain]
  /\ rows = <<>>
  /\ agg = NewStatus(Plain)
  /\ entered = 0
  /\ left = 0
  /\ at = 1

MCInit == (Init /\ expr = NoExpr /\ answers = <<>>) \/ (NoRows /\ ScalarInit)
MCNext == (expr = NoExpr /\ Next /\ UNCHANGED svars) \/ (Evaluate /\ UNCHANGED vars)

=============================================================================
