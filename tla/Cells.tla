-------------------------------- MODULE Cells --------------------------------
(***************************************************************************)
(* Values of SQL as the modules of the functions write them: Null, or a    *)
(* pair of a kind and a payload.  An error that Go returns and a panic     *)
(* that it raises are results of their own.                                *)
(***************************************************************************)
EXTENDS Integers, Sequences, FiniteSets, SequencesExt

Null == <<>>
Result(kind, x) == <<kind, x>>
IntV(n) == Result("int", n)
BoolV(b) == Result("bool", b)
StringV(s) == Result("string", s)
ArrayV(s) == Result("array", s)
Error == Result("error", 0)
Panic == Result("panic", 0)

Kind(v) == IF v = Null THEN "null" ELSE v[1]
Num(v) == v[2]
IsAnswer(v) == Kind(v) \notin {"error", "panic"}

\* existsNull: most functions answer NULL when an argument is NULL.
ExistsNull(args) == Null \in Range(args)

Abs(n) == IF n < 0 THEN -n ELSE n

\* Go divides integers towards zero.
Quotient(a, b) == IF (a < 0) = (b < 0) THEN Abs(a) \div Abs(b) ELSE -(Abs(a) \div Abs(b))
Remainder(a, b) == a - b * Quotient(a, b)

=============================================================================
