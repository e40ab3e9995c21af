------------------------------- MODULE Values -------------------------------
(***************************************************************************)
(* Package rows, cell by cell: when a value is the one a case asked for.   *)
(* A value has the type a driver gave it, an atom, and values in it by     *)
(* position or by key: the elements of a list, the entries of a map, the   *)
(* properties of a node, whose atom is its labels.                         *)
(***************************************************************************)
EXTENDS Integers, FiniteSetsExt

CONSTANTS
  MaxInt,     \* math.MaxInt64
  MaxExact,   \* 2^53, up to which a float64 holds every integer
  NaN         \* the float that is no number

ASSUME ValuesAssumption ==
  MaxInt \in Nat /\ MaxExact \in Nat \ {0} /\ MaxInt <= 1024 * MaxExact /\ NaN \notin Int

Value(type, atom, kids) == [type |-> type, atom |-> atom, kids |-> kids]

\* The type Normalize gives to what a driver calls type.
Common(type) ==
  CASE type \in {"int", "int32", "uint", "uint64"} -> "int64"
    [] type = "float32" -> "float64"
    [] type \in {"[]string", "[]int64"} -> "list"
    [] OTHER -> type

\* What does not fit in an int64 wraps around.
Wrapped(n) == IF n > MaxInt THEN n - 2 * (MaxInt + 1) ELSE n

RECURSIVE Normalize(_)
Normalize(v) ==
  Value(Common(v.type),
        IF Common(v.type) = "int64" THEN Wrapped(v.atom) ELSE v.atom,
        [k \in DOMAIN v.kids |-> Normalize(v.kids[k])])

Abs(n) == IF n < 0 THEN -n ELSE n

\* float64(n): the nearest of the integers that are held, which lie twice as far
\* apart for each doubling past MaxExact, and the even one of two as near.
AsFloat(n) ==
  LET step == Min({s \in {2^k : k \in 0..10} : Abs(n) <= MaxExact * s})
      below == n \div step
      over == 2 * (n % step)
  IN  step * (IF over > step \/ (over = step /\ below % 2 = 1) THEN below + 1 ELSE below)

\* Relative to the larger of the two, a tolerance being a share of a thousand.
FloatsEqual(a, b, tolerance) ==
  \/ a = b
  \/ /\ tolerance > 0 /\ NaN \notin {a, b}
     /\ 1000 * Abs(a - b) <= tolerance * Max({Abs(a), Abs(b)})

\* An integer that is asked for has no tolerance; one that stands against a
\* float is compared as the float it is nearest to.
NumbersEqual(want, got, opt) ==
  CASE want.type = "int64" /\ got.type = "int64" -> want.atom = got.atom
    [] want.type = "int64" -> ~opt.strictTypes /\ AsFloat(want.atom) = got.atom
    [] got.type = "float64" -> FloatsEqual(want.atom, got.atom, opt.tolerance)
    [] OTHER -> ~opt.strictTypes /\ FloatsEqual(want.atom, AsFloat(got.atom), opt.tolerance)

\* equal, of normalised values.
Number == {"int64", "float64"}
RECURSIVE Equal(_, _, _)
Equal(want, got, opt) ==
  IF want.type \in Number /\ got.type \in Number THEN NumbersEqual(want, got, opt)
  ELSE /\ want.type = got.type /\ want.atom = got.atom
       /\ DOMAIN want.kids = DOMAIN got.kids
       /\ \A k \in DOMAIN want.kids : Equal(want.kids[k], got.kids[k], opt)

\* The equality of two cells.
Same(want, got, opt) == Equal(Normalize(want), Normalize(got), opt)
=============================================================================
