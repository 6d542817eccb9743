----------------------------- MODULE CounterSum -----------------------------
(***************************************************************************)
(* Store.Totals and addCounters at a small width: the counter hashes of    *)
(* the buckets, as they were read, are added one by one; the fields of a   *)
(* hash come in any order.  A number that does not parse is a negative.    *)
(***************************************************************************)
EXTENDS Integers, FiniteSetsExt

CONSTANTS
  Fields,   \* __participants and the ids of the poll's options
  Foreign,  \* a field that is none of them
  Buckets,
  Values,   \* the numbers that a field may hold
  MaxInt    \* math.MaxInt64

SumAssumption ==
  /\ IsFiniteSet(Fields) /\ IsFiniteSet(Buckets) /\ Foreign \notin Fields
  /\ MaxInt \in Nat /\ \A v \in Values : v \in Int /\ v <= MaxInt

VARIABLES
  read,    \* the hashes: a field a hash does not have is left out
  left,    \* what has not been added yet
  total,
  outcome

vars == <<read, left, total, outcome>>

Hashes == UNION {[F -> Values] : F \in SUBSET (Fields \cup {Foreign})}

SumTypeOK ==
  /\ read \in [Buckets -> Hashes] /\ left \subseteq Buckets \X (Fields \cup {Foreign})
  /\ total \in [Fields -> 0..MaxInt] /\ outcome \in {"adding", "done", "error"}

Init ==
  /\ read \in [Buckets -> Hashes]
  /\ left = UNION {{b} \X (DOMAIN read[b]) : b \in Buckets}
  /\ total = [f \in Fields |-> 0] /\ outcome = "adding"

\* Addition of int64 wraps around.
Wrap(x) == ((x + MaxInt + 1) % (2 * (MaxInt + 1))) - (MaxInt + 1)

\* Mutant: a check that is off by one.
FitsBelow(t, n) == Wrap(MaxInt - t) > n

Fits(t, n) == Wrap(MaxInt - t) >= n

Known(f) == f \in Fields

Fail == outcome' = "error" /\ UNCHANGED <<read, left, total>>

\* A negative number is an error, an unknown field is not.
Add(b, f) ==
  LET n == read[b][f] IN
  /\ outcome = "adding" /\ <<b, f>> \in left
  /\ \/ n >= 0 /\ ~Known(f) /\ UNCHANGED <<read, total, outcome>> /\ left' = left \ {<<b, f>>}
     \/ /\ n >= 0 /\ Known(f) /\ Fits(total[f], n)
        /\ total' = [total EXCEPT ![f] = Wrap(@ + n)]
        /\ left' = left \ {<<b, f>>} /\ UNCHANGED <<read, outcome>>
     \/ n < 0 /\ Fail
     \/ Known(f) /\ ~Fits(total[f], n) /\ Fail

Finish ==
  /\ outcome = "adding" /\ left = {}
  /\ outcome' = "done" /\ UNCHANGED <<read, left, total>>

Next == Finish \/ \E b \in Buckets : \E f \in DOMAIN read[b] : Add(b, f)

Spec == Init /\ [][Next]_vars

-----------------------------------------------------------------------------
Exact(f) == MapThenSumSet(LAMBDA b : IF f \in DOMAIN read[b] THEN read[b][f] ELSE 0, Buckets)

Bad == \E b \in Buckets : \E f \in DOMAIN read[b] : read[b][f] < 0

\* Totals that are handed on are the exact sums of valid counters, never a
\* sum that wrapped, in whatever order the hashes were walked; an error is
\* reported for an invalid counter or a sum that does not fit, and for nothing
\* else: the largest sum that fits is no error.
SumIsExact ==
  /\ outcome = "done" => ~Bad /\ \A f \in Fields : total[f] = Exact(f)
  /\ outcome = "error" => Bad \/ \E f \in Fields : Exact(f) > MaxInt
=============================================================================
