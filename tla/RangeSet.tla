------------------------------ MODULE RangeSet ------------------------------
(***************************************************************************)
(* The set of byte ranges that the download status is made of,             *)
(* audio/src/range_set.rs: a vector of ranges, meant to be sorted, with a  *)
(* gap between any two, so that add_range and subtract_range can stop      *)
(* early.  The specification builds every two range sets that additions    *)
(* and subtractions lead to, as the requested and the downloaded bytes of  *)
(* a file are kept, next to the sets of bytes they should stand for.       *)
(***************************************************************************)
EXTENDS Integers, Sequences, FiniteSets, FiniteSetsExt

CONSTANT Size  \* bound: bytes 0 .. Size - 1 are told apart

ASSUME RangesAssumption == Size \in Nat

VARIABLES ranges,  \* the two vectors
          bytes    \* the bytes they should stand for

rangeVars == <<ranges, bytes>>

Sets == {"requested", "downloaded"}

NewRange(start, length) == [start |-> start, length |-> length]
End(r) == r.start + r.length

\* Ranges within the bytes told apart, the empty ones included.
Inputs == {r \in [start : 0 .. Size, length : 0 .. Size] : End(r) <= Size}

-----------------------------------------------------------------------------
(* Queries. *)

is_empty(rs) == rs = <<>>

\* The sum of the lengths.
len(rs) ==
  LET sum[n \in 0 .. Len(rs)] ==
        IF n = 0 THEN 0 ELSE sum[n - 1] + rs[n].length
  IN sum[Len(rs)]

\* Both queries stop at the first range that starts after the value.
Holds(r, value) == r.start <= value /\ value < End(r)
Reached(rs, value) == {i \in DOMAIN rs : \A j \in 1 .. i : rs[j].start <= value}
Found(rs, value) == {i \in Reached(rs, value) : Holds(rs[i], value)}

contains(rs, value) == Found(rs, value) # {}

contained_length_from_value(rs, value) ==
  IF contains(rs, value) THEN End(rs[Min(Found(rs, value))]) - value ELSE 0

contains_range_set(rs, other) ==
  \A i \in DOMAIN other :
    contained_length_from_value(rs, other[i].start) >= other[i].length

-----------------------------------------------------------------------------
(* Updates.  A loop over the vector passes the ranges before the first at  *)
(* which it returns.                                                       *)

From(rs, i) == SubSeq(rs, i, Len(rs))
FirstOf(rs, I) == IF I = {} THEN Len(rs) + 1 ELSE Min(I)

\* The range over both of two that overlap or touch.
Cover(a, b) ==
  LET start == Min({a.start, b.start})
  IN NewRange(start, Max({End(a), End(b)}) - start)

\* Mutant: only the first range is merged.
MutantMerge(rs, i, r) ==
  SubSeq(rs, 1, i - 1) \o <<Cover(r, rs[i])>> \o From(rs, i + 1)

\* The range grows over those it overlaps or touches, from the i-th on.
Merge(rs, i, r) ==
  LET rest == Len(rs) - i + 1
      grown[n \in 0 .. rest] ==
        IF n = 0 THEN r ELSE Cover(grown[n - 1], rs[i + n - 1])
      merged == Min({n \in 0 .. rest :
                       n = rest \/ End(grown[n]) < rs[i + n].start})
  IN SubSeq(rs, 1, i - 1) \o <<grown[merged]>> \o From(rs, i + merged)

add_range(rs, r) ==
  LET i == FirstOf(rs, {j \in DOMAIN rs : \/ End(r) < rs[j].start
                                          \/ r.start <= End(rs[j])})
  IN IF r.length = 0 THEN rs
     ELSE IF i <= Len(rs) /\ rs[i].start <= End(r) THEN Merge(rs, i, r)
     ELSE SubSeq(rs, 1, i - 1) \o <<r>> \o From(rs, i)

\* What is left of h before r, and behind it.
Left(h, r) == NewRange(h.start, r.start - h.start)
Right(h, r) == NewRange(End(r), End(h) - End(r))

\* The range is taken off those that start within it, from the i-th on.
Cut(rs, i, r) ==
  LET k == FirstOf(rs, {j \in i .. Len(rs) : End(r) < End(rs[j])})
  IN IF k <= Len(rs) /\ rs[k].start < End(r)
     THEN <<Right(rs[k], r)>> \o From(rs, k + 1) ELSE From(rs, k)

subtract_range(rs, r) ==
  LET i == FirstOf(rs, {j \in DOMAIN rs : \/ End(r) <= rs[j].start
                                          \/ r.start <= rs[j].start
                                          \/ End(r) < End(rs[j])})
      passed == [j \in 1 .. (i - 1) |->
                   IF r.start < End(rs[j]) THEN Left(rs[j], r) ELSE rs[j]]
      rest == IF i > Len(rs) THEN <<>>
              ELSE IF End(r) <= rs[i].start THEN From(rs, i)
              ELSE IF r.start <= rs[i].start THEN Cut(rs, i, r)
              ELSE <<Left(rs[i], r), Right(rs[i], r)>> \o From(rs, i + 1)
  IN IF r.length = 0 THEN rs ELSE passed \o rest

add_range_set(rs, other) ==
  LET added[n \in 0 .. Len(other)] ==
        IF n = 0 THEN rs ELSE add_range(added[n - 1], other[n])
  IN added[Len(other)]
union(rs, other) == add_range_set(rs, other)

subtract_range_set(rs, other) ==
  LET left[n \in 0 .. Len(other)] ==
        IF n = 0 THEN rs ELSE subtract_range(left[n - 1], other[n])
  IN left[Len(other)]
minus(rs, other) == subtract_range_set(rs, other)

\* One round of the loop of intersection: what both ranges share, then past
\* the one that ends first; f.i and f.j are its indices.
Shared(a, b) ==
  LET start == Max({a.start, b.start})
  IN NewRange(start, Min({End(a), End(b)}) - start)

IntersectStep(rs, other, f) ==
  LET a == rs[f.i]
      b == other[f.j]
      next == add_range(f.result, Shared(a, b))
  IN IF f.i > Len(rs) \/ f.j > Len(other) THEN f
     ELSE IF End(a) <= b.start THEN [f EXCEPT !.i = @ + 1]
     ELSE IF End(b) <= a.start THEN [f EXCEPT !.j = @ + 1]
     ELSE IF End(a) <= End(b) THEN [f EXCEPT !.i = @ + 1, !.result = next]
     ELSE [f EXCEPT !.j = @ + 1, !.result = next]

intersection(rs, other) ==
  LET rounds == Len(rs) + Len(other)
      after[n \in 0 .. rounds] ==
        IF n = 0 THEN [result |-> <<>>, i |-> 1, j |-> 1]
        ELSE IntersectStep(rs, other, after[n - 1])
  IN after[rounds].result

-----------------------------------------------------------------------------
(* Every two range sets there are. *)

BytesOf(r) == r.start .. (End(r) - 1)

RangesInit ==
  ranges = [k \in Sets |-> <<>>] /\ bytes = [k \in Sets |-> {}]

Add(k, r) ==
  /\ ranges' = [ranges EXCEPT ![k] = add_range(@, r)]
  /\ bytes' = [bytes EXCEPT ![k] = @ \cup BytesOf(r)]

Subtract(k, r) ==
  /\ ranges' = [ranges EXCEPT ![k] = subtract_range(@, r)]
  /\ bytes' = [bytes EXCEPT ![k] = @ \ BytesOf(r)]

RangesNext == \E k \in Sets, r \in Inputs : Add(k, r) \/ Subtract(k, r)

RangesSpec == RangesInit /\ [][RangesNext]_rangeVars

-----------------------------------------------------------------------------
(* Properties. *)

\* Ranges are sorted, none is empty, and no two overlap or touch: the form that
\* every early return of add_range and subtract_range relies on.
IsNormal(rs) ==
  /\ \A i \in DOMAIN rs : rs[i].length > 0
  /\ \A i, j \in DOMAIN rs : i < j => End(rs[i]) < rs[j].start

\* A normal vector that stands for the bytes.
Denotes(rs, set) ==
  IsNormal(rs) /\ UNION {BytesOf(rs[i]) : i \in DOMAIN rs} = set

\* The queries answer as the set does; contained_length_from_value, which
\* decides when a blocked reader may go on, is the way to the next gap.
QueriesAgree(rs, set) ==
  /\ len(rs) = Cardinality(set)
  /\ \A v \in 0 .. Size :
       LET n == contained_length_from_value(rs, v)
       IN /\ contains(rs, v) <=> v \in set
          /\ v .. (v + n - 1) \subseteq set /\ v + n \notin set

\* Operations between two range sets are those on sets of bytes.
OperationsAgree(rs, set, other, others) ==
  /\ Denotes(union(rs, other), set \cup others)
  /\ Denotes(minus(rs, other), set \ others)
  /\ Denotes(intersection(rs, other), set \cap others)
  /\ contains_range_set(rs, other) <=> others \subseteq set

\* After any sequence of additions and subtractions the vectors are normal, and
\* every query and every operation of them is that of the sets of bytes they
\* stand for: no early return of range_set.rs gives a wrong answer.
RangesAreSets ==
  \A k \in Sets :
    /\ Denotes(ranges[k], bytes[k])
    /\ QueriesAgree(ranges[k], bytes[k])
    /\ \A l \in Sets \ {k} :
         OperationsAgree(ranges[k], bytes[k], ranges[l], bytes[l])
=============================================================================
