----------------------------- MODULE Orderings ------------------------------
(***************************************************************************)
(* What Python's sorted, comprehensions and sum are to the components: the  *)
(* members of a set in an order, those of a list that are wanted, and the   *)
(* total of what is given by each.                                          *)
(***************************************************************************)
EXTENDS Integers, Sequences, FiniteSets

\* The members of S, each once, nobody in front of those who are before him.
\* "before" is a set of pairs; two of which neither is before the other come in
\* an order that the rows they were read from decide.
Sorted(S, before) ==
  CHOOSE list \in [1 .. Cardinality(S) -> S] :
    \A i, j \in 1 .. Cardinality(S) :
      i < j => list[i] # list[j] /\ <<list[j], list[i]>> \notin before

\* [x for x in list if x in wanted]
Picked(list, wanted) ==
  LET picked[n \in 0 .. Len(list)] ==
        IF n = 0 THEN <<>>
        ELSE IF list[n] \in wanted THEN Append(picked[n - 1], list[n]) ELSE picked[n - 1] IN
  picked[Len(list)]

\* sum(amount.values()): who gives n is counted as n pairs.
Total(amount) == Cardinality(UNION {{x} \X (1 .. amount[x]) : x \in DOMAIN amount})
=============================================================================
