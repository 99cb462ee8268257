--------------------------- MODULE FilterEstimate ---------------------------
(***************************************************************************)
(* The share of a table a scan's filters keep.  parseSnippet flattens the  *)
(* filter entries of a snippet into one list of strings, filterInfo, and   *)
(* getFilteredRow walks that list with an index computed from its loop     *)
(* counter: a comparison takes five strings, a connector or a NOT one, the *)
(* list after a substring three.  Each comparison it understands adds its  *)
(* estimate from the histogram of the column to filterRatio, each AND or   *)
(* OR a 1 or a 0, and a last loop combines them by position.               *)
(*                                                                         *)
(* A column has the values 1..Domain.  Ratios are fractions.  A string of  *)
(* filterInfo is a token, which knows the entry it comes from and its part *)
(* of it.                                                                  *)
(***************************************************************************)
EXTENDS Integers, SequencesExt, Functions

CONSTANTS
  Filters,        \* sequence of filters, each a sequence of entries
  Domain,
  Identifiers,    \* columns without buckets
  Weights,        \* bucket counts, as sequences of length Domain
  Understated,    \* columns whose histogram counts more rows than the table has
  CompareRatio,   \* 0.6323, for one column against another
  NoMatchRatio    \* 0.05425, for a pattern that matches no bucket

Values == 1..Domain

IsFraction(r) == r.num \in Nat /\ r.den \in Nat \ {0}

IsShare(r) == IsFraction(r) /\ r.num <= r.den

\* The rows counted in the buckets of a set of values.
RowsIn(buckets, S) == UNION {{v} \X (1..buckets[v]) : v \in Values \cap S}

ASSUME DomainAssumption == Domain \in Nat \ {0, 1}

ASSUME ConstantsAssumption == IsShare(CompareRatio) /\ IsShare(NoMatchRatio)

\* Half of a histogram is still something.
ASSUME WeightsAssumption ==
  \A w \in Weights : w \in [Values -> Nat] /\ Cardinality(RowsIn(w, Values)) > 1

VARIABLES
  filter,       \* which filter
  hist,         \* the histogram of each of its columns
  tokens,       \* filterInfo
  parsed,       \* entries parsed
  i,            \* the walk's loop counter
  notCount,
  currentNot,
  substring,    \* subStringNum of a substring whose list comes next, or 0
  tableList,
  ratios,       \* filterRatio, each with what it was added for
  j,            \* the last loop's counter
  mode,         \* the last connector
  result

parse == <<tokens, parsed>>
walk == <<i, notCount, currentNot, substring, tableList, ratios>>
combine == <<j, mode, result>>
vars == <<filter, hist, parse, walk, combine>>

entries == Filters[filter]

Column(n) == entries[n].column
Predicates == {n \in DOMAIN entries : entries[n].kind = "predicate"}

\* The columns a filter compares, with values or with each other.
ColumnsOf(f) ==
  LET comparisons == {e \in ToSet(Filters[f]) : e.kind = "predicate"}
  IN  {e.column : e \in comparisons} \cup {e.values[1] : e \in {e \in comparisons : e.type = "column"}}

-----------------------------------------------------------------------------
Frac(n, d) == [num |-> n, den |-> d]

TimesRatio(r, s) == Frac(r.num * s.num, r.den * s.den)

PlusRatio(r, s) ==
  IF r.den = s.den THEN Frac(r.num + s.num, r.den)
                   ELSE Frac(r.num * s.den + s.num * r.den, r.den * s.den)

\* Mutant: the difference the other way round.
MinusOne(r) == Frac(r.num - r.den, r.den)

OneMinus(r) == Frac(r.den - r.num, r.den)

(***************************************************************************)
(* A column that identifies its row has no buckets.  Of the others the     *)
(* count is the constant for the table, which for customer is a tenth of   *)
(* what its histograms add up to (here a half).                            *)
(***************************************************************************)
Histogram(column, w) ==
  IF column \in Identifiers
  THEN [identifier |-> TRUE, buckets |-> [v \in Values |-> 0], count |-> Domain]
  ELSE [identifier |-> FALSE, buckets |-> w,
        count |-> Cardinality(RowsIn(w, Values)) \div (IF column \in Understated THEN 2 ELSE 1)]

HistogramOf(column) == hist[column]

InBuckets(h, S) == Frac(Cardinality(RowsIn(h.buckets, S)), h.count)

\* The values from v up, for a column without buckets.
FromValueUp(v) == Frac(Domain - v + 1, Domain - 1)

Passing(op, v) ==
  CASE op = "GE" -> {x \in Values : x >= v}
    [] op = "GT" -> {x \in Values : x > v}
    [] op = "LE" -> {x \in Values : x <= v}
    [] op = "LT" -> {x \in Values : x < v}

\* Either direction: without buckets both estimate the values from v up.
Bounded(h, op, v) == IF h.identifier THEN FromValueUp(v) ELSE InBuckets(h, Passing(op, v))

\* Strings are not ordered; of two columns the sum is computed and overwritten.
Ordering(h, op, type, values) ==
  CASE type = "string" -> <<>>
    [] type = "column" -> <<CompareRatio>>
    [] type \notin {"string", "column"} -> <<Bounded(h, op, values[1])>>

\* In a filter with NOT, the sum over all pairs of buckets stays.
OrderingInNot(h, op, type, values) ==
  LET other == HistogramOf(values[1]).buckets
      pairs == [x \in Values |-> h.buckets[x] * SumFunctionOnSet(other, {y \in Values : x \in Passing(op, y)})]
  IN  IF type = "column" THEN <<Frac(SumFunction(pairs), h.count * h.count)>>
                         ELSE Ordering(h, op, type, values)

Equal(h, type, values) ==
  IF ~h.identifier THEN InBuckets(h, {values[1]})
  ELSE IF type = "string" THEN Frac(1, h.count) ELSE FromValueUp(values[1])

\* The values are those the pattern matches.
Like(h, values, negating) ==
  LET kept == InBuckets(h, ToSet(values))
  IN  IF kept.num = 0 /\ ~negating THEN NoMatchRatio ELSE kept

Between(h, values) ==
  IF h.identifier THEN Frac(values[2] - values[1], Domain - 1)
                  ELSE InBuckets(h, values[1]..values[2])

\* Without buckets, an integer division.
InList(h, values) ==
  IF h.identifier THEN Frac(Len(values) \div h.count, 1) ELSE InBuckets(h, ToSet(values))

\* Mutant: everything passes.
Everything == <<Frac(1, 1)>>

\* The CSD does not do this comparison.
Unequal == <<>>

\* What a comparison adds to filterRatio.
Added(h, op, type, values, negating) ==
  CASE op \in {"GE", "GT", "LE", "LT"} ->
         IF negating THEN OrderingInNot(h, op, type, values) ELSE Ordering(h, op, type, values)
    [] op = "EQ" -> <<Equal(h, type, values)>>
    [] op = "NE" -> Unequal
    [] op = "LIKE" -> <<Like(h, values, negating)>>
    [] op = "BETWEEN" -> <<Between(h, values)>>
    [] op = "IN" -> <<InList(h, values)>>
    [] op \in {"SUBSTRING", "none"} -> <<>>

-----------------------------------------------------------------------------
Token(n, part, value) == [entry |-> n, part |-> part, value |-> value]

(***************************************************************************)
(* The tokens of an entry.  Of the list after a substring the parser keeps *)
(* only how long it is, and of a substring how many characters it takes.   *)
(***************************************************************************)
EntryTokens(n) ==
  LET e == entries[n]
  IN  CASE e.kind = "predicate" ->
             <<Token(n, "lvType", <<>>), Token(n, "column", e.column), Token(n, "op", e.op),
               Token(n, "rvType", e.type), Token(n, "value", e.values)>>
        [] e.kind = "list" ->
             <<Token(n, "op", e.op), Token(n, "rvType", e.type), Token(n, "length", Len(e.values))>>
        [] e.kind = "connector" -> <<Token(n, "op", e.op)>>

NoToken == Token(0, "none", <<>>)

\* The string at an index of filterInfo, which counts from 0.
At(k) == IF k + 1 \in DOMAIN tokens THEN tokens[k + 1] ELSE NoToken

Has(k, part) == At(k).part = part

Operator(k) == IF Has(k, "op") THEN At(k).value ELSE "none"

ContainsNot == \E k \in DOMAIN tokens : Operator(k - 1) = "NOT"

FilterCount == Len(entries)

ParseEntry ==
  /\ parsed < FilterCount
  /\ parsed' = parsed + 1
  /\ tokens' = tokens \o EntryTokens(parsed + 1)
  /\ UNCHANGED <<filter, hist, walk, combine>>

-----------------------------------------------------------------------------
(***************************************************************************)
(* The walk.  In a filter without NOT notCount stays 0, and the two copies *)
(* of the loop compute the same indices.                                   *)
(***************************************************************************)
Walking == parsed = FilterCount /\ i < FilterCount

itemp == i - notCount

NotIndex == ((itemp + 1) \div 2) * 6 + notCount

\* Mutant: the NOTs before it are not counted.
PredicateIndexPlain == (itemp \div 2) * 6

PredicateIndex == (itemp \div 2) * 6 + notCount

ConnectorIndex == ((itemp + 1) \div 2) * 6 - 1 + notCount

AtNot == ContainsNot /\ Operator(NotIndex) = "NOT"

Step == i' = i + 1 /\ UNCHANGED <<filter, hist, parse, combine>>

ReadNot ==
  /\ Walking /\ AtNot
  /\ Step
  /\ currentNot' = TRUE
  /\ notCount' = notCount + 1
  /\ UNCHANGED <<substring, tableList, ratios>>

Kept(ratio, what, n) == [num |-> ratio.num, den |-> ratio.den, what |-> what, entry |-> n]

(***************************************************************************)
(* The list after a substring: the last string of filterInfo, split at its *)
(* separators.  (No filter of the plans has a substring and a NOT, where   *)
(* another string is read.)                                                *)
(***************************************************************************)
Parts(token) == IF token.part = "value" THEN Len(token.value) ELSE 1

ReadSubstringList ==
  /\ Walking /\ ~AtNot /\ substring > 0
  /\ Step
  /\ ratios' = Append(ratios, Kept(Frac(Parts(tokens[Len(tokens)]), 10 ^ substring), "substring",
                                   tokens[Len(tokens)].entry))
  /\ substring' = 0
  /\ UNCHANGED <<notCount, currentNot, tableList>>

\* The last of the earlier comparisons of the same column.
Duplicates(column) == {k \in DOMAIN tableList : tableList[k] = column}

\* Mutant: what both keep is taken to be all either keeps.
SharedByAddition(prev, cur) == PlusRatio(prev, cur)

\* What is left when both comparisons of a column are applied.
Shared(prev, cur) == PlusRatio(PlusRatio(prev, cur), Frac(-1, 1))

\* Mutant: the earlier estimate stays.
MergedTwice(rs, at, new) == Append(rs, [new EXCEPT !.num = Shared(rs[at], new).num, !.den = Shared(rs[at], new).den])

\* The earlier estimate becomes 1.
Merged(rs, at, new) ==
  LET both == Shared(rs[at], new)
  IN  Append([rs EXCEPT ![at].num = 1, ![at].den = 1], [new EXCEPT !.num = both.num, !.den = both.den])

NotFlipped == {"NE", "IN", "SUBSTRING", "none"}

ReadPredicate ==
  LET k == PredicateIndex
      column == At(k + 1).value
      op == Operator(k + 2)
      values == At(k + 4).value
      flips == currentNot /\ op \notin NotFlipped
      added == IF Has(k + 1, "column") THEN Added(HistogramOf(column), op, At(k + 3).value, values, ContainsNot)
                                       ELSE <<>>
      new == Kept(IF flips THEN OneMinus(added[1]) ELSE added[1], "estimate", At(k + 2).entry)
      earlier == Duplicates(column)
  IN  /\ Walking /\ ~AtNot /\ substring = 0 /\ itemp % 2 = 0
      /\ Step
      /\ tableList' = Append(tableList, column)
      /\ substring' = IF op = "SUBSTRING" THEN values[1] ELSE 0
      /\ currentNot' = (currentNot /\ (~flips \/ added = <<>>))
      /\ ratios' = IF added = <<>> THEN ratios
                   ELSE IF op \in {"GE", "GT", "LE", "LT"} /\ earlier # {}
                        THEN Merged(ratios, 2 * Max(earlier) - 1, new)
                        ELSE Append(ratios, new)
      /\ UNCHANGED notCount

\* Anything else than AND or OR there adds nothing.
ReadConnector ==
  LET op == Operator(ConnectorIndex)
      n == At(ConnectorIndex).entry
  IN  /\ Walking /\ ~AtNot /\ substring = 0 /\ itemp % 2 = 1
      /\ Step
      /\ ratios' = CASE op = "AND" -> Append(ratios, Kept(Frac(1, 1), "connector", n))
                     [] op = "OR" -> Append(ratios, Kept(Frac(0, 1), "connector", n))
                     [] op \notin {"AND", "OR"} -> ratios
      /\ UNCHANGED <<notCount, currentNot, substring, tableList>>

-----------------------------------------------------------------------------
\* The last loop goes by position: the even ones from 0 on are estimates.
CombineOne ==
  LET r == ratios[j + 1]
  IN  /\ parsed = FilterCount /\ i = FilterCount /\ j < Len(ratios)
      /\ j' = j + 1
      /\ IF j % 2 = 1
         THEN /\ mode' = IF r.num = 0 THEN "or" ELSE IF r.num = r.den THEN "and" ELSE mode
              /\ UNCHANGED result
         ELSE /\ result' = IF j > 0 /\ mode = "or" THEN PlusRatio(result, r)
                           ELSE IF j = 0 \/ mode = "and" THEN TimesRatio(result, r)
                           ELSE result
              /\ UNCHANGED mode
      /\ UNCHANGED <<filter, hist, parse, walk>>

Finished == parsed = FilterCount /\ i = FilterCount /\ j = Len(ratios)

Done == Finished /\ UNCHANGED vars

Init ==
  /\ filter \in DOMAIN Filters
  /\ \E w \in [ColumnsOf(filter) -> Weights] : hist = [c \in ColumnsOf(filter) |-> Histogram(c, w[c])]
  /\ tokens = <<>> /\ parsed = 0
  /\ i = 0 /\ notCount = 0 /\ currentNot = FALSE /\ substring = 0
  /\ tableList = <<>> /\ ratios = <<>>
  /\ j = 0 /\ mode = "none" /\ result = Frac(1, 1)

Next ==
  \/ ParseEntry
  \/ ReadNot \/ ReadSubstringList \/ ReadPredicate \/ ReadConnector
  \/ CombineOne
  \/ Done

Spec == Init /\ [][Next]_vars

-----------------------------------------------------------------------------
TypeOK ==
  /\ filter \in DOMAIN Filters
  /\ parsed \in 0..FilterCount /\ i \in 0..FilterCount /\ j \in 0..Len(ratios)
  /\ notCount \in 0..i /\ currentNot \in BOOLEAN /\ substring \in Nat
  /\ Len(tableList) <= Cardinality(Predicates)
  /\ \A k \in DOMAIN ratios : IsFraction(ratios[k])
  /\ mode \in {"none", "and", "or"}
  /\ IsFraction(result)

(***************************************************************************)
(* The index computed from the loop counter meets the comparisons in turn: *)
(* each is read once, all its strings come from its own entry, and it is   *)
(* negated if and only if the entry before it is NOT.                      *)
(***************************************************************************)
ReadsInTurn ==
  Walking /\ ~AtNot /\ substring = 0 /\ itemp % 2 = 0 =>
    \E n \in Predicates :
      /\ Cardinality(Predicates \cap 1..n) = Len(tableList) + 1
      /\ \A p \in 1..4 : At(PredicateIndex + p) = EntryTokens(n)[p + 1]
      /\ currentNot <=> n > 1 /\ entries[n - 1].op = "NOT"

(***************************************************************************)
(* What the last loop takes for a connector is one, and joins the entries  *)
(* on its two sides, although some comparisons add nothing to filterRatio  *)
(* and the connector before a NOT is lost.                                 *)
(***************************************************************************)
CombinesByPosition ==
  i = FilterCount /\ parsed = FilterCount =>
    /\ Len(ratios) % 2 = 1
    /\ \A k \in DOMAIN ratios : k % 2 = 0 <=> ratios[k].what = "connector"
    /\ \A k \in 2..Len(ratios) : ratios[k - 1].entry < ratios[k].entry

OnUnderstated == ColumnsOf(filter) \cap Understated # {}

\* No filter keeps more rows than its table has, but one on a customer column.
KeepsAShare == Finished /\ ~OnUnderstated => result.num <= result.den

(***************************************************************************)
(* The exact share, if columns are independent: of all the combinations of *)
(* values of the filter's columns those that satisfy the filter.           *)
(***************************************************************************)
Satisfies(n, v) ==
  LET e == entries[n]
      x == v[e.column]
  IN  CASE e.op = "GE" -> x >= e.values[1]
        [] e.op = "GT" -> x > e.values[1]
        [] e.op = "LE" -> x <= e.values[1]
        [] e.op = "LT" -> x < e.values[1]
        [] e.op = "EQ" -> x = e.values[1]
        [] e.op = "BETWEEN" -> e.values[1] <= x /\ x <= e.values[2]
        [] e.op \in {"IN", "LIKE"} -> x \in ToSet(e.values)
        [] e.op = "NE" -> TRUE

Entitled(n, v) == Satisfies(n, v) # (n > 1 /\ entries[n - 1].op = "NOT")

Admits(v) ==
  IF \E n \in DOMAIN entries : entries[n].op = "OR" THEN \E n \in Predicates : Entitled(n, v)
                                                    ELSE \A n \in Predicates : Entitled(n, v)

\* A column without buckets has each value once.
RowsWith(c, x) == IF hist[c].identifier THEN 1 ELSE hist[c].buckets[x]

RowsOf(v) == FoldFunction(LAMBDA m, n : m * n, 1, [c \in DOMAIN v |-> RowsWith(c, v[c])])

ExactShare ==
  LET all == [ColumnsOf(filter) -> Values]
      rows == [v \in all |-> RowsOf(v)]
  IN  Frac(SumFunctionOnSet(rows, {v \in all : Admits(v)}), SumFunctionOnSet(rows, all))

\* Comparisons estimated by a constant, or by the length of a list.
ByConstant(n) ==
  \/ entries[n].type = "column"
  \/ entries[n].op = "SUBSTRING"
  \/ entries[n].op = "LIKE" /\ ~ContainsNot /\ Like(hist[Column(n)], entries[n].values, FALSE) = NoMatchRatio

(***************************************************************************)
(* Where no constant stands in for a comparison, the estimate is the exact *)
(* share: taking two ranges of one column apart, making up for it with a   *)
(* sum, and multiplying the rest in the order of the walk loses nothing.   *)
(***************************************************************************)
EstimateIsExact ==
  Finished /\ ~OnUnderstated /\ (\A n \in Predicates : ~ByConstant(n)) =>
    result.num * ExactShare.den = ExactShare.num * result.den

(***************************************************************************)
(* The filters the walk is made for, which nothing in the code checks:     *)
(* comparisons joined by AND and OR, some after a NOT that turns them      *)
(* round, or with a substring and its list at the end.                     *)
(***************************************************************************)
Orderings == {"GE", "GT", "LE", "LT"}

Compares(e) == e.kind = "predicate" /\ e.op \in Orderings \cup {"EQ", "NE", "LIKE", "BETWEEN", "IN"}
TakesPart(e) == e.kind = "predicate" /\ e.op = "SUBSTRING" /\ e.values[1] \in Nat \ {0}
Joins(e) == e.kind = "connector" /\ e.op \in {"AND", "OR"}
Negates(e) == e.kind = "connector" /\ e.op = "NOT"

AddsNothing(e) == e.op = "NE" \/ (e.op \in Orderings /\ e.type = "string")

MayFollow(e, next) ==
  \/ Compares(e) /\ Joins(next)
  \/ Joins(e) /\ (Compares(next) \/ TakesPart(next) \/ Negates(next))
  \/ Negates(e) /\ Compares(next) /\ next.op \notin NotFlipped /\ ~AddsNothing(next)
  \/ TakesPart(e) /\ next.kind = "list"

WellFormed(f) ==
  /\ Len(f) \in Nat \ {0} /\ DOMAIN f = 1..Len(f)
  /\ Compares(f[1]) \/ TakesPart(f[1]) \/ Negates(f[1])
  /\ \A n \in 1..Len(f) - 1 : MayFollow(f[n], f[n + 1])
  /\ Compares(f[Len(f)]) \/ f[Len(f)].kind = "list"
  /\ (\E e \in ToSet(f) : Negates(e)) => ~\E e \in ToSet(f) : TakesPart(e)

(***************************************************************************)
(* Of these the last loop can only combine the ones in which a comparison  *)
(* that adds nothing and a connector that is lost meet: an inequality      *)
(* before AND NOT, and no NOT elsewhere but at the beginning.              *)
(***************************************************************************)
Positioned(f) ==
  \A n \in DOMAIN f :
    Compares(f[n]) => (AddsNothing(f[n]) <=> n + 2 \in DOMAIN f /\ Negates(f[n + 2]))

(***************************************************************************)
(* The filters whose estimates are shares, which nothing in the code       *)
(* checks either.  A value compared with a column without buckets is none  *)
(* of the lowest, and a list for it is short (10 ^ n is here because the   *)
(* provers know nothing of powers).                                        *)
(***************************************************************************)
Estimable(e) ==
  /\ e.op = "SUBSTRING" => 10 ^ e.values[1] \in Nat \ {0}
  /\ e.column \in Identifiers =>
       /\ e.op \in Orderings \cup {"EQ"} => e.type \in {"string", "column"} \/ e.values[1] \in 2..Domain
       /\ e.op = "EQ" => e.type # "column"
       /\ e.op = "BETWEEN" => e.values[1] \in Values /\ e.values[2] \in e.values[1]..Domain
       /\ e.op = "IN" => Len(e.values) \in 0..Domain

PlainOrdering(e) == e.kind = "predicate" /\ e.op \in Orderings /\ e.type \notin {"string", "column"}

PassingOf(e) == Passing(e.op, e.values[1])

ComparisonsBefore(f, n, column) == {m \in 1..n - 1 : f[m].kind = "predicate" /\ f[m].column = column}

\* One comparison before the ordering n is of its column: the other end of a range.
EndsRange(f, n) ==
  /\ PlainOrdering(f[n]) /\ f[n].column \notin Identifiers \cup Understated
  /\ \E m \in 1..n - 1 :
       /\ ComparisonsBefore(f, n, f[n].column) = {m}
       /\ PlainOrdering(f[m]) /\ PassingOf(f[m]) \cup PassingOf(f[n]) = Values

Alternative(e) ==
  \/ Joins(e) /\ e.op = "OR"
  \/ Compares(e) /\ e.op = "EQ" /\ e.type = "string" /\ e.values[1] \in Values

\* Different values of one column.
AreAlternatives(f) ==
  /\ \A n \in DOMAIN f : Alternative(f[n])
  /\ \A m, n \in DOMAIN f :
       Compares(f[m]) /\ Compares(f[n]) => f[m].column = f[n].column /\ (f[m].values[1] = f[n].values[1] => m = n)

HasOp(f, op) == \E n \in DOMAIN f : f[n].op = op

Sound(f) ==
  /\ \A n \in DOMAIN f : f[n].kind = "predicate" => Estimable(f[n])
  /\ \A n \in DOMAIN f :
       /\ f[n].kind = "predicate" /\ f[n].op \in Orderings
       /\ ComparisonsBefore(f, n, f[n].column) # {}
       => EndsRange(f, n) /\ ~HasOp(f, "NOT")
  /\ HasOp(f, "NOT") =>
       \A n \in DOMAIN f : f[n].kind = "predicate" =>
         f[n].column \notin Understated /\ ~(f[n].op \in Orderings /\ f[n].type = "column")
  /\ HasOp(f, "OR") => AreAlternatives(f)

\* The list of query 22 reaches the estimate with all its values.
SubstringCountsItsList ==
  \A k \in DOMAIN ratios :
    ratios[k].what = "substring" => ratios[k].num = Len(entries[ratios[k].entry].values)
=============================================================================
