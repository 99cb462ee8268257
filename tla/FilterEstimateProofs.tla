------------------------ MODULE FilterEstimateProofs ------------------------
(***************************************************************************)
(* Theorems about FilterEstimate, for every filter of the forms WellFormed *)
(* and Positioned, and for the shares also Sound, of any length, and any   *)
(* histograms.                                                             *)
(***************************************************************************)
EXTENDS FilterEstimate, FiniteSetTheorems, SequenceTheorems, TLAPS

-----------------------------------------------------------------------------
(***************************************************************************)
(* Where an entry starts in filterInfo.  Of the n entries before it so     *)
(* many are comparisons, which take five strings; the others take one.     *)
(***************************************************************************)
Comparisons(f, n) == Cardinality({m \in 1..n : f[m].kind = "predicate"})

Start(f, n) == 4 * Comparisons(f, n - 1) + n - 1

\* One entry more is one comparison more or none.
LEMMA CountComparisons ==
  ASSUME NEW f, NEW n \in Nat
  PROVE  /\ Comparisons(f, 0) = 0
         /\ Comparisons(f, n) \in Nat
         /\ Comparisons(f, n + 1) = IF f[n + 1].kind = "predicate" THEN Comparisons(f, n) + 1
                                                                    ELSE Comparisons(f, n)
<1> DEFINE C(k) == {m \in 1..k : f[m].kind = "predicate"}
<1>1. Comparisons(f, 0) = 0
  <2>1. C(0) = {}
    OBVIOUS
  <2> QED BY <2>1, FS_EmptySet DEF Comparisons
<1>2. IsFiniteSet(C(n)) /\ Cardinality(C(n)) \in Nat
  <2>1. IsFiniteSet(1..n) /\ C(n) \in SUBSET (1..n)
    BY FS_Interval
  <2> QED BY <2>1, FS_Subset, FS_CardinalityType
<1>3. n + 1 \notin C(n)
  OBVIOUS
<1>4. CASE f[n + 1].kind = "predicate"
  <2>1. C(n + 1) = C(n) \cup {n + 1}
    BY <1>4
  <2> QED BY <1>1, <1>2, <1>3, <1>4, <2>1, FS_AddElement DEF Comparisons
<1>5. CASE f[n + 1].kind # "predicate"
  <2>1. C(n + 1) = C(n)
    BY <1>5
  <2> QED BY <1>1, <1>2, <1>5, <2>1 DEF Comparisons
<1> QED BY <1>4, <1>5

\* What a well-formed filter has at its places.
LEMMA Shape ==
  ASSUME NEW f, WellFormed(f)
  PROVE  /\ Len(f) \in Nat \ {0} /\ DOMAIN f = 1..Len(f)
         /\ Compares(f[1]) \/ TakesPart(f[1]) \/ Negates(f[1])
         /\ \A n \in 1..Len(f) : n # Len(f) => n + 1 \in 1..Len(f) /\ MayFollow(f[n], f[n + 1])
         /\ Compares(f[Len(f)]) \/ f[Len(f)].kind = "list"
         /\ \A n \in 1..Len(f) : f[n].kind \in {"predicate", "connector", "list"}
         /\ \A n \in 1..Len(f) : Joins(f[n]) \/ Negates(f[n]) \/ TakesPart(f[n]) => n # Len(f)
         /\ \A n \in 1..Len(f) : f[n].kind = "list" => n = Len(f)
<1> DEFINE N == Len(f)
<1>1. N \in Nat \ {0} /\ DOMAIN f = 1..N /\ (Compares(f[N]) \/ f[N].kind = "list")
  BY DEF WellFormed
<1>2. Compares(f[1]) \/ TakesPart(f[1]) \/ Negates(f[1])
  BY DEF WellFormed
<1>3. \A n \in 1..N - 1 : MayFollow(f[n], f[n + 1])
  BY DEF WellFormed
<1> HIDE DEF N
<1>4. \A n \in 1..N : n # N => n + 1 \in 1..N /\ MayFollow(f[n], f[n + 1])
  BY <1>1, <1>3
<1>5. \A e, next : MayFollow(e, next) => e.kind \in {"predicate", "connector"}
  BY DEF MayFollow, Compares, Joins, Negates, TakesPart
<1>6. \A n \in 1..N : f[n].kind \in {"predicate", "connector", "list"}
  BY <1>1, <1>4, <1>5 DEF Compares
<1>7. \A n \in 1..N : f[n].kind = "list" => n = N
  BY <1>4, <1>5
<1>8. \A n \in 1..N : Joins(f[n]) \/ Negates(f[n]) \/ TakesPart(f[n]) => n # N
  BY <1>1 DEF Joins, Negates, TakesPart, Compares, Orderings
<1> QED
  BY <1>1, <1>2, <1>4, <1>6, <1>7, <1>8 DEF N

-----------------------------------------------------------------------------
(***************************************************************************)
(* The list of strings.                                                    *)
(***************************************************************************)
Good == \A k \in DOMAIN Filters : WellFormed(Filters[k])

Strings == UNION {Range(EntryTokens(n)) : n \in 1..FilterCount}

TokensInv ==
  /\ filter \in DOMAIN Filters
  /\ parsed \in 0..FilterCount
  /\ tokens \in Seq(Strings)
  /\ parsed = 0 => Len(tokens) = 0
  /\ parsed > 0 => Len(tokens) = Start(entries, parsed) + Len(EntryTokens(parsed))
  /\ \A n \in 1..parsed : \A p \in 1..Len(EntryTokens(n)) :
       Start(entries, n) + p \in 1..Len(tokens) /\ tokens[Start(entries, n) + p] = EntryTokens(n)[p]

\* The filter chosen is one of the well-formed.
LEMMA EntriesWellFormed ==
  ASSUME Good, filter \in DOMAIN Filters
  PROVE  WellFormed(entries) /\ FilterCount \in Nat \ {0}
BY DEF Good, entries, WellFormed, FilterCount

\* The strings of an entry.
LEMMA StringsOf ==
  ASSUME Good, filter \in DOMAIN Filters, NEW n \in 1..FilterCount
  PROVE  /\ EntryTokens(n) \in Seq(Strings)
         /\ entries[n].kind = "predicate" =>
              /\ Len(EntryTokens(n)) = 5
              /\ EntryTokens(n)[1] = Token(n, "lvType", <<>>)
              /\ EntryTokens(n)[2] = Token(n, "column", entries[n].column)
              /\ EntryTokens(n)[3] = Token(n, "op", entries[n].op)
              /\ EntryTokens(n)[4] = Token(n, "rvType", entries[n].type)
              /\ EntryTokens(n)[5] = Token(n, "value", entries[n].values)
         /\ entries[n].kind = "connector" =>
              /\ Len(EntryTokens(n)) = 1
              /\ EntryTokens(n)[1] = Token(n, "op", entries[n].op)
         /\ entries[n].kind = "list" =>
              /\ Len(EntryTokens(n)) = 3
              /\ EntryTokens(n)[2] = Token(n, "rvType", entries[n].type)
              /\ EntryTokens(n)[3] = Token(n, "length", Len(entries[n].values))
<1>1. entries[n].kind \in {"predicate", "connector", "list"}
  BY EntriesWellFormed, Shape DEF FilterCount
<1>2. CASE entries[n].kind = "predicate"
  <2>1. EntryTokens(n) =
          <<Token(n, "lvType", <<>>), Token(n, "column", entries[n].column), Token(n, "op", entries[n].op),
            Token(n, "rvType", entries[n].type), Token(n, "value", entries[n].values)>>
    BY <1>2 DEF EntryTokens
  <2> DEFINE S == {Token(n, "lvType", <<>>), Token(n, "column", entries[n].column), Token(n, "op", entries[n].op),
                   Token(n, "rvType", entries[n].type), Token(n, "value", entries[n].values)}
  <2>2. EntryTokens(n) \in Seq(S)
    BY <2>1
  <2>3. EntryTokens(n) \in Seq(Range(EntryTokens(n)))
    BY <2>2, SeqOfRange
  <2>4. EntryTokens(n) \in Seq(Strings)
    BY <2>3, SeqMonotonic DEF Strings
  <2> QED BY <1>2, <2>1, <2>4
<1>3. CASE entries[n].kind = "connector"
  <2>1. EntryTokens(n) = <<Token(n, "op", entries[n].op)>>
    BY <1>3 DEF EntryTokens
  <2>2. EntryTokens(n) \in Seq({Token(n, "op", entries[n].op)})
    BY <2>1
  <2>3. EntryTokens(n) \in Seq(Range(EntryTokens(n)))
    BY <2>2, SeqOfRange
  <2>4. EntryTokens(n) \in Seq(Strings)
    BY <2>3, SeqMonotonic DEF Strings
  <2> QED BY <1>3, <2>1, <2>4
<1>4. CASE entries[n].kind = "list"
  <2> DEFINE a == Token(n, "op", entries[n].op)
             b == Token(n, "rvType", entries[n].type)
             c == Token(n, "length", Len(entries[n].values))
  <2>1. EntryTokens(n) = <<a, b, c>>
    BY <1>4 DEF EntryTokens
  <2>2. EntryTokens(n) \in Seq({a, b, c})
    BY <2>1
  <2>3. EntryTokens(n) \in Seq(Range(EntryTokens(n)))
    BY <2>2, SeqOfRange
  <2>4. EntryTokens(n) \in Seq(Strings)
    BY <2>3, SeqMonotonic DEF Strings
  <2> QED BY <1>4, <2>1, <2>4
<1> QED BY <1>1, <1>2, <1>3, <1>4

\* The next entry starts where one ends.
LEMMA NextStart ==
  ASSUME Good, filter \in DOMAIN Filters, NEW n \in 1..FilterCount, n # FilterCount
  PROVE  Start(entries, n + 1) = Start(entries, n) + Len(EntryTokens(n))
<1>1. n - 1 \in Nat /\ n = (n - 1) + 1 /\ FilterCount \in Nat /\ (n + 1) - 1 = n
  BY EntriesWellFormed
<1>2. /\ Comparisons(entries, n - 1) \in Nat
      /\ Comparisons(entries, n) = IF entries[n].kind = "predicate" THEN Comparisons(entries, n - 1) + 1
                                                                     ELSE Comparisons(entries, n - 1)
  <2>1. PICK k \in Nat : k = n - 1 /\ k + 1 = n
    BY <1>1
  <2> QED BY <2>1, CountComparisons
<1>3. entries[n].kind \in {"predicate", "connector"}
  BY EntriesWellFormed, Shape DEF FilterCount
<1>4. Len(EntryTokens(n)) = IF entries[n].kind = "predicate" THEN 5 ELSE 1
  BY <1>3, StringsOf
<1> QED
  BY <1>1, <1>2, <1>3, <1>4 DEF Start

\* At first no entry is parsed.
LEMMA TokensInit == Good /\ Init => TokensInv
<1> SUFFICES ASSUME Good, Init PROVE TokensInv
  OBVIOUS
<1>1. filter \in DOMAIN Filters /\ tokens = <<>> /\ parsed = 0
  BY DEF Init
<1> QED
  BY <1>1, EntriesWellFormed DEF TokensInv

\* An entry's strings come behind those of the entries before it.
LEMMA TokensParse ==
  ASSUME Good, TokensInv, ParseEntry
  PROVE  TokensInv'
<1> DEFINE n == parsed + 1
           new == EntryTokens(n)
<1>1. /\ n \in 1..FilterCount /\ parsed' = n /\ tokens' = tokens \o new /\ filter' = filter
      /\ parsed \in Nat /\ FilterCount \in Nat /\ filter \in DOMAIN Filters
  BY EntriesWellFormed DEF ParseEntry, TokensInv
<1>2. /\ new \in Seq(Strings) /\ tokens \in Seq(Strings)
  BY <1>1, StringsOf DEF TokensInv
<1>3. Len(tokens) = Start(entries, n)
  <2>1. CASE parsed = 0
    <3>1. Start(entries, 1) = 0
      BY CountComparisons DEF Start
    <3> QED BY <2>1, <3>1 DEF TokensInv
  <2>2. CASE parsed > 0
    <3>1. parsed \in 1..FilterCount /\ parsed # FilterCount
      BY <1>1, <2>2
    <3>2. Start(entries, parsed + 1) = Start(entries, parsed) + Len(EntryTokens(parsed))
      BY <1>1, <3>1, NextStart
    <3> QED BY <2>2, <3>2 DEF TokensInv
  <2> QED BY <1>1, <2>1, <2>2
<1>4. UNCHANGED <<entries, FilterCount, Strings>> /\ \A m : EntryTokens(m)' = EntryTokens(m)
  BY <1>1 DEF entries, FilterCount, Strings, EntryTokens
<1> HIDE DEF new, n
<1>5. /\ tokens' \in Seq(Strings)
      /\ Len(tokens') = Len(tokens) + Len(new) /\ Len(tokens) \in Nat /\ Len(new) \in Nat
      /\ \A k \in 1..Len(tokens) + Len(new) : tokens'[k] = IF k <= Len(tokens) THEN tokens[k] ELSE new[k - Len(tokens)]
  BY <1>1, <1>2, ConcatProperties, LenProperties
<1>6. ASSUME NEW m \in 1..n, NEW p \in 1..Len(EntryTokens(m))
      PROVE  /\ Start(entries, m) + p \in 1..Len(tokens')
             /\ tokens'[Start(entries, m) + p] = EntryTokens(m)[p]
  <2>1. CASE m = n
    BY <1>3, <1>5, <1>6, <2>1 DEF new
  <2>2. CASE m # n
    <3>1. m \in 1..parsed
      BY <1>1, <2>2 DEF n
    <3>2. Start(entries, m) + p \in 1..Len(tokens) /\ tokens[Start(entries, m) + p] = EntryTokens(m)[p]
      BY <3>1 DEF TokensInv
    <3> QED BY <1>5, <3>2
  <2> QED BY <2>1, <2>2
<1> QED
  BY <1>1, <1>3, <1>4, <1>5, <1>6 DEF TokensInv, n, new

\* When everything is parsed, a string is found at its place in its entry.
LEMMA StringAt ==
  ASSUME Good, TokensInv, parsed = FilterCount, NEW n \in 1..FilterCount, NEW p \in 1..Len(EntryTokens(n))
  PROVE  /\ At(Start(entries, n) + p - 1) = EntryTokens(n)[p]
         /\ Start(entries, n) \in Nat
         /\ Start(entries, n) + p \in DOMAIN tokens
<1>1. n - 1 \in Nat
  BY EntriesWellFormed DEF TokensInv
<1>2. Comparisons(entries, n - 1) \in Nat
  BY <1>1, CountComparisons
<1>3. Start(entries, n) \in Nat
  BY <1>1, <1>2 DEF Start
<1>4. p \in Nat
  BY StringsOf, LenProperties DEF TokensInv
<1>5. (Start(entries, n) + p - 1) + 1 = Start(entries, n) + p
  BY <1>3, <1>4
<1>6. Start(entries, n) + p \in 1..Len(tokens) /\ tokens[Start(entries, n) + p] = EntryTokens(n)[p]
  BY DEF TokensInv
<1>7. DOMAIN tokens = 1..Len(tokens)
  BY LenProperties DEF TokensInv
<1> QED
  BY <1>3, <1>5, <1>6, <1>7 DEF At

\* A NOT is seen at the start of its own entry, and nowhere near another one.
LEMMA NotAt ==
  ASSUME Good, TokensInv, parsed = FilterCount, NEW n \in 1..FilterCount
  PROVE  /\ Start(entries, n) \in Nat
         /\ entries[n].kind = "connector" => Operator(Start(entries, n)) = entries[n].op
         /\ entries[n].kind = "predicate" => Operator(Start(entries, n)) # "NOT"
         /\ entries[n].kind = "list" => Operator(Start(entries, n) + 1) # "NOT"
         /\ Negates(entries[n]) => ContainsNot
<1>1. entries[n].kind \in {"predicate", "connector", "list"}
  BY EntriesWellFormed, Shape DEF TokensInv, FilterCount
<1>2. Len(EntryTokens(n)) \in {1, 3, 5}
  BY <1>1, StringsOf DEF TokensInv
<1>3. /\ Start(entries, n) \in Nat
      /\ At(Start(entries, n) + 1 - 1) = EntryTokens(n)[1]
      /\ Start(entries, n) + 1 \in DOMAIN tokens
  BY <1>2, StringAt
<1>4. At(Start(entries, n)) = EntryTokens(n)[1]
  BY <1>3
<1>5. ASSUME entries[n].kind = "connector" PROVE Operator(Start(entries, n)) = entries[n].op
  <2>1. EntryTokens(n)[1] = Token(n, "op", entries[n].op)
    BY <1>5, StringsOf DEF TokensInv
  <2> QED BY <1>4, <2>1 DEF Operator, Has, Token
<1>6. ASSUME entries[n].kind = "predicate" PROVE Operator(Start(entries, n)) # "NOT"
  <2>1. EntryTokens(n)[1] = Token(n, "lvType", <<>>)
    BY <1>6, StringsOf DEF TokensInv
  <2> QED BY <1>4, <2>1 DEF Operator, Has, Token
<1>7. ASSUME entries[n].kind = "list" PROVE Operator(Start(entries, n) + 1) # "NOT"
  <2>1. EntryTokens(n)[2] = Token(n, "rvType", entries[n].type) /\ Len(EntryTokens(n)) = 3
    BY <1>7, StringsOf DEF TokensInv
  <2>2. 2 \in 1..Len(EntryTokens(n))
    BY <2>1
  <2>3. At(Start(entries, n) + 2 - 1) = EntryTokens(n)[2]
    BY <2>2, StringAt, Zenon
  <2>4. At(Start(entries, n) + 1) = EntryTokens(n)[2]
    BY <1>3, <2>3
  <2> QED BY <2>1, <2>4 DEF Operator, Has, Token
<1>8. ASSUME Negates(entries[n]) PROVE ContainsNot
  <2>1. Operator(Start(entries, n)) = "NOT"
    BY <1>5, <1>8 DEF Negates
  <2>2. PICK k : k = Start(entries, n) + 1
    OBVIOUS
  <2>3. k - 1 = Start(entries, n) /\ k \in DOMAIN tokens
    BY <1>3, <2>2
  <2> QED BY <2>1, <2>3 DEF ContainsNot
<1> QED
  BY <1>3, <1>5, <1>6, <1>7, <1>8

-----------------------------------------------------------------------------
(***************************************************************************)
(* The walk.  It stands before an operand, after a NOT, before a           *)
(* connector, before a connector whose NOT has been read already, or       *)
(* before the list of a substring.  In each of these the loop counter less *)
(* the NOTs says how many comparisons have been passed.                    *)
(***************************************************************************)
Passed == Comparisons(entries, i)

BeforeOperand == /\ substring = 0 /\ ~currentNot /\ itemp = 2 * Passed
                 /\ i > 0 => Joins(entries[i])
BeforeNegated == /\ substring = 0 /\ currentNot /\ itemp = 2 * Passed
                 /\ i > 0 /\ Negates(entries[i])
BeforeConnector == /\ substring = 0 /\ ~currentNot /\ itemp = 2 * Passed - 1
                   /\ i > 0 /\ Compares(entries[i])
BeforeLost == /\ substring = 0 /\ currentNot /\ itemp = 2 * Passed - 1
              /\ i > 0 /\ Joins(entries[i]) /\ Negates(entries[i + 1])
BeforeList == /\ substring > 0 /\ itemp = 2 * Passed - 1
              /\ i > 0 /\ TakesPart(entries[i])

WalkInv ==
  /\ i \in 0..FilterCount /\ notCount \in 0..i
  /\ currentNot \in BOOLEAN /\ substring \in Nat
  /\ parsed < FilterCount => i = 0
  /\ tableList \in Seq(Range(tableList)) /\ Len(tableList) = Passed
  /\ i < FilterCount => BeforeOperand \/ BeforeNegated \/ BeforeConnector \/ BeforeLost \/ BeforeList

\* The index arithmetic, with c comparisons and m NOTs behind it.
LEMMA EvenIndexes ==
  ASSUME NEW c \in Nat, NEW m \in Nat
  PROVE  /\ ((2 * c) \div 2) * 6 + m = 4 * c + (2 * c + m)
         /\ ((2 * c + 1) \div 2) * 6 + m = 4 * c + (2 * c + m)
         /\ (2 * c) % 2 = 0
<1>1. (2 * c) \div 2 = c
  OBVIOUS
<1>2. (2 * c + 1) \div 2 = c
  OBVIOUS
<1> QED BY <1>1, <1>2

\* The same between a comparison and the connector behind it.
LEMMA OddIndexes ==
  ASSUME NEW c \in Nat, NEW m \in Nat
  PROVE  /\ ((2 * c - 1 + 1) \div 2) * 6 - 1 + m = 4 * c + (2 * c - 1 + m)
         /\ ((2 * c - 1 + 1) \div 2) * 6 + m = 4 * c + (2 * c - 1 + m) + 1
         /\ (2 * c - 1) % 2 = 1
<1>1. (2 * c - 1 + 1) \div 2 = c
  OBVIOUS
<1>2. (2 * c - 1) % 2 = 1
  OBVIOUS
<1> QED BY <1>1, <1>2

\* The index formulas of getFilteredRow in the positions of the walk.
LEMMA WalkIndexes ==
  ASSUME Good, TokensInv, WalkInv, i < FilterCount
  PROVE  /\ i + 1 \in 1..FilterCount /\ i \in Nat /\ FilterCount \in Nat /\ Passed \in Nat
         /\ itemp = 2 * Passed => /\ PredicateIndex = Start(entries, i + 1)
                                  /\ NotIndex = Start(entries, i + 1)
                                  /\ itemp % 2 = 0
         /\ itemp = 2 * Passed - 1 => /\ ConnectorIndex = Start(entries, i + 1)
                                      /\ NotIndex = Start(entries, i + 1) + 1
                                      /\ itemp % 2 = 1
         /\ i + 1 # FilterCount /\ entries[i + 1].kind = "connector" =>
              Start(entries, i + 2) = Start(entries, i + 1) + 1 /\ i + 2 \in 1..FilterCount
<1>1. /\ i \in Nat /\ FilterCount \in Nat /\ i + 1 \in 1..FilterCount /\ Passed \in Nat
      /\ notCount \in Nat /\ i = itemp + notCount /\ (i + 1) - 1 = i
  <2>1. i \in Nat /\ FilterCount \in Nat /\ i + 1 \in 1..FilterCount /\ notCount \in Nat
    BY EntriesWellFormed DEF TokensInv, WalkInv
  <2>2. Passed \in Nat
    BY <2>1, CountComparisons DEF Passed
  <2> QED BY <2>1, <2>2 DEF itemp
<1>2. Start(entries, i + 1) = 4 * Passed + i
  BY <1>1 DEF Start, Passed
<1>3. ASSUME itemp = 2 * Passed
      PROVE  PredicateIndex = Start(entries, i + 1) /\ NotIndex = Start(entries, i + 1) /\ itemp % 2 = 0
  <2>1. /\ (itemp \div 2) * 6 + notCount = 4 * Passed + (itemp + notCount)
        /\ ((itemp + 1) \div 2) * 6 + notCount = 4 * Passed + (itemp + notCount)
        /\ itemp % 2 = 0
    BY <1>1, <1>3, EvenIndexes
  <2> QED BY <1>1, <1>2, <2>1 DEF PredicateIndex, NotIndex
<1>4. ASSUME itemp = 2 * Passed - 1
      PROVE  ConnectorIndex = Start(entries, i + 1) /\ NotIndex = Start(entries, i + 1) + 1 /\ itemp % 2 = 1
  <2>1. /\ ((itemp + 1) \div 2) * 6 - 1 + notCount = 4 * Passed + (itemp + notCount)
        /\ ((itemp + 1) \div 2) * 6 + notCount = 4 * Passed + (itemp + notCount) + 1
        /\ itemp % 2 = 1
    BY <1>1, <1>4, OddIndexes
  <2> QED BY <1>1, <1>2, <2>1 DEF ConnectorIndex, NotIndex
<1>5. ASSUME i + 1 # FilterCount, entries[i + 1].kind = "connector"
      PROVE  Start(entries, i + 2) = Start(entries, i + 1) + 1 /\ i + 2 \in 1..FilterCount
  <2>1. Start(entries, (i + 1) + 1) = Start(entries, i + 1) + Len(EntryTokens(i + 1)) /\ Len(EntryTokens(i + 1)) = 1
    BY <1>1, <1>5, NextStart, StringsOf DEF TokensInv
  <2>2. (i + 1) + 1 = i + 2 /\ i + 2 \in 1..FilterCount
    BY <1>1, <1>5
  <2> QED BY <2>1, <2>2
<1> QED
  BY <1>1, <1>3, <1>4, <1>5

\* What comes next.
LEMMA Ahead ==
  ASSUME Good, TokensInv, WalkInv, i < FilterCount
  PROVE  /\ entries[i + 1].kind \in {"predicate", "connector", "list"}
         /\ BeforeOperand => Compares(entries[i + 1]) \/ TakesPart(entries[i + 1]) \/ Negates(entries[i + 1])
         /\ BeforeNegated => /\ Compares(entries[i + 1]) /\ entries[i + 1].op \notin NotFlipped
                             /\ ~AddsNothing(entries[i + 1])
         /\ BeforeConnector => Joins(entries[i + 1])
         /\ BeforeList => entries[i + 1].kind = "list"
         /\ Joins(entries[i + 1]) \/ Negates(entries[i + 1]) =>
              i + 2 \in 1..FilterCount /\ MayFollow(entries[i + 1], entries[i + 2])
         /\ entries[i + 1].kind = "list" => i + 1 = FilterCount
<1>1. i \in Nat /\ FilterCount \in Nat /\ i + 1 \in 1..FilterCount /\ WellFormed(entries)
  BY EntriesWellFormed DEF TokensInv, WalkInv
<1>2. entries[i + 1].kind \in {"predicate", "connector", "list"}
  BY <1>1, Shape DEF FilterCount
<1>3. i = 0 => Compares(entries[i + 1]) \/ TakesPart(entries[i + 1]) \/ Negates(entries[i + 1])
  BY <1>1, Shape
<1>4. i > 0 => MayFollow(entries[i], entries[i + 1])
  <2>1. i > 0 => i \in 1..FilterCount /\ i # FilterCount
    BY <1>1
  <2> QED BY <1>1, <2>1, Shape DEF FilterCount
<1>5. entries[i + 1].kind = "list" => i + 1 = FilterCount
  BY <1>1, Shape DEF FilterCount
<1>6. ASSUME Joins(entries[i + 1]) \/ Negates(entries[i + 1])
      PROVE  i + 2 \in 1..FilterCount /\ MayFollow(entries[i + 1], entries[i + 2])
  <2>1. i + 1 # FilterCount
    BY <1>1, <1>6, Shape DEF FilterCount
  <2>2. (i + 1) + 1 \in 1..FilterCount /\ MayFollow(entries[i + 1], entries[(i + 1) + 1])
    BY <1>1, <2>1, Shape DEF FilterCount
  <2>3. (i + 1) + 1 = i + 2
    BY <1>1
  <2> QED BY <2>2, <2>3
<1>7. BeforeOperand => Compares(entries[i + 1]) \/ TakesPart(entries[i + 1]) \/ Negates(entries[i + 1])
  BY <1>1, <1>3, <1>4 DEF BeforeOperand, MayFollow, Compares, TakesPart, Joins, Negates
<1>8. BeforeNegated => /\ Compares(entries[i + 1]) /\ entries[i + 1].op \notin NotFlipped
                       /\ ~AddsNothing(entries[i + 1])
  BY <1>4 DEF BeforeNegated, MayFollow, Compares, TakesPart, Joins, Negates
<1>9. BeforeConnector => Joins(entries[i + 1])
  BY <1>4 DEF BeforeConnector, MayFollow, Compares, TakesPart, Joins, Negates, Orderings
<1>10. BeforeList => entries[i + 1].kind = "list"
  BY <1>4 DEF BeforeList, MayFollow, Compares, TakesPart, Joins, Negates, Orderings
<1> QED
  BY <1>2, <1>5, <1>6, <1>7, <1>8, <1>9, <1>10

\* Where the walk sees a NOT: at the operand it stands before, or behind the
\* connector it stands before.
LEMMA NotSeen ==
  ASSUME Good, TokensInv, WalkInv, parsed = FilterCount, i < FilterCount
  PROVE  /\ BeforeOperand => (AtNot <=> Negates(entries[i + 1]))
         /\ BeforeNegated => ~AtNot
         /\ BeforeConnector => (AtNot <=> Negates(entries[i + 2]))
         /\ BeforeLost => ~AtNot
         /\ BeforeList => ~AtNot
<1> DEFINE e == entries[i + 1]
           next == entries[i + 2]
<1>1. i + 1 \in 1..FilterCount
  BY WalkIndexes
<1>2. /\ Negates(e) => Operator(Start(entries, i + 1)) = "NOT" /\ ContainsNot
      /\ Compares(e) \/ TakesPart(e) => Operator(Start(entries, i + 1)) # "NOT"
      /\ e.kind = "list" => Operator(Start(entries, i + 1) + 1) # "NOT"
  BY <1>1, NotAt DEF Negates, Compares, TakesPart
<1>3. ASSUME i + 2 \in 1..FilterCount
      PROVE  /\ Negates(next) => Operator(Start(entries, i + 2)) = "NOT" /\ ContainsNot
             /\ Compares(next) \/ TakesPart(next) => Operator(Start(entries, i + 2)) # "NOT"
  BY <1>3, NotAt DEF Negates, Compares, TakesPart
<1>4. ASSUME Joins(e) \/ Negates(e), itemp = 2 * Passed - 1
      PROVE  NotIndex = Start(entries, i + 2) /\ i + 2 \in 1..FilterCount /\ MayFollow(e, next)
  <2>1. e.kind = "connector" /\ i + 1 # FilterCount
    <3>1. i + 2 \in 1..FilterCount
      BY <1>4, Ahead
    <3> QED BY <1>4, <3>1, WalkIndexes DEF Joins, Negates
  <2> QED BY <1>4, <2>1, WalkIndexes, Ahead
<1>5. BeforeOperand => (AtNot <=> Negates(e))
  BY <1>2, WalkIndexes, Ahead DEF BeforeOperand, AtNot
<1>6. BeforeNegated => ~AtNot
  BY <1>2, WalkIndexes, Ahead DEF BeforeNegated, AtNot
<1>7. BeforeConnector => (AtNot <=> Negates(next))
  <2> SUFFICES ASSUME BeforeConnector PROVE AtNot <=> Negates(next)
    OBVIOUS
  <2>1. Joins(e) /\ itemp = 2 * Passed - 1
    BY Ahead DEF BeforeConnector
  <2>2. Compares(next) \/ TakesPart(next) \/ Negates(next)
    BY <1>4, <2>1 DEF MayFollow, Joins, Compares, Negates, TakesPart
  <2> QED BY <1>3, <1>4, <2>1, <2>2 DEF AtNot
<1>8. BeforeLost => ~AtNot
  <2> SUFFICES ASSUME BeforeLost PROVE ~AtNot
    OBVIOUS
  <2>1. Negates(e) /\ itemp = 2 * Passed - 1
    BY DEF BeforeLost
  <2>2. Compares(next)
    BY <1>4, <2>1 DEF MayFollow, Joins, Compares, Negates, TakesPart
  <2> QED BY <1>3, <1>4, <2>1, <2>2 DEF AtNot
<1>9. BeforeList => ~AtNot
  BY <1>2, WalkIndexes, Ahead DEF BeforeList, AtNot
<1> QED
  BY <1>5, <1>6, <1>7, <1>8, <1>9

\* The operand ReadPredicate reads is the next entry, and all of its strings are.
LEMMA OperandRead ==
  ASSUME Good, TokensInv, WalkInv, Walking, ~AtNot, substring = 0, itemp % 2 = 0
  PROVE  /\ BeforeOperand \/ BeforeNegated
         /\ Compares(entries[i + 1]) \/ TakesPart(entries[i + 1])
         /\ \A p \in 0..4 : At(PredicateIndex + p) = EntryTokens(i + 1)[p + 1]
<1>1. parsed = FilterCount /\ i < FilterCount
  BY DEF Walking
<1>2. BeforeOperand \/ BeforeNegated
  BY <1>1, WalkIndexes DEF WalkInv, BeforeConnector, BeforeLost, BeforeList
<1>3. Compares(entries[i + 1]) \/ TakesPart(entries[i + 1])
  BY <1>1, <1>2, Ahead, NotSeen
<1>4. /\ i + 1 \in 1..FilterCount /\ PredicateIndex = Start(entries, i + 1) /\ filter \in DOMAIN Filters
      /\ Len(EntryTokens(i + 1)) = 5
  BY <1>1, <1>2, <1>3, WalkIndexes, StringsOf DEF BeforeOperand, BeforeNegated, Compares, TakesPart, TokensInv
<1>5. ASSUME NEW p \in 0..4 PROVE At(PredicateIndex + p) = EntryTokens(i + 1)[p + 1]
  <2>1. PICK q \in 1..5 : q = p + 1
    OBVIOUS
  <2>2. At(Start(entries, i + 1) + q - 1) = EntryTokens(i + 1)[q] /\ Start(entries, i + 1) \in Nat
    BY <1>1, <1>4, <2>1, StringAt
  <2>3. Start(entries, i + 1) + q - 1 = PredicateIndex + p
    BY <1>4, <2>1, <2>2
  <2> QED BY <2>1, <2>2, <2>3
<1> QED
  BY <1>2, <1>3, <1>5

\* The invariant says what the walk must do.
LEMMA TurnsKept ==
  ASSUME Good, TokensInv, WalkInv
  PROVE  ReadsInTurn
<1> SUFFICES ASSUME Walking, ~AtNot, substring = 0, itemp % 2 = 0
             PROVE  \E n \in Predicates :
                      /\ Cardinality(Predicates \cap 1..n) = Len(tableList) + 1
                      /\ \A p \in 1..4 : At(PredicateIndex + p) = EntryTokens(n)[p + 1]
                      /\ currentNot <=> n > 1 /\ entries[n - 1].op = "NOT"
  BY DEF ReadsInTurn
<1> DEFINE n == i + 1
<1>1. i < FilterCount /\ parsed = FilterCount /\ DOMAIN entries = 1..FilterCount
  BY EntriesWellFormed DEF Walking, TokensInv, WellFormed, FilterCount
<1>2. n \in 1..FilterCount /\ i \in Nat /\ FilterCount \in Nat
  BY <1>1, WalkIndexes
<1>3. entries[n].kind = "predicate"
  BY OperandRead DEF Compares, TakesPart
<1>4. n \in Predicates
  BY <1>1, <1>2, <1>3 DEF Predicates
<1>5. Cardinality(Predicates \cap 1..n) = Len(tableList) + 1
  <2>1. Predicates \cap 1..n = {m \in 1..n : entries[m].kind = "predicate"}
    BY <1>1, <1>2 DEF Predicates
  <2>2. Comparisons(entries, i + 1) = Passed + 1
    BY <1>2, <1>3, CountComparisons DEF Passed
  <2> QED BY <2>1, <2>2 DEF WalkInv, Comparisons
<1>6. \A p \in 1..4 : At(PredicateIndex + p) = EntryTokens(n)[p + 1]
  BY OperandRead
<1>7. currentNot <=> n > 1 /\ entries[n - 1].op = "NOT"
  <2>1. n - 1 = i /\ (n > 1 <=> i > 0)
    BY <1>2
  <2>2. BeforeOperand \/ BeforeNegated
    BY OperandRead
  <2> QED BY <2>1, <2>2 DEF BeforeOperand, BeforeNegated, Joins, Negates
<1> QED
  BY <1>4, <1>5, <1>6, <1>7

(***************************************************************************)
(* The steps of the walk.                                                  *)
(***************************************************************************)
\* How far the walk is after a step.
LEMMA OneOn ==
  ASSUME Good, TokensInv, WalkInv, Walking, Step
  PROVE  /\ filter' = filter /\ entries' = entries /\ FilterCount' = FilterCount /\ parsed' = FilterCount
         /\ i' = i + 1 /\ i + 1 \in 1..FilterCount /\ i' > 0 /\ i \in Nat /\ FilterCount \in Nat
         /\ Passed \in Nat /\ notCount \in 0..i /\ i < FilterCount /\ parsed = FilterCount
         /\ Passed' = IF entries[i + 1].kind = "predicate" THEN Passed + 1 ELSE Passed
<1>1. /\ filter' = filter /\ entries' = entries /\ FilterCount' = FilterCount /\ parsed' = FilterCount
      /\ i' = i + 1 /\ i < FilterCount /\ parsed = FilterCount
  BY DEF Step, Walking, entries, FilterCount, parse
<1>2. i + 1 \in 1..FilterCount /\ i \in Nat /\ FilterCount \in Nat /\ Passed \in Nat
  BY <1>1, WalkIndexes
<1>3. Passed' = IF entries[i + 1].kind = "predicate" THEN Passed + 1 ELSE Passed
  BY <1>1, <1>2, CountComparisons DEF Passed
<1> QED
  BY <1>1, <1>2, <1>3 DEF WalkInv

\* Reading a NOT, where the walk expects an operand or a connector.
LEMMA WalkNot ==
  ASSUME Good, TokensInv, WalkInv, ReadNot
  PROVE  WalkInv'
<1>1. /\ Walking /\ AtNot /\ Step /\ currentNot' = TRUE /\ notCount' = notCount + 1
      /\ UNCHANGED <<substring, tableList>>
  BY DEF ReadNot
<1>2. /\ entries' = entries /\ FilterCount' = FilterCount /\ parsed' = FilterCount
      /\ i' = i + 1 /\ i + 1 \in 1..FilterCount /\ i' > 0 /\ i \in Nat /\ FilterCount \in Nat
      /\ Passed \in Nat /\ notCount \in 0..i /\ i < FilterCount /\ parsed = FilterCount
      /\ Passed' = IF entries[i + 1].kind = "predicate" THEN Passed + 1 ELSE Passed
  BY <1>1, OneOn
<1>3. itemp' = itemp
  BY <1>1, <1>2 DEF itemp
<1>4. \/ BeforeOperand /\ Negates(entries[i + 1])
      \/ BeforeConnector /\ Joins(entries[i + 1]) /\ Negates(entries[i + 2])
  BY <1>1, <1>2, NotSeen, Ahead DEF WalkInv
<1>5. Passed' = Passed
  BY <1>2, <1>4 DEF Negates, Joins
<1>6. CASE BeforeOperand /\ Negates(entries[i + 1])
  <2>1. BeforeNegated'
    BY <1>1, <1>2, <1>3, <1>5, <1>6 DEF BeforeOperand, BeforeNegated
  <2> QED BY <1>1, <1>2, <1>5, <2>1 DEF WalkInv
<1>7. CASE BeforeConnector /\ Joins(entries[i + 1]) /\ Negates(entries[i + 2])
  <2>1. entries'[i' + 1] = entries[i + 2]
    BY <1>2
  <2>2. BeforeLost'
    BY <1>1, <1>2, <1>3, <1>5, <1>7, <2>1 DEF BeforeConnector, BeforeLost
  <2> QED BY <1>1, <1>2, <1>5, <2>2 DEF WalkInv
<1> QED BY <1>4, <1>6, <1>7

\* Reading the list of a substring, which ends the filter.
LEMMA WalkList ==
  ASSUME Good, TokensInv, WalkInv, ReadSubstringList
  PROVE  WalkInv' /\ i' = FilterCount /\ BeforeList
<1>1. /\ Walking /\ substring > 0 /\ Step /\ substring' = 0
      /\ UNCHANGED <<notCount, currentNot, tableList>>
  BY DEF ReadSubstringList
<1>2. /\ entries' = entries /\ FilterCount' = FilterCount /\ parsed' = FilterCount
      /\ i' = i + 1 /\ i + 1 \in 1..FilterCount /\ i \in Nat /\ FilterCount \in Nat
      /\ Passed \in Nat /\ notCount \in 0..i /\ i < FilterCount
      /\ Passed' = IF entries[i + 1].kind = "predicate" THEN Passed + 1 ELSE Passed
  BY <1>1, OneOn
<1>3. BeforeList
  BY <1>1, <1>2 DEF WalkInv, BeforeOperand, BeforeNegated, BeforeConnector, BeforeLost
<1>4. entries[i + 1].kind = "list" /\ i + 1 = FilterCount
  BY <1>2, <1>3, Ahead
<1>5. Passed' = Passed
  BY <1>2, <1>4
<1> QED
  BY <1>1, <1>2, <1>3, <1>4, <1>5 DEF WalkInv

\* Reading a connector.
LEMMA WalkConnector ==
  ASSUME Good, TokensInv, WalkInv, ReadConnector
  PROVE  /\ WalkInv'
         /\ \/ BeforeConnector /\ BeforeOperand' /\ Joins(entries[i + 1]) /\ ~Negates(entries[i + 2])
            \/ BeforeLost /\ BeforeNegated' /\ Negates(entries[i + 1])
         /\ Operator(ConnectorIndex) = entries[i + 1].op
         /\ At(ConnectorIndex) = EntryTokens(i + 1)[1]
<1>1. /\ Walking /\ ~AtNot /\ substring = 0 /\ itemp % 2 = 1 /\ Step
      /\ UNCHANGED <<notCount, currentNot, substring, tableList>>
  BY DEF ReadConnector
<1>2. /\ entries' = entries /\ FilterCount' = FilterCount /\ parsed' = FilterCount
      /\ i' = i + 1 /\ i + 1 \in 1..FilterCount /\ i' > 0 /\ i \in Nat /\ FilterCount \in Nat
      /\ Passed \in Nat /\ notCount \in 0..i /\ i < FilterCount /\ parsed = FilterCount
      /\ Passed' = IF entries[i + 1].kind = "predicate" THEN Passed + 1 ELSE Passed
  BY <1>1, OneOn
<1>3. itemp' = itemp + 1
  BY <1>1, <1>2 DEF itemp, WalkInv
<1>4. \/ BeforeConnector /\ Joins(entries[i + 1]) /\ ~Negates(entries[i + 2])
      \/ BeforeLost /\ Negates(entries[i + 1])
  <2>1. BeforeConnector \/ BeforeLost
    BY <1>1, <1>2, WalkIndexes DEF WalkInv, BeforeOperand, BeforeNegated, BeforeList
  <2> QED BY <1>1, <1>2, <2>1, NotSeen, Ahead DEF BeforeLost
<1>5. Passed' = Passed /\ entries[i + 1].kind = "connector"
  BY <1>2, <1>4 DEF Negates, Joins
<1>6. ASSUME BeforeConnector, Joins(entries[i + 1]) PROVE BeforeOperand'
  <2>1. itemp' = 2 * Passed'
    BY <1>2, <1>3, <1>5, <1>6 DEF BeforeConnector
  <2>2. substring' = 0 /\ ~currentNot' /\ Joins(entries'[i'])
    BY <1>1, <1>2, <1>6 DEF BeforeConnector
  <2> QED BY <2>1, <2>2 DEF BeforeOperand
<1>7. ASSUME BeforeLost, Negates(entries[i + 1]) PROVE BeforeNegated'
  <2>1. itemp' = 2 * Passed'
    BY <1>2, <1>3, <1>5, <1>7 DEF BeforeLost
  <2>2. substring' = 0 /\ currentNot' /\ i' > 0 /\ Negates(entries'[i'])
    BY <1>1, <1>2, <1>7 DEF BeforeLost
  <2> QED BY <2>1, <2>2 DEF BeforeNegated
<1>8. WalkInv'
  <2>1. BeforeOperand' \/ BeforeNegated'
    BY <1>4, <1>6, <1>7
  <2> QED BY <1>1, <1>2, <1>5, <2>1 DEF WalkInv
<1>9. ConnectorIndex = Start(entries, i + 1) /\ filter \in DOMAIN Filters
  BY <1>2, <1>4, WalkIndexes DEF BeforeConnector, BeforeLost, TokensInv
<1>10. Operator(ConnectorIndex) = entries[i + 1].op
  BY <1>2, <1>5, <1>9, NotAt
<1>11. At(ConnectorIndex) = EntryTokens(i + 1)[1]
  <2>1. 1 \in 1..Len(EntryTokens(i + 1))
    BY <1>2, <1>5, <1>9, StringsOf
  <2>2. At(Start(entries, i + 1) + 1 - 1) = EntryTokens(i + 1)[1] /\ Start(entries, i + 1) \in Nat
    BY <1>2, <2>1, StringAt, Zenon
  <2> QED BY <1>9, <2>2
<1> QED
  BY <1>4, <1>6, <1>7, <1>8, <1>10, <1>11

\* Which comparisons add an estimate.
LEMMA WhatIsAdded ==
  ASSUME NEW e, NEW h, NEW values, NEW negating
  PROVE  /\ Compares(e) => (Added(h, e.op, e.type, values, negating) = <<>> <=> AddsNothing(e))
         /\ TakesPart(e) => Added(h, e.op, e.type, values, negating) = <<>>
<1> DEFINE added == Added(h, e.op, e.type, values, negating)
<1>1. ASSUME e.op \in Orderings PROVE added = <<>> <=> e.type = "string"
  <2>1. Ordering(h, e.op, e.type, values) = <<>> <=> e.type = "string"
    <3>1. CASE e.type = "string"
      BY <3>1 DEF Ordering
    <3>2. CASE e.type = "column"
      BY <3>2 DEF Ordering
    <3>3. CASE e.type \notin {"string", "column"}
      BY <3>3 DEF Ordering
    <3> QED BY <3>1, <3>2, <3>3
  <2>2. OrderingInNot(h, e.op, e.type, values) = <<>> <=> e.type = "string"
    BY <2>1 DEF OrderingInNot
  <2>3. added = IF negating THEN OrderingInNot(h, e.op, e.type, values) ELSE Ordering(h, e.op, e.type, values)
    BY <1>1 DEF Added, Orderings
  <2> QED BY <2>1, <2>2, <2>3
<1>2. e.op = "EQ" => added # <<>>
  BY DEF Added
<1>3. e.op = "NE" => added = <<>>
  BY DEF Added, Unequal
<1>4. e.op \in {"LIKE", "BETWEEN", "IN"} => added # <<>>
  BY DEF Added
<1>5. e.op = "SUBSTRING" => added = <<>>
  BY DEF Added
<1> QED
  BY <1>1, <1>2, <1>3, <1>4, <1>5 DEF Compares, TakesPart, AddsNothing, Orderings

\* The strings ReadPredicate takes for the parts of its comparison.
LEMMA PartsRead ==
  ASSUME Good, TokensInv, WalkInv, Walking, ~AtNot, substring = 0, itemp % 2 = 0
  PROVE  LET k == PredicateIndex
             e == entries[i + 1]
         IN  /\ Has(k + 1, "column") /\ At(k + 1).value = e.column
             /\ Operator(k + 2) = e.op /\ At(k + 2).entry = i + 1
             /\ At(k + 3).value = e.type /\ At(k + 4).value = e.values
<1> DEFINE k == PredicateIndex
           e == entries[i + 1]
<1>1. i + 1 \in 1..FilterCount /\ e.kind = "predicate" /\ filter \in DOMAIN Filters
  BY OperandRead, WalkIndexes DEF Walking, Compares, TakesPart, TokensInv
<1>2. /\ EntryTokens(i + 1)[2] = Token(i + 1, "column", e.column)
      /\ EntryTokens(i + 1)[3] = Token(i + 1, "op", e.op)
      /\ EntryTokens(i + 1)[4] = Token(i + 1, "rvType", e.type)
      /\ EntryTokens(i + 1)[5] = Token(i + 1, "value", e.values)
  BY <1>1, StringsOf
<1>3. \A p \in 0..4 : At(k + p) = EntryTokens(i + 1)[p + 1]
  BY OperandRead
<1> HIDE DEF k, e
<1>4. /\ At(k + 1) = Token(i + 1, "column", e.column)
      /\ At(k + 2) = Token(i + 1, "op", e.op)
      /\ At(k + 3) = Token(i + 1, "rvType", e.type)
      /\ At(k + 4) = Token(i + 1, "value", e.values)
  BY <1>2, <1>3
<1> QED
  BY <1>4 DEF Token, Has, Operator, k, e

\* ReadPredicate is done with a NOT, and leaves the list of a substring to the next step.
LEMMA WalkPredicate ==
  ASSUME Good, TokensInv, WalkInv, ReadPredicate
  PROVE  /\ WalkInv'
         /\ BeforeOperand \/ BeforeNegated
         /\ \/ Compares(entries[i + 1]) /\ (i' < FilterCount => BeforeConnector')
            \/ TakesPart(entries[i + 1]) /\ BeforeList'
<1> DEFINE k == PredicateIndex
           e == entries[i + 1]
           flips == currentNot /\ e.op \notin NotFlipped
           added == Added(HistogramOf(e.column), e.op, e.type, e.values, ContainsNot)
<1>1. Walking /\ ~AtNot /\ substring = 0 /\ itemp % 2 = 0 /\ Step /\ notCount' = notCount
  BY DEF ReadPredicate
<1>2. /\ Has(k + 1, "column") /\ At(k + 1).value = e.column /\ Operator(k + 2) = e.op
      /\ At(k + 3).value = e.type /\ At(k + 4).value = e.values
  BY <1>1, PartsRead
<1>3. tableList' = Append(tableList, e.column)
  BY <1>2 DEF ReadPredicate
<1>4. substring' = IF e.op = "SUBSTRING" THEN e.values[1] ELSE 0
  BY <1>2 DEF ReadPredicate
<1>5. currentNot' = (currentNot /\ (~flips \/ added = <<>>))
  BY <1>2, Zenon DEF ReadPredicate
<1>6. (BeforeOperand \/ BeforeNegated) /\ (Compares(e) \/ TakesPart(e))
  BY <1>1, OperandRead
<1>7. Compares(e) => (added = <<>> <=> AddsNothing(e))
  BY WhatIsAdded
<1>8. /\ entries' = entries /\ FilterCount' = FilterCount /\ parsed' = FilterCount
      /\ i' = i + 1 /\ i + 1 \in 1..FilterCount /\ i' > 0 /\ i \in Nat /\ FilterCount \in Nat
      /\ Passed \in Nat /\ notCount \in 0..i /\ i < FilterCount /\ parsed = FilterCount
      /\ Passed' = IF e.kind = "predicate" THEN Passed + 1 ELSE Passed
  BY <1>1, OneOn
<1>9. currentNot' = FALSE
  <2>1. CASE BeforeOperand
    BY <1>5, <2>1 DEF BeforeOperand
  <2>2. CASE BeforeNegated
    <3>1. Compares(e) /\ e.op \notin NotFlipped /\ ~AddsNothing(e)
      BY <1>8, <2>2, Ahead
    <3> QED BY <1>5, <1>7, <3>1
  <2> QED BY <1>6, <2>1, <2>2
<1> HIDE DEF e, flips, added, k
<1>10. itemp' = 2 * Passed' - 1 /\ Passed' = Passed + 1
  <2>1. itemp' = itemp + 1
    BY <1>1, <1>8 DEF itemp
  <2>2. itemp = 2 * Passed /\ Passed' = Passed + 1
    BY <1>6, <1>8 DEF BeforeOperand, BeforeNegated, Compares, TakesPart
  <2> QED BY <1>8, <2>1, <2>2
<1>11. tableList' \in Seq(Range(tableList')) /\ Len(tableList') = Passed'
  <2> DEFINE S == Range(tableList) \cup {e.column}
  <2>1. tableList \in Seq(S) /\ e.column \in S
    BY SeqMonotonic DEF WalkInv
  <2> HIDE DEF S
  <2>2. tableList' \in Seq(S) /\ Len(tableList') = Len(tableList) + 1
    BY <1>3, <2>1, AppendProperties
  <2> QED BY <1>10, <2>2, SeqOfRange DEF WalkInv
<1>12. ASSUME Compares(e) PROVE BeforeConnector' /\ substring' = 0
  <2>1. substring' = 0
    BY <1>4, <1>12 DEF Compares, Orderings
  <2>2. entries'[i'] = e /\ i' > 0
    BY <1>8 DEF e
  <2> QED BY <1>9, <1>10, <1>12, <2>1, <2>2 DEF BeforeConnector
<1>13. ASSUME TakesPart(e) PROVE BeforeList' /\ substring' \in Nat
  <2>1. substring' \in Nat \ {0}
    BY <1>4, <1>13 DEF TakesPart
  <2>2. entries'[i'] = e /\ i' > 0 /\ substring' > 0
    BY <1>8, <2>1 DEF e
  <2> QED BY <1>10, <1>13, <2>1, <2>2 DEF BeforeList
<1>14. WalkInv'
  <2>1. currentNot' \in BOOLEAN
    BY <1>9, Zenon
  <2>2. BeforeConnector' \/ BeforeList'
    BY <1>6, <1>12, <1>13, Zenon
  <2>3. substring' \in Nat
    BY <1>6, <1>12, <1>13
  <2>4. i' \in 0..FilterCount' /\ notCount' \in 0..i' /\ ~(parsed' < FilterCount')
    BY <1>1, <1>8
  <2> QED BY <1>11, <2>1, <2>2, <2>3, <2>4, Zenon DEF WalkInv
<1> QED
  BY <1>6, <1>12, <1>13, <1>14 DEF e

\* The walk begins before the first entry.
LEMMA WalkInit == Good /\ Init => WalkInv
<1> SUFFICES ASSUME Good, Init PROVE WalkInv
  OBVIOUS
<1>1. /\ i = 0 /\ notCount = 0 /\ currentNot = FALSE /\ substring = 0 /\ tableList = <<>> /\ parsed = 0
      /\ filter \in DOMAIN Filters
  BY DEF Init
<1>2. FilterCount \in Nat /\ Passed = 0
  BY <1>1, EntriesWellFormed, CountComparisons DEF Passed
<1>3. tableList \in Seq(Range(tableList)) /\ Len(tableList) = 0
  BY <1>1
<1>4. BeforeOperand
  BY <1>1, <1>2 DEF BeforeOperand, itemp
<1>5. currentNot \in BOOLEAN
  BY <1>1, Zenon
<1>6. i \in 0..FilterCount /\ notCount \in 0..i /\ substring \in Nat
  BY <1>1, <1>2
<1> QED
  BY <1>1, <1>2, <1>3, <1>4, <1>5, <1>6, Zenon DEF WalkInv

\* Every step leads from one of the positions to another.
LEMMA WalkStep == Good /\ TokensInv /\ WalkInv /\ [Next]_vars => TokensInv' /\ WalkInv'
<1> SUFFICES ASSUME Good, TokensInv, WalkInv, [Next]_vars PROVE TokensInv' /\ WalkInv'
  OBVIOUS
<1>1. CASE ParseEntry
  <2>1. UNCHANGED <<filter, i, notCount, currentNot, substring, tableList>> /\ parsed < FilterCount
        /\ parsed' = parsed + 1
    BY <1>1 DEF ParseEntry, walk
  <2>2. WalkInv'
    BY <2>1, EntriesWellFormed DEF WalkInv, TokensInv, FilterCount, entries, itemp, Passed, BeforeOperand, BeforeNegated,
       BeforeConnector, BeforeLost, BeforeList
  <2> QED BY <1>1, <2>2, TokensParse
<1>2. ASSUME UNCHANGED <<filter, hist, parse>> PROVE TokensInv'
  <2>1. entries' = entries /\ tokens' = tokens /\ parsed' = parsed /\ filter' = filter /\ FilterCount' = FilterCount
    BY <1>2 DEF parse, entries, FilterCount
  <2>2. \A n : EntryTokens(n)' = EntryTokens(n)
    BY <2>1 DEF EntryTokens
  <2>3. Strings' = Strings
    BY <2>1, <2>2 DEF Strings
  <2> QED BY <2>1, <2>2, <2>3 DEF TokensInv
<1>3. CASE CombineOne \/ UNCHANGED vars
  <2>1. UNCHANGED <<filter, hist, parse, i, notCount, currentNot, substring, tableList>>
    BY <1>3 DEF CombineOne, vars, walk
  <2>2. WalkInv'
    BY <2>1 DEF WalkInv, parse, FilterCount, entries, itemp, Passed, BeforeOperand, BeforeNegated, BeforeConnector,
       BeforeLost, BeforeList
  <2> QED BY <1>2, <2>1, <2>2
<1>4. CASE ReadNot \/ ReadSubstringList \/ ReadPredicate \/ ReadConnector
  <2>1. UNCHANGED <<filter, hist, parse>>
    BY <1>4 DEF ReadNot, ReadSubstringList, ReadPredicate, ReadConnector, Step
  <2> QED BY <1>2, <1>4, <2>1, WalkNot, WalkList, WalkPredicate, WalkConnector
<1> QED
  BY <1>1, <1>3, <1>4 DEF Next, Done

\* Whatever the filter's length and its order of comparisons, connectors and NOTs:
\* the indexes getFilteredRow computes from its loop counter meet every comparison
\* in turn, with all five of its own strings, and negate it if a NOT is before it.
THEOREM Turns ==
  ASSUME Good
  PROVE  Spec => []ReadsInTurn
<1>1. Init => TokensInv /\ WalkInv
  BY TokensInit, WalkInit
<1>2. TokensInv /\ WalkInv /\ [Next]_vars => TokensInv' /\ WalkInv'
  BY WalkStep
<1>3. TokensInv /\ WalkInv => ReadsInTurn
  BY TurnsKept
<1> QED
  BY <1>1, <1>2, <1>3, PTL DEF Spec

-----------------------------------------------------------------------------
(***************************************************************************)
(* What the walk leaves to the last loop.  Whether an estimate or a        *)
(* connector comes next in filterRatio is told by the entry before.        *)
(***************************************************************************)
Estimated(e) == (Compares(e) /\ ~AddsNothing(e)) \/ e.kind = "list"

IsKept(r) == DOMAIN r = {"num", "den", "what", "entry"}

PositionsInv ==
  /\ ratios \in Seq(Range(ratios))
  /\ \A k \in 1..Len(ratios) : /\ IsKept(ratios[k])
                               /\ k % 2 = 0 <=> ratios[k].what = "connector"
                               /\ ratios[k].entry \in 1..i
  /\ \A k \in 2..Len(ratios) : ratios[k - 1].entry < ratios[k].entry
  /\ Len(ratios) % 2 = 1 <=> i > 0 /\ Estimated(entries[i])

AllPositioned == \A f \in DOMAIN Filters : Positioned(Filters[f])

\* Other numbers for a ratio.
LEMMA KeptExcept ==
  ASSUME NEW r, IsKept(r), NEW a, NEW b
  PROVE  LET s == [r EXCEPT !.num = a, !.den = b]
         IN  IsKept(s) /\ s.what = r.what /\ s.entry = r.entry
BY DEF IsKept

\* What Kept makes has its fields.
LEMMA KeptIsKept ==
  ASSUME NEW ratio, NEW what, NEW n
  PROVE  LET r == Kept(ratio, what, n)
         IN  IsKept(r) /\ r.what = what /\ r.entry = n
BY DEF IsKept, Kept

\* Odd and even numbers alternate.
LEMMA Parity == \A n \in Nat : (n + 1) % 2 = 1 <=> n % 2 = 0
OBVIOUS

\* An entry that adds nothing.
LEMMA NothingAdded ==
  ASSUME PositionsInv, i \in Nat, i' = i + 1, entries' = entries, ratios' = ratios,
         Len(ratios) % 2 = 1 <=> Estimated(entries[i + 1])
  PROVE  PositionsInv'
<1>1. /\ ratios \in Seq(Range(ratios)) /\ \A k \in 2..Len(ratios) : ratios[k - 1].entry < ratios[k].entry
      /\ \A k \in 1..Len(ratios) : /\ IsKept(ratios[k])
                                   /\ k % 2 = 0 <=> ratios[k].what = "connector"
                                   /\ ratios[k].entry \in 1..i
  BY DEF PositionsInv
<1>2. \A k \in 1..Len(ratios) : ratios[k].entry \in 1..i'
  BY <1>1
<1>3. Len(ratios) % 2 = 1 <=> i' > 0 /\ Estimated(entries'[i'])
  BY DEF Estimated
<1> QED
  BY <1>1, <1>2, <1>3, Zenon DEF PositionsInv

\* An entry that adds a ratio behind rs, which are the earlier ones with other numbers.
LEMMA OneAdded ==
  ASSUME PositionsInv, i \in Nat, i' = i + 1, entries' = entries,
         NEW rs, rs \in Seq(Range(rs)), Len(rs) = Len(ratios),
         \A k \in 1..Len(ratios) : IsKept(rs[k]) /\ rs[k].what = ratios[k].what /\ rs[k].entry = ratios[k].entry,
         NEW r, IsKept(r), r.entry = i + 1, ratios' = Append(rs, r),
         (Len(ratios) + 1) % 2 = 0 <=> r.what = "connector",
         Len(ratios) % 2 = 0 <=> Estimated(entries[i + 1])
  PROVE  PositionsInv'
<1> DEFINE N == Len(ratios)
<1>1. N \in Nat
  BY LenProperties
<1>2. /\ ratios' \in Seq(Range(rs) \cup {r}) /\ Len(ratios') = N + 1
      /\ \A k \in 1..N : ratios'[k] = rs[k]
      /\ ratios'[N + 1] = r
  <2> DEFINE S == Range(rs) \cup {r}
  <2>1. rs \in Seq(S) /\ r \in S
    BY SeqMonotonic
  <2> HIDE DEF S
  <2>2. /\ Append(rs, r) \in Seq(S) /\ Len(Append(rs, r)) = N + 1
        /\ \A k \in 1..N : Append(rs, r)[k] = rs[k]
        /\ Append(rs, r)[N + 1] = r
    BY <1>1, <2>1, AppendProperties
  <2> QED BY <2>2 DEF S
<1> HIDE DEF N
<1>3. ratios' \in Seq(Range(ratios'))
  BY <1>2, SeqOfRange
<1>4. \A k \in 1..N : /\ IsKept(ratios'[k])
                      /\ k % 2 = 0 <=> ratios'[k].what = "connector"
                      /\ ratios'[k].entry = ratios[k].entry /\ ratios'[k].entry \in 1..i
  BY <1>2 DEF PositionsInv, N
<1>5. ASSUME NEW k \in 1..N + 1
      PROVE  /\ IsKept(ratios'[k])
             /\ k % 2 = 0 <=> ratios'[k].what = "connector"
             /\ ratios'[k].entry \in 1..i'
  <2>1. CASE k = N + 1
    BY <1>2, <2>1 DEF N
  <2>2. CASE k # N + 1
    <3>1. k \in 1..N
      BY <1>1, <2>2
    <3>2. 1..i \subseteq 1..i'
      OBVIOUS
    <3> QED BY <1>4, <3>1, <3>2, Zenon
  <2> QED BY <2>1, <2>2
<1>6. ASSUME NEW k \in 2..N + 1
      PROVE  ratios'[k - 1].entry < ratios'[k].entry
  <2>1. k - 1 \in 1..N
    BY <1>1
  <2>2. CASE k = N + 1
    <3>1. ratios'[k - 1].entry \in 1..i
      BY <1>4, <2>1, Zenon
    <3>2. ratios'[k].entry = i + 1
      BY <1>2, <2>2
    <3>3. \A m \in 1..i : m < i + 1
      OBVIOUS
    <3> QED BY <3>1, <3>2, <3>3, Zenon
  <2>3. CASE k # N + 1
    <3>1. k \in 1..N /\ k \in 2..N
      BY <1>1, <2>3
    <3>2. ratios[k - 1].entry < ratios[k].entry
      BY <3>1 DEF PositionsInv, N
    <3> QED BY <1>4, <2>1, <3>1, <3>2
  <2> QED BY <2>2, <2>3
<1>7. (N + 1) % 2 = 1 <=> i' > 0 /\ Estimated(entries'[i'])
  <2>1. (N + 1) % 2 = 1 <=> N % 2 = 0
    BY <1>1, Parity, Zenon
  <2>2. i' > 0
    OBVIOUS
  <2>4. entries'[i'] = entries[i + 1]
    BY Zenon
  <2>3. Estimated(entries'[i']) <=> Estimated(entries[i + 1])
    BY <2>4, Zenon
  <2> QED BY <2>1, <2>2, <2>3 DEF N
<1> QED
  BY <1>2, <1>3, <1>5, <1>6, <1>7 DEF PositionsInv

\* Two comparisons of one column: the earlier ratio changes its numbers, and no place.
LEMMA MergedKeeps ==
  ASSUME PositionsInv, NEW at, NEW new, IsKept(new)
  PROVE  \E rs, r :
           /\ rs \in Seq(Range(rs)) /\ Len(rs) = Len(ratios)
           /\ \A k \in 1..Len(ratios) : IsKept(rs[k]) /\ rs[k].what = ratios[k].what /\ rs[k].entry = ratios[k].entry
           /\ IsKept(r) /\ r.what = new.what /\ r.entry = new.entry
           /\ Merged(ratios, at, new) = Append(rs, r)
<1> DEFINE both == Shared(ratios[at], new)
           rs == [ratios EXCEPT ![at].num = 1, ![at].den = 1]
           r == [new EXCEPT !.num = both.num, !.den = both.den]
           N == Len(ratios)
<1>1. N \in Nat /\ DOMAIN ratios = 1..N
  BY LenProperties DEF PositionsInv
<1>2. DOMAIN rs = 1..N
  BY <1>1
<1>3. \A k \in 1..N : rs[k] = IF k = at THEN [ratios[k] EXCEPT !.num = 1, !.den = 1] ELSE ratios[k]
  BY <1>1
<1>4. ASSUME NEW k \in 1..N
      PROVE  IsKept(rs[k]) /\ rs[k].what = ratios[k].what /\ rs[k].entry = ratios[k].entry
  <2>1. PICK earlier : earlier = ratios[k] /\ IsKept(earlier)
    BY DEF PositionsInv
  <2> DEFINE s == [earlier EXCEPT !.num = 1, !.den = 1]
  <2>2. IsKept(s) /\ s.what = earlier.what /\ s.entry = earlier.entry
    BY <2>1 DEF IsKept
  <2>3. rs[k] = s \/ rs[k] = ratios[k]
    BY <1>3, <2>1
  <2> QED BY <2>1, <2>2, <2>3, Zenon
<1>5. rs \in Seq(Range(rs)) /\ Len(rs) = N
  <2>1. rs = [k \in 1..N |-> rs[k]]
    BY <1>1
  <2> HIDE DEF rs, N
  <2>2. rs \in [1..N -> Range(rs)]
    BY <1>2, <2>1 DEF Range
  <2> QED BY <1>1, <2>2, SeqDef
<1>6. IsKept(r) /\ r.what = new.what /\ r.entry = new.entry
  BY KeptExcept
<1>7. Merged(ratios, at, new) = Append(rs, r)
  BY DEF Merged
<1> HIDE DEF rs, r
<1> QED
  BY <1>4, <1>5, <1>6, <1>7 DEF N

\* Before an operand, and before a connector that has been passed over, the last loop's
\* next place is for an estimate.
LEMMA NotEstimated ==
  ASSUME WalkInv, PositionsInv, i < FilterCount
  PROVE  /\ BeforeOperand \/ BeforeNegated \/ BeforeLost \/ BeforeList => Len(ratios) % 2 = 0
         /\ Len(ratios) \in Nat
         /\ i \in Nat
<1>1. Len(ratios) \in Nat /\ (Len(ratios) % 2 = 1 <=> i > 0 /\ Estimated(entries[i]))
  BY LenProperties DEF PositionsInv
<1>2. i \in Nat
  BY DEF WalkInv
<1>3. BeforeOperand \/ BeforeNegated \/ BeforeLost \/ BeforeList => ~(i > 0 /\ Estimated(entries[i]))
  BY <1>2 DEF BeforeOperand, BeforeNegated, BeforeLost, BeforeList, Estimated, Compares, Joins, Negates, TakesPart,
     Orderings
<1>4. Len(ratios) % 2 # 1 => Len(ratios) % 2 = 0
  BY <1>1
<1> QED
  BY <1>1, <1>2, <1>3, <1>4

\* Behind a comparison it is for an estimate only if the comparison adds nothing,
\* and that is the case if and only if its connector is passed over.
LEMMA BehindComparison ==
  ASSUME Good, AllPositioned, TokensInv, WalkInv, PositionsInv, i < FilterCount, BeforeConnector
  PROVE  /\ i + 2 \in 1..FilterCount
         /\ Negates(entries[i + 2]) => Len(ratios) % 2 = 0
         /\ ~Negates(entries[i + 2]) => Len(ratios) % 2 = 1
<1>1. Len(ratios) \in Nat /\ (Len(ratios) % 2 = 1 <=> i > 0 /\ Estimated(entries[i]))
  BY LenProperties DEF PositionsInv
<1>2. i \in 1..FilterCount /\ Compares(entries[i]) /\ i + 2 \in 1..FilterCount
  <2>1. i \in Nat /\ FilterCount \in Nat /\ i > 0 /\ Compares(entries[i])
    BY WalkIndexes DEF BeforeConnector
  <2> QED BY <2>1, Ahead
<1>3. DOMAIN entries = 1..FilterCount /\ Positioned(entries)
  BY EntriesWellFormed DEF TokensInv, AllPositioned, entries, WellFormed, FilterCount
<1>4. AddsNothing(entries[i]) <=> Negates(entries[i + 2])
  BY <1>2, <1>3 DEF Positioned
<1>5. Estimated(entries[i]) <=> ~Negates(entries[i + 2])
  BY <1>2, <1>4 DEF Estimated, Compares
<1>6. Len(ratios) % 2 # 1 => Len(ratios) % 2 = 0
  BY <1>1
<1> QED
  BY <1>1, <1>2, <1>5, <1>6

\* A NOT adds nothing to filterRatio.
LEMMA PositionsNot ==
  ASSUME Good, AllPositioned, TokensInv, WalkInv, PositionsInv, ReadNot
  PROVE  PositionsInv'
<1>1. Walking /\ AtNot /\ Step /\ ratios' = ratios
  BY DEF ReadNot
<1>2. entries' = entries /\ i' = i + 1 /\ i \in Nat /\ i < FilterCount /\ parsed = FilterCount
  BY <1>1, OneOn
<1>3. \/ BeforeOperand /\ Negates(entries[i + 1])
      \/ BeforeConnector /\ Joins(entries[i + 1]) /\ Negates(entries[i + 2])
  BY <1>1, <1>2, NotSeen, Ahead DEF WalkInv
<1>4. Len(ratios) % 2 = 0 /\ ~Estimated(entries[i + 1])
  <2>1. ~Estimated(entries[i + 1])
    BY <1>3 DEF Estimated, Compares, Negates, Joins
  <2>2. Len(ratios) % 2 = 0
    BY <1>2, <1>3, NotEstimated, BehindComparison
  <2> QED BY <2>1, <2>2
<1> QED
  BY <1>1, <1>2, <1>4, NothingAdded

\* A connector is added behind an estimate, or lost where there is none.
LEMMA PositionsConnector ==
  ASSUME Good, AllPositioned, TokensInv, WalkInv, PositionsInv, ReadConnector
  PROVE  PositionsInv'
<1> DEFINE op == Operator(ConnectorIndex)
           n == At(ConnectorIndex).entry
<1>1. Walking /\ Step
  BY DEF ReadConnector
<1>2. /\ entries' = entries /\ i' = i + 1 /\ i \in Nat /\ i + 1 \in 1..FilterCount /\ i < FilterCount
      /\ filter \in DOMAIN Filters
  BY <1>1, OneOn DEF TokensInv
<1>3. CASE BeforeConnector /\ Joins(entries[i + 1]) /\ ~Negates(entries[i + 2])
  <2>1. op \in {"AND", "OR"} /\ n = i + 1
    <3>1. EntryTokens(i + 1)[1] = Token(i + 1, "op", entries[i + 1].op)
      BY <1>2, <1>3, StringsOf DEF Joins
    <3> QED BY <1>3, <3>1, WalkConnector DEF Token, Joins
  <2>2. PICK ratio : ratios' = Append(ratios, Kept(ratio, "connector", n))
    BY <2>1 DEF ReadConnector
  <2>3. Len(ratios) \in Nat /\ Len(ratios) % 2 = 1
    BY <1>2, <1>3, NotEstimated, BehindComparison
  <2>4. (Len(ratios) + 1) % 2 = 0
    BY <2>3
  <2>5. ~Estimated(entries[i + 1])
    BY <1>3 DEF Estimated, Joins, Compares
  <2> DEFINE r == Kept(ratio, "connector", n)
  <2>6. IsKept(r) /\ r.what = "connector" /\ r.entry = i + 1
    BY <2>1, KeptIsKept
  <2>7. \A k \in 1..Len(ratios) : IsKept(ratios[k])
    BY DEF PositionsInv
  <2>8. ratios \in Seq(Range(ratios)) /\ ratios' = Append(ratios, r)
    BY <2>2 DEF PositionsInv
  <2> HIDE DEF r, n, op
  <2> QED BY <1>2, <2>3, <2>4, <2>5, <2>6, <2>7, <2>8, OneAdded
<1>4. CASE BeforeLost /\ Negates(entries[i + 1])
  <2>1. op = "NOT"
    BY <1>4, WalkConnector DEF Negates
  <2>2. ratios' = ratios
    BY <2>1 DEF ReadConnector
  <2>3. Len(ratios) % 2 = 0
    BY <1>2, <1>4, NotEstimated
  <2>4. ~Estimated(entries[i + 1])
    BY <1>4 DEF Estimated, Negates, Compares
  <2> QED BY <1>2, <2>2, <2>3, <2>4, NothingAdded
<1> QED
  BY <1>3, <1>4, WalkConnector

\* The list after a substring is the last entry, and the string read is its own.
LEMMA PositionsList ==
  ASSUME Good, TokensInv, WalkInv, PositionsInv, ReadSubstringList
  PROVE  PositionsInv'
<1> DEFINE n == tokens[Len(tokens)].entry
<1>1. Walking /\ Step
  BY DEF ReadSubstringList
<1>2. /\ entries' = entries /\ i' = i + 1 /\ i \in Nat /\ i + 1 \in 1..FilterCount /\ i < FilterCount
      /\ filter \in DOMAIN Filters /\ parsed = FilterCount /\ parsed > 0
  BY <1>1, OneOn DEF TokensInv
<1>3. BeforeList /\ entries[i + 1].kind = "list" /\ i + 1 = FilterCount
  BY <1>2, WalkList, Ahead
<1>4. n = i + 1
  <2>1. /\ Len(EntryTokens(i + 1)) = 3
        /\ EntryTokens(i + 1)[3] = Token(i + 1, "length", Len(entries[i + 1].values))
    BY <1>2, <1>3, StringsOf
  <2>2. Len(tokens) = Start(entries, i + 1) + 3 /\ parsed = i + 1
    BY <1>2, <1>3, <2>1 DEF TokensInv
  <2>3. 3 \in 1..Len(EntryTokens(i + 1)) /\ i + 1 \in 1..parsed
    BY <1>2, <2>1
  <2>4. tokens[Start(entries, i + 1) + 3] = EntryTokens(i + 1)[3]
    BY <2>3 DEF TokensInv
  <2> QED BY <2>1, <2>2, <2>4 DEF Token
<1>5. PICK ratio : ratios' = Append(ratios, Kept(ratio, "substring", n))
  BY DEF ReadSubstringList
<1>6. Len(ratios) \in Nat /\ Len(ratios) % 2 = 0
  BY <1>2, <1>3, NotEstimated
<1>7. (Len(ratios) + 1) % 2 # 0 /\ Estimated(entries[i + 1])
  BY <1>3, <1>6 DEF Estimated
<1> DEFINE r == Kept(ratio, "substring", n)
<1>8. IsKept(r) /\ r.what = "substring" /\ r.entry = i + 1
  BY <1>4, KeptIsKept
<1>9. (\A k \in 1..Len(ratios) : IsKept(ratios[k])) /\ ratios \in Seq(Range(ratios)) /\ ratios' = Append(ratios, r)
  BY <1>5 DEF PositionsInv
<1> HIDE DEF r, n
<1> QED
  BY <1>2, <1>6, <1>7, <1>8, <1>9, OneAdded

\* A comparison adds one estimate, or none if the connector behind it is lost.
LEMMA PositionsPredicate ==
  ASSUME Good, TokensInv, WalkInv, PositionsInv, ReadPredicate
  PROVE  PositionsInv'
<1> DEFINE k == PredicateIndex
           e == entries[i + 1]
           flips == currentNot /\ e.op \notin NotFlipped
           added == Added(HistogramOf(e.column), e.op, e.type, e.values, ContainsNot)
           new == Kept(IF flips THEN OneMinus(added[1]) ELSE added[1], "estimate", i + 1)
<1>1. Walking /\ ~AtNot /\ substring = 0 /\ itemp % 2 = 0 /\ Step
  BY DEF ReadPredicate
<1>2. /\ Has(k + 1, "column") /\ At(k + 1).value = e.column /\ Operator(k + 2) = e.op
      /\ At(k + 2).entry = i + 1 /\ At(k + 3).value = e.type /\ At(k + 4).value = e.values
  BY <1>1, PartsRead
<1>3. /\ entries' = entries /\ i' = i + 1 /\ i \in Nat /\ i < FilterCount
  BY <1>1, OneOn
<1>4. \/ ratios' = ratios /\ added = <<>>
      \/ ratios' = Append(ratios, new) /\ added # <<>>
      \/ (\E at : ratios' = Merged(ratios, at, new)) /\ added # <<>>
  BY <1>2, Zenon DEF ReadPredicate
<1>5. (BeforeOperand \/ BeforeNegated) /\ (Compares(e) \/ TakesPart(e))
  BY <1>1, OperandRead
<1>6. Estimated(e) <=> added # <<>>
  <2>1. CASE Compares(e)
    BY <2>1, WhatIsAdded DEF Estimated, Compares
  <2>2. CASE TakesPart(e)
    BY <2>2, WhatIsAdded DEF Estimated, Compares, TakesPart, Orderings
  <2> QED BY <1>5, <2>1, <2>2
<1>7. IsKept(new) /\ new.what = "estimate" /\ new.entry = i + 1
  BY KeptIsKept
<1>8. Len(ratios) \in Nat /\ Len(ratios) % 2 = 0 /\ (Len(ratios) + 1) % 2 # 0
  <2>1. Len(ratios) \in Nat /\ Len(ratios) % 2 = 0
    BY <1>3, <1>5, NotEstimated
  <2> QED BY <2>1
<1>9. (\A m \in 1..Len(ratios) : IsKept(ratios[m])) /\ ratios \in Seq(Range(ratios))
  BY DEF PositionsInv
<1> HIDE DEF added, new, k, flips
<1>10. CASE ratios' = ratios /\ added = <<>>
  BY <1>3, <1>6, <1>8, <1>10, NothingAdded DEF e
<1>11. CASE ratios' = Append(ratios, new) /\ added # <<>>
  BY <1>3, <1>6, <1>7, <1>8, <1>9, <1>11, OneAdded DEF e
<1>12. CASE (\E at : ratios' = Merged(ratios, at, new)) /\ added # <<>>
  <2>1. PICK at : ratios' = Merged(ratios, at, new)
    BY <1>12
  <2>2. PICK rs, r :
          /\ rs \in Seq(Range(rs)) /\ Len(rs) = Len(ratios)
          /\ \A m \in 1..Len(ratios) : IsKept(rs[m]) /\ rs[m].what = ratios[m].what /\ rs[m].entry = ratios[m].entry
          /\ IsKept(r) /\ r.what = new.what /\ r.entry = new.entry
          /\ Merged(ratios, at, new) = Append(rs, r)
    BY <1>7, MergedKeeps
  <2> QED BY <1>3, <1>6, <1>7, <1>8, <1>12, <2>1, <2>2, OneAdded DEF e
<1> QED
  BY <1>4, <1>10, <1>11, <1>12

\* PositionsInv survives every step.
LEMMA PositionsStep ==
  Good /\ AllPositioned /\ TokensInv /\ WalkInv /\ PositionsInv /\ [Next]_vars => PositionsInv'
<1> SUFFICES ASSUME Good, AllPositioned, TokensInv, WalkInv, PositionsInv, [Next]_vars PROVE PositionsInv'
  OBVIOUS
<1>1. CASE ParseEntry \/ CombineOne \/ UNCHANGED vars
  <2>1. ratios' = ratios /\ i' = i /\ entries' = entries
    BY <1>1 DEF ParseEntry, CombineOne, vars, walk, entries
  <2> QED BY <2>1, Zenon DEF PositionsInv
<1> QED
  BY <1>1, PositionsNot, PositionsList, PositionsPredicate, PositionsConnector DEF Next, Done

\* Of the filters in which nothing is added exactly where a connector is lost: the ratios the
\* last loop takes by their positions for estimates and for connectors are these, in the order of
\* the filter's entries, and their number is odd.
THEOREM Positions ==
  ASSUME Good, AllPositioned
  PROVE  Spec => []CombinesByPosition
<1>1. Init => TokensInv /\ WalkInv /\ PositionsInv
  <2>1. Init => PositionsInv
    BY DEF Init, PositionsInv
  <2> QED BY <2>1, TokensInit, WalkInit
<1>2. TokensInv /\ WalkInv /\ PositionsInv /\ [Next]_vars => TokensInv' /\ WalkInv' /\ PositionsInv'
  BY WalkStep, PositionsStep
<1>3. TokensInv /\ WalkInv /\ PositionsInv => CombinesByPosition
  <2> SUFFICES ASSUME TokensInv, WalkInv, PositionsInv, i = FilterCount, parsed = FilterCount
               PROVE  /\ Len(ratios) % 2 = 1
                      /\ \A k \in DOMAIN ratios : k % 2 = 0 <=> ratios[k].what = "connector"
                      /\ \A k \in 2..Len(ratios) : ratios[k - 1].entry < ratios[k].entry
    BY DEF CombinesByPosition
  <2>1. /\ WellFormed(entries) /\ Positioned(entries) /\ FilterCount \in Nat \ {0}
        /\ DOMAIN entries = 1..FilterCount
    BY EntriesWellFormed DEF TokensInv, AllPositioned, entries, WellFormed, FilterCount
  <2>2. Estimated(entries[i])
    <3>1. Compares(entries[i]) \/ entries[i].kind = "list"
      BY <2>1, Shape DEF FilterCount
    <3>2. Compares(entries[i]) => ~AddsNothing(entries[i])
      BY <2>1 DEF Positioned
    <3> QED BY <3>1, <3>2 DEF Estimated
  <2>3. DOMAIN ratios = 1..Len(ratios)
    BY LenProperties DEF PositionsInv
  <2> QED BY <2>1, <2>2, <2>3 DEF PositionsInv
<1> QED
  BY <1>1, <1>2, <1>3, PTL DEF Spec
-----------------------------------------------------------------------------
(***************************************************************************)
(* The rows in buckets.                                                    *)
(***************************************************************************)
\* A histogram counts finitely many rows.
LEMMA RowsFinite ==
  ASSUME NEW w \in [Values -> Nat]
  PROVE  IsFiniteSet(RowsIn(w, Values))
<1> DEFINE inBucket == [v \in Values |-> {v} \X (1..w[v])]
           buckets == {inBucket[v] : v \in Values}
<1>1. IsFiniteSet(Values)
  BY DomainAssumption, FS_Interval DEF Values
<1>2. inBucket \in Surjection(Values, buckets)
  BY DEF Surjection
<1>3. IsFiniteSet(buckets)
  BY <1>1, <1>2, FS_Surjection
<1>4. ASSUME NEW v \in Values PROVE IsFiniteSet({v} \X (1..w[v]))
  <2>1. IsFiniteSet({v})
    BY FS_Singleton
  <2>2. 1 \in Int /\ w[v] \in Int
    OBVIOUS
  <2>3. IsFiniteSet(1..w[v])
    BY <2>2, FS_Interval
  <2> QED BY <2>1, <2>3, FS_Product
<1>5. \A B \in buckets : IsFiniteSet(B)
  BY <1>4
<1>6. RowsIn(w, Values) = UNION buckets
  BY DEF RowsIn
<1> HIDE DEF buckets
<1> QED BY <1>3, <1>5, <1>6, FS_UNION

\* Some of the rows are no more than all.
LEMMA RowsOfSome ==
  ASSUME NEW w \in [Values -> Nat], NEW S
  PROVE  /\ IsFiniteSet(RowsIn(w, S))
         /\ Cardinality(RowsIn(w, S)) \in Nat /\ Cardinality(RowsIn(w, Values)) \in Nat
         /\ Cardinality(RowsIn(w, S)) <= Cardinality(RowsIn(w, Values))
<1>1. IsFiniteSet(RowsIn(w, Values))
  BY RowsFinite
<1>2. RowsIn(w, S) \in SUBSET RowsIn(w, Values)
  BY DEF RowsIn
<1> QED BY <1>1, <1>2, FS_Subset, FS_CardinalityType

\* Two sets of values have the rows of both, and those they share twice.
LEMMA RowsOfBoth ==
  ASSUME NEW w \in [Values -> Nat], NEW S, NEW T
  PROVE  /\ Cardinality(RowsIn(w, S \cup T)) <= Cardinality(RowsIn(w, S)) + Cardinality(RowsIn(w, T))
         /\ S \cap T = {} =>
              Cardinality(RowsIn(w, S \cup T)) = Cardinality(RowsIn(w, S)) + Cardinality(RowsIn(w, T))
<1>1. RowsIn(w, S \cup T) = RowsIn(w, S) \cup RowsIn(w, T)
  BY DEF RowsIn
<1>2. /\ IsFiniteSet(RowsIn(w, S)) /\ Cardinality(RowsIn(w, S)) \in Nat
      /\ IsFiniteSet(RowsIn(w, T)) /\ Cardinality(RowsIn(w, T)) \in Nat
  BY RowsOfSome
<1>3. /\ Cardinality(RowsIn(w, S \cup T)) = Cardinality(RowsIn(w, S)) + Cardinality(RowsIn(w, T))
                                            - Cardinality(RowsIn(w, S) \cap RowsIn(w, T))
      /\ Cardinality(RowsIn(w, S) \cap RowsIn(w, T)) \in Nat
  BY <1>1, <1>2, FS_Union, FS_Intersection, FS_CardinalityType
<1>4. ASSUME S \cap T = {} PROVE Cardinality(RowsIn(w, S) \cap RowsIn(w, T)) = 0
  <2>1. RowsIn(w, S) \cap RowsIn(w, T) = {}
    <3> SUFFICES ASSUME NEW r \in RowsIn(w, S), r \in RowsIn(w, T) PROVE FALSE
      OBVIOUS
    <3>1. PICK v \in S : r \in {v} \X (1..w[v])
      BY DEF RowsIn
    <3>2. PICK u \in T : r \in {u} \X (1..w[u])
      BY DEF RowsIn
    <3>3. r[1] = v /\ r[1] = u
      BY <3>1, <3>2
    <3> QED BY <1>4, <3>3
  <2> QED BY <2>1, FS_EmptySet
<1> QED BY <1>2, <1>3, <1>4

\* A column without buckets has each value once.
OneEach == [v \in Values |-> 1]

\* These are Domain rows, one of each value.
LEMMA EachOnce ==
  /\ OneEach \in [Values -> Nat]
  /\ Cardinality(RowsIn(OneEach, Values)) = Domain
  /\ \A x \in Values : Cardinality(RowsIn(OneEach, {x})) = 1
<1>1. OneEach \in [Values -> Nat]
  BY DEF OneEach
<1>2. \A S : RowsIn(OneEach, S) = (Values \cap S) \X {1}
  <2>1. 1..1 = {1}
    OBVIOUS
  <2>2. \A v \in Values : {v} \X (1..OneEach[v]) = {<<v, 1>>}
    BY <2>1 DEF OneEach
  <2> QED BY <2>2 DEF RowsIn
<1>3. IsFiniteSet(Values) /\ Cardinality(Values) = Domain
  BY DomainAssumption, FS_Interval DEF Values
<1>4. IsFiniteSet({1}) /\ Cardinality({1}) = 1
  BY FS_Singleton
<1>5. Cardinality(Values \X {1}) = Domain * 1 /\ Values \cap Values = Values
  BY <1>3, <1>4, FS_Product
<1>6. Cardinality(RowsIn(OneEach, Values)) = Domain
  BY <1>2, <1>5, DomainAssumption
<1>7. ASSUME NEW x \in Values PROVE Cardinality(RowsIn(OneEach, {x})) = 1
  <2>1. Values \cap {x} = {x} /\ {x} \X {1} = {<<x, 1>>}
    OBVIOUS
  <2> QED BY <1>2, <2>1, FS_Singleton
<1> QED BY <1>1, <1>6, <1>7

-----------------------------------------------------------------------------
(***************************************************************************)
(* What the arithmetic makes of shares.                                    *)
(***************************************************************************)
\* The product of positive numbers, and of smaller ones.
LEMMA Products ==
  ASSUME NEW a \in Nat, NEW b \in Nat \ {0}, NEW c \in Nat, NEW d \in Nat \ {0}
  PROVE  /\ a * c \in Nat /\ b * d \in Nat \ {0}
         /\ a <= b /\ c <= d => a * c <= b * d
<1>1. a * c \in Nat /\ b * d \in Nat /\ b * c \in Nat
  OBVIOUS
<1>2. b * d # 0
  <2>1. b >= 1 /\ d >= 1
    OBVIOUS
  <2>2. b * d >= b
    BY <2>1
  <2> QED BY <1>1, <2>1, <2>2
<1>3. a <= b => a * c <= b * c
  <2> SUFFICES ASSUME a <= b PROVE a * c <= b * c
    OBVIOUS
  <2>1. PICK x \in Nat : b = a + x
    <3>1. b - a \in Nat /\ b = a + (b - a)
      OBVIOUS
    <3> QED BY <3>1
  <2>2. b * c = a * c + x * c /\ x * c \in Nat
    BY <2>1
  <2> QED BY <1>1, <2>2
<1>4. c <= d => b * c <= b * d
  <2> SUFFICES ASSUME c <= d PROVE b * c <= b * d
    OBVIOUS
  <2>1. PICK x \in Nat : d = c + x
    <3>1. d - c \in Nat /\ d = c + (d - c)
      OBVIOUS
    <3> QED BY <3>1
  <2>2. b * d = b * c + b * x /\ b * x \in Nat
    BY <2>1
  <2> QED BY <1>1, <2>2
<1> QED BY <1>1, <1>2, <1>3, <1>4

\* A share of a share is a share.
LEMMA TimesShare ==
  ASSUME NEW r, NEW s, IsFraction(r), IsFraction(s)
  PROVE  IsFraction(TimesRatio(r, s)) /\ (IsShare(r) /\ IsShare(s) => IsShare(TimesRatio(r, s)))
<1>1. TimesRatio(r, s).num = r.num * s.num /\ TimesRatio(r, s).den = r.den * s.den
  BY DEF TimesRatio, Frac
<1>2. r.num \in Nat /\ s.num \in Nat /\ r.den \in Nat \ {0} /\ s.den \in Nat \ {0}
  BY DEF IsFraction
<1>3. /\ r.num * s.num \in Nat /\ r.den * s.den \in Nat \ {0}
      /\ r.num <= r.den /\ s.num <= s.den => r.num * s.num <= r.den * s.den
  BY <1>2, Products
<1> QED BY <1>1, <1>3 DEF IsFraction, IsShare

\* What is left of a share is one.
LEMMA RestShare ==
  ASSUME NEW r, IsShare(r)
  PROVE  IsShare(OneMinus(r))
<1>1. r.num \in Nat /\ r.den \in Nat \ {0} /\ r.num <= r.den
  BY DEF IsShare, IsFraction
<1>2. r.den - r.num \in Nat /\ r.den - r.num <= r.den
  BY <1>1
<1>3. OneMinus(r).num = r.den - r.num /\ OneMinus(r).den = r.den
  BY DEF OneMinus, Frac
<1> QED BY <1>1, <1>2, <1>3 DEF IsShare, IsFraction

\* Two shares of one whole that make up more than it share a part of it.
LEMMA SharedShare ==
  ASSUME NEW r, NEW s, IsShare(r), IsShare(s), r.den = s.den, r.den <= r.num + s.num
  PROVE  IsShare(Shared(r, s))
<1> DEFINE a == r.num
           b == s.num
           c == r.den
           both == PlusRatio(r, s)
           left == PlusRatio(both, Frac(-1, 1))
<1>1. a \in Nat /\ b \in Nat /\ c \in Nat \ {0} /\ a <= c /\ b <= c /\ c <= a + b
  BY DEF IsShare, IsFraction
<1>2. both.num = a + b /\ both.den = c
  BY DEF PlusRatio, Frac
<1>3. left.num = a + b - c /\ left.den = c
  <2>1. Frac(-1, 1).num = -1 /\ Frac(-1, 1).den = 1
    BY DEF Frac
  <2>2. CASE c = 1
    <3>1. left = Frac(both.num + (-1), both.den)
      BY <1>2, <2>1, <2>2 DEF PlusRatio
    <3>2. left.num = both.num + (-1) /\ left.den = both.den
      BY <3>1 DEF Frac
    <3> HIDE DEF left, both, a, b, c
    <3> QED BY <1>1, <1>2, <2>2, <3>2
  <2>3. CASE c # 1
    <3>1. left = Frac(both.num * 1 + (-1) * both.den, both.den * 1)
      BY <1>2, <2>1, <2>3 DEF PlusRatio
    <3>2. left.num = both.num * 1 + (-1) * both.den /\ left.den = both.den * 1
      BY <3>1 DEF Frac
    <3> HIDE DEF left, both, a, b, c
    <3>3. (a + b) * 1 + (-1) * c = a + b - c /\ c * 1 = c
      BY <1>1
    <3> QED BY <1>2, <3>2, <3>3
  <2> QED BY <2>2, <2>3
<1>4. Shared(r, s) = left
  BY DEF Shared
<1> HIDE DEF left, both, a, b, c
<1>5. a + b - c \in Nat /\ a + b - c <= c
  BY <1>1
<1> QED BY <1>1, <1>3, <1>4, <1>5 DEF IsShare, IsFraction

-----------------------------------------------------------------------------
(***************************************************************************)
(* The estimate of a comparison.                                           *)
(***************************************************************************)
\* What a histogram counts.
LEMMA Counts ==
  ASSUME NEW c, NEW w \in Weights, NEW h, h = Histogram(c, w)
  PROVE  /\ h.buckets \in [Values -> Nat] /\ h.count \in Nat \ {0}
         /\ h.identifier <=> c \in Identifiers
         /\ c \in Identifiers => h.count = Domain
         /\ c \notin Identifiers \cup Understated => h.count = Cardinality(RowsIn(h.buckets, Values))
         /\ c \in Identifiers => \A S : Cardinality(RowsIn(h.buckets, S)) = 0
<1>1. w \in [Values -> Nat] /\ Cardinality(RowsIn(w, Values)) \in Nat /\ Cardinality(RowsIn(w, Values)) > 1
  <2>1. w \in [Values -> Nat] /\ Cardinality(RowsIn(w, Values)) > 1
    BY WeightsAssumption
  <2> QED BY <2>1, RowsOfSome
<1>2. CASE c \in Identifiers
  <2> DEFINE none == [v \in Values |-> 0]
  <2>1. h = [identifier |-> TRUE, buckets |-> none, count |-> Domain]
    BY <1>2 DEF Histogram
  <2>2. none \in [Values -> Nat]
    OBVIOUS
  <2>3. ASSUME NEW S PROVE RowsIn(none, S) = {}
    <3>1. \A v \in Values : 1..none[v] = {}
      OBVIOUS
    <3> HIDE DEF none
    <3> QED BY <3>1 DEF RowsIn
  <2>4. Domain \in Nat \ {0}
    BY DomainAssumption
  <2> HIDE DEF none
  <2>5. h.buckets = none /\ h.count = Domain /\ h.identifier = TRUE
    BY <2>1
  <2>6. \A S : Cardinality(RowsIn(none, S)) = 0
    BY <2>3, FS_EmptySet, Zenon
  <2> QED BY <1>2, <2>2, <2>4, <2>5, <2>6
<1>3. CASE c \notin Identifiers
  <2> DEFINE all == Cardinality(RowsIn(w, Values))
  <2>1. h = [identifier |-> FALSE, buckets |-> w, count |-> all \div (IF c \in Understated THEN 2 ELSE 1)]
    BY <1>3 DEF Histogram
  <2>2. h.buckets = w /\ h.identifier = FALSE /\ h.count = all \div (IF c \in Understated THEN 2 ELSE 1)
    BY <2>1
  <2> HIDE DEF all
  <2>3. all \in Nat /\ all > 1
    BY <1>1 DEF all
  <2>4. all \div 2 \in Nat \ {0} /\ all \div 1 = all
    BY <2>3
  <2>5. h.count \in Nat \ {0} /\ (c \notin Understated => h.count = all)
    BY <2>2, <2>3, <2>4
  <2> QED BY <1>1, <1>3, <2>2, <2>5 DEF all
<1> QED BY <1>2, <1>3

\* The rows of any values are a share of the rows counted.
LEMMA InBucketsShare ==
  ASSUME NEW c, NEW w \in Weights, NEW h, h = Histogram(c, w), NEW S
  PROVE  IsFraction(InBuckets(h, S)) /\ (c \notin Understated => IsShare(InBuckets(h, S)))
<1> DEFINE n == Cardinality(RowsIn(h.buckets, S))
<1>1. h.buckets \in [Values -> Nat] /\ h.count \in Nat \ {0}
  BY Counts
<1>2. n \in Nat /\ n <= Cardinality(RowsIn(h.buckets, Values))
  BY <1>1, RowsOfSome
<1>3. c \notin Understated => n <= h.count
  <2>1. CASE c \in Identifiers
    <3>1. n = 0
      BY <2>1, Counts, Zenon
    <3> QED BY <1>1, <3>1
  <2>2. CASE c \notin Identifiers
    BY <1>2, <2>2, Counts
  <2> QED BY <2>1, <2>2
<1>4. InBuckets(h, S).num = n /\ InBuckets(h, S).den = h.count
  BY DEF InBuckets, Frac
<1> QED BY <1>1, <1>2, <1>3, <1>4 DEF IsFraction, IsShare

\* A fraction of two numbers.
LEMMA FracShare ==
  ASSUME NEW a \in Nat, NEW b \in Nat \ {0}, a <= b
  PROVE  IsShare(Frac(a, b)) /\ IsFraction(Frac(a, b))
BY DEF IsShare, IsFraction, Frac

\* What is estimated without a histogram.
LEMMA UpwardsShare ==
  ASSUME NEW v \in 2..Domain
  PROVE  IsShare(FromValueUp(v)) /\ IsFraction(FromValueUp(v))
<1>1. Domain - v + 1 \in Nat /\ Domain - 1 \in Nat \ {0} /\ Domain - v + 1 <= Domain - 1
  BY DomainAssumption
<1> QED BY <1>1, FracShare DEF FromValueUp

\* An ordering compares with a constant where it does not add up buckets.
LEMMA OrderingShare ==
  ASSUME NEW e, e.op \in Orderings, e.type # "string", Estimable(e),
         NEW w \in Weights, NEW h, h = Histogram(e.column, w)
  PROVE  \E r : /\ Ordering(h, e.op, e.type, e.values) = <<r>> /\ IsFraction(r)
                /\ e.column \notin Understated => IsShare(r)
<1>1. CASE e.type = "column"
  <2>1. Ordering(h, e.op, e.type, e.values) = <<CompareRatio>>
    BY <1>1 DEF Ordering
  <2> QED BY <2>1, ConstantsAssumption DEF IsShare
<1>2. CASE e.type # "column"
  <2>1. Ordering(h, e.op, e.type, e.values) = <<Bounded(h, e.op, e.values[1])>>
    BY <1>2 DEF Ordering
  <2>2. CASE e.column \in Identifiers
    <3>1. e.values[1] \in 2..Domain
      BY <1>2, <2>2 DEF Estimable
    <3>2. Bounded(h, e.op, e.values[1]) = FromValueUp(e.values[1])
      BY <2>2, Counts DEF Bounded
    <3> QED BY <2>1, <3>1, <3>2, UpwardsShare
  <2>3. CASE e.column \notin Identifiers
    <3>1. Bounded(h, e.op, e.values[1]) = InBuckets(h, Passing(e.op, e.values[1]))
      BY <2>3, Counts DEF Bounded
    <3> QED BY <2>1, <3>1, InBucketsShare
  <2> QED BY <2>2, <2>3
<1> QED BY <1>1, <1>2

\* So is the estimate of any comparison.
LEMMA AddedShare ==
  ASSUME NEW e, Compares(e), ~AddsNothing(e), Estimable(e),
         NEW w \in Weights, NEW h, h = Histogram(e.column, w), NEW negating,
         negating => ~(e.op \in Orderings /\ e.type = "column")
  PROVE  \E r : /\ Added(h, e.op, e.type, e.values, negating) = <<r>> /\ IsFraction(r)
                /\ e.column \notin Understated => IsShare(r)
<1> DEFINE added == Added(h, e.op, e.type, e.values, negating)
           Fine(r) == IsFraction(r) /\ (e.column \notin Understated => IsShare(r))
<1>1. h.identifier <=> e.column \in Identifiers
  BY Counts
<1>2. \A S : Fine(InBuckets(h, S))
  BY InBucketsShare
<1>3. ASSUME h.identifier PROVE h.count = Domain /\ Domain \in Nat \ {0, 1}
  BY <1>1, <1>3, Counts, DomainAssumption
<1>4. CASE e.op \in Orderings
  <2>1. added = Ordering(h, e.op, e.type, e.values)
    <3>1. added = IF negating THEN OrderingInNot(h, e.op, e.type, e.values) ELSE Ordering(h, e.op, e.type, e.values)
      BY <1>4 DEF Added, Orderings
    <3>2. negating => OrderingInNot(h, e.op, e.type, e.values) = Ordering(h, e.op, e.type, e.values)
      BY <1>4 DEF OrderingInNot
    <3> QED BY <3>1, <3>2
  <2>2. e.type # "string"
    BY <1>4 DEF AddsNothing
  <2> QED BY <1>4, <2>1, <2>2, OrderingShare
<1>5. CASE e.op = "EQ"
  <2>1. added = <<Equal(h, e.type, e.values)>>
    BY <1>5 DEF Added
  <2>2. CASE ~h.identifier
    <3>1. Equal(h, e.type, e.values) = InBuckets(h, {e.values[1]})
      BY <2>2 DEF Equal
    <3> QED BY <1>2, <2>1, <3>1
  <2>3. CASE h.identifier /\ e.type = "string"
    <3>1. Equal(h, e.type, e.values) = Frac(1, h.count) /\ 1 <= h.count /\ h.count \in Nat \ {0}
      BY <1>3, <2>3 DEF Equal
    <3> QED BY <2>1, <3>1, FracShare
  <2>4. CASE h.identifier /\ e.type # "string"
    <3>1. Equal(h, e.type, e.values) = FromValueUp(e.values[1])
      BY <2>4 DEF Equal
    <3>2. e.values[1] \in 2..Domain
      BY <1>1, <1>5, <2>4 DEF Estimable
    <3> QED BY <2>1, <3>1, <3>2, UpwardsShare
  <2> QED BY <2>2, <2>3, <2>4
<1>6. CASE e.op = "LIKE"
  <2>1. added = <<Like(h, e.values, negating)>>
    BY <1>6 DEF Added
  <2>2. Like(h, e.values, negating) \in {NoMatchRatio, InBuckets(h, ToSet(e.values))}
    BY DEF Like
  <2>3. Fine(NoMatchRatio)
    BY ConstantsAssumption DEF IsShare
  <2> QED BY <1>2, <2>1, <2>2, <2>3
<1>7. CASE e.op = "BETWEEN"
  <2>1. added = <<Between(h, e.values)>>
    BY <1>7 DEF Added
  <2>2. CASE h.identifier
    <3> DEFINE a == e.values[1]
               b == e.values[2]
    <3>1. a \in Values /\ b \in a..Domain
      BY <1>1, <1>7, <2>2 DEF Estimable
    <3>2. Between(h, e.values) = Frac(b - a, Domain - 1)
      BY <2>2 DEF Between
    <3> HIDE DEF a, b
    <3>3. b - a \in Nat /\ Domain - 1 \in Nat \ {0} /\ b - a <= Domain - 1
      BY <1>3, <2>2, <3>1 DEF Values
    <3> QED BY <2>1, <3>2, <3>3, FracShare
  <2>3. CASE ~h.identifier
    BY <1>2, <2>1, <2>3 DEF Between
  <2> QED BY <2>2, <2>3
<1>8. CASE e.op = "IN"
  <2>1. added = <<InList(h, e.values)>>
    BY <1>8 DEF Added
  <2>2. CASE h.identifier
    <3> DEFINE n == Len(e.values)
    <3>1. n \in 0..Domain
      BY <1>1, <1>8, <2>2 DEF Estimable
    <3>2. InList(h, e.values) = Frac(n \div h.count, 1)
      BY <2>2 DEF InList
    <3> HIDE DEF n
    <3>3. n \div Domain \in Nat /\ n \div Domain <= 1
      <4>1. CASE n = Domain
        <5>1. Domain \div Domain = 1
          BY <1>3, <2>2
        <5> QED BY <4>1, <5>1
      <4>2. CASE n # Domain
        <5>1. n \in Nat /\ n < Domain /\ Domain \in Nat \ {0}
          BY <1>3, <2>2, <3>1, <4>2
        <5>2. n \div Domain = 0
          BY <5>1
        <5> QED BY <5>2
      <4> QED BY <4>1, <4>2
    <3> QED BY <1>3, <2>1, <2>2, <3>2, <3>3, FracShare
  <2>3. CASE ~h.identifier
    BY <1>2, <2>1, <2>3 DEF InList
  <2> QED BY <2>2, <2>3
<1> QED
  BY <1>4, <1>5, <1>6, <1>7, <1>8 DEF Compares, AddsNothing

-----------------------------------------------------------------------------
(***************************************************************************)
(* Every ratio is a share.  The sum of the two ends of a range is one only *)
(* if the ratio it is taken from is still the estimate of the other end,   *)
(* so that, in a filter without NOT, filterRatio has the estimate of an    *)
(* entry at the entry's own place until another end comes.                 *)
(***************************************************************************)
AllSound == \A f \in DOMAIN Filters : Sound(Filters[f])

Negated == HasOp(entries, "NOT")
Alternated == HasOp(entries, "OR")

HistInv == \A c \in ColumnsOf(filter) : \E w \in Weights : hist[c] = Histogram(c, w)

\* The columns listed are of the comparisons read, in their order.
ListedFrom(t, m) ==
  /\ m \in 1..i /\ entries[m].kind = "predicate" /\ entries[m].column = tableList[t]
  /\ ~Negated => m = 2 * t - 1

TableInv == \A t \in 1..Len(tableList) : \E m \in 1..i : ListedFrom(t, m)

SubstringInv ==
  substring > 0 => i > 0 /\ TakesPart(entries[i]) /\ substring = entries[i].values[1]

\* The last entry read is the first of the two that add one ratio, or the second.
InSubstring == i > 0 /\ (TakesPart(entries[i]) \/ entries[i].kind = "list")

StepInv == ~Negated => notCount = 0 /\ Len(ratios) = IF InSubstring THEN i - 1 ELSE i

RatioFine(r, k) ==
  /\ IsFraction(r) /\ (~OnUnderstated => IsShare(r))
  /\ k % 2 = 0 => r.den = 1 /\ r.num = IF Alternated THEN 0 ELSE 1

RatioInv == \A k \in 1..Len(ratios) : RatioFine(ratios[k], k)

EstimateOf(n) == Added(HistogramOf(Column(n)), entries[n].op, entries[n].type, entries[n].values, FALSE)

OtherEndRead(n, m) ==
  /\ entries[n].op \in Orderings
  /\ \E p \in 1..m \ {n} : entries[p].kind = "predicate" /\ entries[p].column = Column(n)

HasEstimate(r, n) == \E x : EstimateOf(n) = <<x>> /\ r.num = x.num /\ r.den = x.den

AtItsPlace(r, n, m) ==
  /\ entries[n].kind = "connector" <=> r.what = "connector"
  /\ Compares(entries[n]) => OtherEndRead(n, m) \/ HasEstimate(r, n)

PlaceInv == ~Negated => \A n \in 1..Len(ratios) : AtItsPlace(ratios[n], n, i)

\* The strings that are operators are those of the entries.
LEMMA OpsOf ==
  ASSUME Good, filter \in DOMAIN Filters, NEW n \in 1..FilterCount, NEW t \in Range(EntryTokens(n)), t.part = "op"
  PROVE  t.value = entries[n].op
<1>1. entries[n].kind \in {"predicate", "connector", "list"}
  BY EntriesWellFormed, Shape DEF FilterCount
<1>2. CASE entries[n].kind = "predicate"
  <2>1. EntryTokens(n) =
          <<Token(n, "lvType", <<>>), Token(n, "column", entries[n].column), Token(n, "op", entries[n].op),
            Token(n, "rvType", entries[n].type), Token(n, "value", entries[n].values)>>
    BY <1>2 DEF EntryTokens
  <2>2. t \in {Token(n, "lvType", <<>>), Token(n, "column", entries[n].column), Token(n, "op", entries[n].op),
               Token(n, "rvType", entries[n].type), Token(n, "value", entries[n].values)}
    BY <2>1 DEF Range
  <2> QED BY <2>2 DEF Token
<1>3. CASE entries[n].kind = "connector"
  <2>1. EntryTokens(n) = <<Token(n, "op", entries[n].op)>>
    BY <1>3 DEF EntryTokens
  <2>2. t = Token(n, "op", entries[n].op)
    BY <2>1 DEF Range
  <2> QED BY <2>2 DEF Token
<1>4. CASE entries[n].kind = "list"
  <2>1. EntryTokens(n) =
          <<Token(n, "op", entries[n].op), Token(n, "rvType", entries[n].type), Token(n, "length", Len(entries[n].values))>>
    BY <1>4 DEF EntryTokens
  <2>2. t \in {Token(n, "op", entries[n].op), Token(n, "rvType", entries[n].type),
               Token(n, "length", Len(entries[n].values))}
    BY <2>1 DEF Range
  <2> QED BY <2>2 DEF Token
<1> QED BY <1>1, <1>2, <1>3, <1>4

\* Only an entry NOT makes the filter one with NOT.
LEMMA NotContained ==
  ASSUME Good, TokensInv, ContainsNot
  PROVE  Negated
<1>1. PICK k \in DOMAIN tokens : Operator(k - 1) = "NOT"
  BY DEF ContainsNot
<1>2. k \in 1..Len(tokens) /\ tokens \in Seq(Strings) /\ filter \in DOMAIN Filters
  BY LenProperties DEF TokensInv
<1>3. tokens[k] \in Strings /\ (k - 1) + 1 = k
  BY <1>2, ElementOfSeq
<1>4. PICK n \in 1..FilterCount : tokens[k] \in Range(EntryTokens(n))
  BY <1>3 DEF Strings
<1>5. tokens[k].part = "op" /\ tokens[k].value = "NOT"
  BY <1>1, <1>3 DEF Operator, Has, At
<1>6. entries[n].op = "NOT"
  BY <1>2, <1>4, <1>5, OpsOf
<1>7. n \in DOMAIN entries
  BY <1>2, EntriesWellFormed, Shape DEF FilterCount
<1> QED BY <1>6, <1>7 DEF Negated, HasOp

\* The filter and its histograms stay.
FrameOf == filter' = filter /\ hist' = hist

\* No step changes them.
LEMMA Frame ==
  ASSUME [Next]_vars
  PROVE  FrameOf /\ entries' = entries /\ FilterCount' = FilterCount
<1>1. filter' = filter /\ hist' = hist
  BY DEF Next, vars, ParseEntry, ReadNot, ReadSubstringList, ReadPredicate, ReadConnector, CombineOne, Done, Step
<1> QED BY <1>1 DEF FrameOf, entries, FilterCount

\* And with them what is said of the filter.
LEMMA FrameKeeps ==
  ASSUME FrameOf
  PROVE  /\ entries' = entries /\ FilterCount' = FilterCount
         /\ Negated' <=> Negated
         /\ Alternated' <=> Alternated
         /\ OnUnderstated' <=> OnUnderstated
         /\ HistInv' <=> HistInv
         /\ \A r, k : RatioFine(r, k)' <=> RatioFine(r, k)
         /\ \A n : EstimateOf(n)' = EstimateOf(n)
         /\ \A r, n, m : AtItsPlace(r, n, m)' <=> AtItsPlace(r, n, m)
<1>1. filter' = filter /\ hist' = hist /\ entries' = entries /\ FilterCount' = FilterCount
  BY DEF FrameOf, entries, FilterCount
<1>2. (Negated' <=> Negated) /\ (Alternated' <=> Alternated)
  BY <1>1 DEF Negated, Alternated
<1>3. ColumnsOf(filter)' = ColumnsOf(filter)
  BY <1>1 DEF ColumnsOf
<1>4. (OnUnderstated' <=> OnUnderstated) /\ (HistInv' <=> HistInv)
  BY <1>1, <1>3 DEF OnUnderstated, HistInv
<1>5. ASSUME NEW r, NEW k PROVE RatioFine(r, k)' <=> RatioFine(r, k)
  BY <1>2, <1>4 DEF RatioFine
<1>6. ASSUME NEW n PROVE EstimateOf(n)' = EstimateOf(n)
  BY <1>1 DEF EstimateOf, HistogramOf, Column, Added, OrderingInNot
<1>7. ASSUME NEW r, NEW n, NEW m PROVE AtItsPlace(r, n, m)' <=> AtItsPlace(r, n, m)
  BY <1>1, <1>6 DEF AtItsPlace, OtherEndRead, HasEstimate, Column
<1> QED BY <1>1, <1>2, <1>4, <1>5, <1>6, <1>7

\* Longer by one.
LEMMA AppendTo ==
  ASSUME NEW rs, rs \in Seq(Range(rs)), NEW r
  PROVE  /\ Len(rs) \in Nat /\ Len(Append(rs, r)) = Len(rs) + 1
         /\ \A k \in 1..Len(rs) : Append(rs, r)[k] = rs[k]
         /\ Append(rs, r)[Len(rs) + 1] = r
<1> DEFINE S == Range(rs) \cup {r}
<1>1. rs \in Seq(S) /\ r \in S
  BY SeqMonotonic
<1> HIDE DEF S
<1> QED BY <1>1, AppendProperties, LenProperties

\* The filter chosen is well-formed and sound.
LEMMA SoundEntries ==
  ASSUME Good, AllPositioned, AllSound, filter \in DOMAIN Filters
  PROVE  /\ WellFormed(entries) /\ Positioned(entries) /\ Sound(entries)
         /\ DOMAIN entries = 1..FilterCount /\ FilterCount \in Nat \ {0}
BY EntriesWellFormed, Shape DEF AllPositioned, AllSound, entries, FilterCount

\* An entry more is read.
LEMMA StillAtItsPlace ==
  ASSUME i \in Nat, NEW r, NEW n, AtItsPlace(r, n, i)
  PROVE  AtItsPlace(r, n, i + 1)
<1>1. 1..i \subseteq 1..i + 1
  OBVIOUS
<1>2. OtherEndRead(n, i) => OtherEndRead(n, i + 1)
  BY <1>1 DEF OtherEndRead
<1> QED BY <1>2 DEF AtItsPlace

\* Only the numbers of a ratio and what it is for matter.
LEMMA SameNumbers ==
  ASSUME NEW r, NEW s, r.num = s.num, r.den = s.den
  PROVE  /\ \A k : RatioFine(r, k) => RatioFine(s, k)
         /\ \A n, m : r.what = s.what /\ AtItsPlace(r, n, m) => AtItsPlace(s, n, m)
         /\ IsShare(r) => IsShare(s)
<1>1. (IsFraction(r) => IsFraction(s)) /\ (IsShare(r) => IsShare(s))
  BY DEF IsFraction, IsShare
<1>2. \A k : RatioFine(r, k) => RatioFine(s, k)
  BY <1>1 DEF RatioFine
<1>3. \A n : HasEstimate(r, n) => HasEstimate(s, n)
  BY DEF HasEstimate
<1>4. \A n, m : r.what = s.what /\ AtItsPlace(r, n, m) => AtItsPlace(s, n, m)
  BY <1>3 DEF AtItsPlace
<1> QED BY <1>1, <1>2, <1>4

\* A step of the walk that adds a ratio behind rs, which are the earlier ones or what became of them.
LEMMA SharesAdded ==
  ASSUME FrameOf, i \in Nat, i' = i + 1,
         NEW rs, rs \in Seq(Range(rs)), Len(rs) = Len(ratios), NEW r, ratios' = Append(rs, r),
         \A k \in 1..Len(ratios) : RatioFine(rs[k], k),
         RatioFine(r, Len(ratios) + 1),
         ~Negated => \A n \in 1..Len(ratios) : AtItsPlace(rs[n], n, i + 1),
         ~Negated => AtItsPlace(r, Len(ratios) + 1, i + 1)
  PROVE  RatioInv' /\ PlaceInv' /\ Len(ratios') = Len(ratios) + 1
<1> DEFINE N == Len(ratios)
<1>1. /\ N \in Nat /\ Len(ratios') = N + 1 /\ \A k \in 1..N : ratios'[k] = rs[k]
      /\ ratios'[N + 1] = r
  BY AppendTo
<1> HIDE DEF N
<1>2. \A k \in 1..N + 1 : k \in 1..N \/ k = N + 1
  BY <1>1
<1>3. \A k \in 1..N + 1 : RatioFine(ratios'[k], k)
  BY <1>1, <1>2 DEF N
<1>4. ~Negated => \A n \in 1..N + 1 : AtItsPlace(ratios'[n], n, i')
  BY <1>1, <1>2 DEF N
<1>5. \A k \in 1..N + 1 : RatioFine(ratios[k], k)'
  BY <1>3, FrameKeeps DEF RatioFine
<1>6. ASSUME (~Negated)', NEW n \in 1..N + 1 PROVE AtItsPlace(ratios[n], n, i)'
  <2>1. AtItsPlace(ratios'[n], n, i')
    BY <1>4, <1>6, FrameKeeps
  <2>2. entries' = entries /\ EstimateOf(n)' = EstimateOf(n)
    BY FrameKeeps
  <2>3. OtherEndRead(n, i') => OtherEndRead(n, i)'
    BY <2>2 DEF OtherEndRead, Column
  <2>4. HasEstimate(ratios'[n], n) => HasEstimate(ratios[n], n)'
    BY <2>2 DEF HasEstimate
  <2> QED BY <2>1, <2>2, <2>3, <2>4 DEF AtItsPlace
<1> QED BY <1>1, <1>5, <1>6 DEF RatioInv, PlaceInv, N

ShareInv == HistInv /\ TableInv /\ SubstringInv /\ StepInv /\ RatioInv /\ PlaceInv

SharesContext ==
  Good /\ AllPositioned /\ AllSound /\ TokensInv /\ WalkInv /\ PositionsInv /\ ShareInv

\* A step of the walk that adds no ratio.
LEMMA SharesKept ==
  ASSUME FrameOf, i \in Nat, i' = i + 1, ratios' = ratios, RatioInv, PlaceInv
  PROVE  RatioInv' /\ PlaceInv'
<1>1. RatioInv'
  <2>1. \A k \in 1..Len(ratios) : RatioFine(ratios'[k], k)
    BY DEF RatioInv
  <2> QED BY <2>1, FrameKeeps DEF RatioInv, RatioFine
<1>2. PlaceInv'
  <2> SUFFICES ASSUME (~Negated)', NEW n \in 1..Len(ratios') PROVE AtItsPlace(ratios[n], n, i)'
    BY DEF PlaceInv
  <2>1. AtItsPlace(ratios'[n], n, i')
    <3>1. AtItsPlace(ratios[n], n, i)
      BY FrameKeeps DEF PlaceInv
    <3> QED BY <3>1, StillAtItsPlace
  <2>2. entries' = entries /\ EstimateOf(n)' = EstimateOf(n)
    BY FrameKeeps
  <2>3. OtherEndRead(n, i') => OtherEndRead(n, i)'
    BY <2>2 DEF OtherEndRead, Column
  <2>4. HasEstimate(ratios'[n], n) => HasEstimate(ratios[n], n)'
    BY <2>2 DEF HasEstimate
  <2> QED BY <2>1, <2>2, <2>3, <2>4 DEF AtItsPlace
<1> QED BY <1>1, <1>2

\* A step of the walk that reads no comparison.
LEMMA TableKept ==
  ASSUME FrameOf, i \in Nat, i' = i + 1, tableList' = tableList, TableInv
  PROVE  TableInv'
<1> SUFFICES ASSUME NEW t \in 1..Len(tableList) PROVE \E m \in 1..i' : ListedFrom(t, m)'
  BY DEF TableInv
<1>1. PICK m \in 1..i : ListedFrom(t, m)
  BY DEF TableInv
<1>2. m \in 1..i'
  OBVIOUS
<1>3. entries' = entries /\ (Negated' <=> Negated)
  BY FrameKeeps
<1>4. ListedFrom(t, m)'
  BY <1>1, <1>2, <1>3 DEF ListedFrom
<1> QED BY <1>2, <1>4

\* Reading a NOT: the filter is one with NOT.
LEMMA SharesNot ==
  ASSUME SharesContext, FrameOf, ReadNot
  PROVE  ShareInv'
<1> USE DEF SharesContext
<1>1. Walking /\ AtNot /\ Step /\ UNCHANGED <<ratios, tableList, substring>>
  BY DEF ReadNot
<1>2. /\ entries' = entries /\ i' = i + 1 /\ i \in Nat /\ i + 1 \in 1..FilterCount /\ i < FilterCount
      /\ parsed = FilterCount /\ filter \in DOMAIN Filters
  BY <1>1, OneOn DEF TokensInv
<1>3. \/ BeforeOperand /\ Negates(entries[i + 1])
      \/ BeforeConnector /\ Joins(entries[i + 1]) /\ Negates(entries[i + 2])
  BY <1>1, <1>2, NotSeen, Ahead DEF WalkInv
<1>4. Negated /\ substring = 0
  <2>1. Joins(entries[i + 1]) => i + 2 \in 1..FilterCount
    BY <1>2, Ahead
  <2>2. DOMAIN entries = 1..FilterCount
    BY <1>2, SoundEntries
  <2> QED BY <1>2, <1>3, <2>1, <2>2 DEF Negated, HasOp, Negates, BeforeOperand, BeforeConnector
<1>5. Negated' /\ HistInv'
  BY <1>4, FrameKeeps DEF ShareInv
<1>6. TableInv' /\ RatioInv' /\ PlaceInv'
  BY <1>1, <1>2, TableKept, SharesKept DEF ShareInv
<1>7. SubstringInv' /\ StepInv'
  BY <1>1, <1>4, <1>5 DEF SubstringInv, StepInv
<1> QED BY <1>5, <1>6, <1>7 DEF ShareInv

\* Reading a connector: 1 for AND, 0 for OR.
LEMMA SharesConnector ==
  ASSUME SharesContext, FrameOf, ReadConnector
  PROVE  ShareInv'
<1> USE DEF SharesContext
<1> DEFINE op == Operator(ConnectorIndex)
           n == At(ConnectorIndex).entry
           N == Len(ratios)
<1>1. Walking /\ Step /\ substring = 0 /\ UNCHANGED <<substring, tableList, notCount>>
  BY DEF ReadConnector
<1>2. /\ entries' = entries /\ i' = i + 1 /\ i \in Nat /\ i + 1 \in 1..FilterCount /\ i < FilterCount
      /\ filter \in DOMAIN Filters
  BY <1>1, OneOn DEF TokensInv
<1>3. HistInv' /\ SubstringInv' /\ TableInv'
  BY <1>1, <1>2, FrameKeeps, TableKept DEF ShareInv, SubstringInv
<1>4. DOMAIN entries = 1..FilterCount /\ Sound(entries)
  BY <1>2, SoundEntries
<1>5. CASE BeforeConnector /\ Joins(entries[i + 1]) /\ ~Negates(entries[i + 2])
  <2>1. op \in {"AND", "OR"} /\ op = entries[i + 1].op
    BY <1>5, WalkConnector DEF Joins
  <2>2. PICK ratio : /\ ratios' = Append(ratios, Kept(ratio, "connector", n))
                     /\ ratio = IF op = "OR" THEN Frac(0, 1) ELSE Frac(1, 1)
    BY <2>1 DEF ReadConnector
  <2>3. op = "OR" <=> Alternated
    <3>1. op = "OR" => Alternated
      BY <1>2, <1>4, <2>1 DEF Alternated, HasOp
    <3>2. ASSUME Alternated PROVE op = "OR"
      <4>1. Alternative(entries[i + 1])
        BY <1>2, <1>4, <3>2 DEF Sound, AreAlternatives, Alternated
      <4> QED BY <1>5, <2>1, <4>1 DEF Alternative, Joins, Compares
    <3> QED BY <3>1, <3>2
  <2> DEFINE r == Kept(ratio, "connector", n)
  <2>4. r.num = (IF Alternated THEN 0 ELSE 1) /\ r.den = 1 /\ r.what = "connector"
    BY <2>2, <2>3 DEF Kept, Frac
  <2> HIDE DEF r, n, op
  <2>5. RatioFine(r, N + 1)
    BY <2>4 DEF RatioFine, IsShare, IsFraction
  <2>6. ~Negated => N = i
    BY <1>5 DEF ShareInv, StepInv, InSubstring, BeforeConnector, Compares, TakesPart, Orderings
  <2>7. ~Negated => AtItsPlace(r, N + 1, i + 1)
    BY <1>5, <2>4, <2>6 DEF AtItsPlace, Joins, Compares
  <2>8. ratios \in Seq(Range(ratios)) /\ ratios' = Append(ratios, r)
    BY <2>2 DEF PositionsInv, r
  <2>9. ~Negated => \A k \in 1..N : AtItsPlace(ratios[k], k, i + 1)
    BY <1>2, StillAtItsPlace DEF ShareInv, PlaceInv
  <2>10. \A k \in 1..N : RatioFine(ratios[k], k)
    BY DEF ShareInv, RatioInv
  <2>11. RatioInv' /\ PlaceInv' /\ Len(ratios') = N + 1
    BY <1>2, <2>5, <2>7, <2>8, <2>9, <2>10, SharesAdded
  <2>12. ~InSubstring'
    BY <1>2, <1>5 DEF InSubstring, Joins, TakesPart
  <2>13. StepInv'
    BY <1>1, <1>2, <2>6, <2>11, <2>12, FrameKeeps DEF StepInv, ShareInv
  <2> QED BY <1>3, <2>11, <2>13 DEF ShareInv
<1>6. CASE BeforeLost /\ Negates(entries[i + 1])
  <2>1. op = "NOT"
    BY <1>6, WalkConnector DEF Negates
  <2>2. ratios' = ratios
    BY <2>1 DEF ReadConnector
  <2>3. Negated
    BY <1>2, <1>4, <1>6 DEF Negated, HasOp, Negates
  <2>4. RatioInv' /\ PlaceInv'
    BY <1>2, <2>2, SharesKept DEF ShareInv
  <2>5. StepInv'
    BY <2>3, FrameKeeps DEF StepInv
  <2> QED BY <1>3, <2>4, <2>5 DEF ShareInv
<1> QED BY <1>5, <1>6, WalkConnector

\* Reading the list after a substring: one value of a power of ten.
LEMMA SharesList ==
  ASSUME SharesContext, FrameOf, ReadSubstringList
  PROVE  ShareInv'
<1> USE DEF SharesContext
<1> DEFINE n == tokens[Len(tokens)].entry
           N == Len(ratios)
<1>1. Walking /\ Step /\ substring > 0 /\ substring' = 0 /\ UNCHANGED <<tableList, notCount>>
  BY DEF ReadSubstringList
<1>2. /\ entries' = entries /\ i' = i + 1 /\ i \in Nat /\ i + 1 \in 1..FilterCount /\ i < FilterCount
      /\ filter \in DOMAIN Filters /\ parsed = FilterCount /\ parsed > 0
  BY <1>1, OneOn DEF TokensInv
<1>3. BeforeList /\ entries[i + 1].kind = "list" /\ i + 1 = FilterCount
  BY <1>2, WalkList, Ahead
<1>4. HistInv' /\ SubstringInv' /\ TableInv'
  BY <1>1, <1>2, FrameKeeps, TableKept DEF ShareInv, SubstringInv
<1>5. Parts(tokens[Len(tokens)]) = 1
  <2>1. /\ Len(EntryTokens(i + 1)) = 3
        /\ EntryTokens(i + 1)[3] = Token(i + 1, "length", Len(entries[i + 1].values))
    BY <1>2, <1>3, StringsOf
  <2>2. Len(tokens) = Start(entries, i + 1) + 3 /\ parsed = i + 1
    BY <1>2, <1>3, <2>1 DEF TokensInv
  <2>3. 3 \in 1..Len(EntryTokens(i + 1)) /\ i + 1 \in 1..parsed
    BY <1>2, <2>1
  <2>4. tokens[Start(entries, i + 1) + 3] = EntryTokens(i + 1)[3]
    BY <2>3 DEF TokensInv
  <2> QED BY <2>1, <2>2, <2>4 DEF Token, Parts
<1>6. PICK d : d = 10 ^ substring
  OBVIOUS
<1>7. d \in Nat \ {0}
  <2>1. TakesPart(entries[i]) /\ substring = entries[i].values[1] /\ i \in 1..FilterCount
    <3>1. i > 0 /\ TakesPart(entries[i]) /\ substring = entries[i].values[1]
      BY <1>1 DEF ShareInv, SubstringInv
    <3>2. FilterCount \in Nat
      BY <1>2, EntriesWellFormed
    <3> QED BY <1>2, <3>1, <3>2
  <2>2. Estimable(entries[i]) /\ entries[i].op = "SUBSTRING"
    BY <1>2, <2>1, SoundEntries DEF Sound, TakesPart
  <2>3. 10 ^ entries[i].values[1] \in Nat \ {0}
    BY <2>2 DEF Estimable
  <2> QED BY <1>6, <2>1, <2>3
<1>8. ratios' = Append(ratios, Kept(Frac(1, d), "substring", n))
  BY <1>5, <1>6 DEF ReadSubstringList
<1> DEFINE r == Kept(Frac(1, d), "substring", n)
<1>9. r.num = 1 /\ r.den = d /\ r.what = "substring"
  BY DEF Kept, Frac
<1> HIDE DEF r, n
<1>10. RatioFine(r, N + 1)
  <2>1. N \in Nat /\ N % 2 = 0
    BY <1>2, <1>3, NotEstimated
  <2>2. (N + 1) % 2 # 0
    BY <2>1
  <2>3. IsShare(r) /\ IsFraction(r)
    BY <1>7, <1>9 DEF IsShare, IsFraction
  <2> QED BY <2>2, <2>3 DEF RatioFine
<1>11. TakesPart(entries[i]) /\ i > 0
  BY <1>3 DEF BeforeList
<1>12. ~Negated => N + 1 = i
  <2>1. ~Negated => N = i - 1
    BY <1>11 DEF ShareInv, StepInv, InSubstring
  <2> QED BY <1>2, <2>1
<1>13. ~Negated => AtItsPlace(r, N + 1, i + 1)
  BY <1>9, <1>11, <1>12 DEF AtItsPlace, TakesPart, Compares, Orderings
<1>14. ratios \in Seq(Range(ratios)) /\ ratios' = Append(ratios, r)
  BY <1>8 DEF PositionsInv, r
<1>15. ~Negated => \A k \in 1..N : AtItsPlace(ratios[k], k, i + 1)
  BY <1>2, StillAtItsPlace DEF ShareInv, PlaceInv
<1>16. \A k \in 1..N : RatioFine(ratios[k], k)
  BY DEF ShareInv, RatioInv
<1>17. RatioInv' /\ PlaceInv' /\ Len(ratios') = N + 1
  BY <1>2, <1>10, <1>13, <1>14, <1>15, <1>16, SharesAdded
<1>18. StepInv'
  <2>1. InSubstring'
    BY <1>2, <1>3 DEF InSubstring
  <2>2. i' - 1 = i
    BY <1>2
  <2> QED BY <1>1, <1>12, <1>17, <2>1, <2>2, FrameKeeps DEF StepInv, ShareInv
<1> QED BY <1>4, <1>17, <1>18 DEF ShareInv

\* The numbers after two comparisons of one column.
LEMMA MergedIs ==
  ASSUME PositionsInv, NEW at, NEW new, IsKept(new)
  PROVE  \E rs, r :
           /\ rs \in Seq(Range(rs)) /\ Len(rs) = Len(ratios)
           /\ \A k \in 1..Len(ratios) : /\ rs[k].what = ratios[k].what
                                        /\ k # at => rs[k].num = ratios[k].num /\ rs[k].den = ratios[k].den
                                        /\ k = at => rs[k].num = 1 /\ rs[k].den = 1
           /\ r.num = Shared(ratios[at], new).num /\ r.den = Shared(ratios[at], new).den /\ r.what = new.what
           /\ Merged(ratios, at, new) = Append(rs, r)
<1> DEFINE both == Shared(ratios[at], new)
           rs == [ratios EXCEPT ![at].num = 1, ![at].den = 1]
           r == [new EXCEPT !.num = both.num, !.den = both.den]
           N == Len(ratios)
<1>1. N \in Nat /\ DOMAIN ratios = 1..N
  BY LenProperties DEF PositionsInv
<1>2. DOMAIN rs = 1..N
  BY <1>1
<1>3. \A k \in 1..N : rs[k] = IF k = at THEN [ratios[k] EXCEPT !.num = 1, !.den = 1] ELSE ratios[k]
  BY <1>1
<1>4. ASSUME NEW k \in 1..N
      PROVE  /\ rs[k].what = ratios[k].what
             /\ k # at => rs[k].num = ratios[k].num /\ rs[k].den = ratios[k].den
             /\ k = at => rs[k].num = 1 /\ rs[k].den = 1
  <2>1. PICK earlier : earlier = ratios[k] /\ IsKept(earlier)
    BY DEF PositionsInv
  <2> DEFINE s == [earlier EXCEPT !.num = 1, !.den = 1]
  <2>2. s.what = earlier.what /\ s.num = 1 /\ s.den = 1
    BY <2>1 DEF IsKept
  <2>3. (k = at => rs[k] = s) /\ (k # at => rs[k] = ratios[k])
    <3>1. k = at => rs[k] = [ratios[k] EXCEPT !.num = 1, !.den = 1]
      BY <1>3, Zenon
    <3>2. k # at => rs[k] = ratios[k]
      BY <1>3, Zenon
    <3> QED BY <2>1, <3>1, <3>2
  <2> HIDE DEF s, rs
  <2> QED BY <2>1, <2>2, <2>3
<1>5. rs \in Seq(Range(rs)) /\ Len(rs) = N
  <2>1. rs = [k \in 1..N |-> rs[k]]
    BY <1>1
  <2> HIDE DEF rs, N
  <2>2. rs \in [1..N -> Range(rs)]
    BY <1>2, <2>1 DEF Range
  <2> QED BY <1>1, <2>2, SeqDef
<1>6. r.num = both.num /\ r.den = both.den /\ r.what = new.what
  BY DEF IsKept
<1>7. Merged(ratios, at, new) = Append(rs, r)
  BY DEF Merged
<1> HIDE DEF rs, r
<1> QED
  BY <1>4, <1>5, <1>6, <1>7 DEF N

\* The estimate of an ordering of a column with buckets.
LEMMA RangeEstimate ==
  ASSUME NEW n, PlainOrdering(entries[n]), Column(n) \notin Identifiers \cup Understated,
         NEW w \in Weights, NEW h, h = Histogram(Column(n), w), HistogramOf(Column(n)) = h
  PROVE  EstimateOf(n) = <<InBuckets(h, PassingOf(entries[n]))>>
<1> DEFINE e == entries[n]
<1>1. e.op \in Orderings /\ e.type \notin {"string", "column"}
  BY DEF PlainOrdering
<1>2. EstimateOf(n) = Ordering(h, e.op, e.type, e.values)
  BY <1>1 DEF EstimateOf, Added, Orderings
<1>3. Ordering(h, e.op, e.type, e.values) = <<Bounded(h, e.op, e.values[1])>>
  BY <1>1 DEF Ordering
<1>4. Bounded(h, e.op, e.values[1]) = InBuckets(h, Passing(e.op, e.values[1]))
  <2>1. ~h.identifier
    BY Counts
  <2> QED BY <2>1 DEF Bounded
<1> QED BY <1>2, <1>3, <1>4 DEF PassingOf

\* Where an ordering finds an earlier comparison of its column, that is the other end of its
\* range, its estimate is at its own place, and what the two share is a share.
LEMMA OtherEnd ==
  ASSUME SharesContext, i \in Nat, i + 1 \in 1..FilterCount, BeforeOperand,
         entries[i + 1].op \in Orderings, entries[i + 1].kind = "predicate",
         Duplicates(Column(i + 1)) # {},
         NEW x, NEW negating, negating => Negated,
         Added(HistogramOf(Column(i + 1)), entries[i + 1].op, entries[i + 1].type, entries[i + 1].values, negating) = <<x>>,
         NEW new, new.num = x.num, new.den = x.den
  PROVE  \E at \in 1..Len(ratios) :
           /\ 2 * Max(Duplicates(Column(i + 1))) - 1 = at
           /\ at % 2 = 1 /\ at < i + 1
           /\ entries[at].kind = "predicate" /\ Column(at) = Column(i + 1) /\ entries[at].op \in Orderings
           /\ ~Negated
           /\ IsShare(Shared(ratios[at], new))
<1> USE DEF SharesContext
<1> DEFINE n == i + 1
           c == Column(n)
           earlier == Duplicates(c)
<1>1. DOMAIN entries = 1..FilterCount /\ Sound(entries) /\ FilterCount \in Nat
  BY SoundEntries DEF TokensInv
<1>2. entries[n].op \in Orderings
  OBVIOUS
<1>3. DOMAIN tableList = 1..Len(tableList)
  BY LenProperties DEF WalkInv
<1>4. ASSUME NEW t \in earlier
      PROVE  \E m \in ComparisonsBefore(entries, n, c) : ~Negated => m = 2 * t - 1
  <2>1. t \in 1..Len(tableList) /\ tableList[t] = c
    BY <1>3 DEF Duplicates
  <2>2. PICK m \in 1..i : ListedFrom(t, m)
    BY <2>1 DEF ShareInv, TableInv
  <2>3. m \in 1..n - 1
    BY <2>2
  <2>4. m \in ComparisonsBefore(entries, n, c)
    BY <2>1, <2>2, <2>3 DEF ListedFrom, ComparisonsBefore
  <2> QED BY <2>2, <2>4 DEF ListedFrom
<1>5. EndsRange(entries, n) /\ ~Negated
  <2>1. PICK t : t \in earlier
    OBVIOUS
  <2>2. ComparisonsBefore(entries, n, c) # {}
    BY <1>4, <2>1
  <2>3. n \in DOMAIN entries /\ entries[n].column = c
    BY <1>1 DEF Column
  <2> HIDE DEF n, c, earlier
  <2> QED BY <1>1, <1>2, <2>2, <2>3 DEF Sound, Negated, n
<1>6. PICK m \in 1..n - 1 :
        /\ ComparisonsBefore(entries, n, c) = {m}
        /\ PlainOrdering(entries[m]) /\ PassingOf(entries[m]) \cup PassingOf(entries[n]) = Values
  BY <1>5 DEF EndsRange, Column
<1>7. /\ PlainOrdering(entries[n]) /\ c \notin Identifiers \cup Understated
      /\ entries[m].kind = "predicate" /\ Column(m) = c
  <2>1. m \in ComparisonsBefore(entries, n, c)
    BY <1>6
  <2> QED BY <1>5, <2>1 DEF EndsRange, Column, ComparisonsBefore
<1>8. m \in Nat /\ m <= i /\ m \in 1..i /\ m # n /\ \A p \in 1..i : p \in 1..n - 1
  BY <1>6
<1>9. \A t \in earlier : t \in Nat /\ m = 2 * t - 1
  BY <1>3, <1>4, <1>5, <1>6 DEF Duplicates
<1>10. 2 * Max(earlier) - 1 = m /\ m % 2 = 1
  <2> HIDE DEF earlier
  <2>1. PICK t : t \in earlier
    BY DEF earlier
  <2>2. \A u \in earlier : u = t
    BY <1>9, <2>1
  <2>3. earlier = {t} /\ t \in Nat
    BY <1>9, <2>1, <2>2
  <2>4. Max({t}) = t
    <3>1. \E u \in {t} : \A v \in {t} : u >= v
      BY <2>3
    <3>2. Max({t}) \in {t}
      BY <3>1 DEF Max
    <3> QED BY <3>2
  <2>5. m = 2 * t - 1 /\ (2 * t - 1) % 2 = 1
    BY <1>9, <2>3
  <2> QED BY <2>3, <2>4, <2>5
<1>11. Len(ratios) = i
  BY <1>5 DEF ShareInv, StepInv, InSubstring, BeforeOperand, Joins, TakesPart
<1>12. HasEstimate(ratios[m], m)
  <2>1. AtItsPlace(ratios[m], m, i)
    BY <1>5, <1>8, <1>11 DEF ShareInv, PlaceInv
  <2>2. Compares(entries[m])
    BY <1>6 DEF PlainOrdering, Compares
  <2>3. ~OtherEndRead(m, i)
    <3> SUFFICES ASSUME NEW p \in 1..i \ {m}, entries[p].kind = "predicate", entries[p].column = Column(m)
                 PROVE  FALSE
      BY DEF OtherEndRead
    <3>1. p \in 1..n - 1
      BY <1>8
    <3>2. p \in ComparisonsBefore(entries, n, c)
      BY <1>7, <3>1 DEF ComparisonsBefore
    <3> QED BY <1>6, <3>2
  <2> QED BY <2>1, <2>2, <2>3 DEF AtItsPlace
<1>13. PICK w \in Weights : hist[c] = Histogram(c, w)
  <2>1. n \in DOMAIN Filters[filter] /\ entries = Filters[filter] /\ entries[n] \in ToSet(entries)
    BY <1>1 DEF entries, ToSet
  <2>2. c \in ColumnsOf(filter)
    BY <2>1 DEF ColumnsOf, Column
  <2> QED BY <2>2 DEF ShareInv, HistInv
<1> DEFINE h == hist[c]
<1> HIDE DEF n, c, earlier
<1>14. HistogramOf(c) = h /\ h = Histogram(c, w)
  BY <1>13 DEF HistogramOf
<1>15. h.buckets \in [Values -> Nat] /\ h.count = Cardinality(RowsIn(h.buckets, Values))
  BY <1>7, <1>14, Counts
<1>16. EstimateOf(m) = <<InBuckets(h, PassingOf(entries[m]))>>
  BY <1>6, <1>7, <1>14, RangeEstimate
<1>17. EstimateOf(n) = <<InBuckets(h, PassingOf(entries[n]))>>
  BY <1>7, <1>14, RangeEstimate DEF c
<1>18. x = InBuckets(h, PassingOf(entries[n]))
  <2>1. Added(HistogramOf(c), entries[n].op, entries[n].type, entries[n].values, negating) = EstimateOf(n)
    BY <1>5, <1>2 DEF Added, EstimateOf, Orderings, c, n
  <2>2. <<x>> = <<InBuckets(h, PassingOf(entries[n]))>>
    BY <1>17, <2>1 DEF c, n
  <2> QED BY <2>2
<1> DEFINE S == PassingOf(entries[m])
           T == PassingOf(entries[n])
<1>19. /\ ratios[m].num = InBuckets(h, S).num /\ ratios[m].den = InBuckets(h, S).den
       /\ new.num = InBuckets(h, T).num /\ new.den = InBuckets(h, T).den
  <2>1. PICK y : EstimateOf(m) = <<y>> /\ ratios[m].num = y.num /\ ratios[m].den = y.den
    BY <1>12 DEF HasEstimate
  <2>2. y = InBuckets(h, S)
    BY <1>16, <2>1
  <2> QED BY <1>18, <2>1, <2>2
<1> HIDE DEF S, T, h
<1>20. IsShare(InBuckets(h, S)) /\ IsShare(InBuckets(h, T))
  BY <1>7, <1>14, InBucketsShare
<1>21. h.count <= Cardinality(RowsIn(h.buckets, S)) + Cardinality(RowsIn(h.buckets, T))
  <2>1. S \cup T = Values
    BY <1>6 DEF S, T
  <2> QED BY <1>15, <2>1, RowsOfBoth
<1>22. IsShare(ratios[m]) /\ IsShare(new) /\ ratios[m].den = new.den /\ ratios[m].den <= ratios[m].num + new.num
  <2>1. IsShare(ratios[m]) /\ IsShare(new)
    BY <1>19, <1>20, SameNumbers
  <2>2. /\ InBuckets(h, S).num = Cardinality(RowsIn(h.buckets, S)) /\ InBuckets(h, S).den = h.count
        /\ InBuckets(h, T).num = Cardinality(RowsIn(h.buckets, T)) /\ InBuckets(h, T).den = h.count
    BY DEF InBuckets, Frac
  <2> QED BY <1>19, <1>21, <2>1, <2>2
<1>23. IsShare(Shared(ratios[m], new))
  BY <1>22, SharedShare
<1>24. m \in 1..Len(ratios) /\ entries[m].op \in Orderings /\ m < i + 1
  BY <1>6, <1>8, <1>11 DEF PlainOrdering
<1> QED BY <1>5, <1>7, <1>10, <1>23, <1>24 DEF c, n, earlier

\* The list of columns is longer by that of the comparison read.
LEMMA TableAdded ==
  ASSUME SharesContext, FrameOf, i \in Nat, i' = i + 1, BeforeOperand \/ BeforeNegated,
         entries[i + 1].kind = "predicate", tableList' = Append(tableList, Column(i + 1))
  PROVE  TableInv'
<1> USE DEF SharesContext
<1> DEFINE L == Len(tableList)
<1>1. /\ L \in Nat /\ Len(tableList') = L + 1
      /\ \A t \in 1..L : tableList'[t] = tableList[t]
      /\ tableList'[L + 1] = Column(i + 1)
  BY AppendTo DEF WalkInv
<1>2. entries' = entries /\ (Negated' <=> Negated)
  BY FrameKeeps
<1>3. ~Negated => i + 1 = 2 * (L + 1) - 1
  <2> SUFFICES ASSUME ~Negated PROVE i + 1 = 2 * (L + 1) - 1
    OBVIOUS
  <2>1. notCount = 0 /\ L = Passed
    BY DEF ShareInv, StepInv, WalkInv
  <2>2. itemp = 2 * Passed
    BY DEF BeforeOperand, BeforeNegated
  <2> QED BY <1>1, <2>1, <2>2 DEF itemp
<1> SUFFICES ASSUME NEW t \in 1..L + 1 PROVE \E m \in 1..i' : ListedFrom(t, m)'
  BY <1>1 DEF TableInv
<1> HIDE DEF L
<1>4. CASE t = L + 1
  <2>1. PICK q \in 1..i' : q = i + 1
    OBVIOUS
  <2>2. entries'[q].kind = "predicate" /\ entries'[q].column = tableList'[t]
    BY <1>1, <1>2, <1>4, <2>1 DEF Column
  <2>3. (~Negated)' => q = 2 * t - 1
    BY <1>2, <1>3, <1>4, <2>1
  <2>4. ListedFrom(t, q)'
    BY <2>1, <2>2, <2>3 DEF ListedFrom
  <2> QED BY <2>1, <2>4
<1>5. CASE t # L + 1
  <2>1. t \in 1..L
    BY <1>1, <1>5
  <2>2. PICK m \in 1..i : ListedFrom(t, m)
    BY <2>1 DEF ShareInv, TableInv, L
  <2>3. m \in 1..i'
    OBVIOUS
  <2>4. ListedFrom(t, m)'
    BY <1>1, <1>2, <2>1, <2>2, <2>3 DEF ListedFrom
  <2> QED BY <2>3, <2>4
<1> QED BY <1>4, <1>5

\* Reading a comparison: its estimate, what a NOT leaves of it, or what it shares with the
\* other end of its range.
LEMMA SharesPredicate ==
  ASSUME SharesContext, FrameOf, ReadPredicate
  PROVE  ShareInv'
<1> USE DEF SharesContext
<1> DEFINE k == PredicateIndex
           e == entries[i + 1]
           flips == currentNot /\ e.op \notin NotFlipped
           added == Added(HistogramOf(e.column), e.op, e.type, e.values, ContainsNot)
           new == Kept(IF flips THEN OneMinus(added[1]) ELSE added[1], "estimate", i + 1)
           N == Len(ratios)
           earlier == Duplicates(e.column)
<1>1. Walking /\ ~AtNot /\ substring = 0 /\ itemp % 2 = 0 /\ Step /\ notCount' = notCount
  BY DEF ReadPredicate
<1>2. /\ Has(k + 1, "column") /\ At(k + 1).value = e.column /\ Operator(k + 2) = e.op
      /\ At(k + 2).entry = i + 1 /\ At(k + 3).value = e.type /\ At(k + 4).value = e.values
  BY <1>1, PartsRead
<1>3. /\ entries' = entries /\ i' = i + 1 /\ i \in Nat /\ i + 1 \in 1..FilterCount /\ i < FilterCount
      /\ filter \in DOMAIN Filters
  BY <1>1, OneOn DEF TokensInv
<1>4. /\ tableList' = Append(tableList, Column(i + 1))
      /\ substring' = IF e.op = "SUBSTRING" THEN e.values[1] ELSE 0
  BY <1>2 DEF ReadPredicate, Column
<1>5. \/ added = <<>> /\ ratios' = ratios
      \/ added # <<>> /\ e.op \in Orderings /\ earlier # {} /\ ratios' = Merged(ratios, 2 * Max(earlier) - 1, new)
      \/ added # <<>> /\ ratios' = Append(ratios, new)
  BY <1>2, Zenon DEF ReadPredicate, Orderings
<1>6. (BeforeOperand \/ BeforeNegated) /\ (Compares(e) \/ TakesPart(e)) /\ e.kind = "predicate"
  BY <1>1, OperandRead DEF Compares, TakesPart
<1>7. DOMAIN entries = 1..FilterCount /\ Sound(entries) /\ Positioned(entries)
  BY <1>3, SoundEntries
<1>8. HistInv' /\ TableInv'
  BY <1>3, <1>4, <1>6, FrameKeeps, TableAdded DEF ShareInv
<1>9. SubstringInv'
  <2>1. CASE TakesPart(e)
    BY <1>3, <1>4, <2>1 DEF SubstringInv, TakesPart
  <2>2. CASE Compares(e)
    <3>1. substring' = 0
      BY <1>4, <2>2 DEF Compares, Orderings
    <3> QED BY <3>1 DEF SubstringInv
  <2> QED BY <1>6, <2>1, <2>2
<1>10. N \in Nat /\ N % 2 = 0 /\ (N + 1) % 2 # 0
  <2>1. N \in Nat /\ N % 2 = 0
    BY <1>3, <1>6, NotEstimated
  <2> QED BY <2>1
<1>11. ~Negated => N = i /\ ~currentNot /\ BeforeOperand
  <2> SUFFICES ASSUME ~Negated PROVE N = i /\ ~currentNot /\ BeforeOperand
    OBVIOUS
  <2>1. ASSUME BeforeNegated PROVE FALSE
    <3>1. i > 0 /\ Negates(entries[i])
      BY <2>1 DEF BeforeNegated
    <3>2. i \in DOMAIN entries
      <4>1. FilterCount \in Nat
        BY <1>3, EntriesWellFormed
      <4> QED BY <1>3, <1>7, <3>1, <4>1
    <3> QED BY <3>1, <3>2 DEF Negated, HasOp, Negates
  <2>2. BeforeOperand
    BY <1>6, <2>1
  <2>3. N = i
    BY <2>2 DEF ShareInv, StepInv, InSubstring, BeforeOperand, Joins, TakesPart
  <2> QED BY <2>2, <2>3 DEF BeforeOperand
<1>12. ContainsNot => Negated
  BY NotContained
<1>13. e.column \in ColumnsOf(filter) /\ Estimable(e)
  <2>1. i + 1 \in DOMAIN Filters[filter] /\ e = Filters[filter][i + 1] /\ e \in ToSet(Filters[filter])
    BY <1>3, <1>7 DEF entries, ToSet
  <2>2. e.column \in ColumnsOf(filter)
    BY <1>6, <2>1 DEF ColumnsOf
  <2>3. Estimable(e)
    BY <1>3, <1>6, <1>7 DEF Sound
  <2> QED BY <2>2, <2>3
<1>14. PICK w \in Weights : HistogramOf(e.column) = Histogram(e.column, w)
  BY <1>13 DEF ShareInv, HistInv, HistogramOf
<1>15. ASSUME added = <<>>, ratios' = ratios PROVE ShareInv'
  <2>1. RatioInv' /\ PlaceInv'
    BY <1>3, <1>15, SharesKept DEF ShareInv
  <2>2. StepInv'
    <3> SUFFICES ASSUME ~Negated PROVE notCount' = 0 /\ Len(ratios') = IF InSubstring' THEN i' - 1 ELSE i'
      BY FrameKeeps DEF StepInv
    <3>1. ~Compares(e)
      <4> SUFFICES ASSUME Compares(e) PROVE FALSE
        OBVIOUS
      <4>1. AddsNothing(e)
        BY <1>15, WhatIsAdded
      <4>2. PICK m : m = i + 1
        OBVIOUS
      <4>3. m \in DOMAIN entries /\ e = entries[m]
        BY <1>3, <1>7, <4>2
      <4>4. m + 2 \in DOMAIN entries /\ Negates(entries[m + 2])
        BY <1>7, <4>1, <4>3 DEF Positioned
      <4> QED BY <4>4 DEF Negated, HasOp, Negates
    <3>2. InSubstring'
      BY <1>3, <1>6, <3>1 DEF InSubstring
    <3>3. notCount' = 0 /\ N = i /\ i' - 1 = i
      BY <1>1, <1>3, <1>11 DEF ShareInv, StepInv
    <3> QED BY <1>15, <3>2, <3>3
  <2> QED BY <1>8, <1>9, <2>1, <2>2 DEF ShareInv
<1>16. ASSUME added # <<>>
       PROVE  /\ Compares(e) /\ ~InSubstring'
              /\ \E x : added = <<x>> /\ (~flips => new.num = x.num /\ new.den = x.den)
              /\ RatioFine(new, N + 1)
  <2>1. Compares(e) /\ ~AddsNothing(e)
    BY <1>6, <1>16, WhatIsAdded
  <2>2. Negated => e.column \notin Understated /\ ~(e.op \in Orderings /\ e.type = "column")
    BY <1>3, <1>6, <1>7 DEF Sound, Negated
  <2>3. PICK x : added = <<x>> /\ IsFraction(x) /\ (e.column \notin Understated => IsShare(x))
    <3>1. ContainsNot => ~(e.op \in Orderings /\ e.type = "column")
      BY <1>12, <2>2
    <3> HIDE DEF e
    <3> QED BY <1>13, <1>14, <2>1, <3>1, AddedShare
  <2> DEFINE y == IF flips THEN OneMinus(x) ELSE x
  <2>4. ~OnUnderstated => e.column \notin Understated
    BY <1>13 DEF OnUnderstated
  <2>5. IsFraction(y) /\ (~OnUnderstated => IsShare(y))
    <3>1. CASE flips
      <4>1. IsShare(x)
        BY <1>11, <2>2, <2>3, <3>1
      <4> QED BY <3>1, <4>1, RestShare DEF IsShare
    <3>2. CASE ~flips
      BY <2>3, <2>4, <3>2
    <3> QED BY <3>1, <3>2
  <2>6. new.num = y.num /\ new.den = y.den
    <3>1. added[1] = x
      BY <2>3
    <3> QED BY <3>1 DEF Kept
  <2>7. RatioFine(new, N + 1)
    <3>1. IsFraction(new) /\ (~OnUnderstated => IsShare(new))
      BY <2>5, <2>6 DEF IsFraction, IsShare
    <3> QED BY <1>10, <3>1 DEF RatioFine
  <2>8. ~InSubstring'
    BY <1>3, <2>1 DEF InSubstring, Compares, TakesPart, Orderings
  <2>9. ~flips => new.num = x.num /\ new.den = x.den
    BY <2>6
  <2> QED BY <2>1, <2>3, <2>7, <2>8, <2>9
<1>17. new.what = "estimate" /\ IsKept(new)
  BY KeptIsKept
<1>18. (\A m \in 1..N : RatioFine(ratios[m], m)) /\ ratios \in Seq(Range(ratios))
  BY DEF ShareInv, RatioInv, PositionsInv
<1>19. ~Negated => \A m \in 1..N : AtItsPlace(ratios[m], m, i + 1)
  BY <1>3, StillAtItsPlace DEF ShareInv, PlaceInv
<1>20. ASSUME RatioInv', PlaceInv', Len(ratios') = N + 1, ~InSubstring' PROVE ShareInv'
  <2>1. StepInv'
    BY <1>1, <1>3, <1>11, <1>20, FrameKeeps DEF ShareInv, StepInv
  <2> QED BY <1>8, <1>9, <1>20, <2>1 DEF ShareInv
<1>21. ASSUME added # <<>>, ratios' = Append(ratios, new) PROVE ShareInv'
  <2>1. ~Negated => AtItsPlace(new, N + 1, i + 1)
    <3> SUFFICES ASSUME ~Negated PROVE AtItsPlace(new, i + 1, i + 1)
      BY <1>11
    <3>1. PICK x : added = <<x>> /\ new.num = x.num /\ new.den = x.den
      BY <1>11, <1>16, <1>21
    <3>2. EstimateOf(i + 1) = added
      <4>1. ContainsNot = FALSE
        BY <1>12 DEF ContainsNot
      <4> QED BY <4>1 DEF EstimateOf, Column
    <3> HIDE DEF new, added
    <3>3. HasEstimate(new, i + 1)
      BY <3>1, <3>2 DEF HasEstimate
    <3> QED BY <1>6, <1>17, <3>3 DEF AtItsPlace
  <2>2. RatioFine(new, N + 1) /\ ~InSubstring'
    BY <1>16, <1>21
  <2> HIDE DEF new, added, N
  <2>3. RatioInv' /\ PlaceInv' /\ Len(ratios') = N + 1
    BY <1>3, <1>18, <1>19, <1>21, <2>1, <2>2, SharesAdded DEF N
  <2> QED BY <1>20, <2>2, <2>3
<1>22. ASSUME added # <<>>, e.op \in Orderings, earlier # {}, ratios' = Merged(ratios, 2 * Max(earlier) - 1, new)
       PROVE  ShareInv'
  <2>1. PICK x : added = <<x>> /\ (~flips => new.num = x.num /\ new.den = x.den)
    BY <1>16, <1>22
  <2>2. ~Negated
    <3>1. PICK t : t \in earlier
      BY <1>22
    <3>2. t \in 1..Len(tableList) /\ tableList[t] = e.column
      BY <3>1, LenProperties DEF Duplicates, WalkInv
    <3>3. PICK m \in 1..i : ListedFrom(t, m)
      BY <3>2 DEF ShareInv, TableInv
    <3>4. PICK q \in Nat : q = i + 1
      BY <1>3
    <3>5. m \in 1..q - 1 /\ q \in DOMAIN entries
      BY <1>3, <1>7, <3>4
    <3>6. m \in ComparisonsBefore(entries, q, e.column)
      BY <3>2, <3>3, <3>5 DEF ComparisonsBefore, ListedFrom
    <3> QED BY <1>6, <1>7, <1>22, <3>4, <3>5, <3>6 DEF Sound, Negated
  <2>3. BeforeOperand /\ ~flips
    BY <1>11, <2>2
  <2>4. PICK at \in 1..N :
          /\ 2 * Max(earlier) - 1 = at
          /\ at % 2 = 1 /\ at < i + 1
          /\ entries[at].kind = "predicate" /\ Column(at) = e.column /\ entries[at].op \in Orderings
          /\ IsShare(Shared(ratios[at], new))
    <3>1. Column(i + 1) = e.column /\ new.num = x.num /\ new.den = x.den
      BY <2>1, <2>3 DEF Column
    <3> HIDE DEF new
    <3> QED BY <1>3, <1>6, <1>12, <1>22, <2>1, <2>3, <3>1, OtherEnd
  <2> HIDE DEF new, earlier
  <2>5. PICK rs, r :
          /\ rs \in Seq(Range(rs)) /\ Len(rs) = N
          /\ \A m \in 1..N : /\ rs[m].what = ratios[m].what
                             /\ m # at => rs[m].num = ratios[m].num /\ rs[m].den = ratios[m].den
                             /\ m = at => rs[m].num = 1 /\ rs[m].den = 1
          /\ r.num = Shared(ratios[at], new).num /\ r.den = Shared(ratios[at], new).den /\ r.what = new.what
          /\ ratios' = Append(rs, r)
    <3>1. ratios' = Merged(ratios, at, new)
      BY <1>22, <2>4, Zenon
    <3> HIDE DEF N
    <3> QED BY <1>17, <3>1, MergedIs DEF N
  <2>6. ASSUME NEW m \in 1..N PROVE RatioFine(rs[m], m) /\ AtItsPlace(rs[m], m, i + 1)
    <3>1. CASE m # at
      <4>1. rs[m].num = ratios[m].num /\ rs[m].den = ratios[m].den /\ rs[m].what = ratios[m].what
        BY <2>5, <3>1
      <4>2. RatioFine(ratios[m], m) /\ AtItsPlace(ratios[m], m, i + 1)
        BY <1>18, <1>19, <2>2
      <4> QED BY <4>1, <4>2, SameNumbers
    <3>2. CASE m = at
      <4>1. rs[m].num = 1 /\ rs[m].den = 1 /\ rs[m].what = ratios[m].what
        BY <2>5, <3>2
      <4>2. RatioFine(rs[m], m)
        BY <2>4, <3>2, <4>1 DEF RatioFine, IsShare, IsFraction
      <4>3. i + 1 \in 1..i + 1 /\ i + 1 # m
        BY <1>3, <2>4, <3>2
      <4>4. OtherEndRead(m, i + 1)
        BY <1>6, <2>4, <3>2, <4>3 DEF OtherEndRead
      <4>5. entries[m].kind = "connector" <=> rs[m].what = "connector"
        BY <1>19, <2>2, <4>1 DEF AtItsPlace
      <4> QED BY <4>2, <4>4, <4>5 DEF AtItsPlace
    <3> QED BY <3>1, <3>2
  <2>7. RatioFine(r, N + 1)
    <3>1. IsShare(r) /\ IsFraction(r)
      BY <2>4, <2>5 DEF IsShare, IsFraction
    <3> QED BY <1>10, <3>1 DEF RatioFine
  <2>8. AtItsPlace(r, N + 1, i + 1)
    <3>1. at \in 1..i + 1 /\ at # i + 1
      BY <1>3, <1>11, <2>2, <2>4
    <3>2. OtherEndRead(i + 1, i + 1)
      BY <1>22, <2>4, <3>1 DEF OtherEndRead, Column
    <3>3. N + 1 = i + 1
      BY <1>11, <2>2
    <3> QED BY <1>6, <1>17, <2>5, <3>2, <3>3 DEF AtItsPlace
  <2> HIDE DEF N, e
  <2>9. RatioInv' /\ PlaceInv' /\ Len(ratios') = N + 1
    BY <1>3, <2>5, <2>6, <2>7, <2>8, SharesAdded DEF N
  <2>10. ~InSubstring'
    BY <1>16, <1>22
  <2> QED BY <1>20, <2>9, <2>10
<1> QED
  BY <1>5, <1>15, <1>21, <1>22

\* Other steps read nothing.
LEMMA SharesStay ==
  ASSUME FrameOf, ShareInv, UNCHANGED <<i, notCount, substring, tableList, ratios>>
  PROVE  ShareInv'
<1>1. /\ entries' = entries /\ (Negated' <=> Negated) /\ (HistInv' <=> HistInv)
      /\ \A n : EstimateOf(n)' = EstimateOf(n)
  BY FrameKeeps
<1>2. HistInv' /\ SubstringInv'
  BY <1>1 DEF ShareInv, SubstringInv
<1>3. TableInv'
  BY <1>1, Zenon DEF ShareInv, TableInv, ListedFrom
<1>4. StepInv'
  BY <1>1, Zenon DEF ShareInv, StepInv, InSubstring
<1>5. RatioInv'
  BY FrameKeeps, Zenon DEF ShareInv, RatioInv, RatioFine
<1>6. PlaceInv'
  BY <1>1, Zenon DEF ShareInv, PlaceInv, AtItsPlace, OtherEndRead, HasEstimate, Column
<1> QED BY <1>2, <1>3, <1>4, <1>5, <1>6 DEF ShareInv

\* ShareInv holds at first.
LEMMA SharesInit == Good /\ Init => ShareInv
<1> SUFFICES ASSUME Good, Init PROVE ShareInv
  OBVIOUS
<1>1. /\ tableList = <<>> /\ ratios = <<>> /\ i = 0 /\ notCount = 0 /\ substring = 0
      /\ \E w \in [ColumnsOf(filter) -> Weights] : hist = [c \in ColumnsOf(filter) |-> Histogram(c, w[c])]
  BY DEF Init
<1>2. HistInv
  BY <1>1 DEF HistInv
<1>3. Len(tableList) = 0 /\ Len(ratios) = 0
  BY <1>1
<1>4. TableInv /\ SubstringInv /\ RatioInv /\ PlaceInv
  BY <1>1, <1>3 DEF TableInv, SubstringInv, RatioInv, PlaceInv
<1>5. StepInv
  BY <1>1, <1>3 DEF StepInv, InSubstring
<1> QED BY <1>2, <1>4, <1>5 DEF ShareInv

\* ShareInv survives every step.
LEMMA SharesStep ==
  ASSUME SharesContext, [Next]_vars
  PROVE  ShareInv'
<1>1. FrameOf
  BY Frame
<1>2. CASE ParseEntry \/ CombineOne \/ UNCHANGED vars
  <2>1. UNCHANGED <<i, notCount, substring, tableList, ratios>>
    BY <1>2 DEF ParseEntry, CombineOne, vars, walk
  <2> QED BY <1>1, <2>1, SharesStay DEF SharesContext
<1> QED
  BY <1>1, <1>2, SharesNot, SharesConnector, SharesList, SharesPredicate DEF Next, Done

-----------------------------------------------------------------------------
(***************************************************************************)
(* The last loop.  Without OR it multiplies shares; with OR it adds up the *)
(* rows of different values.                                               *)
(***************************************************************************)
AltColumn == Column(1)

RowsOfColumn(c) == IF c \in Identifiers THEN OneEach ELSE hist[c].buckets

ValuesUpTo(n) == {entries[m].values[1] : m \in {m \in 1..n : Compares(entries[m])}}

CombineInv ==
  /\ j \in 0..Len(ratios) /\ (j > 0 => i = FilterCount /\ parsed = FilterCount)
  /\ mode = IF j < 2 THEN "none" ELSE IF Alternated THEN "or" ELSE "and"
  /\ j = 0 => result = Frac(1, 1)
  /\ ~Alternated => IsFraction(result) /\ (~OnUnderstated => IsShare(result))
  /\ Alternated /\ j > 0 =>
       /\ result.den = hist[AltColumn].count
       /\ result.num = Cardinality(RowsIn(RowsOfColumn(AltColumn), ValuesUpTo(j)))

\* The column of the alternatives, and all that it counts.
LEMMA AltColumnIs ==
  ASSUME SharesContext, Alternated
  PROVE  /\ AreAlternatives(entries) /\ Compares(entries[1]) /\ 1 \in DOMAIN entries
         /\ RowsOfColumn(AltColumn) \in [Values -> Nat]
         /\ hist[AltColumn].count \in Nat \ {0}
         /\ AltColumn \in ColumnsOf(filter)
         /\ AltColumn \notin Understated =>
              hist[AltColumn].count = Cardinality(RowsIn(RowsOfColumn(AltColumn), Values))
         /\ \A c \in Identifiers : RowsOfColumn(c) = OneEach
         /\ AltColumn \notin Identifiers => RowsOfColumn(AltColumn) = hist[AltColumn].buckets
         /\ \E w \in Weights : hist[AltColumn] = Histogram(AltColumn, w)
<1> USE DEF SharesContext
<1>1. /\ WellFormed(entries) /\ Sound(entries) /\ DOMAIN entries = 1..FilterCount /\ FilterCount \in Nat \ {0}
  BY SoundEntries DEF TokensInv
<1>2. AreAlternatives(entries) /\ 1 \in DOMAIN entries
  BY <1>1 DEF Sound, Alternated
<1>3. Compares(entries[1])
  <2>1. Alternative(entries[1])
    BY <1>2 DEF AreAlternatives
  <2>2. ~Joins(entries[1])
    BY <1>1 DEF WellFormed, Joins, Compares, TakesPart, Negates
  <2> QED BY <2>1, <2>2 DEF Alternative
<1>4. AltColumn \in ColumnsOf(filter)
  <2>1. entries[1] \in ToSet(Filters[filter]) /\ entries[1].kind = "predicate"
    BY <1>2, <1>3 DEF ToSet, entries, Compares
  <2> QED BY <2>1 DEF ColumnsOf, AltColumn, Column
<1>5. PICK w \in Weights : hist[AltColumn] = Histogram(AltColumn, w)
  BY <1>4 DEF ShareInv, HistInv
<1>6. PICK h : h = hist[AltColumn] /\ h = Histogram(AltColumn, w)
  BY <1>5
<1>7. /\ h.buckets \in [Values -> Nat] /\ h.count \in Nat \ {0}
      /\ AltColumn \in Identifiers => h.count = Domain
      /\ AltColumn \notin Identifiers \cup Understated => h.count = Cardinality(RowsIn(h.buckets, Values))
  BY <1>6, Counts
<1>8. CASE AltColumn \in Identifiers
  <2>1. RowsOfColumn(AltColumn) = OneEach
    BY <1>8 DEF RowsOfColumn
  <2> QED BY <1>2, <1>3, <1>4, <1>5, <1>6, <1>7, <1>8, <2>1, EachOnce DEF RowsOfColumn
<1>9. CASE AltColumn \notin Identifiers
  <2>1. RowsOfColumn(AltColumn) = h.buckets
    BY <1>6, <1>9 DEF RowsOfColumn
  <2> QED BY <1>2, <1>3, <1>4, <1>5, <1>6, <1>7, <1>9, <2>1 DEF RowsOfColumn
<1> QED BY <1>8, <1>9

\* Of alternatives every second entry is a comparison, whose ratio counts the rows of its value.
LEMMA AltRatios ==
  ASSUME SharesContext, Alternated, i = FilterCount, NEW k \in 1..Len(ratios)
  PROVE  /\ k \in DOMAIN entries
         /\ k % 2 = 1 <=> Compares(entries[k])
         /\ Compares(entries[k]) =>
              /\ ratios[k].den = hist[AltColumn].count
              /\ ratios[k].num = Cardinality(RowsIn(RowsOfColumn(AltColumn), {entries[k].values[1]}))
<1> USE DEF SharesContext
<1> DEFINE e == entries[k]
           v == e.values[1]
           c == AltColumn
           h == hist[c]
<1>1. DOMAIN entries = 1..FilterCount /\ FilterCount \in Nat \ {0}
  BY SoundEntries DEF TokensInv
<1>2. \A n \in 1..FilterCount : Alternative(entries[n])
  BY <1>1, AltColumnIs DEF AreAlternatives
<1>3. ~Negated
  BY <1>1, <1>2 DEF Negated, HasOp, Alternative, Joins, Compares, Orderings
<1>4. Len(ratios) = FilterCount
  <2>1. ~InSubstring
    BY <1>1, <1>2 DEF InSubstring, Alternative, Joins, Compares, TakesPart
  <2> QED BY <1>3, <2>1 DEF ShareInv, StepInv
<1>5. k \in DOMAIN entries /\ Alternative(e) /\ k \in Nat
  BY <1>1, <1>2, <1>4
<1>6. k % 2 = 1 <=> Compares(e)
  <2>1. AtItsPlace(ratios[k], k, i)
    BY <1>3 DEF ShareInv, PlaceInv
  <2>2. k % 2 = 0 <=> e.kind = "connector"
    BY <2>1 DEF AtItsPlace, PositionsInv
  <2>3. k % 2 = 1 <=> k % 2 # 0
    BY <1>5
  <2>4. e.kind = "connector" <=> ~Compares(e)
    BY <1>5 DEF Alternative, Joins, Compares
  <2> QED BY <2>2, <2>3, <2>4
<1>7. ASSUME Compares(e)
      PROVE  ratios[k].den = h.count /\ ratios[k].num = Cardinality(RowsIn(RowsOfColumn(c), {v}))
  <2>1. e.op = "EQ" /\ e.type = "string" /\ v \in Values
    BY <1>5, <1>7 DEF Alternative, Joins, Compares
  <2>2. Column(k) = c
    BY <1>5, <1>7, AltColumnIs DEF AreAlternatives, AltColumn, Column
  <2>3. HasEstimate(ratios[k], k)
    <3>1. AtItsPlace(ratios[k], k, i)
      BY <1>3 DEF ShareInv, PlaceInv
    <3>2. ~OtherEndRead(k, i)
      BY <2>1 DEF OtherEndRead, Orderings
    <3> QED BY <1>7, <3>1, <3>2 DEF AtItsPlace
  <2>4. EstimateOf(k) = <<Equal(h, e.type, e.values)>>
    BY <2>1, <2>2 DEF EstimateOf, Added, HistogramOf
  <2>5. PICK x : x = Equal(h, e.type, e.values) /\ ratios[k].num = x.num /\ ratios[k].den = x.den
    <3>1. PICK y : EstimateOf(k) = <<y>> /\ ratios[k].num = y.num /\ ratios[k].den = y.den
      BY <2>3 DEF HasEstimate
    <3>2. y = Equal(h, e.type, e.values)
      BY <2>4, <3>1
    <3> QED BY <3>1, <3>2
  <2>6. h.identifier <=> c \in Identifiers
    BY AltColumnIs, Counts
  <2>7. CASE c \in Identifiers
    <3>1. x = Frac(1, h.count)
      BY <2>1, <2>5, <2>6, <2>7 DEF Equal
    <3>2. RowsOfColumn(c) = OneEach /\ Cardinality(RowsIn(OneEach, {v})) = 1
      BY <2>1, <2>7, AltColumnIs, EachOnce
    <3> QED BY <2>5, <3>1, <3>2 DEF Frac
  <2>8. CASE c \notin Identifiers
    <3>1. x = InBuckets(h, {v})
      BY <2>5, <2>6, <2>8 DEF Equal
    <3>2. RowsOfColumn(c) = h.buckets
      BY <2>8, AltColumnIs
    <3> QED BY <2>5, <3>1, <3>2 DEF InBuckets, Frac
  <2> QED BY <2>7, <2>8
<1> QED BY <1>5, <1>6, <1>7

\* One entry more: its value is another one, or it has none.
LEMMA ValuesOn ==
  ASSUME AreAlternatives(entries), NEW k \in Nat, k + 1 \in DOMAIN entries, 1..k \subseteq DOMAIN entries
  PROVE  /\ ValuesUpTo(0) = {}
         /\ ~Compares(entries[k + 1]) => ValuesUpTo(k + 1) = ValuesUpTo(k)
         /\ Compares(entries[k + 1]) =>
              /\ ValuesUpTo(k + 1) = ValuesUpTo(k) \cup {entries[k + 1].values[1]}
              /\ ValuesUpTo(k) \cap {entries[k + 1].values[1]} = {}
<1> DEFINE n == k + 1
           Of(m) == entries[m].values[1]
<1>1. \A m \in 1..n : m \in 1..k \/ m = n
  OBVIOUS
<1>2. n \in 1..n /\ n \notin 1..k /\ 1..k \subseteq 1..n
  OBVIOUS
<1> HIDE DEF n
<1>3. ValuesUpTo(0) = {}
  BY DEF ValuesUpTo
<1>4. ~Compares(entries[n]) => ValuesUpTo(n) = ValuesUpTo(k)
  BY <1>1, <1>2 DEF ValuesUpTo
<1>5. Compares(entries[n]) => ValuesUpTo(n) = ValuesUpTo(k) \cup {Of(n)}
  BY <1>1, <1>2 DEF ValuesUpTo
<1>6. ASSUME Compares(entries[n]) PROVE ValuesUpTo(k) \cap {Of(n)} = {}
  <2> SUFFICES ASSUME NEW m \in 1..k, Compares(entries[m]), Of(m) = Of(n) PROVE FALSE
    BY DEF ValuesUpTo
  <2>1. m = n
    BY <1>6 DEF AreAlternatives, n
  <2> QED BY <1>2, <2>1
<1> QED BY <1>3, <1>4, <1>5, <1>6 DEF n

\* CombineInv holds at first.
LEMMA CombineInit == Init => CombineInv
<1> SUFFICES ASSUME Init PROVE CombineInv
  OBVIOUS
<1>1. j = 0 /\ mode = "none" /\ result = Frac(1, 1) /\ Len(ratios) = 0
  BY DEF Init
<1>2. IsFraction(result) /\ IsShare(result)
  BY <1>1, FracShare
<1> QED BY <1>1, <1>2 DEF CombineInv

\* The last loop has not begun, or the walk and the parser are done.
LEMMA CombineStays ==
  ASSUME CombineInv, FrameOf, UNCHANGED combine, Len(ratios') \in Nat,
         j = 0 \/ UNCHANGED <<i, parsed, ratios>>
  PROVE  CombineInv'
<1>1. j' = j /\ mode' = mode /\ result' = result /\ hist' = hist /\ entries' = entries /\ FilterCount' = FilterCount
      /\ (Alternated' <=> Alternated) /\ (OnUnderstated' <=> OnUnderstated)
  BY FrameKeeps DEF combine, FrameOf
<1>2. AltColumn' = AltColumn
  BY <1>1 DEF AltColumn, Column
<1>3. RowsOfColumn(AltColumn)' = RowsOfColumn(AltColumn) /\ ValuesUpTo(j)' = ValuesUpTo(j)
  BY <1>1, <1>2 DEF RowsOfColumn, ValuesUpTo
<1>4. j' \in 0..Len(ratios') /\ (j' > 0 => i' = FilterCount' /\ parsed' = FilterCount')
  BY <1>1 DEF CombineInv
<1> QED BY <1>1, <1>2, <1>3, <1>4 DEF CombineInv

\* Without OR every ratio is multiplied.
LEMMA CombineProduct ==
  ASSUME SharesContext, CombineInv, FrameOf, CombineOne, ~Alternated
  PROVE  CombineInv'
<1> USE DEF SharesContext
<1> DEFINE r == ratios[j + 1]
<1>1. /\ parsed = FilterCount /\ i = FilterCount /\ j < Len(ratios) /\ j' = j + 1
      /\ UNCHANGED <<parsed, i, ratios>>
  BY DEF CombineOne, parse, walk
<1>2. Len(ratios) \in Nat
  BY LenProperties DEF PositionsInv
<1>3. j \in Nat /\ j + 1 \in 1..Len(ratios) /\ j + 1 \in 0..Len(ratios)
  BY <1>1, <1>2 DEF CombineInv
<1>4. (Alternated' <=> Alternated) /\ (OnUnderstated' <=> OnUnderstated) /\ FilterCount' = FilterCount
  BY FrameKeeps
<1>5. RatioFine(r, j + 1)
  BY <1>3 DEF ShareInv, RatioInv
<1>6. IsFraction(result) /\ (~OnUnderstated => IsShare(result))
  BY DEF CombineInv
<1>7. j' \in 0..Len(ratios') /\ (j' > 0 => i' = FilterCount' /\ parsed' = FilterCount') /\ j' # 0
  BY <1>1, <1>3, <1>4
<1>8. CASE j % 2 = 1
  <2>1. (j + 1) % 2 = 0 /\ j + 1 >= 2
    BY <1>3, <1>8
  <2>2. r.den = 1 /\ r.num = 1
    BY <1>5, <2>1 DEF RatioFine
  <2>3. mode' = "and" /\ result' = result
    BY <1>8, <2>2 DEF CombineOne
  <2>4. ~(j' < 2)
    BY <1>1, <1>3, <2>1
  <2> QED BY <1>4, <1>6, <1>7, <2>3, <2>4 DEF CombineInv
<1>9. CASE j % 2 # 1
  <2>1. j = 0 \/ j >= 2
    BY <1>3, <1>9
  <2>2. mode' = mode /\ (mode = IF j < 2 THEN "none" ELSE "and")
    BY <1>9 DEF CombineOne, CombineInv
  <2>3. result' = TimesRatio(result, r)
    <3>1. ~(j > 0 /\ mode = "or") /\ (j = 0 \/ mode = "and")
      BY <1>3, <2>1, <2>2
    <3> QED BY <1>9, <3>1 DEF CombineOne
  <2>4. IsFraction(result') /\ (~OnUnderstated => IsShare(result'))
    BY <1>5, <1>6, <2>3, TimesShare DEF RatioFine
  <2>5. j < 2 <=> j' < 2
    BY <1>1, <1>3, <2>1
  <2> QED BY <1>4, <1>7, <2>2, <2>4, <2>5 DEF CombineInv
<1> QED BY <1>8, <1>9

\* With OR the rows of every other value are added.
LEMMA CombineSum ==
  ASSUME SharesContext, CombineInv, FrameOf, CombineOne, Alternated
  PROVE  CombineInv'
<1> USE DEF SharesContext
<1> DEFINE r == ratios[j + 1]
           e == entries[j + 1]
           v == e.values[1]
           w == RowsOfColumn(AltColumn)
           Rows(S) == Cardinality(RowsIn(w, S))
           count == hist[AltColumn].count
<1>1. /\ parsed = FilterCount /\ i = FilterCount /\ j < Len(ratios) /\ j' = j + 1
      /\ UNCHANGED <<parsed, i, ratios>>
  BY DEF CombineOne, parse, walk
<1>2. Len(ratios) \in Nat
  BY LenProperties DEF PositionsInv
<1>3. j \in Nat /\ j + 1 \in 1..Len(ratios) /\ j + 1 \in 0..Len(ratios) /\ j + 1 > 0
  BY <1>1, <1>2 DEF CombineInv
<1>4. (Alternated' <=> Alternated) /\ FilterCount' = FilterCount /\ hist' = hist /\ entries' = entries
  BY FrameKeeps DEF FrameOf
<1>5. j' \in 0..Len(ratios') /\ (j' > 0 => i' = FilterCount' /\ parsed' = FilterCount') /\ j' # 0
  BY <1>1, <1>3, <1>4
<1>6. /\ (j + 1) % 2 = 1 <=> Compares(e)
      /\ Compares(e) => r.den = count /\ r.num = Rows({v})
  BY <1>1, <1>3, AltRatios
<1>7. /\ ValuesUpTo(0) = {}
      /\ ~Compares(e) => ValuesUpTo(j + 1) = ValuesUpTo(j)
      /\ Compares(e) => ValuesUpTo(j + 1) = ValuesUpTo(j) \cup {v} /\ ValuesUpTo(j) \cap {v} = {}
  <2>1. \A k \in 1..Len(ratios) : k \in DOMAIN entries
    BY <1>1, AltRatios
  <2>2. 1..j \subseteq 1..Len(ratios)
    BY <1>2, <1>3
  <2> QED BY <1>3, <2>1, <2>2, AltColumnIs, ValuesOn
<1>8. AltColumn' = AltColumn
  BY <1>4 DEF AltColumn, Column
<1>9. RowsOfColumn(AltColumn)' = w /\ ValuesUpTo(j)' = ValuesUpTo(j')
  BY <1>4, <1>8 DEF RowsOfColumn, ValuesUpTo
<1>10. w \in [Values -> Nat] /\ count \in Nat \ {0}
  BY AltColumnIs
<1>11. \A S : Rows(S) \in Nat
  BY <1>10, RowsOfSome
<1> SUFFICES /\ mode' = IF j' < 2 THEN "none" ELSE "or"
             /\ result'.den = count /\ result'.num = Rows(ValuesUpTo(j + 1))
  BY <1>1, <1>4, <1>5, <1>8, <1>9 DEF CombineInv
<1>12. CASE j % 2 = 1
  <2>1. (j + 1) % 2 = 0 /\ j > 0 /\ ~(j' < 2)
    BY <1>1, <1>3, <1>12
  <2>2. RatioFine(r, j + 1)
    BY <1>3 DEF ShareInv, RatioInv
  <2>3. r.num = 0
    BY <2>1, <2>2 DEF RatioFine
  <2>4. mode' = "or" /\ result' = result
    BY <1>12, <2>3 DEF CombineOne
  <2>5. ValuesUpTo(j + 1) = ValuesUpTo(j)
    BY <1>6, <1>7, <2>1
  <2> QED BY <2>1, <2>4, <2>5 DEF CombineInv
<1>13. CASE j = 0
  <2>1. j % 2 # 1 /\ (j + 1) % 2 = 1 /\ j < 2 /\ j' < 2
    BY <1>1, <1>13
  <2>2. mode' = "none" /\ result' = TimesRatio(Frac(1, 1), r)
    BY <1>13, <2>1 DEF CombineOne, CombineInv
  <2>3. r.den = count /\ r.num = Rows({v}) /\ ValuesUpTo(j + 1) = {v}
    BY <1>6, <1>7, <1>13, <2>1
  <2>4. result'.num = 1 * r.num /\ result'.den = 1 * r.den
    BY <2>2 DEF TimesRatio, Frac
  <2>5. result'.num = Rows({v}) /\ result'.den = count
    BY <1>10, <1>11, <2>3, <2>4
  <2> QED BY <2>1, <2>2, <2>3, <2>5
<1>14. CASE j % 2 # 1 /\ j # 0
  <2>1. (j + 1) % 2 = 1 /\ j > 0 /\ ~(j < 2) /\ ~(j' < 2)
    BY <1>1, <1>3, <1>14
  <2>2. mode = "or" /\ result.den = count /\ result.num = Rows(ValuesUpTo(j))
    BY <2>1 DEF CombineInv
  <2>3. mode' = "or" /\ result' = PlusRatio(result, r)
    BY <1>14, <2>1, <2>2 DEF CombineOne
  <2>4. r.den = count /\ r.num = Rows({v})
    BY <1>6, <2>1
  <2>5. result'.num = Rows(ValuesUpTo(j)) + Rows({v}) /\ result'.den = count
    BY <2>2, <2>3, <2>4 DEF PlusRatio, Frac
  <2>6. Rows(ValuesUpTo(j + 1)) = Rows(ValuesUpTo(j)) + Rows({v})
    BY <1>6, <1>7, <1>10, <2>1, RowsOfBoth
  <2> QED BY <2>1, <2>3, <2>5, <2>6
<1> QED BY <1>12, <1>13, <1>14

\* CombineInv survives every step.
LEMMA CombineStep ==
  ASSUME SharesContext, CombineInv, [Next]_vars, PositionsInv'
  PROVE  CombineInv'
<1>1. FrameOf
  BY Frame
<1>2. Len(ratios') \in Nat
  BY LenProperties DEF PositionsInv
<1>3. CASE ParseEntry
  <2>1. j = 0
    <3>1. FilterCount \in Nat /\ parsed \in 0..FilterCount /\ parsed < FilterCount
      BY <1>3, EntriesWellFormed DEF SharesContext, TokensInv, ParseEntry
    <3> QED BY <3>1 DEF CombineInv
  <2>2. UNCHANGED combine
    BY <1>3 DEF ParseEntry
  <2> QED BY <1>1, <1>2, <2>1, <2>2, CombineStays
<1>4. CASE ReadNot \/ ReadSubstringList \/ ReadPredicate \/ ReadConnector
  <2>1. Walking /\ UNCHANGED combine
    BY <1>4 DEF ReadNot, ReadSubstringList, ReadPredicate, ReadConnector, Step
  <2>2. j = 0
    BY <2>1 DEF Walking, CombineInv, SharesContext, WalkInv
  <2> QED BY <1>1, <1>2, <2>1, <2>2, CombineStays
<1>5. CASE CombineOne
  BY <1>1, <1>5, CombineProduct, CombineSum DEF SharesContext
<1>6. CASE UNCHANGED vars
  <2>1. UNCHANGED combine /\ UNCHANGED <<i, parsed, ratios>>
    BY <1>6 DEF vars, walk, parse
  <2> QED BY <1>1, <1>2, <2>1, CombineStays
<1> QED BY <1>3, <1>4, <1>5, <1>6 DEF Next, Done

\* What the theorems rest on.
EstimateInv == TokensInv /\ WalkInv /\ PositionsInv /\ ShareInv /\ CombineInv

\* It holds at first.
LEMMA EstimateInit == Good /\ Init => EstimateInv
<1> SUFFICES ASSUME Good, Init PROVE EstimateInv
  OBVIOUS
<1>1. PositionsInv
  BY DEF Init, PositionsInv
<1> QED BY <1>1, TokensInit, WalkInit, SharesInit, CombineInit DEF EstimateInv

\* It survives every step.
LEMMA EstimateStep ==
  ASSUME Good, AllPositioned, AllSound, EstimateInv, [Next]_vars
  PROVE  EstimateInv'
<1>1. SharesContext /\ CombineInv
  BY DEF SharesContext, EstimateInv
<1>2. TokensInv' /\ WalkInv' /\ PositionsInv'
  BY WalkStep, PositionsStep DEF EstimateInv
<1>3. ShareInv'
  BY <1>1, SharesStep
<1>4. CombineInv'
  BY <1>1, <1>2, CombineStep
<1> QED BY <1>2, <1>3, <1>4 DEF EstimateInv

\* The rows of some values of the alternatives' column are a part of all it counts, except where
\* the histogram counts more rows than the table has.
LEMMA SumIsShare ==
  ASSUME SharesContext, Alternated, CombineInv, j > 0
  PROVE  IsFraction(result) /\ (~OnUnderstated => result.num <= result.den)
<1> DEFINE w == RowsOfColumn(AltColumn)
           n == Cardinality(RowsIn(w, ValuesUpTo(j)))
<1>1. result.den = hist[AltColumn].count /\ result.num = n
  BY DEF CombineInv
<1>2. /\ w \in [Values -> Nat] /\ hist[AltColumn].count \in Nat \ {0} /\ AltColumn \in ColumnsOf(filter)
      /\ AltColumn \notin Understated => hist[AltColumn].count = Cardinality(RowsIn(w, Values))
  BY AltColumnIs
<1>3. n \in Nat /\ n <= Cardinality(RowsIn(w, Values))
  BY <1>2, RowsOfSome
<1>4. ~OnUnderstated => AltColumn \notin Understated
  BY <1>2 DEF OnUnderstated
<1> QED BY <1>1, <1>2, <1>3, <1>4 DEF IsFraction

\* For every set of filters of these forms, every histogram and every length: the counters stay
\* in their ranges, no comparison is listed twice, and every ratio, and what they are combined to,
\* is a number of rows over a positive count.
THEOREM FilterTypes ==
  ASSUME Good, AllPositioned, AllSound
  PROVE  Spec => []TypeOK
<1>1. Init => EstimateInv
  BY EstimateInit
<1>2. EstimateInv /\ [Next]_vars => EstimateInv'
  BY EstimateStep
<1>3. EstimateInv => TypeOK
  <2> SUFFICES ASSUME EstimateInv PROVE TypeOK
    OBVIOUS
  <2>1. SharesContext /\ CombineInv /\ TokensInv /\ WalkInv /\ PositionsInv /\ RatioInv
    BY DEF SharesContext, EstimateInv, ShareInv
  <2>2. DOMAIN ratios = 1..Len(ratios) /\ Len(ratios) \in Nat
    BY <2>1, LenProperties DEF PositionsInv
  <2>3. \A k \in DOMAIN ratios : IsFraction(ratios[k])
    BY <2>1, <2>2 DEF RatioInv, RatioFine
  <2>4. mode \in {"none", "and", "or"}
    BY <2>1 DEF CombineInv
  <2>5. IsFraction(result)
    <3>1. CASE ~Alternated
      BY <2>1, <3>1 DEF CombineInv
    <3>2. CASE Alternated /\ j > 0
      BY <2>1, <3>2, SumIsShare
    <3>3. CASE j = 0
      BY <2>1, <3>3, FracShare DEF CombineInv
    <3>4. j \in Nat
      BY <2>1, <2>2 DEF CombineInv
    <3> QED BY <3>1, <3>2, <3>3, <3>4
  <2>6. Len(tableList) <= Cardinality(Predicates)
    <3> DEFINE read == {m \in 1..i : entries[m].kind = "predicate"}
    <3>1. DOMAIN entries = 1..FilterCount /\ FilterCount \in Nat
      BY <2>1, SoundEntries DEF SharesContext, TokensInv
    <3>2. IsFiniteSet(Predicates)
      <4>1. IsFiniteSet(1..FilterCount)
        BY <3>1, FS_Interval
      <4>2. Predicates \in SUBSET (1..FilterCount)
        BY <3>1 DEF Predicates
      <4> QED BY <4>1, <4>2, FS_Subset
    <3>3. read \in SUBSET Predicates
      BY <2>1, <3>1 DEF Predicates, WalkInv
    <3>4. Cardinality(read) <= Cardinality(Predicates)
      BY <3>2, <3>3, FS_Subset
    <3> QED BY <2>1, <3>4 DEF WalkInv, Passed, Comparisons
  <2> QED BY <2>1, <2>3, <2>4, <2>5, <2>6 DEF TypeOK, TokensInv, WalkInv, CombineInv
<1> QED BY <1>1, <1>2, <1>3, PTL DEF Spec

\* What getFilteredRow returns for a filter is no more than all rows of its table, however its
\* histograms are filled: the two ends of a range together keep as much as both of them less the
\* whole, alternatives keep different rows, and all else is a product of shares.  Of the columns of
\* customer this is not said, as their histograms count more rows than the table is taken to have.
THEOREM Shares ==
  ASSUME Good, AllPositioned, AllSound
  PROVE  Spec => []KeepsAShare
<1>1. Init => EstimateInv
  BY EstimateInit
<1>2. EstimateInv /\ [Next]_vars => EstimateInv'
  BY EstimateStep
<1>3. EstimateInv => KeepsAShare
  <2> SUFFICES ASSUME EstimateInv, Finished, ~OnUnderstated PROVE result.num <= result.den
    BY DEF KeepsAShare
  <2>1. SharesContext /\ CombineInv /\ PositionsInv
    BY DEF SharesContext, EstimateInv
  <2>2. CASE ~Alternated
    BY <2>1, <2>2 DEF CombineInv, IsShare
  <2>3. CASE Alternated /\ j > 0
    BY <2>1, <2>3, SumIsShare
  <2>4. CASE j = 0
    <3>1. result.num = 1 /\ result.den = 1
      BY <2>1, <2>4 DEF CombineInv, Frac
    <3> QED BY <3>1
  <2>5. j \in Nat
    BY <2>1, LenProperties DEF CombineInv, PositionsInv
  <2> QED BY <2>2, <2>3, <2>4, <2>5
<1> QED BY <1>1, <1>2, <1>3, PTL DEF Spec
=============================================================================
