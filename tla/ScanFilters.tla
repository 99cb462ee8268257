---------------------------- MODULE ScanFilters ----------------------------
(***************************************************************************)
(* The filters of the scans in the plans, each once.  An entry of a        *)
(* tableFilter is a comparison of a column, a connector or NOT, or the     *)
(* list after a substring.                                                 *)
(*                                                                         *)
(* The values of a column are ranks: 2 is the value a filter compares      *)
(* with, or 2 and 3 the lower and the upper one, and a list in an IN is    *)
(* cut to two values.  A pattern is the set of values it matches: none in  *)
(* a column without buckets, and none for "LARGE BRUSHED%", because the    *)
(* buckets of p_type have lost their blanks and the pattern keeps its own. *)
(***************************************************************************)
EXTENDS Naturals, Sequences

Compare(column, op, type, values) ==
  [kind |-> "predicate", column |-> column, op |-> op, type |-> type, values |-> values]

Connector(op) == [kind |-> "connector", op |-> op]

And == Connector("AND")
Or == Connector("OR")
Not == Connector("NOT")

ListOf(values) == [kind |-> "list", op |-> "IN", type |-> "string", values |-> values]

PlanFilters ==
  <<
    \* lineitem in Q1
    << Compare("l_shipdate", "LE", "date", <<2>>) >>,
    \* region in Q2, Q5, Q8
    << Compare("r_name", "EQ", "string", <<2>>) >>,
    \* part in Q2
    << Compare("p_size", "EQ", "number", <<2>>),
       And,
       Compare("p_type", "LIKE", "string", <<2>>) >>,
    \* customer in Q3
    << Compare("c_mktsegment", "EQ", "string", <<2>>) >>,
    \* orders in Q3
    << Compare("o_orderdate", "LT", "date", <<2>>) >>,
    \* lineitem in Q3
    << Compare("l_shipdate", "GT", "date", <<2>>) >>,
    \* lineitem in Q4
    << Compare("l_commitdate", "LT", "column", <<"l_receiptdate">>) >>,
    \* orders in Q4, Q5, Q10
    << Compare("o_orderdate", "GE", "date", <<2>>),
       And,
       Compare("o_orderdate", "LT", "date", <<3>>) >>,
    \* lineitem in Q6
    << Compare("l_shipdate", "GE", "date", <<2>>),
       And,
       Compare("l_shipdate", "LT", "date", <<3>>),
       And,
       Compare("l_discount", "BETWEEN", "number", <<2, 3>>),
       And,
       Compare("l_quantity", "LT", "number", <<2>>) >>,
    \* lineitem in Q7
    << Compare("l_shipdate", "BETWEEN", "date", <<2, 3>>) >>,
    \* nation in Q7
    << Compare("n_name", "EQ", "string", <<2>>),
       Or,
       Compare("n_name", "EQ", "string", <<3>>) >>,
    \* part in Q8
    << Compare("p_type", "EQ", "string", <<2>>) >>,
    \* orders in Q8
    << Compare("o_orderdate", "BETWEEN", "date", <<2, 3>>) >>,
    \* part in Q9, Q20
    << Compare("p_name", "LIKE", "string", <<>>) >>,
    \* lineitem in Q10
    << Compare("l_returnflag", "EQ", "string", <<2>>) >>,
    \* nation in Q11, Q20, Q21
    << Compare("n_name", "EQ", "string", <<2>>) >>,
    \* lineitem in Q12
    << Compare("l_shipmode", "IN", "string", <<1, 3>>),
       And,
       Compare("l_commitdate", "LT", "column", <<"l_receiptdate">>),
       And,
       Compare("l_shipdate", "LT", "column", <<"l_commitdate">>),
       And,
       Compare("l_receiptdate", "GE", "date", <<2>>),
       And,
       Compare("l_receiptdate", "LT", "date", <<3>>) >>,
    \* orders in Q13
    << Not,
       Compare("o_comment", "LIKE", "string", <<>>) >>,
    \* lineitem in Q14, Q15, Q20
    << Compare("l_shipdate", "GE", "date", <<2>>),
       And,
       Compare("l_shipdate", "LT", "date", <<3>>) >>,
    \* supplier in Q16
    << Compare("s_comment", "LIKE", "string", <<>>) >>,
    \* part in Q16
    << Compare("p_brand", "NE", "string", <<2>>),
       And,
       Not,
       Compare("p_type", "LIKE", "string", <<>>),
       And,
       Compare("p_size", "IN", "number", <<1, 3>>) >>,
    \* part in Q17
    << Compare("p_brand", "EQ", "string", <<2>>),
       And,
       Compare("p_container", "EQ", "string", <<2>>) >>,
    \* lineitem in Q19
    << Compare("l_quantity", "GE", "number", <<2>>),
       And,
       Compare("l_quantity", "LE", "number", <<3>>),
       And,
       Compare("l_shipmode", "IN", "string", <<1, 3>>),
       And,
       Compare("l_shipinstruct", "EQ", "string", <<2>>) >>,
    \* part in Q19
    << Compare("p_brand", "EQ", "string", <<2>>),
       And,
       Compare("p_container", "IN", "string", <<1, 3>>),
       And,
       Compare("p_size", "BETWEEN", "number", <<2, 3>>) >>,
    \* lineitem in Q21
    << Compare("l_receiptdate", "GT", "column", <<"l_commitdate">>) >>,
    \* orders in Q21
    << Compare("o_orderstatus", "EQ", "string", <<2>>) >>,
    \* customer in Q22
    << Compare("c_acctbal", "GT", "number", <<2>>),
       And,
       Compare("c_phone", "SUBSTRING", "string", <<2>>),
       ListOf(<<1, 2, 3, 4, 5, 6, 7>>) >>,
    \* customer in Q22
    << Compare("c_phone", "SUBSTRING", "string", <<2>>),
       ListOf(<<1, 2, 3, 4, 5, 6, 7>>) >>
  >>

\* Columns of the filters without buckets, and those whose buckets count more
\* rows than their table has (checked against the histograms in HistogramTable).
WithoutBuckets == {"r_name", "n_name", "p_name", "o_comment", "s_comment", "c_phone"}
OfCustomer == {"c_mktsegment", "c_acctbal"}
=============================================================================
