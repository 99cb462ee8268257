-------------------------- MODULE SnippetCatalogue --------------------------
(***************************************************************************)
(* The plans getSnippetInfo reads: per TPC-H query the snippets of its     *)
(* files, in the order it reads them.  The k-th file has workID k - 1.     *)
(*                                                                         *)
(* A snippet has its type, the alias of its result, the names it reads     *)
(* ("none" for a missing second), the number of its filter entries, of its *)
(* projected and of its grouping columns.  Aliases are written without the *)
(* prefix ProcessTable, and the last one as "result".                      *)
(***************************************************************************)
EXTENDS Naturals, Sequences

Snippet(type, alias, in, filters) ==
  [type |-> type, alias |-> alias, in |-> in, filters |-> filters,
   projected |-> 0, groupBy |-> 0, column |-> "none", negated |-> FALSE]

CsdScan(alias, table, filters) == Snippet("CSD_Scan", alias, <<table, "none">>, filters)

Aggregate(alias, in, projected, groupBy) ==
  [Snippet("Aggregation", alias, <<in, "none">>, 0) EXCEPT !.projected = projected, !.groupBy = groupBy]

\* column is the table of the first column compared.
Filter(alias, in, column, filters) ==
  [Snippet("Storage_Filter", alias, <<in, "none">>, filters) EXCEPT !.column = column]

Join(alias, in1, in2, filters) == Snippet("Inner_Join", alias, <<in1, in2>>, filters)
OuterJoin(alias, in1, in2, filters) == Snippet("Left_Outer_Join", alias, <<in1, in2>>, filters)
UnionOf(alias, in1, in2, filters) == Snippet("Union", alias, <<in1, in2>>, filters)
DependJoin(alias, in1, in2, filters) == Snippet("Depend_Inner_Join", alias, <<in1, in2>>, filters)
Exists(alias, in1, in2, filters) == Snippet("Depend_Exist", alias, <<in1, in2>>, filters)
InOf(alias, in1, in2, filters) == Snippet("In", alias, <<in1, in2>>, filters)
NotIn(alias, in1, in2, filters) == [InOf(alias, in1, in2, filters) EXCEPT !.negated = TRUE]

Plan1 == <<
  CsdScan("0-0", "lineitem", 1), Aggregate("result", "0-0", 10, 2) >>

Plan2 == <<
  CsdScan("1-0", "partsupp", 0), CsdScan("1-1", "supplier", 0),
  CsdScan("1-2", "nation", 0), CsdScan("1-3", "region", 1), CsdScan("1-4", "part", 3),
  Join("1-5", "1-1", "1-0", 1), Join("1-6", "1-2", "1-5", 1), Join("1-7", "1-3", "1-6", 1),
  Join("1-8", "1-1", "1-0", 1), Join("1-9", "1-2", "1-8", 1),
  Join("1-10", "1-3", "1-9", 1), Join("1-11", "1-4", "1-10", 1),
  DependJoin("result", "1-11", "1-7", 1) >>

Plan3 == <<
  CsdScan("2-0", "customer", 1), CsdScan("2-1", "orders", 1),
  CsdScan("2-2", "lineitem", 1), Join("2-3", "2-0", "2-1", 1),
  Join("2-4", "2-2", "2-3", 1), Aggregate("snippet2-5", "2-4", 4, 3) >>

Plan4 == <<
  CsdScan("3-0", "lineitem", 1), CsdScan("3-1", "orders", 3),
  Exists("result", "3-1", "3-0", 0) >>

Plan5 == <<
  CsdScan("4-0", "customer", 0), CsdScan("4-1", "orders", 3),
  CsdScan("4-2", "lineitem", 0), CsdScan("4-3", "supplier", 0),
  CsdScan("4-4", "nation", 0), CsdScan("4-5", "region", 1), Join("4-6", "4-0", "4-1", 1),
  Join("4-7", "4-2", "4-6", 1), Join("4-8", "4-7", "4-3", 3), Join("4-9", "4-8", "4-4", 1),
  Join("4-10", "4-9", "4-5", 1), Aggregate("result", "4-10", 2, 1) >>

Plan6 == <<
  CsdScan("5-0", "lineitem", 7), Aggregate("result", "5-0", 1, 0) >>

Plan7 == <<
  CsdScan("6-0", "supplier", 0), CsdScan("6-1", "lineitem", 1),
  CsdScan("6-2", "orders", 0), CsdScan("6-3", "customer", 0), CsdScan("n1", "nation", 3),
  CsdScan("n2", "nation", 3), Join("6-6", "6-0", "6-1", 1), Join("6-7", "6-2", "6-6", 1),
  Join("6-8", "6-3", "6-7", 1), Join("6-9", "6-8", "n1", 1), Join("6-10", "6-9", "n2", 1),
  Filter("6-11", "6-10", "n1", 3), Filter("6-12", "6-10", "n1", 3),
  UnionOf("shipping", "6-11", "6-12", 1), Aggregate("result", "shipping", 4, 3) >>

Plan8 == <<
  CsdScan("7-0", "part", 1), CsdScan("7-1", "supplier", 0), CsdScan("7-2", "lineitem", 0),
  CsdScan("7-3", "orders", 1), CsdScan("7-4", "customer", 0), CsdScan("n1", "nation", 0),
  CsdScan("n2", "nation", 0), CsdScan("7-7", "region", 1), Join("7-8", "7-0", "7-2", 1),
  Join("7-9", "7-1", "7-8", 1), Join("7-10", "7-9", "7-3", 1),
  Join("7-11", "7-10", "7-4", 1), Join("7-12", "7-11", "n1", 1),
  Join("7-13", "7-12", "7-7", 1), Join("all_nations", "7-13", "n2", 1),
  Aggregate("7-15", "all_nations", 3, 1), Aggregate("result", "7-15", 2, 0) >>

Plan9 == <<
  CsdScan("8-0", "part", 1), CsdScan("8-1", "supplier", 0), CsdScan("8-2", "lineitem", 0),
  CsdScan("8-3", "partsupp", 0), CsdScan("8-4", "orders", 0), CsdScan("8-5", "nation", 0),
  Join("8-6", "8-1", "8-2", 1), Join("8-7", "8-3", "8-6", 3), Join("8-8", "8-0", "8-7", 1),
  Join("8-9", "8-4", "8-8", 1), Join("profit", "8-9", "8-5", 1),
  Aggregate("result", "profit", 3, 2) >>

Plan10 == <<
  CsdScan("9-0", "customer", 0), CsdScan("9-1", "orders", 3),
  CsdScan("9-2", "lineitem", 1), CsdScan("9-3", "nation", 0), Join("9-4", "9-0", "9-1", 1),
  Join("9-5", "9-2", "9-4", 1), Join("9-6", "9-5", "9-3", 1),
  Aggregate("result", "9-6", 8, 7) >>

Plan11 == <<
  CsdScan("10-0", "partsupp", 0), CsdScan("10-1", "supplier", 0),
  CsdScan("10-2", "nation", 1), Join("10-3", "10-0", "10-1", 1),
  Join("10-4", "10-2", "10-3", 1), Join("10-5", "10-0", "10-1", 1),
  Join("10-6", "10-5", "10-2", 1), Join("result", "10-6", "10-4", 1) >>

Plan12 == <<
  CsdScan("11-0", "orders", 0), CsdScan("11-1", "lineitem", 9),
  Join("result", "11-0", "11-1", 1) >>

Plan13 == <<
  CsdScan("12-0", "orders", 2), CsdScan("12-1", "customer", 0),
  OuterJoin("c_orders", "12-1", "12-0", 1), Aggregate("result", "c_orders", 2, 1) >>

Plan14 == <<
  CsdScan("13-0", "lineitem", 3), CsdScan("13-1", "part", 0),
  Join("13-2", "13-0", "13-1", 1), Aggregate("result", "13-2", 1, 0) >>

Plan15 == <<
  CsdScan("14-0", "lineitem", 3), Aggregate("revenue0", "14-0", 2, 1),
  CsdScan("14-2", "supplier", 0), Aggregate("14-3", "revenue0", 1, 0),
  Join("14-4", "revenue0", "14-3", 1), Join("result", "14-2", "14-4", 1) >>

Plan16 == <<
  CsdScan("15-0", "supplier", 1), CsdScan("15-1", "partsupp", 0),
  CsdScan("15-2", "part", 6), NotIn("15-3", "15-1", "15-0", 2),
  Join("result", "15-2", "15-3", 1) >>

Plan17 == <<
  CsdScan("16-0", "lineitem", 0), CsdScan("16-1", "part", 3),
  Join("16-2", "16-1", "16-0", 1), DependJoin("result", "16-2", "16-0", 1) >>

Plan18 == <<
  CsdScan("17-0", "lineitem", 0), Aggregate("17-1", "17-0", 2, 1),
  CsdScan("17-2", "customer", 0), CsdScan("17-3", "orders", 0),
  InOf("17-4", "17-3", "17-1", 1), Join("17-5", "17-2", "17-4", 1),
  Join("17-6", "17-5", "17-0", 1), Aggregate("result", "17-6", 6, 5) >>

Plan19 == <<
  CsdScan("19-0", "lineitem", 7), CsdScan("19-1", "part", 5),
  Join("19-2", "19-1", "19-0", 1), CsdScan("19-3", "lineitem", 7),
  CsdScan("19-4", "part", 5), Join("19-5", "19-4", "19-3", 1),
  CsdScan("19-6", "lineitem", 7), CsdScan("19-7", "part", 5),
  Join("19-8", "19-7", "19-6", 1), UnionOf("19-9", "19-2", "19-5", 1),
  UnionOf("result", "19-8", "19-9", 1) >>

Plan20 == <<
  CsdScan("19-0", "lineitem", 3), CsdScan("19-1", "part", 1),
  CsdScan("19-2", "partsupp", 0), InOf("19-3", "19-2", "19-1", 1),
  DependJoin("19-4", "19-3", "19-0", 1), CsdScan("19-5", "supplier", 0),
  CsdScan("19-6", "nation", 1), InOf("19-7", "19-5", "19-4", 1),
  Join("result", "19-7", "19-6", 1) >>

Plan21 == <<
  CsdScan("l3", "lineitem", 1), CsdScan("l2", "lineitem", 0), CsdScan("l1", "lineitem", 1),
  CsdScan("20-3", "supplier", 0), CsdScan("20-4", "orders", 1),
  CsdScan("20-5", "nation", 1), Join("20-6", "20-3", "l1", 1),
  Join("20-7", "20-4", "20-6", 1), Join("20-8", "20-7", "20-5", 1),
  Exists("20-9", "20-8", "l2", 0), Exists("result", "20-9", "l3", 1) >>

Plan22 == <<
  CsdScan("21-0", "customer", 4), Aggregate("21-1", "21-0", 1, 0),
  CsdScan("21-2", "orders", 0), CsdScan("21-3", "customer", 2),
  Join("21-4", "21-3", "21-1", 1), Exists("custsale", "21-4", "21-2", 1),
  Aggregate("result", "custsale", 3, 1) >>

Catalogue ==
  << Plan1, Plan2, Plan3, Plan4, Plan5, Plan6, Plan7, Plan8, Plan9, Plan10, Plan11,
     Plan12, Plan13, Plan14, Plan15, Plan16, Plan17, Plan18, Plan19, Plan20, Plan21, Plan22 >>
=============================================================================
