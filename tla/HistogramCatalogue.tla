------------------------- MODULE HistogramCatalogue -------------------------
(***************************************************************************)
(* What InitHistogram does, column by column in its order: the fields it   *)
(* sets, the text it reads into input, and the column that receives the    *)
(* buckets made from the text.                                             *)
(*                                                                         *)
(* A text is a set of lines.  A line names a range of values with how many *)
(* rows have one of them; the numbers of rows are left out but for their   *)
(* sum.  Prices and balances are in whole units, and the bounds of their   *)
(* lines, which are those of the rows that were found, are moved to the    *)
(* grid they come from.  Rates are in hundredths, dates are days since     *)
(* 1 January 1992, and the names of a column of strings are numbered.      *)
(***************************************************************************)
EXTENDS Integers, Sequences

Cells(cells, first, step, width) ==
  {[lo |-> first + step * (k - 1), hi |-> first + step * (k - 1) + width] : k \in cells}

Singles(n, first) == Cells(1..n, first, 1, 0)
Names(n) == Singles(n, 1)

\* Ten days a line, but the last.
TenDays(n, first, last) == Cells(1..n - 1, first, 10, 9) \cup {[lo |-> first + 10 * (n - 1), hi |-> last]}

\* A column whose values tell its rows apart: no buckets.
Identifier(column, table) ==
  [column |-> column, table |-> table, identifier |-> TRUE, bucketNum |-> 0,
   text |-> {}, to |-> "none", make |-> "none"]

\* The fields of a column, the text after them, and how it becomes buckets.
Bucketed(column, table, bucketNum, make, text) ==
  [column |-> column, table |-> table, identifier |-> FALSE, bucketNum |-> bucketNum,
   text |-> text, to |-> column, make |-> make]

\* Fields and a text, but no assignment.
Unassigned(column, table, bucketNum, text) ==
  [Bucketed(column, table, bucketNum, "none", text) EXCEPT !.to = "none"]

-----------------------------------------------------------------------------
partIdentifiers == <<Identifier("p_name", "part"), Identifier("p_partkey", "part")>>
p_mfgr == Bucketed("p_mfgr", "part", 5, "makeDataMap", Names(5))
p_brand == Bucketed("p_brand", "part", 25, "makeDataMap", Names(25))
p_type == Bucketed("p_type", "part", 150, "makeDataMap", Names(150))
p_size == Bucketed("p_size", "part", 50, "makeDataMap", Singles(50, 1))
p_container == Bucketed("p_container", "part", 40, "makeDataMap", Names(40))
p_retailprice == Bucketed("p_retailprice", "part", 240, "makeDataMapFloat", Cells(1..240, 901, 5, 4))

supplierIdentifiers ==
  <<Identifier("p_comment", "part"), Identifier("s_suppkey", "supplier"),
    Identifier("s_name", "supplier"), Identifier("s_address", "supplier")>>
s_nationkey == Bucketed("s_nationkey", "supplier", 25, "makeDataMap", Singles(25, 0))
s_phone == Identifier("s_phone", "supplier")
s_acctbal == Bucketed("s_acctbal", "supplier", 251, "makeDataMap", Cells(1..251, -1011, 44, 43))
s_comment == Identifier("s_comment", "supplier")

\* The buckets of ps_partkey are assigned to ps_suppkey, which has no fields.
ps_partkey ==
  [Bucketed("ps_partkey", "partsupp", 250, "makeDataMapFloat", Cells(1..250, 1, 800, 799))
     EXCEPT !.to = "ps_suppkey"]
ps_availqty == Bucketed("ps_availqty", "partsupp", 250, "makeDataMap", Cells(1..250, 1, 40, 39))
ps_supplycost == Bucketed("ps_supplycost", "partsupp", 200, "makeDataMap", Cells(1..200, 1, 5, 4))

customerIdentifiers ==
  <<Identifier("ps_comment", "partsupp"), Identifier("c_custkey", "customer"),
    Identifier("c_name", "customer"), Identifier("c_phone", "customer")>>
c_acctbal == Bucketed("c_acctbal", "customer", 221, "makeDataMap", Cells(1..221, -1049, 50, 49))
c_mktsegment == Bucketed("c_mktsegment", "customer", 5, "makeDataMap", Names(5))

ordersIdentifiers == <<Identifier("c_comment", "customer"), Identifier("o_orderkey", "orders")>>
o_custkey == Bucketed("o_custkey", "orders", 250, "makeDataMap", Cells(1..250, 1, 600, 598))
o_orderstatus == Bucketed("o_orderstatus", "orders", 3, "makeDataMap", Names(3))
\* Few orders cost more than half a million.
o_totalprice ==
  Bucketed("o_totalprice", "orders", 210, "makeDataMap",
           Cells(1..202 \cup {204, 205, 207, 210, 211, 213, 218, 223}, 1, 2500, 2499))
o_orderpriority == Unassigned("o_orderpriority", "orders", 5, Names(5))
o_clerk == Unassigned("o_clerk", "orders", 1000, {})
o_shippriority == Unassigned("o_shippriority", "orders", 1, {})
o_comment == Identifier("o_comment", "orders")
o_orderdate == Bucketed("o_orderdate", "orders", 241, "makeDataMapDate", TenDays(241, 0, 2405))

\* Keys of orders are sparse: eight in each thirty-two.
l_orderkey ==
  Bucketed("l_orderkey", "lineitem", 240, "makeDataMapFloat",
           {[lo |-> 25000 * k + <<1, 24, 16, 8>>[(k % 4) + 1],
             hi |-> 25000 * (k + 1) - <<1, 9, 17, 0>>[(k % 4) + 1]] : k \in 0..239})
l_partkey == Bucketed("l_partkey", "lineitem", 200, "makeDataMapFloat", Cells(1..200, 1, 1000, 999))
l_quantity == Bucketed("l_quantity", "lineitem", 50, "makeDataMap", Singles(50, 1))
l_extendedprice ==
  Bucketed("l_extendedprice", "lineitem", 209, "makeDataMapFloat", Cells(2..210, 1, 500, 499))
l_discount == Bucketed("l_discount", "lineitem", 11, "makeDataMap", Singles(11, 0))
l_tax == Bucketed("l_tax", "lineitem", 9, "makeDataMap", Singles(9, 0))
l_returnflag == Bucketed("l_returnflag", "lineitem", 3, "makeDataMap", Names(3))
l_linestatus == Unassigned("l_linestatus", "lineitem", 2, Names(2))
l_shipdate == Bucketed("l_shipdate", "lineitem", 253, "makeDataMapDate", TenDays(253, 1, 2526))
l_commitdate == Bucketed("l_commitdate", "lineitem", 247, "makeDataMapDate", TenDays(247, 30, 2495))
l_receiptdate == Bucketed("l_receiptdate", "lineitem", 256, "makeDataMapDate", TenDays(256, 3, 2556))
l_shipinstruct == Bucketed("l_shipinstruct", "lineitem", 4, "makeDataMap", Names(4))
l_shipmode == Bucketed("l_shipmode", "lineitem", 7, "makeDataMap", Names(7))

nationIdentifiers ==
  <<Identifier("l_comment", "lineitem"), Identifier("n_nationkey", "nation"), Identifier("n_name", "nation")>>
n_regionkey == Bucketed("n_regionkey", "nation", 5, "makeDataMap", Singles(5, 0))
regionIdentifiers ==
  <<Identifier("n_comment", "nation"), Identifier("r_regionkey", "region"),
    Identifier("r_name", "region"), Identifier("r_comment", "region")>>

\* InitHistogram from top to bottom.
Columns ==
  partIdentifiers \o <<p_mfgr, p_brand, p_type, p_size, p_container, p_retailprice>>
  \o supplierIdentifiers \o <<s_nationkey, s_phone, s_acctbal, s_comment>>
  \o <<ps_partkey, ps_availqty, ps_supplycost>>
  \o customerIdentifiers \o <<c_acctbal, c_mktsegment>>
  \o ordersIdentifiers \o <<o_custkey, o_orderstatus, o_totalprice, o_orderpriority, o_clerk,
                            o_shippriority, o_comment, o_orderdate>>
  \o <<l_orderkey, l_partkey, l_quantity, l_extendedprice, l_discount, l_tax, l_returnflag,
       l_linestatus, l_shipdate, l_commitdate, l_receiptdate, l_shipinstruct, l_shipmode>>
  \o nationIdentifiers \o <<n_regionkey>> \o regionIdentifiers

-----------------------------------------------------------------------------
\* The count of a column: the rows of its table, by constants.
TableRows ==
  [part |-> 200000, supplier |-> 10000, partsupp |-> 800000, customer |-> 15000,
   orders |-> 1500000, lineitem |-> 6000000, nation |-> 25, region |-> 5]

\* What the lines of each text on a column of the table add up to.
TextRows ==
  [part |-> 200000, supplier |-> 10000, partsupp |-> 800000, customer |-> 150000,
   orders |-> 1500000, lineitem |-> 6001215, nation |-> 25, region |-> 5]
=============================================================================
