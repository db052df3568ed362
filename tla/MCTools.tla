------------------------------ MODULE MCTools -------------------------------
(* Instances of Tools for TLC: the component of a node is named as the node; *)
(* b comes back with another address, and with data that cannot be logged.   *)
EXTENDS Tools

CONSTANTS a, b, i1, i2, i3, plain, raw, pos, rot
MCName == [k \in Nodes |-> k]
Component(k, ip, data) == [of |-> k, ip |-> ip, data |-> data]
MCComponents ==
  [k \in Nodes |-> IF k = a THEN {Component(a, i1, plain)} ELSE {Component(b, i2, plain), Component(b, i3, raw)}]

(* Records of matrices by columns, by rows and of one row, groups that the   *)
(* loader knows and does not, and bundles of two sizes with and without      *)
(* names; and with a mat that is a part of one with longer rows.             *)
Matrix(order, rows, cols) == [kind |-> "matrix", order |-> order, rows |-> rows, cols |-> cols]
Group(size, rn) == [kind |-> "group", size |-> size, rn |-> rn]
Bundle(names) == [kind |-> "bundle", sizes |-> <<2, 3>>, names |-> names]
MCShapes ==
  {{Matrix("F", 2, 3), Matrix("C", 2, 3), Matrix("C", 1, 2), Group(3, FALSE), Group(9, TRUE),
    Bundle(<<rot, pos>>), Bundle(<<>>)},
   {Matrix("F", 2, 3), [kind |-> "mat", rows |-> 2, cols |-> 2, step |-> 3]}}
=============================================================================
