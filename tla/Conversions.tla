---------------------------- MODULE Conversions -----------------------------
(* How an object of a C++ program goes through JSON, and comes out in C++    *)
(* (Json2Eigen.hpp, Json2Manif.hpp, NamedBundle.hpp, JsonOpencv.hpp) or in a *)
(* data frame (scripts/log_plot_helpers.py).  An entry is named by its place *)
(* in the object, <<row, column>>, <<coefficient>> or <<element,             *)
(* coefficient>> from 0, so that where it ends up can be seen.  A flat array *)
(* has all entries in a sequence.  Sizes are static in C++, and all records  *)
(* of a data set have the same shape.                                        *)
EXTENDS Naturals, Sequences

(* An object has a kind.  "matrix" (Eigen): rows, cols and order, "C" by     *)
(* rows or "F" by columns.  "mat" (cv::Mat of one channel of floats): rows,  *)
(* cols, and step, the floats from a row to the next.  "group" (manif): size *)
(* coefficients, and whether it is an Rn.  "bundle": sizes of its elements;  *)
(* names, or none.                                                           *)
Places(o) ==
  CASE o.kind \in {"matrix", "mat"} -> (0 .. o.rows - 1) \X (0 .. o.cols - 1)
    [] o.kind = "group"             -> {<<i>> : i \in 0 .. o.size - 1}
    [] o.kind = "bundle"            -> UNION {{<<e - 1, i>> : i \in 0 .. o.sizes[e] - 1} : e \in DOMAIN o.sizes}

(* What the C++ types are: sizes are not zero, the rows of a mat do not      *)
(* overlap, and the names of a bundle, those of an enum, differ.             *)
IsObject(o) ==
  \/ o.kind = "matrix" /\ o.rows \in Nat \ {0} /\ o.cols \in Nat \ {0} /\ o.order \in {"C", "F"}
  \/ o.kind = "mat" /\ o.rows \in Nat \ {0} /\ o.cols \in Nat \ {0} /\ o.step \in Nat /\ o.step >= o.cols
  \/ o.kind = "group" /\ o.size \in Nat \ {0} /\ o.rn \in BOOLEAN
  \/ /\ o.kind = "bundle" /\ o.sizes \in Seq(Nat \ {0}) /\ o.sizes # <<>>
     /\ \/ o.names = <<>>
        \/ /\ DOMAIN o.names = DOMAIN o.sizes
           /\ \A e, f \in DOMAIN o.sizes : o.names[e] = o.names[f] => e = f

Dumped(o) == [p \in Places(o) |-> p]

ByRows(o) == [k \in 1 .. o.rows * o.cols |-> <<(k - 1) \div o.cols, (k - 1) % o.cols>>]
ByColumns(o) == [k \in 1 .. o.rows * o.cols |-> <<(k - 1) % o.rows, (k - 1) \div o.rows>>]

(* to_json: the entries in the order of the memory, and what that order is.  *)
Stored(m) == IF m.order = "C" THEN ByRows(m) ELSE ByColumns(m)
isContinuous(m) == m.step = m.cols \/ m.rows = 1
Memory(m, offset) == <<offset \div m.step, offset % m.step>>
Walked(m) ==
  [k \in 1 .. m.rows * m.cols |->
     IF isContinuous(m) THEN Memory(m, k - 1)
     ELSE Memory(m, ((k - 1) \div m.cols) * m.step + ((k - 1) % m.cols))]

matrix_to_json(m) == [shape |-> <<m.rows, m.cols>>, order |-> m.order, data |-> Stored(m)]
mat_to_json(m) == [shape |-> <<m.rows, m.cols>>, data |-> Walked(m)]
group_to_json(g) == [coeffs |-> [i \in 1 .. g.size |-> <<i - 1>>]]
bundle_to_json(b) ==
  [elements |-> [e \in DOMAIN b.sizes |-> [coeffs |-> [i \in 1 .. b.sizes[e] |-> <<e - 1, i - 1>>]]]]
named_to_json(b) ==
  [elements |-> [e \in DOMAIN b.sizes |->
     [coeffs |-> bundle_to_json(b).elements[e].coeffs, name |-> b.names[e]]]]

to_json(o) ==
  CASE o.kind = "matrix" -> matrix_to_json(o)
    [] o.kind = "mat"    -> mat_to_json(o)
    [] o.kind = "group"  -> group_to_json(o)
    [] o.kind = "bundle" -> IF o.names = <<>> THEN bundle_to_json(o) ELSE named_to_json(o)

(* There is a from_json for objects of this type, and its assertions hold.   *)
HasFromJson(o) == o.kind = "matrix" => o.order = "F" \/ o.rows = 1

(* from_json into an object of the same type: what each place gets.          *)
matrix_from_json(j, m) == [p \in Places(m) |-> j.data[p[2] * m.rows + p[1] + 1]]
mat_from_json(j, m) == [p \in Places(m) |-> j.data[p[1] * j.shape[2] + p[2] + 1]]
group_from_json(j, g) == [p \in Places(g) |-> j.coeffs[p[1] + 1]]
bundle_from_json(j, b) == [p \in Places(b) |-> j.elements[p[1] + 1].coeffs[p[2] + 1]]

from_json(j, o) ==
  CASE o.kind = "matrix" -> matrix_from_json(j, o)
    [] o.kind = "mat"    -> mat_from_json(j, o)
    [] o.kind = "group"  -> group_from_json(j, o)
    [] o.kind = "bundle" -> bundle_from_json(j, o)
-----------------------------------------------------------------------------
(* The loader takes the type of a cv::Mat, a number, for a manif type's name. *)
FrameRaises(o) == o.kind = "mat"

(* The loader knows the types of manif for Python, which end with R8; what   *)
(* it does not know has its coefficients dropped without a column for them.  *)
Dropped(o) == o.kind = "group" /\ o.rn /\ o.size > 8

(* Columns are named after the index in an array without its sizes of one,   *)
(* or after the name, else the number, of the element.                       *)
Squeezed(shape, p) ==
  (IF shape[1] = 1 THEN <<>> ELSE <<p[1]>>) \o (IF shape[2] = 1 THEN <<>> ELSE <<p[2]>>)
Reshaped(j, p) ==
  j.data[(IF j.order = "C" THEN p[1] * j.shape[2] + p[2] ELSE p[2] * j.shape[1] + p[1]) + 1]

create_numpy_arrays(j) ==
  LET Indices == (0 .. j.shape[1] - 1) \X (0 .. j.shape[2] - 1)
  IN  [c \in {Squeezed(j.shape, p) : p \in Indices} |->
         Reshaped(j, CHOOSE p \in Indices : Squeezed(j.shape, p) = c)]

get_element_names(j) ==
  [e \in DOMAIN j.elements |-> IF "name" \in DOMAIN j.elements[1] THEN j.elements[e].name ELSE e - 1]

create_manif_groups(j) ==
  LET names == get_element_names(j)
  IN  [c \in UNION {{<<names[e], i - 1>> : i \in DOMAIN j.elements[e].coeffs} : e \in DOMAIN names} |->
         LET e == CHOOSE e \in DOMAIN names : names[e] = c[1] IN j.elements[e].coeffs[c[2] + 1]]

Frame(j, o) ==
  CASE o.kind = "matrix" -> create_numpy_arrays(j)
    [] o.kind = "group"  -> [c \in IF Dropped(o) THEN {} ELSE Places(o) |-> j.coeffs[c[1] + 1]]
    [] o.kind = "bundle" -> create_manif_groups(j)

(* Where a reader looks for the entry of a place, and what he finds. *)
Column(o, p) ==
  CASE o.kind = "matrix" -> Squeezed(<<o.rows, o.cols>>, p)
    [] o.kind = "group"  -> p
    [] o.kind = "bundle" -> <<IF o.names = <<>> THEN p[1] ELSE o.names[p[1] + 1], p[2]>>
Looked(frame, o) == [p \in {p \in Places(o) : Column(o, p) \in DOMAIN frame} |-> frame[Column(o, p)]]
=============================================================================
