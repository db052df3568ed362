---------------------------- MODULE DatasetProofs ---------------------------
(* Proofs about Dataset and Conversions for every set of objects, of every   *)
(* size, and every number of records.                                        *)
EXTENDS Dataset, Integers, TLAPS

(* The index in an array of entry r of row q, and the division that takes it *)
(* apart again.                                                              *)
Index(q, d, r) == q * d + r

LEMMA ModRange ==
  ASSUME NEW x \in Int, NEW d \in Nat \ {0}
  PROVE  x % d \in 0 .. d - 1
OBVIOUS

LEMMA DivMod ==
  ASSUME NEW d \in Nat \ {0}, NEW x \in Int
  PROVE  x = (x \div d) * d + (x % d) /\ x \div d \in Int
OBVIOUS

LEMMA Unique ==
  ASSUME NEW d \in Nat \ {0}, NEW q \in Nat, NEW r \in 0 .. d - 1, NEW p \in Int, NEW s \in 0 .. d - 1,
         q * d + r = p * d + s
  PROVE  q = p /\ r = s
<1>1. q >= p + 1 => q * d >= p * d + d
  OBVIOUS
<1>2. p >= q + 1 => p * d >= q * d + d
  OBVIOUS
<1>3. q * d \in Int /\ p * d \in Int
  OBVIOUS
<1>. QED
  BY <1>1, <1>2, <1>3

LEMMA Apart ==
  ASSUME NEW d \in Nat, NEW q \in Nat, NEW r \in Nat, r < d
  PROVE  Index(q, d, r) \in Nat /\ Index(q, d, r) \div d = q /\ Index(q, d, r) % d = r
<1>1. d \in Nat \ {0} /\ r \in 0 .. d - 1
  OBVIOUS
<1>2. (q * d + r) \div d = q /\ (q * d + r) % d = r
  BY <1>1, DivMod, Unique, ModRange
<1>3. q * d \in Nat
  OBVIOUS
<1>. QED
  BY <1>2, <1>3 DEF Index

LEMMA Within ==
  ASSUME NEW a \in Nat, NEW d \in Nat, NEW q \in Nat, NEW r \in Nat, q < a, r < d
  PROVE  Index(q, d, r) + 1 \in 1 .. a * d
<1>1. a >= q + 1 => a * d >= q * d + d
  OBVIOUS
<1>2. q * d \in Nat /\ a * d \in Nat
  OBVIOUS
<1>. QED
  BY <1>1, <1>2 DEF Index
-----------------------------------------------------------------------------
(* Where the entries of a matrix are in its array. *)
LEMMA MatrixStored ==
  ASSUME NEW o, o.kind = "matrix", IsObject(o), NEW x \in 0 .. o.rows - 1, NEW y \in 0 .. o.cols - 1
  PROVE  /\ ByRows(o)[x * o.cols + y + 1] = <<x, y>>
         /\ ByColumns(o)[y * o.rows + x + 1] = <<x, y>>
<1>1. o.rows \in Nat \ {0} /\ o.cols \in Nat \ {0} /\ x \in Nat /\ y \in Nat /\ x < o.rows /\ y < o.cols
  BY DEF IsObject
<1>. DEFINE k == Index(x, o.cols, y)
            l == Index(y, o.rows, x)
<1>2. k \in Nat /\ k + 1 \in 1 .. o.rows * o.cols /\ k \div o.cols = x /\ k % o.cols = y
  BY <1>1, Apart, Within
<1>3. l \in Nat /\ l + 1 \in 1 .. o.cols * o.rows /\ l \div o.rows = y /\ l % o.rows = x
  BY <1>1, Apart, Within
<1>4. o.cols * o.rows = o.rows * o.cols
  BY <1>1
<1>. HIDE DEF k, l
<1>5. k + 1 - 1 = k /\ l + 1 - 1 = l
  BY <1>2, <1>3
<1>6. ByRows(o)[k + 1] = <<x, y>> /\ ByColumns(o)[l + 1] = <<x, y>>
  BY <1>2, <1>3, <1>4, <1>5 DEF ByRows, ByColumns
<1>. QED
  BY <1>6 DEF k, l, Index

(* Where those of a mat are, which to_json walks over row by row unless they *)
(* follow each other without a gap.                                          *)
LEMMA MatWalked ==
  ASSUME NEW o, o.kind = "mat", IsObject(o), NEW x \in 0 .. o.rows - 1, NEW y \in 0 .. o.cols - 1
  PROVE  Walked(o)[x * o.cols + y + 1] = <<x, y>>
<1>1. o.rows \in Nat \ {0} /\ o.cols \in Nat \ {0} /\ x \in Nat /\ y \in Nat /\ x < o.rows /\ y < o.cols
  BY DEF IsObject
<1>. DEFINE k == Index(x, o.cols, y)
            offset == Index(x, o.step, y)
<1>2. k \in Nat /\ k + 1 \in 1 .. o.rows * o.cols /\ k \div o.cols = x /\ k % o.cols = y
  BY <1>1, Apart, Within
<1>a. o.step \in Nat /\ y < o.step
  BY <1>1 DEF IsObject
<1>3. offset \in Nat /\ offset \div o.step = x /\ offset % o.step = y
  BY <1>1, <1>a, Apart
<1>4. isContinuous(o) => k = offset
  <2>. USE DEF Index
  <2>1. CASE o.step = o.cols
    BY <2>1
  <2>2. CASE o.rows = 1
    <3>1. x = 0 /\ x * o.cols = 0 /\ x * o.step = 0
      BY <1>1, <1>a, <2>2
    <3>. QED
      BY <3>1
  <2>. QED
    BY <2>1, <2>2 DEF isContinuous
<1>5. (k \div o.cols) * o.step + (k % o.cols) = offset
  BY <1>2 DEF Index
<1>. HIDE DEF k, offset
<1>6. k + 1 - 1 = k
  BY <1>2
<1>7. Walked(o)[k + 1] = Memory(o, offset)
  BY <1>2, <1>4, <1>5, <1>6 DEF Walked
<1>8. Memory(o, offset) = <<x, y>>
  BY <1>3 DEF Memory
<1>. QED
  BY <1>7, <1>8 DEF k, Index

(* A place of an object is a pair, or has one number. *)
LEMMA Pairs ==
  ASSUME NEW o, IsObject(o), o.kind \in {"matrix", "mat"}, NEW p \in Places(o)
  PROVE  p = <<p[1], p[2]>> /\ p[1] \in 0 .. o.rows - 1 /\ p[2] \in 0 .. o.cols - 1
BY DEF Places

LEMMA Coefficients ==
  ASSUME NEW o, IsObject(o), o.kind = "group", NEW p \in Places(o)
  PROVE  p = <<p[1]>> /\ p[1] \in 0 .. o.size - 1
BY DEF Places

LEMMA Elements ==
  ASSUME NEW o, IsObject(o), o.kind = "bundle"
  PROVE  /\ Len(o.sizes) \in Nat /\ DOMAIN o.sizes = 1 .. Len(o.sizes) /\ 1 \in DOMAIN o.sizes
         /\ \A e \in DOMAIN o.sizes : o.sizes[e] \in Nat
BY DEF IsObject

LEMMA BundlePlaces ==
  ASSUME NEW o, IsObject(o), o.kind = "bundle", NEW p \in Places(o)
  PROVE  p = <<p[1], p[2]>> /\ p[1] + 1 \in DOMAIN o.sizes /\ p[2] + 1 \in 1 .. o.sizes[p[1] + 1]
         /\ p[1] \in Nat /\ p[2] \in Nat
<1>1. PICK e \in DOMAIN o.sizes : p \in {<<e - 1, i>> : i \in 0 .. o.sizes[e] - 1}
  BY DEF Places
<1>2. PICK i \in 0 .. o.sizes[e] - 1 : p = <<e - 1, i>>
  BY <1>1
<1>3. e \in Nat /\ e >= 1 /\ o.sizes[e] \in Nat
  BY Elements
<1>4. p[1] = e - 1 /\ p[2] = i /\ p[1] + 1 = e
  BY <1>2, <1>3
<1>. QED
  BY <1>2, <1>3, <1>4

(* The elements of a bundle hold its entries, with and without names. *)
LEMMA BundleStored ==
  ASSUME NEW o, IsObject(o), o.kind = "bundle"
  PROVE  /\ DOMAIN to_json(o).elements = DOMAIN o.sizes
         /\ \A e \in DOMAIN o.sizes :
              to_json(o).elements[e].coeffs = [i \in 1 .. o.sizes[e] |-> <<e - 1, i - 1>>]
         /\ \A p \in Places(o) : to_json(o).elements[p[1] + 1].coeffs[p[2] + 1] = p
         /\ \A e \in DOMAIN o.sizes :
              IF o.names = <<>> THEN "name" \notin DOMAIN to_json(o).elements[e]
              ELSE "name" \in DOMAIN to_json(o).elements[e] /\ to_json(o).elements[e].name = o.names[e]
<1>1. to_json(o) = IF o.names = <<>> THEN bundle_to_json(o) ELSE named_to_json(o)
  BY DEF to_json
<1>2. DOMAIN to_json(o).elements = DOMAIN o.sizes
  BY <1>1 DEF bundle_to_json, named_to_json
<1>3. \A e \in DOMAIN o.sizes :
        to_json(o).elements[e].coeffs = [i \in 1 .. o.sizes[e] |-> <<e - 1, i - 1>>]
  BY <1>1 DEF bundle_to_json, named_to_json
<1>4. ASSUME NEW p \in Places(o) PROVE to_json(o).elements[p[1] + 1].coeffs[p[2] + 1] = p
  <2>. DEFINE e == p[1] + 1
              i == p[2] + 1
  <2>1. p = <<p[1], p[2]>> /\ e \in DOMAIN o.sizes /\ i \in 1 .. o.sizes[e] /\ p[1] = e - 1 /\ p[2] = i - 1
    BY BundlePlaces
  <2>. HIDE DEF e, i
  <2>2. to_json(o).elements[e].coeffs[i] = <<e - 1, i - 1>>
    BY <1>3, <2>1
  <2>. QED
    BY <2>1, <2>2 DEF e, i
<1>5. \A e \in DOMAIN o.sizes :
        IF o.names = <<>> THEN "name" \notin DOMAIN to_json(o).elements[e]
        ELSE "name" \in DOMAIN to_json(o).elements[e] /\ to_json(o).elements[e].name = o.names[e]
  BY <1>1 DEF bundle_to_json, named_to_json
<1>. QED
  BY <1>2, <1>3, <1>4, <1>5
-----------------------------------------------------------------------------
(* An object that is dumped and read into one of its type is the same again, *)
(* each entry in its place.                                                  *)
LEMMA ReadBack ==
  ASSUME NEW o, IsObject(o), HasFromJson(o)
  PROVE  from_json(to_json(o), o) = Dumped(o)
<1>1. CASE o.kind = "matrix"
  <2>1. \A p \in Places(o) : Stored(o)[p[2] * o.rows + p[1] + 1] = p
    <3>. SUFFICES ASSUME NEW p \in Places(o) PROVE Stored(o)[p[2] * o.rows + p[1] + 1] = p
      OBVIOUS
    <3>. DEFINE x == p[1]
                y == p[2]
    <3>1. p = <<x, y>> /\ x \in 0 .. o.rows - 1 /\ y \in 0 .. o.cols - 1
      BY <1>1, Pairs
    <3>. HIDE DEF x, y
    <3>2. ByRows(o)[x * o.cols + y + 1] = <<x, y>> /\ ByColumns(o)[y * o.rows + x + 1] = <<x, y>>
      BY <1>1, <3>1, MatrixStored
    <3>3. CASE o.order = "F"
      BY <3>1, <3>2, <3>3 DEF Stored, x, y
    <3>4. CASE o.order # "F"
      <4>1. o.rows = 1 /\ o.order = "C" /\ o.cols \in Nat
        BY <1>1, <3>4 DEF HasFromJson, IsObject
      <4>2. x = 0 /\ x * o.cols = 0 /\ y * o.rows = y /\ y \in Nat
        BY <3>1, <4>1
      <4>3. x * o.cols + y + 1 = y * o.rows + x + 1
        BY <4>2
      <4>. QED
        BY <3>1, <3>2, <4>1, <4>3 DEF Stored, x, y
    <3>. QED
      BY <3>3, <3>4
  <2>2. to_json(o) = matrix_to_json(o) /\ from_json(to_json(o), o) = matrix_from_json(to_json(o), o)
    BY <1>1 DEF to_json, from_json
  <2>3. from_json(to_json(o), o) = [p \in Places(o) |-> Stored(o)[p[2] * o.rows + p[1] + 1]]
    BY <2>2 DEF matrix_to_json, matrix_from_json
  <2>. QED
    BY <2>1, <2>3 DEF Dumped
<1>2. CASE o.kind = "mat"
  <2>1. \A p \in Places(o) : Walked(o)[p[1] * o.cols + p[2] + 1] = p
    <3>. SUFFICES ASSUME NEW p \in Places(o) PROVE Walked(o)[p[1] * o.cols + p[2] + 1] = p
      OBVIOUS
    <3>1. p = <<p[1], p[2]>> /\ p[1] \in 0 .. o.rows - 1 /\ p[2] \in 0 .. o.cols - 1
      BY <1>2, Pairs
    <3>. QED
      BY <1>2, <3>1, MatWalked
  <2>2. to_json(o) = mat_to_json(o) /\ from_json(to_json(o), o) = mat_from_json(to_json(o), o)
    BY <1>2 DEF to_json, from_json
  <2>3. from_json(to_json(o), o) = [p \in Places(o) |-> Walked(o)[p[1] * o.cols + p[2] + 1]]
    BY <2>2 DEF mat_to_json, mat_from_json
  <2>. QED
    BY <2>1, <2>3 DEF Dumped
<1>3. CASE o.kind = "group"
  <2>1. to_json(o) = group_to_json(o) /\ from_json(to_json(o), o) = group_from_json(to_json(o), o)
    BY <1>3 DEF to_json, from_json
  <2>2. \A p \in Places(o) : group_to_json(o).coeffs[p[1] + 1] = p
    <3>. SUFFICES ASSUME NEW p \in Places(o) PROVE group_to_json(o).coeffs[p[1] + 1] = p
      OBVIOUS
    <3>1. p = <<p[1]>> /\ p[1] \in 0 .. o.size - 1 /\ o.size \in Nat
      BY <1>3, Coefficients DEF IsObject
    <3>. QED
      BY <3>1 DEF group_to_json
  <2>. QED
    BY <2>1, <2>2 DEF Dumped, group_from_json
<1>4. CASE o.kind = "bundle"
  <2>1. from_json(to_json(o), o) = bundle_from_json(to_json(o), o)
    BY <1>4 DEF from_json
  <2>2. \A p \in Places(o) : to_json(o).elements[p[1] + 1].coeffs[p[2] + 1] = p
    BY <1>4, BundleStored
  <2>. QED
    BY <2>1, <2>2 DEF Dumped, bundle_from_json
<1>. QED
  BY <1>1, <1>2, <1>3, <1>4 DEF IsObject

LEMMA TwoJoined ==
  ASSUME NEW M, NEW a \in M, NEW b \in M
  PROVE  <<a>> \o <<b>> = <<a, b>>
<1>1. /\ <<a>> \in Seq(M) /\ <<b>> \in Seq(M) /\ <<a, b>> \in Seq(M)
      /\ Len(<<a>>) = 1 /\ Len(<<b>>) = 1 /\ Len(<<a, b>>) = 2
  OBVIOUS
<1>2. /\ <<a>> \o <<b>> \in Seq(M) /\ Len(<<a>> \o <<b>>) = 2
      /\ (<<a>> \o <<b>>)[1] = a /\ (<<a>> \o <<b>>)[2] = b
  BY <1>1
<1>3. \A s, t \in Seq(M) : Len(s) = 2 /\ Len(t) = 2 /\ s[1] = t[1] /\ s[2] = t[2] => s = t
  OBVIOUS
<1>4. <<a, b>>[1] = a /\ <<a, b>>[2] = b
  OBVIOUS
<1>. QED
  BY <1>1, <1>2, <1>3, <1>4

(* The columns of a data frame are those of different entries, though sizes  *)
(* of one are left out of them.                                              *)
LEMMA SqueezedApart ==
  ASSUME NEW s, NEW x1, NEW x2, NEW y1, NEW y2,
         s[1] = 1 => x1 = x2, s[2] = 1 => y1 = y2,
         Squeezed(s, <<x1, y1>>) = Squeezed(s, <<x2, y2>>)
  PROVE  x1 = x2 /\ y1 = y2
<1>1. CASE s[1] = 1 /\ s[2] = 1
  BY <1>1
<1>2. CASE s[1] = 1 /\ s[2] # 1
  BY <1>2 DEF Squeezed
<1>3. CASE s[1] # 1 /\ s[2] = 1
  BY <1>3 DEF Squeezed
<1>4. CASE s[1] # 1 /\ s[2] # 1
  <2>1. <<x1>> \o <<y1>> = <<x1, y1>> /\ <<x2>> \o <<y2>> = <<x2, y2>>
    <3>. DEFINE N == {x1, x2, y1, y2}
    <3>2. x1 \in N /\ x2 \in N /\ y1 \in N /\ y2 \in N
      OBVIOUS
    <3>. HIDE DEF N
    <3>. QED
      BY <3>2, TwoJoined, Zenon
  <2>2. <<x1, y1>> = <<x2, y2>>
    BY <1>4, <2>1 DEF Squeezed
  <2>. QED
    BY <2>2
<1>. QED
  BY <1>1, <1>2, <1>3, <1>4

LEMMA MatrixFramed ==
  ASSUME NEW o, IsObject(o), o.kind = "matrix"
  PROVE  Looked(Frame(to_json(o), o), o) = Dumped(o)
<1>. DEFINE j == matrix_to_json(o)
            s == <<o.rows, o.cols>>
<1>1. o.rows \in Nat \ {0} /\ o.cols \in Nat \ {0} /\ o.order \in {"C", "F"}
  BY DEF IsObject
<1>2. Frame(to_json(o), o) = create_numpy_arrays(j)
  BY DEF Frame, to_json
<1>3. j.shape = s /\ j.order = o.order /\ j.data = Stored(o) /\ s[1] = o.rows /\ s[2] = o.cols
  BY DEF matrix_to_json
<1>4. Places(o) = (0 .. j.shape[1] - 1) \X (0 .. j.shape[2] - 1)
  BY <1>3 DEF Places
<1>. HIDE DEF j, s
<1>5. ASSUME NEW p \in Places(o), NEW q \in Places(o), Squeezed(s, q) = Squeezed(s, p)
      PROVE  q = p
  <2>1. /\ p = <<p[1], p[2]>> /\ p[1] \in 0 .. o.rows - 1 /\ p[2] \in 0 .. o.cols - 1
        /\ q = <<q[1], q[2]>> /\ q[1] \in 0 .. o.rows - 1 /\ q[2] \in 0 .. o.cols - 1
    BY Pairs
  <2>2. (s[1] = 1 => q[1] = p[1]) /\ (s[2] = 1 => q[2] = p[2])
    BY <1>3, <2>1
  <2>3. Squeezed(s, <<q[1], q[2]>>) = Squeezed(s, <<p[1], p[2]>>)
    BY <1>5, <2>1
  <2>4. q[1] = p[1] /\ q[2] = p[2]
    BY <2>2, <2>3, SqueezedApart
  <2>. QED
    BY <2>1, <2>4
<1>6. ASSUME NEW p \in Places(o) PROVE Reshaped(j, p) = p
  <2>. DEFINE x == p[1]
              y == p[2]
  <2>1. p = <<x, y>> /\ x \in 0 .. o.rows - 1 /\ y \in 0 .. o.cols - 1
    BY Pairs
  <2>2. Reshaped(j, p) = Stored(o)[(IF o.order = "C" THEN x * o.cols + y ELSE y * o.rows + x) + 1]
    BY <1>3 DEF Reshaped
  <2>. HIDE DEF x, y
  <2>3. ByRows(o)[x * o.cols + y + 1] = <<x, y>> /\ ByColumns(o)[y * o.rows + x + 1] = <<x, y>>
    BY <2>1, MatrixStored
  <2>. QED
    BY <2>1, <2>2, <2>3 DEF Stored
<1>7. ASSUME NEW p \in Places(o) PROVE create_numpy_arrays(j)[Squeezed(s, p)] = p
  <2>. DEFINE q == CHOOSE q \in Places(o) : Squeezed(s, q) = Squeezed(s, p)
  <2>1. q \in Places(o) /\ Squeezed(s, q) = Squeezed(s, p)
    OBVIOUS
  <2>2. q = p
    BY <1>5, <2>1
  <2>3. create_numpy_arrays(j)[Squeezed(s, p)] = Reshaped(j, q)
    BY <1>3, <1>4 DEF create_numpy_arrays
  <2>. QED
    BY <1>6, <2>2, <2>3
<1>8. \A p \in Places(o) : Column(o, p) = Squeezed(s, p)
  BY DEF Column, s
<1>9. \A p \in Places(o) : Squeezed(s, p) \in DOMAIN create_numpy_arrays(j)
  BY <1>3, <1>4 DEF create_numpy_arrays
<1>. QED
  BY <1>2, <1>7, <1>8, <1>9 DEF Looked, Dumped

LEMMA GroupFramed ==
  ASSUME NEW o, IsObject(o), o.kind = "group", ~Dropped(o)
  PROVE  Looked(Frame(to_json(o), o), o) = Dumped(o)
<1>1. ASSUME NEW p \in Places(o) PROVE group_to_json(o).coeffs[p[1] + 1] = p
  <2>1. p = <<p[1]>> /\ p[1] \in 0 .. o.size - 1 /\ o.size \in Nat
    BY Coefficients DEF IsObject
  <2>. QED
    BY <2>1 DEF group_to_json
<1>2. Frame(to_json(o), o) = [c \in Places(o) |-> group_to_json(o).coeffs[c[1] + 1]]
  BY DEF Frame, to_json
<1>3. \A p \in Places(o) : Column(o, p) = p
  BY DEF Column
<1>. QED
  BY <1>1, <1>2, <1>3 DEF Looked, Dumped

LEMMA GroupDropped ==
  ASSUME NEW o, Dropped(o)
  PROVE  Looked(Frame(to_json(o), o), o) = <<>>
<1>1. o.kind = "group" /\ DOMAIN Frame(to_json(o), o) = {}
  BY DEF Frame, Dropped
<1>2. Looked(Frame(to_json(o), o), o) = [p \in {} |-> Frame(to_json(o), o)[Column(o, p)]]
  BY <1>1 DEF Looked
<1>. QED
  BY <1>2

(* The columns of a bundle are found by the names of its elements, which     *)
(* differ, or by their numbers.                                              *)
LEMMA BundleFramed ==
  ASSUME NEW o, IsObject(o), o.kind = "bundle"
  PROVE  Looked(Frame(to_json(o), o), o) = Dumped(o)
<1>. DEFINE j == to_json(o)
            names == get_element_names(j)
            E == DOMAIN o.sizes
            Coeffs(e) == [i \in 1 .. o.sizes[e] |-> <<e - 1, i - 1>>]
<1>1. /\ DOMAIN j.elements = E /\ \A e \in E : j.elements[e].coeffs = Coeffs(e)
      /\ \A e \in E : IF o.names = <<>> THEN "name" \notin DOMAIN j.elements[e]
                       ELSE "name" \in DOMAIN j.elements[e] /\ j.elements[e].name = o.names[e]
  BY BundleStored
<1>2. 1 \in E /\ E = 1 .. Len(o.sizes) /\ Len(o.sizes) \in Nat
  BY Elements
<1>3. names = [e \in E |-> IF o.names = <<>> THEN e - 1 ELSE o.names[e]]
  BY <1>1, <1>2 DEF get_element_names
<1>4. \A e, f \in E : names[e] = names[f] => e = f
  <2>1. CASE o.names = <<>>
    BY <1>2, <1>3, <2>1
  <2>2. CASE o.names # <<>>
    BY <1>3, <2>2 DEF IsObject
  <2>. QED
    BY <2>1, <2>2
<1>5. Frame(j, o) = create_manif_groups(j)
  BY DEF Frame
<1>. HIDE DEF j, names, E
<1>6. ASSUME NEW e \in E, NEW i \in 1 .. o.sizes[e]
      PROVE  /\ create_manif_groups(j)[<<names[e], i - 1>>] = <<e - 1, i - 1>>
             /\ <<names[e], i - 1>> \in DOMAIN create_manif_groups(j)
  <2>. DEFINE C == UNION {{<<names[f], k - 1>> : k \in DOMAIN j.elements[f].coeffs} : f \in DOMAIN names}
              value(c) == LET f == CHOOSE f \in DOMAIN names : names[f] = c[1] IN j.elements[f].coeffs[c[2] + 1]
              c == <<names[e], i - 1>>
  <2>1. DOMAIN names = E /\ DOMAIN j.elements[e].coeffs = 1 .. o.sizes[e]
    BY <1>1, <1>3
  <2>2. c \in C
    <3>1. c \in {<<names[e], k - 1>> : k \in DOMAIN j.elements[e].coeffs}
      BY <2>1
    <3>. QED
      BY <2>1, <3>1, Zenon
  <2>3. create_manif_groups(j) = [d \in C |-> value(d)]
    BY DEF create_manif_groups, names
  <2>4. (CHOOSE f \in DOMAIN names : names[f] = c[1]) = e
    <3>. DEFINE f == CHOOSE f \in DOMAIN names : names[f] = c[1]
    <3>1. names[e] = c[1]
      OBVIOUS
    <3>2. f \in E /\ names[f] = names[e]
      BY <2>1, <3>1
    <3>. QED
      BY <1>4, <3>2
  <2>5. value(c) = j.elements[e].coeffs[i - 1 + 1]
    BY <2>4
  <2>6. i - 1 + 1 = i
    OBVIOUS
  <2>7. j.elements[e].coeffs[i] = <<e - 1, i - 1>>
    BY <1>1
  <2>. HIDE DEF C, value, c
  <2>8. create_manif_groups(j)[c] = value(c) /\ c \in DOMAIN create_manif_groups(j)
    BY <2>2, <2>3
  <2>. QED
    BY <2>5, <2>6, <2>7, <2>8 DEF c
<1>7. ASSUME NEW p \in Places(o)
      PROVE  create_manif_groups(j)[Column(o, p)] = p /\ Column(o, p) \in DOMAIN create_manif_groups(j)
  <2>. DEFINE e == p[1] + 1
              i == p[2] + 1
  <2>1. p = <<p[1], p[2]>> /\ e \in E /\ i \in 1 .. o.sizes[e] /\ p[1] = e - 1 /\ p[2] = i - 1
    BY BundlePlaces DEF E
  <2>2. Column(o, p) = <<IF o.names = <<>> THEN p[1] ELSE o.names[p[1] + 1], p[2]>>
    BY DEF Column
  <2>. HIDE DEF e, i
  <2>3. Column(o, p) = <<names[e], i - 1>>
    BY <1>3, <2>1, <2>2 DEF e
  <2>4. p = <<e - 1, i - 1>>
    BY <2>1
  <2>. QED
    BY <1>6, <2>1, <2>3, <2>4
<1>. QED
  BY <1>5, <1>7 DEF Looked, Dumped, j

(* An object that is dumped and loaded as a data frame has each entry in the *)
(* column that is its own, but for an Rn that the loader does not know.      *)
LEMMA FramedBack ==
  ASSUME NEW o, IsObject(o), ~FrameRaises(o)
  PROVE  LET at == Looked(Frame(to_json(o), o), o) IN at = Dumped(o) \/ (Dropped(o) /\ at = <<>>)
BY MatrixFramed, GroupFramed, GroupDropped, BundleFramed DEF IsObject, FrameRaises
-----------------------------------------------------------------------------
(* While no record in the midst of the file is torn, what is before the torn *)
(* ones at its end is what the writes that returned have left.               *)
Kept ==
  \A k \in 0 .. Len(file) :
    (\A i \in 1 .. k : file[i] # Torn) /\ (\A i \in k + 1 .. Len(file) : file[i] = Torn)
    => whole = SubSeq(file, 1, k)

(* A record that is being written is the last, and while nothing is harmed   *)
(* it is the only one that is torn; an object that is dumped has a file.     *)
Begun ==
  /\ n > 0 => file # <<>>
  /\ writing => n > 0 /\ file[Len(file)] = Torn
  /\ ~harmed => \A i \in 1 .. Len(file) : file[i] = Torn => i = Len(file) /\ writing

FileInv ==
  /\ shape \in Shapes \cup {None} /\ (shape = None) = (n = 0)
  /\ n \in 0 .. MaxRecords /\ writing \in BOOLEAN /\ harmed \in BOOLEAN
  /\ file \in Seq(1 .. MaxRecords \cup {Torn})
  /\ past \subseteq Seq(1 .. MaxRecords) /\ whole \in past /\ <<>> \in past
  /\ Begun /\ Kept

(* What a loader has read of a file that nobody has truncated is the         *)
(* beginning of the file, and when it has come to the end, all that the data *)
(* set then was.                                                             *)
Reading(l) ==
  /\ doing[l] \in {"idle", "cached", "load", "frame", "save", "msg"}
  /\ got[l] \in Seq(1 .. MaxRecords)
  /\ doing[l] = "idle" => got[l] = <<>>
  /\ doing[l] \in {"load", "frame", "save", "msg"} => n > 0
  /\ doing[l] = "load" /\ l \notin spoilt =>
       Len(got[l]) <= Len(file) /\ \A i \in 1 .. Len(got[l]) : file[i] = got[l][i]
  /\ doing[l] \in {"frame", "save"} /\ l \notin spoilt => got[l] \in past
  /\ doing[l] = "save" /\ l \notin spoilt => got[l] = <<>> \/ ~Raises

LoadersInv ==
  /\ doing \in [Loaders -> {"idle", "cached", "load", "frame", "save", "msg"}]
  /\ got \in [Loaders -> Seq(1 .. MaxRecords)] /\ spoilt \subseteq Loaders
  /\ spoilt # {} => harmed
  /\ \A l \in Loaders : Reading(l)

(* Results that are kept stay what the data set once was, whatever is        *)
(* written later.                                                            *)
Fine(r) == r.records \in Seq(1 .. MaxRecords) /\ Honest(r)
DatasetInv ==
  /\ FileInv /\ LoadersInv
  /\ pickle \in {None, Torn} \/ Fine(pickle)
  /\ loaded = None \/ Fine(loaded)

(* Sequences that get another element, or another last one.                  *)
LEMMA Appends ==
  ASSUME NEW M, NEW f \in Seq(M), NEW x \in M
  PROVE  /\ Append(f, x) \in Seq(M) /\ Len(Append(f, x)) = Len(f) + 1 /\ Len(f) \in Nat
         /\ Append(f, x)[Len(f) + 1] = x /\ \A i \in 1 .. Len(f) : Append(f, x)[i] = f[i]
         /\ \A k \in 0 .. Len(f) : SubSeq(Append(f, x), 1, k) = SubSeq(f, 1, k)
         /\ SubSeq(f, 1, Len(f)) = f /\ SubSeq(f, 1, 0) = <<>>
OBVIOUS

LEMMA Replaced ==
  ASSUME NEW M, NEW f \in Seq(M), NEW x \in M, f # <<>>
  PROVE  /\ [f EXCEPT ![Len(f)] = x] \in Seq(M) /\ Len([f EXCEPT ![Len(f)] = x]) = Len(f)
         /\ Len(f) \in Nat \ {0} /\ [f EXCEPT ![Len(f)] = x][Len(f)] = x
         /\ \A i \in 1 .. Len(f) : i # Len(f) => [f EXCEPT ![Len(f)] = x][i] = f[i]
OBVIOUS

LEMMA ReplacedIs ==
  ASSUME NEW M, NEW f \in Seq(M), NEW x \in M, f # <<>>
  PROVE  Append(SubSeq(f, 1, Len(f) - 1), x) = [f EXCEPT ![Len(f)] = x]
<1>. DEFINE a == Append(SubSeq(f, 1, Len(f) - 1), x)
            b == [f EXCEPT ![Len(f)] = x]
            g == SubSeq(f, 1, Len(f) - 1)
<1>1. g \in Seq(M) /\ Len(g) = Len(f) - 1 /\ Len(f) \in Nat \ {0} /\ \A i \in 1 .. Len(f) - 1 : g[i] = f[i]
  OBVIOUS
<1>2. b \in Seq(M) /\ Len(b) = Len(f) /\ \A i \in 1 .. Len(f) : b[i] = IF i = Len(f) THEN x ELSE f[i]
  BY Replaced
<1>3. Append(g, x) \in Seq(M) /\ Len(Append(g, x)) = Len(f)
      /\ \A i \in 1 .. Len(f) : Append(g, x)[i] = IF i = Len(f) THEN x ELSE f[i]
  <2>. HIDE DEF g
  <2>1. /\ Append(g, x) \in Seq(M) /\ Len(Append(g, x)) = Len(g) + 1
        /\ Append(g, x)[Len(g) + 1] = x /\ \A i \in 1 .. Len(g) : Append(g, x)[i] = g[i]
    BY <1>1, Appends
  <2>. QED
    BY <1>1, <2>1
<1>4. \A s, t \in Seq(M) : Len(s) = Len(t) /\ (\A i \in 1 .. Len(s) : s[i] = t[i]) => s = t
  OBVIOUS
<1>. HIDE DEF b, g
<1>5. Append(g, x) = b
  BY <1>2, <1>3, <1>4
<1>. QED
  BY <1>5 DEF b, g

LEMMA ItsElements ==
  ASSUME NEW M, NEW s \in Seq(M)
  PROVE  Len(s) \in Nat /\ \A i \in 1 .. Len(s) : s[i] \in M
OBVIOUS

(* The empty sequence, and the longer of two that agree. *)
LEMMA Nothing ==
  ASSUME NEW M
  PROVE  <<>> \in Seq(M) /\ Len(<<>>) = 0
OBVIOUS

LEMMA Beginning ==
  ASSUME NEW M, NEW N, NEW g \in Seq(M), NEW f \in Seq(N), Len(g) <= Len(f), \A i \in 1 .. Len(g) : f[i] = g[i]
  PROVE  g = SubSeq(f, 1, Len(g)) /\ Len(g) \in 0 .. Len(f) /\ \A i \in 1 .. Len(g) : g[i] \in M
<1>1. Len(g) \in Nat /\ Len(f) \in Nat /\ \A i \in 1 .. Len(g) : g[i] \in M
  OBVIOUS
<1>2. SubSeq(f, 1, Len(g)) \in Seq(N) /\ Len(SubSeq(f, 1, Len(g))) = Len(g)
      /\ \A i \in 1 .. Len(g) : SubSeq(f, 1, Len(g))[i] = f[i]
  BY <1>1
<1>3. g \in Seq(M \cup N) /\ SubSeq(f, 1, Len(g)) \in Seq(M \cup N)
  BY <1>2
<1>4. \A s, t \in Seq(M \cup N) : Len(s) = Len(t) /\ (\A i \in 1 .. Len(s) : s[i] = t[i]) => s = t
  OBVIOUS
<1>. QED
  BY <1>1, <1>2, <1>3, <1>4
-----------------------------------------------------------------------------
(* What is in the file stays there, but for a torn record at its end. *)
Grows == Len(file) <= Len(file') /\ \A i \in 1 .. Len(file) : file[i] # Torn => file'[i] = file[i]

(* A write puts a torn record at the end, of the file or of nothing. *)
LEMMA WriteKeeps ==
  ASSUME DatasetAssumption, FileInv, NEW append \in BOOLEAN, NEW s \in Shapes, Write(append, s)
  PROVE  /\ FileInv' /\ past \subseteq past' /\ n' > 0 /\ (append => Grows)
         /\ (n > 0 => shape' = shape)
<1>. DEFINE R == 1 .. MaxRecords \cup {Torn}
            f == Opened(append)
<1>1. /\ n' = n + 1 /\ writing' = TRUE /\ shape \in {None, s} /\ shape' = s
      /\ file' = Append(f, Torn) /\ whole' = (IF append THEN whole ELSE <<>>) /\ past' = past \cup {whole'}
      /\ n < MaxRecords /\ ~writing /\ harmed' \in BOOLEAN /\ (harmed => harmed')
  BY DEF Write, FileInv
<1>2. f \in Seq(R) /\ f = (IF append THEN file ELSE <<>>) /\ Torn \in R
  BY DEF FileInv, Opened
<1>. HIDE DEF R, f
<1>3. /\ file' \in Seq(R) /\ Len(file') = Len(f) + 1 /\ Len(f) \in Nat /\ file'[Len(f) + 1] = Torn
      /\ \A i \in 1 .. Len(f) : file'[i] = f[i]
      /\ \A k \in 0 .. Len(f) : SubSeq(file', 1, k) = SubSeq(f, 1, k)
  BY <1>1, <1>2, Appends
<1>4. n' \in 0 .. MaxRecords /\ n' > 0 /\ shape' # None /\ shape' \in Shapes /\ (n > 0 => shape' = shape)
  BY <1>1 DEF FileInv, DatasetAssumption
<1>5. past' \subseteq Seq(1 .. MaxRecords) /\ whole' \in past' /\ <<>> \in past'
  BY <1>1 DEF FileInv
<1>6. Begun'
  <2>1. ~harmed => \A i \in 1 .. Len(f) : f[i] # Torn
    BY <1>1, <1>2 DEF FileInv, Begun
  <2>. QED
    BY <1>1, <1>3, <1>4, <2>1 DEF Begun
<1>8. append => Grows
  BY <1>2, <1>3 DEF Grows
<1>7. Kept'
  <2>. SUFFICES ASSUME NEW k \in 0 .. Len(file'), \A i \in 1 .. k : file'[i] # Torn,
                       \A i \in k + 1 .. Len(file') : file'[i] = Torn
                PROVE  whole' = SubSeq(file', 1, k)
    BY DEF Kept
  <2>1. k # Len(f) + 1
    BY <1>3
  <2>2. k \in 0 .. Len(f) /\ SubSeq(file', 1, k) = SubSeq(f, 1, k)
    BY <1>3, <2>1
  <2>3. CASE append
    <3>1. f = file
      BY <1>2, <2>3
    <3>2. (\A i \in 1 .. k : file[i] # Torn) /\ \A i \in k + 1 .. Len(file) : file[i] = Torn
      BY <1>3, <2>2, <3>1
    <3>. QED
      BY <1>1, <2>2, <2>3, <3>1, <3>2 DEF FileInv, Kept
  <2>4. CASE ~append
    <3>1. f = <<>> /\ k = 0 /\ whole' = <<>>
      BY <1>1, <1>2, <2>2, <2>4
    <3>. QED
      BY <2>2, <3>1
  <2>. QED
    BY <2>3, <2>4
<1>. QED
  BY <1>1, <1>3, <1>4, <1>5, <1>6, <1>7, <1>8 DEF FileInv, R

(* When it is done the record is there: behind one that was torn it counts   *)
(* for nothing, as the file is then spoilt.                                  *)
LEMMA WrittenKeeps ==
  ASSUME DatasetAssumption, FileInv, Written
  PROVE  FileInv' /\ past \subseteq past' /\ Grows
<1>. DEFINE R == 1 .. MaxRecords \cup {Torn}
<1>1. /\ writing /\ writing' = FALSE /\ file' = [file EXCEPT ![Len(file)] = n]
      /\ whole' = Append(whole, n) /\ past' = past \cup {whole'} /\ UNCHANGED <<shape, n, harmed>>
  BY DEF Written
<1>2. file \in Seq(R) /\ file # <<>> /\ file[Len(file)] = Torn /\ n \in 1 .. MaxRecords /\ n \in R /\ n # Torn
  <2>1. file \in Seq(R) /\ n > 0 /\ file # <<>> /\ file[Len(file)] = Torn /\ n \in 0 .. MaxRecords
    BY <1>1 DEF FileInv, Begun
  <2>2. n \in Nat /\ n \in 1 .. MaxRecords
    BY <2>1 DEF DatasetAssumption
  <2>3. n # Torn
    BY <2>2 DEF DatasetAssumption
  <2>. QED
    BY <2>1, <2>2, <2>3
<1>. HIDE DEF R
<1>3. /\ file' \in Seq(R) /\ Len(file') = Len(file) /\ Len(file) \in Nat \ {0} /\ file'[Len(file)] = n
      /\ \A i \in 1 .. Len(file) : i # Len(file) => file'[i] = file[i]
  BY <1>1, <1>2, Replaced
<1>4. whole' \in Seq(1 .. MaxRecords)
  <2>1. whole \in Seq(1 .. MaxRecords)
    BY DEF FileInv
  <2>. QED
    BY <1>1, <1>2, <2>1, Appends
<1>5. past' \subseteq Seq(1 .. MaxRecords) /\ whole' \in past' /\ <<>> \in past'
  BY <1>1, <1>4 DEF FileInv
<1>6. Begun'
  <2>1. file' # <<>> /\ ~writing'
    BY <1>1, <1>2, <1>3
  <2>2. ~harmed => \A i \in 1 .. Len(file) : file[i] = Torn => i = Len(file)
    BY DEF FileInv, Begun
  <2>3. ~harmed' => \A i \in 1 .. Len(file') : file'[i] # Torn
    BY <1>1, <1>2, <1>3, <2>2
  <2>. QED
    BY <2>1, <2>3 DEF Begun
<1>8. Grows
  BY <1>2, <1>3 DEF Grows
<1>7. Kept'
  <2>. SUFFICES ASSUME NEW k \in 0 .. Len(file'), \A i \in 1 .. k : file'[i] # Torn,
                       \A i \in k + 1 .. Len(file') : file'[i] = Torn
                PROVE  whole' = SubSeq(file', 1, k)
    BY DEF Kept
  <2>1. k = Len(file)
    BY <1>2, <1>3
  <2>. DEFINE l == Len(file) - 1
  <2>2. /\ l \in 0 .. Len(file) /\ (\A i \in 1 .. l : file[i] # Torn)
        /\ \A i \in l + 1 .. Len(file) : file[i] = Torn
    BY <1>2, <1>3, <2>1
  <2>3. whole = SubSeq(file, 1, l)
    BY <2>2 DEF FileInv, Kept
  <2>4. whole' = file'
    BY <1>1, <1>2, <2>3, ReplacedIs
  <2>5. SubSeq(file', 1, k) = file'
    BY <1>2, <1>3, <2>1, Appends
  <2>. QED
    BY <2>4, <2>5
<1>. QED
  BY <1>1, <1>3, <1>5, <1>6, <1>7, <1>8 DEF FileInv, R

(* A writer that dies leaves its record torn. *)
LEMMA WriterDiesKeeps ==
  ASSUME FileInv, WriterDies
  PROVE  FileInv' /\ UNCHANGED <<file, past, n, shape>>
BY DEF FileInv, WriterDies, Begun, Kept

(* So does everyone who does not write. *)
LEMMA FilesStand ==
  ASSUME FileInv, UNCHANGED files, harmed' \in BOOLEAN, harmed => harmed'
  PROVE  FileInv'
BY DEF files, FileInv, Begun, Kept

(* A record in the file is none of those that are torn. *)
LEMMA NotTorn ==
  ASSUME DatasetAssumption, NEW r \in 1 .. MaxRecords
  PROVE  r # Torn
<1>1. r \in Nat
  BY DEF DatasetAssumption
<1>. QED
  BY <1>1 DEF DatasetAssumption

(* Loaders stand still while the file grows, or is taken from those who read it. *)
LEMMA LoadersStand ==
  ASSUME DatasetAssumption, LoadersInv, UNCHANGED <<doing, got>>, past \subseteq past', n \in Nat, n' \in Nat,
         n > 0 => n' > 0 /\ shape' = shape, harmed => harmed', spoilt \subseteq spoilt', spoilt' \subseteq Loaders,
         spoilt' # {} => harmed', Len(file) \in Nat, Len(file') \in Nat,
         Grows \/ In({"load", "msg"}) \subseteq spoilt'
  PROVE  LoadersInv'
<1>1. ASSUME NEW l \in Loaders PROVE Reading(l)'
  <2>1. Reading(l) /\ got[l] \in Seq(1 .. MaxRecords) /\ Len(got[l]) \in Nat
    BY DEF LoadersInv
  <2>2. doing[l] = "save" => (Raises' <=> Raises)
    BY <2>1 DEF Reading, Raises
  <2>3. ASSUME doing[l] = "load", l \notin spoilt'
        PROVE  Len(got[l]) <= Len(file') /\ \A i \in 1 .. Len(got[l]) : file'[i] = got[l][i]
    <3>1. Grows
      BY <2>3 DEF In
    <3>2. Len(got[l]) <= Len(file) /\ \A i \in 1 .. Len(got[l]) : file[i] = got[l][i]
      BY <2>1, <2>3 DEF Reading
    <3>3. \A i \in 1 .. Len(got[l]) : file[i] # Torn
      <4>1. \A i \in 1 .. Len(got[l]) : got[l][i] \in 1 .. MaxRecords
        BY <2>1, ItsElements
      <4>. QED
        BY <3>2, <4>1, NotTorn
    <3>. QED
      BY <2>1, <3>1, <3>2, <3>3 DEF Grows
  <2>. QED
    BY <2>1, <2>2, <2>3 DEF Reading
<1>. QED
  BY <1>1 DEF LoadersInv

(* One loader takes a step, which may spoil the file of others. *)
LEMMA OneLoader ==
  ASSUME LoadersInv, NEW l \in Loaders, UNCHANGED files, harmed => harmed', spoilt' \subseteq Loaders,
         spoilt' # {} => harmed', NEW to \in {"idle", "cached", "load", "frame", "save", "msg"}, Go(l, to),
         NEW g \in Seq(1 .. MaxRecords), got' = [got EXCEPT ![l] = g], spoilt \ {l} \subseteq spoilt', Reading(l)'
  PROVE  LoadersInv'
<1>. DEFINE T == Seq(1 .. MaxRecords)
<1>1. got \in [Loaders -> T] /\ doing \in [Loaders -> {"idle", "cached", "load", "frame", "save", "msg"}]
  BY DEF LoadersInv
<1>. HIDE DEF T
<1>2. /\ got' \in [Loaders -> T] /\ doing' \in [Loaders -> {"idle", "cached", "load", "frame", "save", "msg"}]
      /\ \A k \in Loaders \ {l} : got'[k] = got[k] /\ doing'[k] = doing[k]
  BY <1>1 DEF Go, T
<1>3. ASSUME NEW k \in Loaders \ {l} PROVE Reading(k)'
  <2>1. Reading(k) /\ got'[k] = got[k] /\ doing'[k] = doing[k] /\ (k \in spoilt => k \in spoilt')
    BY <1>2 DEF LoadersInv
  <2>2. UNCHANGED <<n, file, past, shape>> /\ (Raises' <=> Raises)
    BY DEF files, Raises
  <2>. QED
    BY <2>1, <2>2 DEF Reading
<1>. QED
  BY <1>2, <1>3 DEF LoadersInv, T
-----------------------------------------------------------------------------
LEMMA FirstOne ==
  ASSUME NEW M, NEW f \in Seq(M), f # <<>>
  PROVE  Len(f) \in Nat \ {0} /\ f[1] \in M /\ SubSeq(f, 1, 1) = <<f[1]>>
<1>1. Len(f) \in Nat \ {0} /\ f[1] \in M
  OBVIOUS
<1>2. SubSeq(f, 1, 1) \in Seq(M) /\ Len(SubSeq(f, 1, 1)) = 1 /\ SubSeq(f, 1, 1)[1] = f[1]
  BY <1>1
<1>3. <<f[1]>> \in Seq(M) /\ Len(<<f[1]>>) = 1 /\ <<f[1]>>[1] = f[1]
  BY <1>1
<1>4. \A s, t \in Seq(M) : Len(s) = 1 /\ Len(t) = 1 /\ s[1] = t[1] => s = t
  OBVIOUS
<1>. QED
  BY <1>1, <1>2, <1>3, <1>4

(* What can come of a file that is spoilt is fine once something is harmed.  *)
LEMMA JunkFine ==
  /\ Junk.junk = TRUE /\ (harmed => Fine(Junk))
<1>1. Junk.junk = TRUE /\ Junk.records = <<>>
  BY DEF Junk, Result
<1>. QED
  BY <1>1, Nothing DEF Fine, Honest

(* A loader that comes to the end of its file has read what the writes that  *)
(* returned have left of it.                                                 *)
LEMMA AllRead ==
  ASSUME DatasetAssumption, FileInv, NEW l \in Loaders, Reading(l), doing[l] = "load", l \notin spoilt, AtEnd(got[l])
  PROVE  got[l] \in past
<1>. DEFINE g == got[l]
<1>1. /\ g \in Seq(1 .. MaxRecords) /\ file \in Seq(1 .. MaxRecords \cup {Torn})
      /\ Len(g) <= Len(file) /\ \A i \in 1 .. Len(g) : file[i] = g[i]
  BY DEF Reading, FileInv
<1>2. \A i \in Len(g) + 1 .. Len(file) : file[i] = Torn
  BY DEF AtEnd
<1>. HIDE DEF g
<1>3. g = SubSeq(file, 1, Len(g)) /\ Len(g) \in 0 .. Len(file) /\ \A i \in 1 .. Len(g) : g[i] \in 1 .. MaxRecords
  BY <1>1, Beginning
<1>4. \A i \in 1 .. Len(g) : file[i] # Torn
  BY <1>1, <1>3, NotTorn
<1>5. whole = SubSeq(file, 1, Len(g))
  BY <1>2, <1>3, <1>4 DEF FileInv, Kept
<1>6. g \in past
  BY <1>3, <1>5 DEF FileInv
<1>. QED
  BY <1>6 DEF g

(* A data frame of records that the data set once had. *)
LEMMA FrameFine ==
  ASSUME DatasetAssumption, NEW records \in past, past \subseteq Seq(1 .. MaxRecords), shape \in Shapes,
         records = <<>> \/ ~Raises
  PROVE  Fine(Framed(records))
<1>. DEFINE at == IF records = <<>> THEN <<>> ELSE [o \in shape |-> Looked(Frame(to_json(o), o), o)]
<1>1. Framed(records).records = records /\ Framed(records).at = at /\ Framed(records).junk = FALSE
  BY DEF Framed, Result
<1>2. ASSUME records # <<>>, NEW o \in DOMAIN at PROVE at[o] = Dumped(o) \/ (Dropped(o) /\ at[o] = <<>>)
  <2>1. o \in shape /\ at[o] = Looked(Frame(to_json(o), o), o)
    BY <1>2
  <2>2. IsObject(o) /\ ~FrameRaises(o)
    BY <1>2, <2>1 DEF DatasetAssumption, Raises
  <2>. QED
    BY <2>1, <2>2, FramedBack
<1>. HIDE DEF at
<1>. QED
  BY <1>1, <1>2 DEF Fine, Honest

(* An object that load_msg makes of the only record. *)
LEMMA MsgFine ==
  ASSUME DatasetAssumption, FileInv, n > 0, file[1] # Torn, \A i \in 2 .. Len(file) : file[i] = Torn
  PROVE  Fine(Made(file[1]))
<1>. DEFINE at == [o \in {o \in shape : HasFromJson(o)} |-> from_json(to_json(o), o)]
            R == 1 .. MaxRecords \cup {Torn}
<1>1. file \in Seq(R) /\ file # <<>>
  BY DEF FileInv, Begun
<1>. HIDE DEF R
<1>2. Len(file) \in Nat \ {0} /\ file[1] \in R /\ SubSeq(file, 1, 1) = <<file[1]>>
  BY <1>1, FirstOne
<1>3. 1 \in 0 .. Len(file) /\ (\A i \in 1 .. 1 : file[i] # Torn) /\ \A i \in 1 + 1 .. Len(file) : file[i] = Torn
  BY <1>2
<1>4. whole = <<file[1]>>
  BY <1>2, <1>3 DEF FileInv, Kept
<1>5. <<file[1]>> \in past /\ <<file[1]>> \in Seq(1 .. MaxRecords)
  BY <1>4 DEF FileInv
<1>6. Made(file[1]).records = <<file[1]>> /\ Made(file[1]).at = at /\ Made(file[1]).junk = FALSE
  BY DEF Made, Result
<1>7. ASSUME NEW o \in DOMAIN at PROVE at[o] = Dumped(o)
  <2>1. o \in shape /\ HasFromJson(o) /\ at[o] = from_json(to_json(o), o) /\ shape \in Shapes
    BY DEF FileInv
  <2>2. IsObject(o)
    BY <2>1 DEF DatasetAssumption
  <2>. QED
    BY <2>1, <2>2, ReadBack
<1>. HIDE DEF at
<1>. QED
  BY <1>5, <1>6, <1>7 DEF Fine, Honest
-----------------------------------------------------------------------------
LEMMA WriterStep ==
  ASSUME DatasetAssumption, DatasetInv,
         (\E s \in Shapes : Write(TRUE, s) \/ Write(FALSE, s)) \/ Written \/ WriterDies
  PROVE  DatasetInv'
<1>. DEFINE Holds ==
       /\ FileInv' /\ past \subseteq past' /\ (harmed => harmed') /\ UNCHANGED <<doing, got, pickle>>
       /\ loaded' = None /\ spoilt \subseteq spoilt' /\ spoilt' \subseteq Loaders /\ (spoilt' # {} => harmed')
       /\ (n > 0 => n' > 0 /\ shape' = shape) /\ (Grows \/ In({"load", "msg"}) \subseteq spoilt')
<1>1. Holds
  <2>1. ASSUME NEW s \in Shapes, Write(TRUE, s) PROVE Holds
    <3>1. FileInv' /\ past \subseteq past' /\ n' > 0 /\ Grows /\ (n > 0 => shape' = shape)
      BY <2>1, WriteKeeps DEF DatasetInv
    <3>2. UNCHANGED <<spoilt, harmed, pickle, doing, got>> /\ loaded' = None
      BY <2>1 DEF Write, DatasetInv, FileInv
    <3>. QED
      BY <3>1, <3>2 DEF DatasetInv, LoadersInv
  <2>2. ASSUME NEW s \in Shapes, Write(FALSE, s) PROVE Holds
    <3>1. FileInv' /\ past \subseteq past' /\ n' > 0 /\ (n > 0 => shape' = shape)
      BY <2>2, WriteKeeps DEF DatasetInv
    <3>2. /\ spoilt' = spoilt \cup In({"load", "msg"}) /\ harmed' = (harmed \/ In({"load", "msg"}) # {})
          /\ UNCHANGED <<pickle, doing, got>> /\ loaded' = None
      BY <2>2 DEF Write
    <3>. QED
      BY <3>1, <3>2 DEF DatasetInv, LoadersInv, In
  <2>3. ASSUME Written PROVE Holds
    <3>1. FileInv' /\ past \subseteq past' /\ Grows
      BY <2>3, WrittenKeeps DEF DatasetInv
    <3>2. UNCHANGED <<shape, n, spoilt, harmed, pickle, doing, got>> /\ loaded' = None
      BY <2>3 DEF Written
    <3>. QED
      BY <3>1, <3>2 DEF DatasetInv, LoadersInv
  <2>4. ASSUME WriterDies PROVE Holds
    <3>1. FileInv' /\ UNCHANGED <<file, past, n, shape>>
      BY <2>4, WriterDiesKeeps DEF DatasetInv
    <3>2. UNCHANGED <<spoilt, pickle, doing, got>> /\ loaded' = None /\ harmed'
      BY <2>4 DEF WriterDies
    <3>3. Grows
      BY <3>1 DEF Grows, DatasetInv, FileInv
    <3>. QED
      BY <3>1, <3>2, <3>3 DEF DatasetInv, LoadersInv
  <2>. QED
    BY <2>1, <2>2, <2>3, <2>4
<1>2. n \in Nat /\ n' \in Nat /\ Len(file) \in Nat /\ Len(file') \in Nat
  BY <1>1, ItsElements DEF DatasetInv, FileInv
<1>3. LoadersInv'
  BY <1>1, <1>2, LoadersStand DEF DatasetInv
<1>4. pickle' \in {None, Torn} \/ (Fine(pickle))'
  BY <1>1 DEF DatasetInv, Fine, Honest
<1>. QED
  BY <1>1, <1>3, <1>4 DEF DatasetInv

(* A loader that begins, or goes on to read. *)
LEMMA BeginStep ==
  ASSUME DatasetAssumption, DatasetInv, NEW l \in Loaders, OpenPickle(l) \/ Open(l) \/ OpenMsg(l)
  PROVE  DatasetInv'
<1>1. PICK to \in {"cached", "load", "msg"} : Begin(l, to) /\ (to # "cached" => n > 0)
  BY DEF OpenPickle, Open, OpenMsg
<1>2. UNCHANGED <<files, pickle, got, spoilt, harmed>> /\ doing[l] = "idle" /\ Go(l, to) /\ loaded' = None
  BY <1>1 DEF Begin
<1>3. FileInv'
  BY <1>2, FilesStand DEF DatasetInv, FileInv
<1>4. got[l] = <<>> /\ got \in [Loaders -> Seq(1 .. MaxRecords)] /\ doing'[l] = to
  BY <1>2 DEF DatasetInv, LoadersInv, Reading, Go
<1>5. got' = [got EXCEPT ![l] = <<>>] /\ <<>> \in Seq(1 .. MaxRecords) /\ Len(<<>>) = 0 /\ Len(file) \in Nat
  BY <1>2, <1>4, Nothing, ItsElements DEF DatasetInv, FileInv
<1>6. Reading(l)'
  BY <1>1, <1>2, <1>4, <1>5 DEF Reading, files
<1>7. LoadersInv'
  BY <1>1, <1>2, <1>5, <1>6, OneLoader DEF DatasetInv, LoadersInv
<1>. QED
  BY <1>2, <1>3, <1>7 DEF DatasetInv, Fine, Honest, files

LEMMA UnpackStep ==
  ASSUME DatasetAssumption, DatasetInv, NEW l \in Loaders, Unpack(l)
  PROVE  DatasetInv'
<1>. DEFINE i == Len(got[l]) + 1
            R == 1 .. MaxRecords \cup {Torn}
<1>1. /\ doing[l] = "load" /\ l \notin spoilt /\ Len(got[l]) < Len(file) /\ loaded' = None
      /\ UNCHANGED <<files, pickle, doing, harmed>>
      /\ \/ file[i] # Torn /\ got' = [got EXCEPT ![l] = Append(@, file[i])] /\ UNCHANGED spoilt
         \/ file[i] = Torn /\ i < Len(file) /\ spoilt' = spoilt \cup {l} /\ UNCHANGED got
  BY DEF Unpack
<1>2. FileInv'
  BY <1>1, FilesStand DEF DatasetInv, FileInv
<1>3. /\ Reading(l) /\ got[l] \in Seq(1 .. MaxRecords) /\ file \in Seq(R) /\ got \in [Loaders -> Seq(1 .. MaxRecords)]
      /\ doing \in [Loaders -> {"idle", "cached", "load", "frame", "save", "msg"}]
  BY DEF DatasetInv, LoadersInv, FileInv
<1>. HIDE DEF R
<1>4. i \in 1 .. Len(file) /\ Len(file) \in Nat /\ Len(got[l]) \in Nat /\ file[i] \in R
  BY <1>1, <1>3, ItsElements
<1>5. Go(l, "load")
  BY <1>1, <1>3 DEF Go
<1>6. CASE file[i] # Torn /\ got' = [got EXCEPT ![l] = Append(@, file[i])] /\ UNCHANGED spoilt
  <2>. DEFINE g == Append(got[l], file[i])
  <2>1. file[i] \in 1 .. MaxRecords
    BY <1>4, <1>6 DEF R
  <2>2. /\ g \in Seq(1 .. MaxRecords) /\ Len(g) = i /\ g[i] = file[i] /\ \A j \in 1 .. Len(got[l]) : g[j] = got[l][j]
    BY <1>3, <2>1, Appends
  <2>3. got' = [got EXCEPT ![l] = g] /\ got'[l] = g
    BY <1>3, <1>6
  <2>. HIDE DEF g
  <2>4. \A j \in 1 .. Len(got[l]) : file[j] = got[l][j]
    BY <1>1, <1>3 DEF Reading
  <2>5. Len(g) <= Len(file) /\ \A j \in 1 .. Len(g) : file[j] = g[j]
    BY <1>4, <2>2, <2>4
  <2>6. Reading(l)'
    BY <1>1, <1>3, <2>2, <2>3, <2>5 DEF Reading, files
  <2>7. LoadersInv'
    BY <1>1, <1>5, <1>6, <2>2, <2>3, <2>6, OneLoader DEF DatasetInv, LoadersInv
  <2>. QED
    BY <1>1, <1>2, <2>7 DEF DatasetInv, Fine, Honest, files
<1>7. CASE file[i] = Torn /\ i < Len(file) /\ spoilt' = spoilt \cup {l} /\ UNCHANGED got
  <2>1. harmed
    BY <1>4, <1>7 DEF DatasetInv, FileInv, Begun
  <2>2. got' = [got EXCEPT ![l] = got[l]]
    BY <1>3, <1>7
  <2>3. Reading(l)'
    BY <1>1, <1>3, <1>7 DEF Reading, files
  <2>4. LoadersInv'
    BY <1>1, <1>3, <1>5, <1>7, <2>1, <2>2, <2>3, OneLoader DEF DatasetInv, LoadersInv
  <2>. QED
    BY <1>1, <1>2, <2>4 DEF DatasetInv, Fine, Honest, files
<1>. QED
  BY <1>1, <1>6, <1>7

LEMMA EndOfFileStep ==
  ASSUME DatasetAssumption, DatasetInv, NEW l \in Loaders, EndOfFile(l)
  PROVE  DatasetInv'
<1>1. /\ doing[l] = "load" /\ (l \in spoilt \/ AtEnd(got[l])) /\ Go(l, "frame") /\ loaded' = None
      /\ UNCHANGED <<files, pickle, got, spoilt, harmed>>
  BY DEF EndOfFile
<1>2. FileInv'
  BY <1>1, FilesStand DEF DatasetInv, FileInv
<1>3. /\ Reading(l) /\ got[l] \in Seq(1 .. MaxRecords) /\ got \in [Loaders -> Seq(1 .. MaxRecords)]
      /\ doing'[l] = "frame"
  BY <1>1 DEF DatasetInv, LoadersInv, Go
<1>4. l \notin spoilt => got[l] \in past
  BY <1>1, <1>3, AllRead DEF DatasetInv
<1>5. got' = [got EXCEPT ![l] = got[l]]
  BY <1>1, <1>3
<1>6. Reading(l)'
  BY <1>1, <1>3, <1>4 DEF Reading, files
<1>7. LoadersInv'
  BY <1>1, <1>3, <1>5, <1>6, OneLoader DEF DatasetInv, LoadersInv
<1>. QED
  BY <1>1, <1>2, <1>7 DEF DatasetInv, Fine, Honest, files

LEMMA StartSaveStep ==
  ASSUME DatasetAssumption, DatasetInv, NEW l \in Loaders, StartSave(l)
  PROVE  DatasetInv'
<1>1. /\ doing[l] = "frame" /\ (l \in spoilt \/ got[l] = <<>> \/ ~Raises) /\ Go(l, "save")
      /\ pickle' = (IF In({"save"}) = {} THEN Torn ELSE Junk) /\ spoilt' = spoilt \cup In({"cached"})
      /\ harmed' = (harmed \/ In({"cached", "save"}) # {}) /\ loaded' = None /\ UNCHANGED <<files, got>>
  BY DEF StartSave
<1>2. harmed' \in BOOLEAN /\ (harmed => harmed') /\ (In({"cached"}) # {} \/ In({"save"}) # {} => harmed')
      /\ In({"cached"}) \subseteq Loaders
  BY <1>1 DEF DatasetInv, FileInv, In
<1>3. FileInv'
  BY <1>1, <1>2, FilesStand DEF DatasetInv
<1>4. /\ Reading(l) /\ got[l] \in Seq(1 .. MaxRecords) /\ got \in [Loaders -> Seq(1 .. MaxRecords)]
      /\ doing'[l] = "save"
  BY <1>1 DEF DatasetInv, LoadersInv, Go
<1>5. got' = [got EXCEPT ![l] = got[l]]
  BY <1>1, <1>4
<1>6. Raises' <=> Raises
  BY <1>1 DEF files, Raises
<1>7. Reading(l)'
  BY <1>1, <1>4, <1>6 DEF Reading, files
<1>8. LoadersInv'
  <2>1. spoilt' \subseteq Loaders /\ (spoilt' # {} => harmed') /\ spoilt \subseteq spoilt'
    BY <1>1, <1>2 DEF DatasetInv, LoadersInv
  <2>. QED
    BY <1>1, <1>2, <1>4, <1>5, <1>7, <2>1, OneLoader DEF DatasetInv
<1>9. pickle' = Torn \/ (Fine(pickle))'
  <2>1. CASE In({"save"}) = {}
    BY <1>1, <2>1
  <2>2. CASE In({"save"}) # {}
    <3>1. pickle' = Junk /\ harmed' /\ Junk.junk = TRUE /\ Junk.records = <<>>
      BY <1>1, <1>2, <2>2 DEF Junk, Result
    <3>. QED
      BY <3>1, Nothing DEF Fine, Honest
  <2>. QED
    BY <2>1, <2>2
<1>. QED
  BY <1>1, <1>3, <1>8, <1>9 DEF DatasetInv

(* A loader that returns or raises, having saved a pickle or not. *)
LEMMA Returns ==
  ASSUME DatasetAssumption, DatasetInv, NEW l \in Loaders, Return(l),
         pickle' \in {None, Torn} \/ Fine(pickle'), loaded' = None \/ Fine(loaded')
  PROVE  DatasetInv'
<1>1. /\ Go(l, "idle") /\ got' = [got EXCEPT ![l] = <<>>] /\ spoilt' = spoilt \ {l} /\ UNCHANGED <<files, harmed>>
  BY DEF Return
<1>2. FileInv'
  BY <1>1, FilesStand DEF DatasetInv, FileInv
<1>3. got \in [Loaders -> Seq(1 .. MaxRecords)] /\ doing'[l] = "idle" /\ got'[l] = <<>>
  BY <1>1 DEF DatasetInv, LoadersInv, Go
<1>4. Reading(l)'
  BY <1>3, Nothing DEF Reading
<1>5. LoadersInv'
  BY <1>1, <1>4, Nothing, OneLoader DEF DatasetInv, LoadersInv
<1>. QED
  BY <1>1, <1>2, <1>5 DEF DatasetInv, Fine, Honest, files

LEMMA ReturnStep ==
  ASSUME DatasetAssumption, DatasetInv, NEW l \in Loaders,
         LoadCached(l) \/ FrameFails(l) \/ Save(l) \/ LoaderDies(l) \/ LoadMsg(l)
  PROVE  DatasetInv'
<1>1. l \in spoilt => harmed
  BY DEF DatasetInv, LoadersInv
<1>2. pickle = Junk /\ pickle # None => harmed
  BY JunkFine DEF DatasetAssumption, DatasetInv, Fine, Honest
<1>3. CASE FrameFails(l) \/ LoaderDies(l)
  BY <1>3, Returns DEF DatasetInv, FrameFails, LoaderDies
<1>4. CASE LoadCached(l)
  <2>1. /\ Return(l) /\ UNCHANGED pickle
        /\ \/ loaded' = IF pickle = Torn THEN None ELSE pickle
           \/ (l \in spoilt \/ pickle = Junk) /\ loaded' \in {None, Junk}
    BY <1>4 DEF LoadCached
  <2>2. loaded' = None \/ Fine(loaded')
    BY <1>1, <1>2, <2>1, JunkFine DEF DatasetInv
  <2>. QED
    BY <2>1, <2>2, Returns DEF DatasetInv
<1>5. CASE Save(l)
  <2>1. /\ doing[l] = "save" /\ Return(l) /\ loaded' = (IF l \in spoilt THEN Junk ELSE Framed(got[l]))
        /\ pickle' = (IF pickle = Torn THEN loaded' ELSE pickle)
    BY <1>5 DEF Save
  <2>2. l \notin spoilt => got[l] \in past /\ shape \in Shapes /\ (got[l] = <<>> \/ ~Raises)
    BY <2>1 DEF DatasetInv, LoadersInv, Reading, FileInv
  <2>3. Fine(loaded')
    BY <1>1, <2>1, <2>2, FrameFine, JunkFine DEF DatasetInv, FileInv
  <2>. QED
    BY <2>1, <2>3, Returns DEF DatasetInv
<1>6. CASE LoadMsg(l)
  <2>1. /\ doing[l] = "msg" /\ Return(l) /\ UNCHANGED pickle
    BY <1>6 DEF LoadMsg
  <2>2. n > 0
    BY <2>1 DEF DatasetInv, LoadersInv, Reading
  <2>3. (\E i \in 1 .. Len(file) - 1 : file[i] = Torn) => harmed
    <3>1. Len(file) \in Nat
      BY ItsElements DEF DatasetInv, FileInv
    <3>. QED
      BY <3>1 DEF DatasetInv, FileInv, Begun
  <2>4. loaded' = None \/ Fine(loaded')
    BY <1>1, <1>6, <2>2, <2>3, MsgFine, JunkFine DEF LoadMsg, DatasetInv
  <2>. QED
    BY <2>1, <2>4, Returns DEF DatasetInv
<1>. QED
  BY <1>3, <1>4, <1>5, <1>6

LEMMA DiscardStep ==
  ASSUME DatasetAssumption, DatasetInv, Discard
  PROVE  DatasetInv'
<1>1. UNCHANGED <<files, doing, got, spoilt, harmed>> /\ pickle' = None /\ loaded' = None
  BY DEF Discard
<1>2. FileInv'
  BY <1>1, FilesStand DEF DatasetInv, FileInv
<1>3. Grows
  <2>1. Len(file) \in Nat
    BY ItsElements DEF DatasetInv, FileInv
  <2>. QED
    BY <1>1, <2>1 DEF Grows, files
<1>4. UNCHANGED <<n, shape, past, file>> /\ n \in Nat /\ Len(file) \in Nat
  BY <1>1, ItsElements DEF files, DatasetInv, FileInv
<1>5. LoadersInv'
  BY <1>1, <1>3, <1>4, LoadersStand DEF DatasetInv, LoadersInv
<1>. QED
  BY <1>1, <1>2, <1>5 DEF DatasetInv
-----------------------------------------------------------------------------
(* The invariant holds. *)
THEOREM DatasetInvHolds == ASSUME DatasetAssumption PROVE Spec => []DatasetInv
<1>1. Init => DatasetInv
  <2>. SUFFICES ASSUME Init PROVE DatasetInv
    OBVIOUS
  <2>1. <<>> \in Seq(1 .. MaxRecords) /\ <<>> \in Seq(1 .. MaxRecords \cup {Torn}) /\ Len(<<>>) = 0
    BY Nothing
  <2>2. FileInv
    <3>1. Kept
      <4>1. SubSeq(<<>>, 1, 0) = <<>>
        BY <2>1, Appends, DatasetAssumption
      <4>2. Len(file) = 0 /\ file = <<>> /\ whole = <<>>
        BY <2>1 DEF Init
      <4>3. \A k \in 0 .. Len(file) : k = 0
        BY <4>2
      <4>. QED
        BY <4>1, <4>2, <4>3 DEF Kept
    <3>2. /\ shape = None /\ n = 0 /\ file = <<>> /\ writing = FALSE /\ whole = <<>> /\ past = {<<>>}
          /\ harmed = FALSE
      BY DEF Init
    <3>3. 0 \in 0 .. MaxRecords
      BY DEF DatasetAssumption
    <3>4. Begun
      BY <2>1, <3>2 DEF Begun
    <3>. QED
      BY <2>1, <3>1, <3>2, <3>3, <3>4 DEF FileInv
  <2>3. LoadersInv
    BY <2>1 DEF Init, LoadersInv, Reading
  <2>. QED
    BY <2>2, <2>3 DEF DatasetInv, Init
<1>2. DatasetInv /\ [Next]_vars => DatasetInv'
  <2>. SUFFICES ASSUME DatasetInv, [Next]_vars PROVE DatasetInv'
    OBVIOUS
  <2>1. CASE UNCHANGED vars
    <3>1. UNCHANGED <<files, doing, got, spoilt, harmed, pickle, loaded>>
      BY <2>1 DEF vars, files
    <3>2. UNCHANGED <<n, shape, past, file>> /\ n \in Nat /\ Len(file) \in Nat
      BY <2>1, ItsElements DEF vars, DatasetInv, FileInv
    <3>3. FileInv' /\ Grows
      BY <3>1, <3>2, FilesStand DEF DatasetInv, FileInv, Grows
    <3>4. LoadersInv'
      BY <3>1, <3>2, <3>3, LoadersStand DEF DatasetInv, LoadersInv
    <3>. QED
      BY <3>1, <3>2, <3>3, <3>4 DEF DatasetInv, Fine, Honest
  <2>2. CASE Discard
    BY <2>2, DiscardStep
  <2>3. CASE \E l \in Loaders : OpenPickle(l) \/ Open(l) \/ OpenMsg(l)
    BY <2>3, BeginStep
  <2>4. CASE \E l \in Loaders : Unpack(l) \/ EndOfFile(l) \/ StartSave(l)
    BY <2>4, UnpackStep, EndOfFileStep, StartSaveStep
  <2>5. CASE \E l \in Loaders : LoadCached(l) \/ FrameFails(l) \/ Save(l) \/ LoaderDies(l) \/ LoadMsg(l)
    BY <2>5, ReturnStep
  <2>. QED
    BY <2>1, <2>2, <2>3, <2>4, <2>5, WriterStep DEF Next
<1>. QED
  BY <1>1, <1>2, PTL DEF Spec

(* A load that succeeds returns what the data set was at some moment, with   *)
(* each entry of each object where it was, however many programs read, write *)
(* and save at once and die of it; it is junk only after some harm was done. *)
THEOREM LoadsSomePastCorrect == ASSUME DatasetAssumption PROVE Spec => []LoadsSomePast
<1>1. DatasetInv => LoadsSomePast
  BY DEF DatasetInv, LoadsSomePast, Fine
<1>. QED
  BY <1>1, DatasetInvHolds, PTL

(* The type invariant of the data set. *)
THEOREM TypeCorrect == ASSUME DatasetAssumption PROVE Spec => []TypeOK
<1>1. DatasetInv => TypeOK
  BY DEF DatasetInv, FileInv, LoadersInv, Fine, TypeOK
<1>. QED
  BY <1>1, DatasetInvHolds, PTL
=============================================================================
