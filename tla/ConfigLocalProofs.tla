------------------------- MODULE ConfigLocalProofs --------------------------
(* Proofs about ConfigLocal for every set of keys, files, contents, values.  *)
EXTENDS ConfigLocal, TLAPS

(* The path of a leaf of a document that was put at k starts with k, and its *)
(* rest is the path in that document.                                        *)
LEMMA Joined ==
  ASSUME NEW k \in Seq(Names), NEW q \in Seq(Names)
  PROVE  k \o q \in Seq(Names) /\ IsPrefix(k, k \o q) /\ Rest(k, k \o q) = q
<1>1. k \o q \in Seq(Names) /\ Len(k \o q) = Len(k) + Len(q)
  OBVIOUS
<1>2. SubSeq(k \o q, 1, Len(k)) = k /\ SubSeq(k, 1, Len(k)) = k
  OBVIOUS
<1>3. SubSeq(k \o q, Len(k) + 1, Len(k \o q)) = q
  OBVIOUS
<1>. QED
  BY <1>1, <1>2, <1>3 DEF IsPrefix, Rest

(* A path that starts with k is k and its rest. *)
LEMMA Split ==
  ASSUME NEW k \in Seq(Names), NEW p \in Seq(Names), IsPrefix(k, p)
  PROVE  Rest(k, p) \in Seq(Names) /\ k \o Rest(k, p) = p
<1>1. Len(k) <= Len(p) /\ SubSeq(p, 1, Len(k)) = k
  BY DEF IsPrefix
<1>2. Rest(k, p) \in Seq(Names) /\ Len(Rest(k, p)) = Len(p) - Len(k)
  BY <1>1 DEF Rest
<1>. QED
  BY <1>1, <1>2 DEF Rest

(* The leaves of a document with another put at k. *)
LEMMA PutLeaves ==
  ASSUME NEW k \in Seq(Names), NEW d, NEW v,
         DOMAIN d \subseteq Seq(Names), DOMAIN v \subseteq Seq(Names)
  PROVE  /\ DOMAIN Put(d, k, v) \subseteq Seq(Names)
         /\ \A p \in DOMAIN d : ~IsPrefix(k, p) =>
              p \in DOMAIN Put(d, k, v) /\ Put(d, k, v)[p] = d[p]
         /\ \A q \in DOMAIN v :
              k \o q \in DOMAIN Put(d, k, v) /\ Put(d, k, v)[k \o q] = v[q]
<1>. DEFINE P == {q \in DOMAIN d : ~IsPrefix(k, q)} \cup {k \o q : q \in DOMAIN v}
            f == [p \in P |-> IF IsPrefix(k, p) THEN v[Rest(k, p)] ELSE d[p]]
<1>1. Put(d, k, v) = f
  BY DEF Put
<1>2. \A q \in DOMAIN v : k \o q \in P /\ k \o q \in Seq(Names) /\ IsPrefix(k, k \o q) /\ Rest(k, k \o q) = q
  BY Joined
<1>3. \A p \in P : \/ p \in DOMAIN d /\ ~IsPrefix(k, p)
                   \/ IsPrefix(k, p) /\ \E q \in DOMAIN v : p = k \o q
  BY <1>2
<1>4. P \subseteq Seq(Names)
  BY <1>2, <1>3
<1>5. DOMAIN f = P
  OBVIOUS
<1>6. \A q \in DOMAIN v : f[k \o q] = v[q]
  BY <1>2
<1>7. \A p \in DOMAIN d : ~IsPrefix(k, p) => p \in P /\ f[p] = d[p]
  OBVIOUS
<1>. HIDE DEF f, P
<1>. QED
  BY <1>1, <1>2, <1>3, <1>4, <1>5, <1>6, <1>7

(* The types of a document and of one put into it are put together alike. *)
LEMMA TypesOfPut ==
  ASSUME NEW k \in Seq(Names), NEW d, NEW v,
         DOMAIN d \subseteq Seq(Names), DOMAIN v \subseteq Seq(Names)
  PROVE  get_types(Put(d, k, v)) = Put(get_types(d), k, get_types(v))
<1>. DEFINE D == get_types(d)
            V == get_types(v)
            L == get_types(Put(d, k, v))
            R == Put(D, k, V)
<1>1. /\ DOMAIN D = DOMAIN d /\ \A p \in DOMAIN d : D[p] = d[p].type
      /\ DOMAIN V = DOMAIN v /\ \A p \in DOMAIN v : V[p] = v[p].type
      /\ DOMAIN L = DOMAIN Put(d, k, v) /\ \A p \in DOMAIN L : L[p] = Put(d, k, v)[p].type
      /\ L = [p \in DOMAIN L |-> L[p]]
  BY DEF get_types
<1>2. R = [p \in DOMAIN R |-> R[p]]
  BY DEF Put
<1>. HIDE DEF D, V, L
<1>3. DOMAIN L = DOMAIN R
  <2>1. DOMAIN Put(d, k, v) = DOMAIN R
    BY <1>1 DEF Put
  <2>. QED
    BY <1>1, <2>1
<1>4. \A p \in DOMAIN L : L[p] = R[p]
  <2>. SUFFICES ASSUME NEW p \in DOMAIN L PROVE L[p] = R[p]
    OBVIOUS
  <2>1. CASE p \in DOMAIN d /\ ~IsPrefix(k, p)
    <3>1. Put(d, k, v)[p] = d[p]
      BY <2>1, PutLeaves
    <3>2. Put(D, k, V)[p] = D[p]
      BY <1>1, <2>1, PutLeaves
    <3>. QED
      BY <1>1, <2>1, <3>1, <3>2
  <2>2. CASE \E q \in DOMAIN v : p = k \o q
    <3>1. PICK q \in DOMAIN v : p = k \o q
      BY <2>2
    <3>2. Put(d, k, v)[p] = v[q]
      BY <3>1, PutLeaves
    <3>3. Put(D, k, V)[p] = V[q]
      BY <1>1, <3>1, PutLeaves
    <3>. QED
      BY <1>1, <3>1, <3>2, <3>3
  <2>3. \/ p \in DOMAIN d /\ ~IsPrefix(k, p)
        \/ \E q \in DOMAIN v : p = k \o q
    <3>1. p \in DOMAIN Put(d, k, v)
      BY <1>1
    <3>. QED
      BY <3>1 DEF Put
  <2>. QED
    BY <2>1, <2>2, <2>3
<1>. HIDE DEF R
<1>5. L = R
  BY <1>1, <1>2, <1>3, <1>4
<1>. QED
  BY <1>5 DEF L, R, D, V

(* A part of a tree that is put back where it was changes nothing. *)
LEMMA PutBack ==
  ASSUME NEW k \in Seq(Names), NEW t, t = [p \in DOMAIN t |-> t[p]], DOMAIN t \subseteq Seq(Names)
  PROVE  /\ Put(t, k, At(t, k)) = t
         /\ DOMAIN At(t, k) \subseteq Seq(Names)
<1>. DEFINE A == At(t, k)
            R == Put(t, k, A)
<1>1. /\ DOMAIN A = {Rest(k, q) : q \in {q \in DOMAIN t : IsPrefix(k, q)}}
      /\ \A p \in DOMAIN A : A[p] = t[k \o p]
  BY DEF At
<1>2. R = [p \in DOMAIN R |-> R[p]]
  BY DEF Put
<1>. HIDE DEF A
<1>3. \A p \in DOMAIN t : IsPrefix(k, p) => Rest(k, p) \in DOMAIN A /\ k \o Rest(k, p) = p
  BY <1>1, Split
<1>4. \A q \in DOMAIN A : q \in Seq(Names) /\ k \o q \in DOMAIN t /\ IsPrefix(k, k \o q)
  BY <1>1, Split
<1>5. DOMAIN A \subseteq Seq(Names)
  BY <1>4
<1>6. DOMAIN R = DOMAIN t
  <2>1. ASSUME NEW p \in DOMAIN t PROVE p \in DOMAIN R
    BY <1>3, <1>5, PutLeaves
  <2>2. ASSUME NEW p \in DOMAIN R PROVE p \in DOMAIN t
    <3>1. p \in DOMAIN t \/ \E q \in DOMAIN A : p = k \o q
      BY DEF Put
    <3>. QED
      BY <1>4, <3>1
  <2>. QED
    BY <2>1, <2>2
<1>7. \A p \in DOMAIN t : R[p] = t[p]
  <2>. SUFFICES ASSUME NEW p \in DOMAIN t PROVE R[p] = t[p]
    OBVIOUS
  <2>1. CASE IsPrefix(k, p)
    <3>. DEFINE q == Rest(k, p)
    <3>1. q \in DOMAIN A /\ k \o q = p
      BY <1>3, <2>1
    <3>. HIDE DEF q
    <3>2. \A u \in DOMAIN A : Put(t, k, A)[k \o u] = A[u]
      BY <1>5, PutLeaves
    <3>. HIDE DEF R
    <3>3. R = Put(t, k, A)
      BY DEF R
    <3>. QED
      BY <1>1, <3>1, <3>2, <3>3
  <2>2. CASE ~IsPrefix(k, p)
    BY <1>5, <2>2, PutLeaves
  <2>. QED
    BY <2>1, <2>2
<1>. HIDE DEF R
<1>8. R = t
  BY <1>2, <1>6, <1>7
<1>. QED
  BY <1>5, <1>8 DEF R, A
-----------------------------------------------------------------------------
(* Paths are paths, and the types are those of the storage, unless a         *)
(* reference was assigned to; in any case they are a tree, so that a part of *)
(* them that is put back changes nothing.                                    *)
AgreeInv ==
  /\ DOMAIN storage \subseteq Seq(Names) /\ DOMAIN types \subseteq Seq(Names)
  /\ types = [p \in DOMAIN types |-> types[p]]
  /\ TypesAgree

(* The types of a document are a tree with the same leaves. *)
LEMMA TypesTree ==
  ASSUME NEW d
  PROVE  /\ DOMAIN get_types(d) = DOMAIN d
         /\ get_types(d) = [p \in DOMAIN get_types(d) |-> get_types(d)[p]]
BY DEF get_types

(* What a file is fixed to has the leaves it was read with. *)
LEMMA ParsedPaths ==
  ASSUME NEW f, NEW c \in Contents
  PROVE  DOMAIN Parsed(f, c) \subseteq Seq(Names)
<1>1. DOMAIN c \subseteq Seq(Names)
  BY ConfigAssumption DEF ConfigAssumption, Document
<1>2. ASSUME NEW d PROVE DOMAIN fix_arrays(d) = DOMAIN d
  BY DEF fix_arrays
<1>3. ASSUME NEW d PROVE DOMAIN fix_unsigned(d) = DOMAIN d
  BY DEF fix_unsigned
<1>4. ASSUME NEW d PROVE DOMAIN yaml_to_json(d) = DOMAIN d
  BY DEF yaml_to_json
<1>. DEFINE r == IF Format[f] = "yaml" THEN yaml_to_json(c) ELSE c
<1>5. DOMAIN r = DOMAIN c
  BY <1>4
<1>. HIDE DEF r
<1>6. DOMAIN fix_arrays(fix_unsigned(r)) = DOMAIN c
  BY <1>2, <1>3, <1>5
<1>. QED
  BY <1>1, <1>6 DEF Parsed, r

(* What a safe Set stores has the types that are kept for its path. *)
LEMMA UpdatedTypes ==
  ASSUME NEW v, NEW old, NEW d \in Updated(v, old)
  PROVE  get_types(d) = old
BY DEF Updated

(* An exception leaves both trees. *)
LEMMA ThrowKeeps ==
  ASSUME AgreeInv, Throw
  PROVE  AgreeInv'
BY DEF AgreeInv, TypesAgree, Throw

(* A Load: of a new file, or again. *)
LEMMA LoadKeeps ==
  ASSUME AgreeInv, NEW c \in Contents, LoadFile(c)
  PROVE  AgreeInv'
<1>1. CASE storage' = Parsed(path', c) /\ types' = get_types(storage') /\ used' = {}
  <2>1. DOMAIN storage' \subseteq Seq(Names)
    BY <1>1, ParsedPaths
  <2>. QED
    BY <1>1, <2>1, TypesTree DEF AgreeInv, TypesAgree
<1>2. CASE UNCHANGED <<storage, types, used>>
  BY <1>2 DEF AgreeInv, TypesAgree
<1>. QED
  BY <1>1, <1>2 DEF LoadFile, Throw

(* An unsafe Set puts the document and its types at the same path. *)
LEMMA UnsafeSetKeeps ==
  ASSUME AgreeInv, NEW k \in Keys, NEW v \in Values, UnsafeSet(k, v)
  PROVE  AgreeInv'
<1>1. k \in Seq(Names) /\ DOMAIN v \subseteq Seq(Names)
  BY ConfigAssumption DEF ConfigAssumption, Document
<1>2. DOMAIN get_types(v) = DOMAIN v
  BY TypesTree
<1>3. CASE Throw
  BY <1>3, ThrowKeeps
<1>4. CASE /\ storage' = Put(storage, k, v) /\ types' = Put(types, k, get_types(v))
           /\ used' = used \cup {"Unsafe"}
  <2>1. DOMAIN storage' \subseteq Seq(Names)
    BY <1>1, <1>4, PutLeaves DEF AgreeInv
  <2>2. DOMAIN types' \subseteq Seq(Names)
    BY <1>1, <1>2, <1>4, PutLeaves DEF AgreeInv
  <2>3. types' = [p \in DOMAIN types' |-> types'[p]]
    BY <1>4 DEF Put
  <2>4. TypesAgree'
    <3>1. "Ref" \notin used' => types = get_types(storage)
      BY <1>4 DEF AgreeInv, TypesAgree
    <3>2. get_types(Put(storage, k, v)) = Put(get_types(storage), k, get_types(v))
      BY <1>1, TypesOfPut DEF AgreeInv
    <3>. QED
      BY <1>4, <3>1, <3>2 DEF TypesAgree
  <2>. QED
    BY <2>1, <2>2, <2>3, <2>4 DEF AgreeInv
<1>. QED
  BY <1>3, <1>4 DEF UnsafeSet, Store

(* A safe Set stores a document that has the types which are kept there.     *)
LEMMA SetKeeps ==
  ASSUME AgreeInv, NEW k \in Keys, NEW v \in Values, Set(k, v)
  PROVE  AgreeInv'
<1>1. k \in Seq(Names)
  BY ConfigAssumption DEF ConfigAssumption, Document
<1>2. CASE Throw
  BY <1>2, ThrowKeeps
<1>3. ASSUME NEW d \in Updated(v, At(types, k)), Store(k, d, types, {}), ~Throw PROVE AgreeInv'
  <2>1. storage' = Put(storage, k, d) /\ types' = types /\ used' = used \cup {}
    BY <1>3 DEF Store
  <2>2. get_types(d) = At(types, k)
    BY <1>3, UpdatedTypes
  <2>3. Put(types, k, At(types, k)) = types /\ DOMAIN At(types, k) \subseteq Seq(Names)
    BY <1>1, PutBack DEF AgreeInv
  <2>4. DOMAIN d \subseteq Seq(Names)
    BY <2>2, <2>3, TypesTree
  <2>5. DOMAIN storage' \subseteq Seq(Names)
    BY <1>1, <2>1, <2>4, PutLeaves DEF AgreeInv
  <2>6. TypesAgree'
    <3>1. "Ref" \notin used' => types = get_types(storage)
      BY <2>1 DEF AgreeInv, TypesAgree
    <3>2. get_types(Put(storage, k, d)) = Put(get_types(storage), k, get_types(d))
      BY <1>1, <2>4, TypesOfPut DEF AgreeInv
    <3>. QED
      BY <2>1, <2>2, <2>3, <3>1, <3>2 DEF TypesAgree
  <2>. QED
    BY <2>1, <2>5, <2>6 DEF AgreeInv
<1>. QED
  BY <1>2, <1>3 DEF Set

(* After an assignment through a reference nothing is claimed but paths.     *)
LEMMA AssignKeeps ==
  ASSUME AgreeInv, NEW k \in Keys, NEW v \in Values, Assign(k, v)
  PROVE  AgreeInv'
<1>1. k \in Seq(Names) /\ DOMAIN v \subseteq Seq(Names)
  BY ConfigAssumption DEF ConfigAssumption, Document
<1>2. CASE Throw
  BY <1>2, ThrowKeeps
<1>3. CASE storage' = Put(storage, k, v) /\ types' = types /\ used' = used \cup {"Ref"}
  <2>1. DOMAIN storage' \subseteq Seq(Names)
    BY <1>1, <1>3, PutLeaves DEF AgreeInv
  <2>. QED
    BY <1>3, <2>1 DEF AgreeInv, TypesAgree
<1>. QED
  BY <1>2, <1>3 DEF Assign, Store

(* A matrix writes one scalar, or nothing that the storage shows. *)
LEMMA MapWrites ==
  ASSUME NEW k \in Keys, NEW p \in DOMAIN storage, MapWrite(k, p)
  PROVE  /\ out' \in {"ok", "crashed"} /\ UNCHANGED <<types, path, used>>
         /\ \/ UNCHANGED storage
            \/ /\ storage[p].type \in Scalars
               /\ \E n \in Words(storage[p].type) :
                     storage' = [storage EXCEPT ![p] = Leaf(storage[p].type, n)]
BY DEF MapWrite

(* It changes no type. *)
LEMMA MapWriteKeeps ==
  ASSUME AgreeInv, NEW k \in Keys, NEW p \in DOMAIN storage, MapWrite(k, p)
  PROVE  AgreeInv'
<1>1. CASE UNCHANGED storage
  BY <1>1, MapWrites DEF AgreeInv, TypesAgree
<1>2. ASSUME NEW n, storage' = [storage EXCEPT ![p] = Leaf(storage[p].type, n)] PROVE AgreeInv'
  <2>1. DOMAIN storage' = DOMAIN storage
    BY <1>2
  <2>2. \A q \in DOMAIN storage : storage'[q].type = storage[q].type
    BY <1>2 DEF Leaf
  <2>3. get_types(storage') = get_types(storage)
    BY <2>1, <2>2 DEF get_types
  <2>. QED
    BY <1>2, <2>1, <2>3, MapWrites DEF AgreeInv, TypesAgree
<1>. QED
  BY <1>1, <1>2, MapWrites

(* The invariant holds. *)
THEOREM AgreeInvHolds == Spec => []AgreeInv
<1>1. Init => AgreeInv
  <2>. SUFFICES ASSUME Init PROVE AgreeInv
    OBVIOUS
  <2>1. PICK f \in Files, c \in Contents : storage = Parsed(f, c) /\ types = get_types(storage)
    BY DEF Init
  <2>2. DOMAIN storage \subseteq Seq(Names)
    BY <2>1, ParsedPaths
  <2>. QED
    BY <2>1, <2>2, TypesTree DEF AgreeInv, TypesAgree
<1>2. AgreeInv /\ [Next]_vars => AgreeInv'
  <2>. SUFFICES ASSUME AgreeInv, [Next]_vars PROVE AgreeInv'
    OBVIOUS
  <2>1. CASE UNCHANGED vars
    BY <2>1 DEF vars, AgreeInv, TypesAgree
  <2>2. ASSUME NEW c \in Contents, Reload(c) PROVE AgreeInv'
    BY <2>2, LoadKeeps DEF Reload
  <2>3. ASSUME NEW f \in Files, NEW c \in Contents, Load(f, c) PROVE AgreeInv'
    BY <2>3, LoadKeeps DEF Load
  <2>. QED
    BY <2>1, <2>2, <2>3, UnsafeSetKeeps, SetKeeps, AssignKeeps, MapWriteKeeps DEF Next
<1>. QED
  BY <1>1, <1>2, PTL DEF Spec

(* The storage and the tree of its types, which each Set updates apart and   *)
(* nothing compares again, keep the same leaves with the same types in every *)
(* sequence of calls that assigns through no reference.                      *)
THEOREM TreesAgree == Spec => []TypesAgree
BY AgreeInvHolds, PTL DEF AgreeInv
-----------------------------------------------------------------------------
(* What was put at k is there, with its types. *)
LEMMA TypesOfAt ==
  ASSUME NEW k \in Seq(Names), NEW d, NEW v,
         DOMAIN d \subseteq Seq(Names), DOMAIN v \subseteq Seq(Names)
  PROVE  get_types(At(Put(d, k, v), k)) = get_types(v)
<1>. DEFINE R == Put(d, k, v)
            A == At(R, k)
<1>1. /\ DOMAIN A = {Rest(k, q) : q \in {q \in DOMAIN R : IsPrefix(k, q)}}
      /\ \A p \in DOMAIN A : A[p] = R[k \o p]
  BY DEF At
<1>2. \A q \in DOMAIN R : IsPrefix(k, q) => \E u \in DOMAIN v : q = k \o u
  BY DEF Put
<1>3. \A u \in DOMAIN v : k \o u \in DOMAIN R /\ R[k \o u] = v[u]
  BY PutLeaves
<1>4. \A u \in DOMAIN v : IsPrefix(k, k \o u) /\ Rest(k, k \o u) = u
  BY Joined
<1>. HIDE DEF R, A
<1>5. \A u \in DOMAIN v : u \in DOMAIN A
  BY <1>1, <1>3, <1>4
<1>6. \A u \in DOMAIN A : u \in DOMAIN v
  BY <1>1, <1>2, <1>4
<1>7. DOMAIN A = DOMAIN v /\ \A u \in DOMAIN v : A[u] = v[u]
  BY <1>1, <1>3, <1>5, <1>6
<1>8. get_types(A) = get_types(v)
  BY <1>7 DEF get_types
<1>. QED
  BY <1>8 DEF A, R

(* A call that throws has written neither tree, or is a Load that has        *)
(* replaced both with what it fixed and checked (ConfigLocal.h 62-138).      *)
THEOREM FailuresKeep == Spec => NeverHalf
<1>. DEFINE Whole == \/ UNCHANGED <<storage, types>>
                     \/ /\ types' = get_types(storage') /\ used' = {}
                        /\ check_numerical_homogenous_arrays(storage')
<1>1. [Next]_vars => (out' = "threw" => Whole)
  <2>. SUFFICES ASSUME [Next]_vars, out' = "threw" PROVE Whole
    OBVIOUS
  <2>. USE DEF Throw
  <2>1. CASE UNCHANGED vars
    BY <2>1 DEF vars
  <2>2. ASSUME NEW c \in Contents, LoadFile(c) PROVE Whole
    BY <2>2 DEF LoadFile, Accepts
  <2>3. ASSUME NEW k, NEW d, NEW t, NEW C, Store(k, d, t, C) PROVE UNCHANGED <<storage, types>>
    BY <2>3 DEF Store
  <2>4. ASSUME NEW k \in Keys, NEW v \in Values, UnsafeSet(k, v) \/ Set(k, v) \/ Assign(k, v)
        PROVE  UNCHANGED <<storage, types>>
    BY <2>3, <2>4 DEF UnsafeSet, Set, Assign
  <2>5. ASSUME NEW k \in Keys, NEW p \in DOMAIN storage, MapWrite(k, p) PROVE FALSE
    BY <2>5, MapWrites
  <2>. QED
    BY <2>1, <2>2, <2>4, <2>5 DEF Next, Load, Reload
<1>. QED
  BY <1>1, PTL DEF Spec, NeverHalf

(* The types are those of the last Load or unsafe Set: a safe Set that       *)
(* succeeds leaves them, and what it stored has them.                        *)
THEOREM SafeSets == Spec => SetKeepsTypes
<1>. DEFINE A == out' = "ok" => \A k \in Keys, v \in Values :
       Set(k, v) => types' = types /\ get_types(At(storage', k)) = At(types, k)
<1>1. AgreeInv => A
  <2>. SUFFICES ASSUME AgreeInv, out' = "ok", NEW k \in Keys, NEW v \in Values, Set(k, v)
                PROVE  types' = types /\ get_types(At(storage', k)) = At(types, k)
    OBVIOUS
  <2>1. PICK d \in Updated(v, At(types, k)) : Store(k, d, types, {})
    BY DEF Set, Throw
  <2>2. storage' = Put(storage, k, d) /\ types' = types
    BY <2>1 DEF Store, Throw
  <2>3. k \in Seq(Names)
    BY ConfigAssumption DEF ConfigAssumption, Document
  <2>4. get_types(d) = At(types, k) /\ DOMAIN d \subseteq Seq(Names)
    BY <2>1, <2>3, UpdatedTypes, PutBack, TypesTree DEF AgreeInv
  <2>5. get_types(At(Put(storage, k, d), k)) = get_types(d)
    BY <2>3, <2>4, TypesOfAt DEF AgreeInv
  <2>. QED
    BY <2>2, <2>4, <2>5
<1>. QED
  BY <1>1, AgreeInvHolds, PTL DEF Spec, SetKeepsTypes
-----------------------------------------------------------------------------
(* What Load checked of the arrays holds until a call that checks no types.  *)
Checked == used = {} => check_numerical_homogenous_arrays(storage)

(* The check sees the leaves and their types only. *)
LEMMA CheckOfTypes ==
  ASSUME NEW d, NEW e, get_types(d) = get_types(e), check_numerical_homogenous_arrays(d)
  PROVE  check_numerical_homogenous_arrays(e)
<1>1. DOMAIN d = DOMAIN e /\ \A p \in DOMAIN e : d[p].type = e[p].type
  <2>1. /\ DOMAIN get_types(d) = DOMAIN d /\ \A p \in DOMAIN d : get_types(d)[p] = d[p].type
        /\ DOMAIN get_types(e) = DOMAIN e /\ \A p \in DOMAIN e : get_types(e)[p] = e[p].type
    BY DEF get_types
  <2>. QED
    BY <2>1
<1>2. Arrays(d) = Arrays(e)
  BY <1>1 DEF Arrays
<1>3. ASSUME NEW k \in Arrays(e), AllOf(e, k, Scalars), NEW p \in Elements(e, k), NEW q \in Elements(e, k)
      PROVE  e[p].type = e[q].type
  <2>1. p \in Elements(d, k) /\ q \in Elements(d, k) /\ p \in DOMAIN e /\ q \in DOMAIN e
    BY <1>1 DEF Elements
  <2>2. AllOf(d, k, Scalars)
    BY <1>1, <1>3 DEF AllOf, Elements
  <2>3. d[p].type = d[q].type
    BY <1>2, <2>1, <2>2 DEF check_numerical_homogenous_arrays
  <2>. QED
    BY <1>1, <2>1, <2>3
<1>. QED
  BY <1>3 DEF check_numerical_homogenous_arrays

(* A step changes the types only in a Load, which checks, or with a mark.    *)
LEMMA TypesChange ==
  ASSUME [Next]_vars
  PROVE  \/ used' = {} => UNCHANGED <<types, used>>
         \/ check_numerical_homogenous_arrays(storage')
<1>. DEFINE G == \/ used' = {} => UNCHANGED <<types, used>>
                 \/ check_numerical_homogenous_arrays(storage')
<1>. USE DEF Throw
<1>1. CASE UNCHANGED vars
  BY <1>1 DEF vars
<1>2. ASSUME NEW c \in Contents, LoadFile(c) PROVE G
  BY <1>2 DEF LoadFile, Accepts
<1>3. ASSUME NEW k \in Keys, NEW v \in Values, UnsafeSet(k, v) PROVE G
  BY <1>3 DEF UnsafeSet, Store
<1>4. ASSUME NEW k \in Keys, NEW v \in Values, Set(k, v) PROVE G
  BY <1>4 DEF Set, Store
<1>5. ASSUME NEW k \in Keys, NEW v \in Values, Assign(k, v) PROVE G
  BY <1>5 DEF Assign, Store
<1>6. ASSUME NEW k \in Keys, NEW p \in DOMAIN storage, MapWrite(k, p) PROVE G
  BY <1>6, MapWrites
<1>. QED
  BY <1>1, <1>2, <1>3, <1>4, <1>5, <1>6 DEF Next, Load, Reload

(* After any number of safe Sets, loads and writes through matrices the view *)
(* that MapMatrixXT makes of an array, on the word of its first element,     *)
(* reads no element as another type: the types, not only their tree, are     *)
(* those that Load checked.                                                  *)
THEOREM ArraysHomogeneous == Spec => []Homogeneous
<1>1. Init => Checked
  BY DEF Init, Checked, Accepts
<1>2. AgreeInv /\ AgreeInv' /\ Checked /\ [Next]_vars => Checked'
  <2>. SUFFICES ASSUME AgreeInv, AgreeInv', Checked, [Next]_vars, used' = {}
                PROVE  check_numerical_homogenous_arrays(storage')
    BY DEF Checked
  <2>1. CASE UNCHANGED <<types, used>>
    <3>1. get_types(storage') = get_types(storage)
      BY <2>1 DEF AgreeInv, TypesAgree
    <3>2. check_numerical_homogenous_arrays(storage)
      BY <2>1 DEF Checked
    <3>. QED
      BY <3>1, <3>2, CheckOfTypes
  <2>. QED
    BY <2>1, TypesChange
<1>3. Checked => Homogeneous
  <2>. SUFFICES ASSUME Checked, used = {}, NEW k \in Arrays(storage), NEW t \in Scalars,
                       AllOf(storage, k, Scalars), check_array(storage, k, t)
                PROVE  AllOf(storage, k, {t})
    BY DEF Homogeneous
  <2>1. PICK p \in Elements(storage, k) : storage[p].type = t
    BY DEF check_array
  <2>2. \A q \in Elements(storage, k) : storage[q].type = t
    BY <2>1 DEF Checked, check_numerical_homogenous_arrays
  <2>. QED
    BY <2>2 DEF AllOf
<1>. QED
  BY <1>1, <1>2, <1>3, AgreeInvHolds, PTL DEF Spec
-----------------------------------------------------------------------------
(* Leaves hold integers.                                                     *)
LEMMA IntegerRange ==
  /\ MaxInt \in Nat /\ Literals \subseteq Unsigned
  /\ Ints \subseteq Int /\ Unsigned \subseteq Int
  /\ \A x \in Leaves : x.v \in Int /\ x.type \in Numbers \cup {"boolean", "string", "null"}
<1>1. MaxInt \in Nat /\ Literals \subseteq Unsigned
  BY ConfigAssumption, Zenon DEF ConfigAssumption
<1>2. Ints \subseteq Int /\ Unsigned \subseteq Int
  BY <1>1 DEF Ints, Unsigned
<1>. QED
  BY <1>1, <1>2 DEF Leaves, Numbers

(* Arithmetic of integers that wrap: what fits is kept.                      *)
LEMMA Wraps ==
  ASSUME NEW n \in Int
  PROVE  /\ Wrap(n) \in Ints /\ Modulo(n) \in Unsigned
         /\ n \in Ints => Wrap(n) = n
         /\ n \in Unsigned => Modulo(n) = n
<1>. DEFINE m == 2 * MaxInt + 2
<1>1. MaxInt \in Nat /\ m \in Nat \ {0}
  BY IntegerRange
<1>. HIDE DEF m
<1>2. ASSUME NEW k \in Int PROVE k % m \in 0 .. m - 1
  BY <1>1
<1>3. ASSUME NEW k \in 0 .. m - 1 PROVE k % m = k
  BY <1>1
<1>4. n % m \in 0 .. m - 1 /\ (n + MaxInt + 1) % m \in 0 .. m - 1
  BY <1>1, <1>2
<1>5. n \in 0 .. m - 1 => n % m = n
  BY <1>3
<1>6. n + MaxInt + 1 \in 0 .. m - 1 => (n + MaxInt + 1) % m = n + MaxInt + 1
  BY <1>3
<1>. QED
  BY <1>1, <1>4, <1>5, <1>6 DEF m, Wrap, Modulo, Ints, Unsigned

(* Every leaf is a value of its type, and stays one in a cast.               *)
LEMMA CastLeaves ==
  ASSUME NEW x \in Leaves, NEW t, NEW y \in Cast(x, t)
  PROVE  y \in Leaves
<1>1. x.v \in Int /\ x.type \in Numbers \cup {"boolean", "string", "null"}
  BY IntegerRange
<1>2. Wrap(x.v) \in Ints /\ Modulo(x.v) \in Unsigned
  BY <1>1, Wraps
<1>3. Half(x) \in Int
  BY <1>1 DEF Half
<1>4. CASE t = "integer"
  <2>1. PICK n \in ToInt(x, Ints, Wrap(x.v)) : y = Leaf(t, n)
    BY <1>4 DEF Cast, Scalars, Numbers
  <2>2. n \in Ints
    BY <1>2, <2>1 DEF ToInt
  <2>. QED
    BY <1>4, <2>1, <2>2 DEF Leaf, Leaves
<1>5. CASE t = "unsigned"
  <2>1. PICK n \in ToInt(x, Unsigned, Modulo(x.v)) : y = Leaf(t, n)
    BY <1>5 DEF Cast, Scalars, Numbers
  <2>2. n \in Unsigned
    BY <1>2, <2>1 DEF ToInt
  <2>. QED
    BY <1>5, <2>1, <2>2 DEF Leaf, Leaves
<1>6. CASE t = "float"
  <2>1. y = Leaf(t, Half(x))
    BY <1>6 DEF Cast, Scalars, Numbers
  <2>. QED
    BY <1>3, <1>6, <2>1 DEF Leaf, Leaves
<1>7. CASE t \notin Numbers
  <2>1. y = x
    BY <1>7 DEF Cast, Numbers
  <2>. QED
    BY <2>1
<1>. QED
  BY <1>4, <1>5, <1>6, <1>7 DEF Numbers

LEMMA FlatLeaf ==
  ASSUME NEW x \in Leaves
  PROVE  Flat(x) \in Leaves /\ Flat(x).type = x.type /\ (x.type # "null" => Flat(x) = x)
BY DEF Flat, Null, Leaf, Leaves

(* Documents are put together of documents ...                               *)
LEMMA PutDocument ==
  ASSUME NEW k \in Seq(Names), NEW d, NEW v, Document(d), Document(v)
  PROVE  Document(Put(d, k, v))
<1>1. DOMAIN d \subseteq Seq(Names) /\ DOMAIN v \subseteq Seq(Names)
  BY DEF Document
<1>2. DOMAIN Put(d, k, v) \subseteq Seq(Names)
  BY <1>1, PutLeaves
<1>3. ASSUME NEW p \in DOMAIN Put(d, k, v) PROVE Put(d, k, v)[p] \in Leaves
  <2>1. \/ p \in DOMAIN d /\ ~IsPrefix(k, p)
        \/ \E q \in DOMAIN v : p = k \o q
    BY DEF Put
  <2>2. \/ p \in DOMAIN d /\ Put(d, k, v)[p] = d[p]
        \/ \E q \in DOMAIN v : Put(d, k, v)[p] = v[q]
    <3>1. /\ \A q \in DOMAIN d : ~IsPrefix(k, q) => Put(d, k, v)[q] = d[q]
          /\ \A q \in DOMAIN v : Put(d, k, v)[k \o q] = v[q]
      BY <1>1, PutLeaves
    <3>. QED
      BY <2>1, <3>1
  <2>. QED
    BY <2>2 DEF Document
<1>. QED
  BY <1>2, <1>3 DEF Document

(* ... and what a safe Set stores instead of a document is one.              *)
LEMMA UpdatedDocument ==
  ASSUME NEW v, NEW old, Document(v), NEW d \in Updated(v, old)
  PROVE  Document(d)
<1>1. CASE d = v
  BY <1>1
<1>2. CASE d \in apply_types(v, old)
  <2>. DEFINE Cases(p) == IF p \in DOMAIN old THEN Cast(Flat(v[p]), old[p]) ELSE {Flat(v[p])}
  <2>1. DOMAIN d = DOMAIN v /\ \A p \in DOMAIN v : d[p] \in Cases(p)
    BY <1>2 DEF apply_types
  <2>2. ASSUME NEW p \in DOMAIN v PROVE d[p] \in Leaves
    <3>1. Flat(v[p]) \in Leaves
      BY FlatLeaf DEF Document
    <3>2. d[p] \in Cases(p)
      BY <2>1
    <3>. QED
      BY <3>1, <3>2, CastLeaves
  <2>. QED
    BY <2>1, <2>2 DEF Document
<1>. QED
  BY <1>1, <1>2 DEF Updated

(* The fixes of a Load make documents of documents.                          *)
LEMMA ParsedDocument ==
  ASSUME NEW f, NEW c, Document(c)
  PROVE  Document(Parsed(f, c))
<1>1. ASSUME NEW d, Document(d) PROVE Document(yaml_to_json(d))
  <2>1. DOMAIN yaml_to_json(d) = DOMAIN d
    BY DEF yaml_to_json
  <2>2. ASSUME NEW p \in DOMAIN d PROVE yaml_to_json(d)[p] \in Leaves
    <3>1. d[p] \in Leaves /\ Flat(d[p]) \in Leaves
      BY <1>1, FlatLeaf DEF Document
    <3>2. \A n \in Literals : Leaf("unsigned", n) \in Leaves
      BY IntegerRange DEF Leaf, Leaves
    <3>. QED
      BY <3>1, <3>2 DEF yaml_to_json
  <2>. QED
    BY <1>1, <2>1, <2>2 DEF Document
<1>2. ASSUME NEW d, Document(d) PROVE Document(fix_unsigned(d))
  <2>1. DOMAIN fix_unsigned(d) = DOMAIN d
    BY DEF fix_unsigned
  <2>2. ASSUME NEW p \in DOMAIN d PROVE fix_unsigned(d)[p] \in Leaves
    <3>1. d[p] \in Leaves /\ d[p].v \in Int
      BY <1>2, IntegerRange DEF Document
    <3>2. Leaf("integer", Wrap(d[p].v)) \in Leaves
      BY <3>1, Wraps DEF Leaf, Leaves
    <3>. QED
      BY <3>1, <3>2 DEF fix_unsigned
  <2>. QED
    BY <1>2, <2>1, <2>2 DEF Document
<1>3. ASSUME NEW d, Document(d) PROVE Document(fix_arrays(d))
  <2>. DEFINE Common(k) == IF AllOf(d, k, {"integer", "unsigned"}) THEN "integer" ELSE "float"
  <2>1. DOMAIN fix_arrays(d) = DOMAIN d
    BY DEF fix_arrays
  <2>2. ASSUME NEW p \in DOMAIN d PROVE fix_arrays(d)[p] \in Leaves
    <3>1. d[p] \in Leaves
      BY <1>3, <2>2 DEF Document
    <3>2. CASE \E k \in Arrays(d) : p \in Elements(d, k) /\ AllOf(d, k, Numbers)
      <4>. DEFINE y == CHOOSE x \in Cast(d[p], Common(Front(p))) : TRUE
      <4>1. fix_arrays(d)[p] = y
        BY <3>2 DEF fix_arrays
      <4>2. PICK k \in Arrays(d) : p \in Elements(d, k) /\ AllOf(d, k, Numbers)
        BY <3>2
      <4>3. Front(p) = k /\ d[p].type \in Numbers
        BY <4>2 DEF AllOf
      <4>4. CASE Common(k) = "integer"
        <5>1. d[p].type \in {"integer", "unsigned"}
          BY <4>2, <4>4 DEF AllOf
        <5>2. Leaf("integer", Wrap(d[p].v)) \in Cast(d[p], "integer")
          <6>1. ToInt(d[p], Ints, Wrap(d[p].v)) = {Wrap(d[p].v)}
            BY <5>1 DEF ToInt
          <6>2. Cast(d[p], "integer") = {Leaf("integer", n) : n \in ToInt(d[p], Ints, Wrap(d[p].v))}
            BY <4>3 DEF Cast, Scalars, Numbers
          <6>. QED
            BY <6>1, <6>2
        <5>. QED
          BY <3>1, <4>1, <4>3, <4>4, <5>2, CastLeaves
      <4>5. CASE Common(k) = "float"
        <5>1. Leaf("float", Half(d[p])) \in Cast(d[p], "float")
          BY <4>3 DEF Cast, Scalars, Numbers
        <5>. QED
          BY <3>1, <4>1, <4>3, <4>5, <5>1, CastLeaves
      <4>. QED
        BY <4>4, <4>5
    <3>3. CASE ~\E k \in Arrays(d) : p \in Elements(d, k) /\ AllOf(d, k, Numbers)
      BY <3>1, <3>3 DEF fix_arrays
    <3>. QED
      BY <3>2, <3>3
  <2>. QED
    BY <1>3, <2>1, <2>2 DEF Document
<1>. DEFINE r == IF Format[f] = "yaml" THEN yaml_to_json(c) ELSE c
<1>4. Document(r)
  BY <1>1
<1>. HIDE DEF r
<1>5. Document(fix_arrays(fix_unsigned(r)))
  BY <1>2, <1>3, <1>4
<1>. QED
  BY <1>5 DEF Parsed, r

(* A step keeps the storage a document.                                      *)
LEMMA StepDocument ==
  ASSUME AgreeInv, Document(storage), [Next]_vars
  PROVE  Document(storage')
<1>. USE DEF Throw
<1>1. /\ \A k \in Keys : k \in Seq(Names)
      /\ \A d \in Values \cup Contents : Document(d)
  BY ConfigAssumption DEF ConfigAssumption
<1>2. CASE UNCHANGED storage
  BY <1>2
<1>3. ASSUME NEW c \in Contents, LoadFile(c) PROVE Document(storage')
  BY <1>1, <1>3, ParsedDocument DEF LoadFile
<1>4. ASSUME NEW k \in Keys, NEW d, Document(d), NEW t, NEW C, Store(k, d, t, C) PROVE Document(storage')
  BY <1>1, <1>4, PutDocument DEF Store
<1>5. ASSUME NEW k \in Keys, NEW v \in Values, UnsafeSet(k, v) \/ Assign(k, v) PROVE Document(storage')
  BY <1>1, <1>4, <1>5 DEF UnsafeSet, Assign
<1>6. ASSUME NEW k \in Keys, NEW v \in Values, Set(k, v) PROVE Document(storage')
  BY <1>1, <1>4, <1>6, UpdatedDocument DEF Set
<1>7. ASSUME NEW k \in Keys, NEW p \in DOMAIN storage, MapWrite(k, p)
      PROVE  Document(storage')
  <2>1. ASSUME NEW t \in Scalars, NEW n \in Words(t) PROVE Leaf(t, n) \in Leaves
    <3>1. Ints \subseteq Int
      BY IntegerRange
    <3>. QED
      BY <2>1, <3>1 DEF Words, Leaf, Leaves, Scalars, Numbers
  <2>2. ASSUME NEW x \in Leaves, storage' = [storage EXCEPT ![p] = x] PROVE Document(storage')
    BY <2>2 DEF Document
  <2>. QED
    BY <1>2, <1>7, <2>1, <2>2, MapWrites
<1>. QED
  BY <1>2, <1>3, <1>5, <1>6, <1>7 DEF Next, Load, Reload, vars

(* The storage holds documents whose numbers are in the range of their types *)
(* after casts, wraps and writes through matrices as well.                   *)
THEOREM TypeCorrect == Spec => []TypeOK
<1>. DEFINE Rest1 == /\ path \in Files /\ out \in {"ok", "threw", "crashed"}
                     /\ used \subseteq {"Unsafe", "Ref"}
<1>1. Init => Document(storage) /\ Rest1
  <2>. SUFFICES ASSUME Init PROVE Document(storage) /\ Rest1
    OBVIOUS
  <2>1. PICK f \in Files, c \in Contents : storage = Parsed(f, c) /\ path = f
    BY DEF Init
  <2>2. Document(c)
    BY ConfigAssumption DEF ConfigAssumption
  <2>. QED
    BY <2>1, <2>2, ParsedDocument DEF Init
<1>2. AgreeInv /\ Document(storage) /\ Rest1 /\ [Next]_vars => (Document(storage) /\ Rest1)'
  <2>. SUFFICES ASSUME AgreeInv, Document(storage), Rest1, [Next]_vars PROVE Rest1'
    BY StepDocument
  <2>. USE DEF Throw
  <2>1. CASE UNCHANGED vars
    BY <2>1 DEF vars
  <2>2. ASSUME NEW c \in Contents, LoadFile(c), path' \in Files PROVE Rest1'
    BY <2>2 DEF LoadFile
  <2>3. ASSUME NEW k, NEW d, NEW t, NEW C \in SUBSET {"Unsafe", "Ref"}, Store(k, d, t, C) \/ Throw, UNCHANGED path
        PROVE  Rest1'
    BY <2>3 DEF Store
  <2>4. ASSUME NEW k \in Keys, NEW v \in Values, UnsafeSet(k, v) \/ Set(k, v) \/ Assign(k, v) PROVE Rest1'
    BY <2>3, <2>4 DEF UnsafeSet, Set, Assign
  <2>5. ASSUME NEW k \in Keys, NEW p \in DOMAIN storage, MapWrite(k, p) PROVE Rest1'
    BY <2>5, MapWrites
  <2>. QED
    BY <2>1, <2>2, <2>4, <2>5 DEF Next, Load, Reload
<1>3. AgreeInv /\ Document(storage) /\ Rest1 => TypeOK
  BY DEF AgreeInv, TypeOK
<1>. QED
  BY <1>1, <1>2, <1>3, AgreeInvHolds, PTL DEF Spec
-----------------------------------------------------------------------------
(* A part of a document is one, and its types are that part of the types.    *)
LEMMA AtDocument ==
  ASSUME NEW k \in Seq(Names), NEW d, Document(d)
  PROVE  Document(At(d, k)) /\ get_types(At(d, k)) = At(get_types(d), k)
<1>. DEFINE A == At(d, k)
            T == get_types(d)
            B == At(T, k)
            G == get_types(A)
<1>1. /\ DOMAIN A = {Rest(k, q) : q \in {q \in DOMAIN d : IsPrefix(k, q)}}
      /\ \A p \in DOMAIN A : A[p] = d[k \o p]
  BY DEF At
<1>2. /\ DOMAIN B = {Rest(k, q) : q \in {q \in DOMAIN T : IsPrefix(k, q)}}
      /\ B = [p \in DOMAIN B |-> T[k \o p]]
  BY DEF At
<1>3. DOMAIN T = DOMAIN d /\ \A p \in DOMAIN d : T[p] = d[p].type
  BY DEF get_types
<1>4. DOMAIN G = DOMAIN A /\ G = [p \in DOMAIN G |-> A[p].type]
  BY DEF get_types
<1>. HIDE DEF A, B, G, T
<1>5. ASSUME NEW p \in DOMAIN A PROVE p \in Seq(Names) /\ k \o p \in DOMAIN d
  <2>1. PICK q \in DOMAIN d : IsPrefix(k, q) /\ p = Rest(k, q)
    BY <1>1
  <2>2. q \in Seq(Names)
    BY DEF Document
  <2>. QED
    BY <2>1, <2>2, Split
<1>6. DOMAIN B = DOMAIN A
  BY <1>1, <1>2, <1>3
<1>7. \A p \in DOMAIN A : T[k \o p] = A[p].type
  BY <1>1, <1>3, <1>5
<1>8. G = B
  BY <1>2, <1>4, <1>6, <1>7
<1>9. Document(A)
  BY <1>1, <1>5 DEF Document
<1>. QED
  BY <1>8, <1>9 DEF A, B, G, T

(* A leaf as it comes back over the wire is cast to what it was.             *)
Sent(x) == IF x.type = "integer" /\ x.v >= 0 THEN Leaf("unsigned", x.v) ELSE x
LEMMA LeafReturns ==
  ASSUME NEW x \in Leaves
  PROVE  Cast(Flat(Sent(x)), x.type) = {Flat(x)}
<1>1. x.v \in Int /\ x.type \in Numbers \cup {"boolean", "string", "null"}
  BY IntegerRange
<1>2. CASE x.type = "integer"
  <2>1. x.v \in Ints /\ x = Leaf("integer", x.v) /\ Flat(x) = x
    BY <1>2 DEF Leaves, Leaf, Flat
  <2>2. Wrap(x.v) = x.v
    BY <1>1, <2>1, Wraps
  <2>. DEFINE y == Sent(x)
  <2>3. y.type \in {"integer", "unsigned"} /\ y.v = x.v /\ Flat(y) = y
    BY <1>2 DEF Sent, Leaf, Flat
  <2>. HIDE DEF y
  <2>4. Cast(y, "integer") = {Leaf("integer", n) : n \in {Wrap(y.v)}}
    BY <2>3 DEF Cast, ToInt, Scalars, Numbers
  <2>. QED
    BY <1>2, <2>1, <2>2, <2>3, <2>4 DEF y
<1>3. CASE x.type = "unsigned"
  <2>1. x.v \in Unsigned /\ x = Leaf("unsigned", x.v) /\ Flat(x) = x /\ Sent(x) = x
    BY <1>3 DEF Leaves, Leaf, Flat, Sent
  <2>2. Modulo(x.v) = x.v
    BY <1>1, <2>1, Wraps
  <2>3. Cast(x, "unsigned") = {Leaf("unsigned", n) : n \in {Modulo(x.v)}}
    BY <1>3 DEF Cast, ToInt, Scalars, Numbers
  <2>. QED
    BY <1>3, <2>1, <2>2, <2>3
<1>4. CASE x.type = "float"
  <2>1. x = Leaf("float", x.v) /\ Flat(x) = x /\ Sent(x) = x /\ Half(x) = x.v
    BY <1>4 DEF Leaves, Leaf, Flat, Sent, Half
  <2>2. Cast(x, "float") = {Leaf("float", Half(x))}
    BY <1>4 DEF Cast, Scalars, Numbers
  <2>. QED
    BY <1>4, <2>1, <2>2
<1>5. CASE x.type \in {"boolean", "string", "null"}
  <2>1. Sent(x) = x /\ Flat(x).type = x.type
    BY <1>5, FlatLeaf DEF Sent
  <2>2. Cast(Flat(x), x.type) = {Flat(x)}
    BY <1>5, <2>1 DEF Cast, Scalars, Numbers
  <2>. QED
    BY <2>1, <2>2
<1>. QED
  BY <1>1, <1>2, <1>3, <1>4, <1>5 DEF Numbers

(* So a document that comes back is accepted and gives the same scalars.     *)
LEMMA DocumentReturns ==
  ASSUME NEW d, Document(d)
  PROVE  LET back == Updated(Wire(d), get_types(d))
         IN  back # {} /\ \A e \in back, p \in DOMAIN d : e[p].type \in Scalars => e[p] = d[p]
<1>. DEFINE W == Wire(d)
            T == get_types(d)
            Cases(p) == IF p \in DOMAIN T THEN Cast(Flat(W[p]), T[p]) ELSE {Flat(W[p])}
            E == [p \in DOMAIN d |-> Flat(d[p])]
<1>1. DOMAIN W = DOMAIN d /\ \A p \in DOMAIN d : W[p] = Sent(d[p])
  BY DEF Wire, Sent
<1>2. DOMAIN T = DOMAIN d /\ \A p \in DOMAIN d : T[p] = d[p].type
  BY DEF get_types
<1>3. \A p \in DOMAIN d : d[p] \in Leaves
  BY DEF Document
<1>4. CASE get_types(W) = T
  <2>1. Updated(W, T) = {W}
    BY <1>4 DEF Updated
  <2>2. ASSUME NEW p \in DOMAIN d PROVE W[p] = d[p]
    <3>1. W[p].type = d[p].type
      <4>1. \A V : (\A q \in DOMAIN V : get_types(V)[q] = V[q].type)
        BY DEF get_types
      <4>. QED
        BY <1>1, <1>2, <1>4, <4>1
    <3>. QED
      BY <1>1, <3>1 DEF Sent, Leaf
  <2>. QED
    BY <2>1, <2>2
<1>5. CASE get_types(W) # T
  <2>. HIDE DEF W, T
  <2>1. Updated(W, T) = {e \in apply_types(W, T) : get_types(e) = T}
    BY <1>5 DEF Updated
  <2>2. apply_types(W, T) = {e \in [DOMAIN W -> UNION {Cases(p) : p \in DOMAIN W}] :
                               \A p \in DOMAIN W : e[p] \in Cases(p)}
    BY <1>1, <1>2 DEF apply_types
  <2>3. ASSUME NEW p \in DOMAIN d PROVE Cases(p) = {Flat(d[p])}
    BY <1>1, <1>2, <1>3, LeafReturns
  <2>. HIDE DEF Cases
  <2>4. E \in apply_types(W, T)
    <3>1. \A p \in DOMAIN W : E[p] \in Cases(p)
      BY <1>1, <2>3
    <3>2. E \in [DOMAIN W -> UNION {Cases(p) : p \in DOMAIN W}]
      BY <1>1, <3>1
    <3>. HIDE DEF E
    <3>. QED
      BY <2>2, <3>1, <3>2
  <2>5. get_types(E) = T
    <3>1. \A p \in DOMAIN d : E[p].type = T[p]
      BY <1>2, <1>3, FlatLeaf
    <3>2. DOMAIN E = DOMAIN d
      OBVIOUS
    <3>. HIDE DEF E
    <3>3. get_types(E) = [p \in DOMAIN d |-> T[p]]
      BY <3>1, <3>2 DEF get_types
    <3>4. T = [p \in DOMAIN d |-> T[p]]
      BY <1>2 DEF T, get_types
    <3>. QED
      BY <3>3, <3>4
  <2>6. E \in Updated(W, T)
    BY <2>1, <2>4, <2>5
  <2>7. ASSUME NEW e \in Updated(W, T), NEW p \in DOMAIN d, e[p].type \in Scalars PROVE e[p] = d[p]
    <3>1. e[p] = Flat(d[p])
      BY <1>1, <2>1, <2>2, <2>3, <2>7
    <3>. QED
      BY <1>3, <2>7, <3>1, FlatLeaf DEF Scalars, Numbers
  <2>. HIDE DEF E
  <2>. QED
    BY <2>6, <2>7 DEF W, T
<1>. QED
  BY <1>4, <1>5

(* What a client reads through config_get it can write back with config_set, *)
(* whatever safe and unsafe Sets, failures and writes through matrices came  *)
(* before: no number was stored that its type does not hold.                 *)
THEOREM ReadsWriteBack == Spec => []RoundTrip
<1>1. AgreeInv /\ TypeOK => RoundTrip
  <2>. SUFFICES ASSUME AgreeInv, TypeOK, "Ref" \notin used, NEW k \in {k \in Keys : Has(storage, k)}
                PROVE  LET d == At(storage, k)
                           back == Updated(Wire(d), At(types, k))
                       IN  back # {} /\ \A e \in back, p \in DOMAIN d : e[p].type \in Scalars => e[p] = d[p]
    BY DEF RoundTrip
  <2>1. k \in Seq(Names)
    BY ConfigAssumption DEF ConfigAssumption
  <2>2. types = get_types(storage) /\ Document(storage)
    BY DEF AgreeInv, TypesAgree, TypeOK
  <2>3. Document(At(storage, k)) /\ At(types, k) = get_types(At(storage, k))
    BY <2>1, <2>2, AtDocument
  <2>. QED
    BY <2>3, DocumentReturns
<1>. QED
  BY <1>1, AgreeInvHolds, TypeCorrect, PTL
-----------------------------------------------------------------------------
(* Cutting h halves toward zero gives the one integer of their sign that is  *)
(* nearest below them in magnitude.                                          *)
LEMMA Cuts ==
  ASSUME NEW n \in Int, NEW h \in Int, n * h >= 0, 2 * Abs(n) <= Abs(h), Abs(h) < 2 * Abs(n) + 2
  PROVE  Trunc(h) = n /\ \A m \in Int : h = 2 * m => m = n
<1>1. CASE h >= 0
  <2>1. n >= 0
    <3>1. n < 0 /\ h > 0 => n * h < 0
      OBVIOUS
    <3>2. h = 0 => n = 0
      BY DEF Abs
    <3>. QED
      BY <1>1, <3>1, <3>2
  <2>2. 2 * n <= h /\ h < 2 * n + 2
    BY <1>1, <2>1 DEF Abs
  <2>. QED
    BY <1>1, <2>2 DEF Trunc
<1>2. CASE h < 0
  <2>1. n <= 0
    <3>1. n > 0 => n * h < 0
      BY <1>2
    <3>. QED
      BY <3>1
  <2>2. 2 * (-n) <= -h /\ -h < 2 * (-n) + 2
    BY <1>2, <2>1 DEF Abs
  <2>3. (-h) \div 2 = -n
    BY <2>2
  <2>. QED
    BY <1>2, <2>2, <2>3 DEF Trunc
<1>. QED
  BY <1>1, <1>2

(* Every leaf of what a safe Set stores for v is that of v or a cast of it.  *)
LEMMA UpdatedLeaves ==
  ASSUME NEW v, NEW old, NEW d \in Updated(v, old), NEW p \in DOMAIN v
  PROVE  /\ DOMAIN d = DOMAIN v /\ p \in DOMAIN old /\ d[p].type = old[p]
         /\ d[p] = v[p] \/ d[p] \in Cast(Flat(v[p]), old[p])
<1>1. get_types(d) = old
  BY UpdatedTypes
<1>2. d = v \/ d \in apply_types(v, old)
  BY DEF Updated
<1>3. DOMAIN d = DOMAIN v
  BY <1>2 DEF apply_types
<1>4. p \in DOMAIN old /\ d[p].type = old[p]
  BY <1>1, <1>3 DEF get_types
<1>. DEFINE Cases(q) == IF q \in DOMAIN old THEN Cast(Flat(v[q]), old[q]) ELSE {Flat(v[q])}
<1>5. d \in apply_types(v, old) => d[p] \in Cases(p)
  BY DEF apply_types
<1>. QED
  BY <1>2, <1>3, <1>4, <1>5

(* A safe Set of any number where an integer is kept cuts it toward zero,    *)
(* whatever the width of integers; never rounds, wraps or refuses it.        *)
THEOREM NumbersCut == Spec => CutToZero
<1>. DEFINE A == out' = "ok" /\ types' = types => \A k \in Keys, v \in Values : Set(k, v) =>
       \A p \in DOMAIN v, n \in Ints :
         LET h == Half(v[p]) IN
           /\ v[p].type \in Numbers /\ storage'[k \o p].type = "integer"
           /\ n * h >= 0 /\ 2 * Abs(n) <= Abs(h) /\ Abs(h) < 2 * Abs(n) + 2
           => storage'[k \o p].v = n
<1>1. AgreeInv => A
  <2>. SUFFICES ASSUME AgreeInv, out' = "ok", NEW k \in Keys, NEW v \in Values, Set(k, v),
                       NEW p \in DOMAIN v, NEW n \in Ints,
                       v[p].type \in Numbers, storage'[k \o p].type = "integer",
                       n * Half(v[p]) >= 0, 2 * Abs(n) <= Abs(Half(v[p])), Abs(Half(v[p])) < 2 * Abs(n) + 2
                PROVE  storage'[k \o p].v = n
    OBVIOUS
  <2>1. k \in Seq(Names) /\ Document(v)
    BY ConfigAssumption DEF ConfigAssumption
  <2>2. PICK d \in Updated(v, At(types, k)) : Store(k, d, types, {})
    BY DEF Set, Throw
  <2>3. storage' = Put(storage, k, d)
    BY <2>2 DEF Store, Throw
  <2>4. /\ DOMAIN d = DOMAIN v /\ d[p].type = At(types, k)[p]
        /\ d[p] = v[p] \/ d[p] \in Cast(Flat(v[p]), At(types, k)[p])
    BY <2>2, UpdatedLeaves
  <2>5. storage'[k \o p] = d[p]
    <3>1. DOMAIN d \subseteq Seq(Names) /\ DOMAIN storage \subseteq Seq(Names)
      BY <2>1, <2>4 DEF Document, AgreeInv
    <3>. QED
      BY <2>1, <2>3, <2>4, <3>1, PutLeaves
  <2>6. v[p] \in Leaves /\ v[p].v \in Int /\ n \in Int
    BY <2>1, IntegerRange DEF Document
  <2>7. Half(v[p]) \in Int
    BY <2>6 DEF Half
  <2>8. Trunc(Half(v[p])) = n /\ \A m \in Int : Half(v[p]) = 2 * m => m = n
    BY <2>6, <2>7, Cuts
  <2>9. v[p].type # "float" => v[p].v = n
    BY <2>6, <2>8 DEF Half
  <2>10. CASE d[p] = v[p]
    BY <2>5, <2>9, <2>10
  <2>11. CASE d[p] \in Cast(Flat(v[p]), "integer")
    <3>1. Flat(v[p]) = v[p]
      BY <2>6, FlatLeaf DEF Numbers
    <3>2. PICK i \in ToInt(v[p], Ints, Wrap(v[p].v)) : d[p] = Leaf("integer", i)
      BY <2>11, <3>1 DEF Cast, Scalars, Numbers
    <3>3. i = n
      <4>1. CASE v[p].type = "float"
        <5>1. Half(v[p]) = v[p].v
          BY <4>1 DEF Half
        <5>. QED
          BY <2>8, <3>2, <4>1, <5>1 DEF ToInt
      <4>2. CASE v[p].type # "float"
        <5>1. i = Wrap(n)
          BY <2>9, <3>2, <4>2 DEF ToInt
        <5>. QED
          BY <2>6, <5>1, Wraps
      <4>. QED
        BY <4>1, <4>2
    <3>. QED
      BY <2>5, <3>2, <3>3 DEF Leaf
  <2>. QED
    BY <2>4, <2>5, <2>10, <2>11
<1>. QED
  BY <1>1, AgreeInvHolds, PTL DEF Spec, CutToZero
=============================================================================
