---------------------------- MODULE ConfigLocal -----------------------------
(* config::ConfigLocal of include/ConfigLocal.h: a storage tree and a tree   *)
(* of its types, with the functions of include/JsonEigen.h they go through.  *)
(* A document is what json::flatten() makes of it: a map from the path of    *)
(* each leaf to the leaf, and a tree of types a map from paths to types.  A  *)
(* float is counted in halves.  null, [] and {} are leaves of type null.     *)
EXTENDS Integers, Sequences, SequencesExt

CONSTANTS Keys,       \* the json pointers that callers use, as paths
          Values,     \* the documents they set
          Files,      \* the files they load, and Format[f], by the extension of f
          Format,
          Contents,   \* what a file may hold when it is read
          Index,      \* the path components that are array indices
          Names,      \* all path components
          Literals,   \* the strings, named by integers, that read as JSON integers
          NonUtf8,    \* the strings, named likewise, that are no UTF-8
          MaxInt,     \* the largest integer, 2^63 - 1
          Api         \* the member functions that callers use

Unreadable == <<>>   \* no document: the file is missing or does not parse

Ints == -MaxInt - 1 .. MaxInt
Unsigned == 0 .. 2 * MaxInt + 1
Leaves == [type : {"integer"}, v : Ints] \cup [type : {"unsigned"}, v : Unsigned]
          \cup [type : {"float", "boolean", "string", "null"}, v : Int]
Document(d) == DOMAIN d \subseteq Seq(Names) /\ \A p \in DOMAIN d : d[p] \in Leaves

ASSUME ConfigAssumption ==
  /\ Keys \subseteq Seq(Names) /\ Index \subseteq Names
  /\ MaxInt \in Nat /\ Literals \subseteq Unsigned /\ NonUtf8 \subseteq Int
  /\ Files # {} /\ "" \notin Files /\ Format \in [Files -> {"json", "yaml", "other"}]
  /\ Api \subseteq {"Load", "Set", "Unsafe", "Ref", "Map"}
  /\ \A d \in Values \cup Contents : Document(d)

VARIABLES storage, types,  \* m_storage, m_types
          path,            \* m_config_path
          out,             \* how the last call ended
          used             \* the calls since the last Load that check no types

vars == <<storage, types, path, out, used>>

Numbers == {"integer", "unsigned", "float"}
Scalars == {"boolean"} \cup Numbers
Leaf(t, v) == [type |-> t, v |-> v]
Null == Leaf("null", 0)
EmptyArray == Leaf("null", 1)
EmptyObject == Leaf("null", 2)
-----------------------------------------------------------------------------
(* json::at, its test, and an assignment to its result. *)
Has(d, k) == \E p \in DOMAIN d : IsPrefix(k, p)
Rest(k, p) == SubSeq(p, Len(k) + 1, Len(p))
At(d, k) == [p \in {Rest(k, q) : q \in {q \in DOMAIN d : IsPrefix(k, q)}} |-> d[k \o p]]
Put(d, k, v) ==
  [p \in {q \in DOMAIN d : ~IsPrefix(k, q)} \cup {k \o q : q \in DOMAIN v} |->
     IF IsPrefix(k, p) THEN v[Rest(k, p)] ELSE d[p]]

Arrays(d) == {Front(p) : p \in {p \in DOMAIN d : p # <<>> /\ Last(p) \in Index}}
Elements(d, k) == {p \in DOMAIN d : p # k /\ IsPrefix(k, p)}
AllOf(d, k, S) == \A p \in Elements(d, k) : Front(p) = k /\ d[p].type \in S

get_types(d) == [p \in DOMAIN d |-> d[p].type]

(* Mutants: rounds down; integers that grow. *)
TruncDown(h) == h \div 2
WrapWide(n) == n

(* C++ conversions; one of a float that is out of range is undefined. *)
Modulo(n) == n % (2 * MaxInt + 2)
Wrap(n) == Modulo(n + MaxInt + 1) - MaxInt - 1
Half(x) == IF x.type = "float" THEN x.v ELSE 2 * x.v
Trunc(h) == IF h >= 0 THEN h \div 2 ELSE -((-h) \div 2)
ToInt(x, S, wrapped) ==
  IF x.type # "float" THEN {wrapped} ELSE IF Trunc(x.v) \in S THEN {Trunc(x.v)} ELSE S

(* Mutant: a number that arrives unsigned does not become a signed one. *)
CastSigned(x, t) ==
  CASE t \in Numbers /\ x.type = t -> {x}
    [] t = "float" /\ x.type \in Numbers -> {Leaf(t, Half(x))}
    [] t = "integer" /\ x.type = "float" -> {Leaf(t, n) : n \in ToInt(x, Ints, 0)}
    [] t = "boolean" /\ x.type = "boolean" -> {x}
    [] t \notin Scalars -> {x}
    [] OTHER -> {}

(* One case of apply_types: the values a leaf may get, none for an exception. *)
Cast(x, t) ==
  CASE t = "integer" /\ x.type \in Numbers -> {Leaf(t, n) : n \in ToInt(x, Ints, Wrap(x.v))}
    [] t = "unsigned" /\ x.type \in Numbers -> {Leaf(t, n) : n \in ToInt(x, Unsigned, Modulo(x.v))}
    [] t = "float" /\ x.type \in Numbers -> {Leaf(t, Half(x))}
    [] t = "boolean" /\ x.type = "boolean" -> {x}
    [] t \notin Scalars -> {x}
    [] OTHER -> {}

(* A scalar that is missing throws as well; flatten() makes null of {}, []. *)
Flat(x) == IF x.type = "null" THEN Null ELSE x
apply_types(v, old) ==
  IF \E p \in DOMAIN old \ DOMAIN v : old[p] \in Scalars THEN {}
  ELSE LET Cases(p) == IF p \in DOMAIN old THEN Cast(Flat(v[p]), old[p]) ELSE {Flat(v[p])}
       IN  {d \in [DOMAIN v -> UNION {Cases(p) : p \in DOMAIN v}] :
              \A p \in DOMAIN v : d[p] \in Cases(p)}

(* A YAML scalar becomes what JSON reads in it, empty collections null. *)
yaml_to_json(d) ==
  [p \in DOMAIN d |->
     IF d[p].type = "string" /\ d[p].v \in Literals THEN Leaf("unsigned", d[p].v) ELSE Flat(d[p])]

fix_unsigned(d) ==
  [p \in DOMAIN d |->
     IF d[p].type = "unsigned" THEN Leaf("integer", Wrap(d[p].v)) ELSE d[p]]

fix_arrays(d) ==
  LET Common(k) == IF AllOf(d, k, {"integer", "unsigned"}) THEN "integer" ELSE "float"
  IN  [p \in DOMAIN d |->
         IF \E k \in Arrays(d) : p \in Elements(d, k) /\ AllOf(d, k, Numbers)
         THEN CHOOSE x \in Cast(d[p], Common(Front(p))) : TRUE ELSE d[p]]

(* Mutant: only arrays of numbers are checked. *)
check_numbers(d) ==
  \A k \in Arrays(d) :
    AllOf(d, k, Numbers) => \A p, q \in Elements(d, k) : d[p].type = d[q].type

check_numerical_homogenous_arrays(d) ==
  \A k \in Arrays(d) :
    AllOf(d, k, Scalars) => \A p, q \in Elements(d, k) : d[p].type = d[q].type

(* MapMatrixXT views an array as a vector of type t, on the word of its first element. *)
check_array(d, k, t) ==
  \E p \in Elements(d, k) : Front(p) = k /\ Last(p) = "0" /\ d[p].type \in Scalars /\ d[p].type = t

Parsed(f, c) ==
  fix_arrays(fix_unsigned(IF Format[f] = "yaml" THEN yaml_to_json(c) ELSE c))

(* json::dump throws on a string that is no UTF-8, and so does json::parse;  *)
(* YAML::LoadFile takes it.                                                  *)
Dumps(d) == \A p \in DOMAIN d : d[p].type = "string" => d[p].v \notin NonUtf8
Readable(f, c) == Format[f] # "other" /\ c # Unreadable /\ (Format[f] = "json" => Dumps(c))
Accepts(f, c) ==
  /\ Readable(f, c)
  /\ check_numerical_homogenous_arrays(Parsed(f, c))
-----------------------------------------------------------------------------
(* The constructor: a Load that did not throw. *)
Init ==
  /\ \E f \in Files, c \in Contents :
       /\ Accepts(f, c) /\ Dumps(Parsed(f, c))
       /\ path = f /\ storage = Parsed(f, c) /\ types = get_types(storage)
  /\ out = "ok" /\ used = {}

Throw == out' = "threw" /\ UNCHANGED <<storage, types, used>>
Running(call) == call \in Api /\ out # "crashed"

(* The path is stored first, whatever comes of it; last, what is now stored  *)
(* is dumped for a debug message, at any log level.                          *)
LoadFile(c) ==
  \/ /\ Accepts(path', c) /\ used' = {}
     /\ out' = IF Dumps(Parsed(path', c)) THEN "ok" ELSE "threw"
     /\ storage' = Parsed(path', c) /\ types' = get_types(storage')
  \/ ~Accepts(path', c) /\ Throw
  \/ /\ Readable(path', c) /\ EmptyArray \in Range(Parsed(path', c))  \* its j[0] is read
     /\ out' = "crashed" /\ UNCHANGED <<storage, types, used>>
Load(f, c) == Running("Load") /\ path' = f /\ LoadFile(c)
Reload(c) == Running("Load") /\ path' = path /\ LoadFile(c)

(* Mutant: the types first. *)
StoreTypesFirst(k, v, newTypes, call) ==
  /\ types' = newTypes /\ used' = used \cup call
  /\ IF Has(storage, k) THEN storage' = Put(storage, k, v) /\ out' = "ok"
     ELSE out' = "threw" /\ UNCHANGED storage

Store(k, v, newTypes, call) ==
  IF Has(storage, k)
  THEN storage' = Put(storage, k, v) /\ types' = newTypes /\ out' = "ok" /\ used' = used \cup call
  ELSE Throw

UnsafeSet(k, v) ==
  /\ Running("Unsafe") /\ UNCHANGED path
  /\ IF Has(types, k) THEN Store(k, v, Put(types, k, get_types(v)), {"Unsafe"}) ELSE Throw

(* Mutant: stores the value it was given, cast or not. *)
UpdatedRaw(v, old) ==
  IF get_types(v) = old \/ \E d \in apply_types(v, old) : get_types(d) = old THEN {v} ELSE {}

(* What a safe Set of v under types old stores; nothing when it throws. *)
Updated(v, old) ==
  IF get_types(v) = old THEN {v} ELSE {d \in apply_types(v, old) : get_types(d) = old}

Set(k, v) ==
  /\ Running("Set") /\ UNCHANGED path
  /\ \/ Has(types, k) /\ \E d \in Updated(v, At(types, k)) : Store(k, d, types, {})
     \/ (Has(types, k) => Updated(v, At(types, k)) = {}) /\ Throw

(* An assignment through the reference that operator[] or Get returned. *)
Assign(k, v) == Running("Ref") /\ UNCHANGED path /\ Store(k, v, types, {"Ref"})

(* What an element of type t becomes when its word is written; the word of a *)
(* scalar is its value, that of anything else a pointer or unused.           *)
Words(t) == CASE t = "unsigned" -> Unsigned [] t = "boolean" -> {0, 1} [] OTHER -> Ints

(* An assignment through a matrix that MapMatrixXT made of an array, bound:  *)
(* of integers, or so its first element says.                                *)
MapWrite(k, p) ==
  /\ Running("Map") /\ check_array(storage, k, "integer") /\ p \in Elements(storage, k)
  /\ IF Front(p) = k /\ storage[p].type \in Scalars
     THEN /\ \E n \in Words(storage[p].type) :
                storage' = [storage EXCEPT ![p] = Leaf(storage[p].type, n)]
          /\ out' = "ok"
     ELSE out' \in {"ok", "crashed"} /\ UNCHANGED storage
  /\ UNCHANGED <<types, path, used>>

Next ==
  \/ \E c \in Contents : Reload(c) \/ \E f \in Files : Load(f, c)
  \/ \E k \in Keys, v \in Values : UnsafeSet(k, v) \/ Set(k, v) \/ Assign(k, v)
  \/ \E k \in Keys : \E p \in DOMAIN storage : MapWrite(k, p)

Spec == Init /\ [][Next]_vars
-----------------------------------------------------------------------------
TypeOK ==
  /\ Document(storage) /\ DOMAIN types \subseteq Seq(Names)
  /\ path \in Files /\ out \in {"ok", "threw", "crashed"} /\ used \subseteq {"Unsafe", "Ref"}

(* Unless a reference was assigned to, the two trees have the same leaves,   *)
(* and types holds the type of each: Set updates them apart, and get_types() *)
(* is never run on the storage again.                                        *)
TypesAgree == "Ref" \notin used => types = get_types(storage)

(* Where MapMatrixXT accepts an array of numbers and booleans by its first   *)
(* element, the others have its type too, so that the view reads no element  *)
(* as another type: what Load fixed and checked, later safe Sets must keep.  *)
Homogeneous == used = {} =>
  \A k \in Arrays(storage), t \in Scalars :
    AllOf(storage, k, Scalars) /\ check_array(storage, k, t) => AllOf(storage, k, {t})

(* What check_array says it has checked: "input json object must be all      *)
(* numbers or all booleans array" (JsonEigen.h:83).                          *)
MapChecked ==
  \A k \in Arrays(storage), t \in Scalars :
    check_array(storage, k, t) => AllOf(storage, k, Numbers) \/ AllOf(storage, k, {"boolean"})

(* What a client reads it can write back: the value as msgpack decodes it is *)
(* accepted for every path, and puts back the same numbers, unless a         *)
(* reference was assigned to.                                                *)
Wire(d) ==   \* msgpack has no type for a number that is signed but not negative
  [p \in DOMAIN d |-> IF d[p].type = "integer" /\ d[p].v >= 0
                      THEN Leaf("unsigned", d[p].v) ELSE d[p]]
RoundTrip == "Ref" \notin used =>
  \A k \in {k \in Keys : Has(storage, k)} :
    LET d == At(storage, k)
        back == Updated(Wire(d), At(types, k))
    IN  back # {} /\ \A e \in back, p \in DOMAIN d : e[p].type \in Scalars => e[p] = d[p]

(* A call that throws has changed nothing, even after assignments through a  *)
(* reference made the paths of the two trees differ; or it is a Load that    *)
(* fails at its very end, with both trees replaced, fixed and checked.  It   *)
(* never leaves one tree of the old document beside one of the new.          *)
NeverHalf ==
  [][out' = "threw" =>
       \/ UNCHANGED <<storage, types>>
       \/ /\ types' = get_types(storage') /\ used' = {}
          /\ check_numerical_homogenous_arrays(storage')]_vars

(* A safe Set that succeeds leaves the types alone and what it stored has    *)
(* them, whatever was assigned through references before.                    *)
SetKeepsTypes ==
  [][out' = "ok" => \A k \in Keys, v \in Values :
       Set(k, v) => types' = types /\ get_types(At(storage', k)) = At(types, k)]_vars

(* A number set where an integer is kept is cut toward zero, not rounded     *)
(* down, wherever the integer type holds the result                          *)
(* (test_config_server_unit.py:29, 51: 30.5 gives 30, -1.5 gives -1).        *)
Abs(n) == IF n < 0 THEN -n ELSE n
CutToZero ==
  [][out' = "ok" /\ types' = types => \A k \in Keys, v \in Values : Set(k, v) =>
       \A p \in DOMAIN v, n \in Ints :
         LET h == Half(v[p]) IN
           /\ v[p].type \in Numbers /\ storage'[k \o p].type = "integer"
           /\ n * h >= 0 /\ 2 * Abs(n) <= Abs(h) /\ Abs(h) < 2 * Abs(n) + 2
           => storage'[k \o p].v = n]_vars
=============================================================================
