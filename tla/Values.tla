------------------------------- MODULE Values -------------------------------
(***************************************************************************)
(* The values on their way from a call of bind, run, get, all or each to   *)
(* the parameters of the SQL statement, and from a row of its result to    *)
(* JavaScript: Statement::Bind, BindParameter, GetRow, RowToJS and         *)
(* Statement.prototype.map.  The statement selects its parameters, one     *)
(* column each, so that a row shows what was bound.                        *)
(*                                                                         *)
(* A content (a text, a blob, a fraction) is what tells apart the values   *)
(* that share a type; of numbers the integers are kept, for their widths.  *)
(***************************************************************************)
EXTENDS Integers, Sequences, SequencesExt, FiniteSets

CONSTANTS
  Parameters,  \* the parameters of the statement: the name of each, or ""
  Calls,       \* the calls that are made
  Columns,     \* the names that the columns of the result may have
  IntHalf,     \* half the number of ints, 2^31
  ShortSize,   \* the number of unsigned shorts, 2^16
  MaxCalls     \* bound on the calls

JsTypes ==
  { "string", "regexp", "number", "fraction", "nan", "true", "false", "null", "buffer",
    "date", "object", "undefined", "bigint" }

\* A key of an object, or the name of a column: its text, and the number that
\* JavaScript makes of it unless that is NaN.  Of a number the text is the usual
\* one: "01" and "" are left out.
Key == [name : STRING, numeric : BOOLEAN, n : Int]

\* A call: its parameters one by one, as an array, as an object, or none.  The
\* keys of an object come in the order of its properties.
JsValue == [type : JsTypes, n : Int]
Entry == [key : Key, value : JsValue]

IsIndex(key) == key.numeric /\ key.n >= 0

\* Where key k was added first, and last.
Added(keys, k) == SelectInSeq(keys, LAMBDA key : key = k)
LastAdded(keys, k) == SelectLastInSeq(keys, LAMBDA key : key = k)

\* The order of the properties of an object: array indices first, by number,
\* then names, as they were added.
ComesBefore(keys, a, b) ==
  \/ IsIndex(a) /\ ~IsIndex(b)
  \/ IsIndex(a) /\ IsIndex(b) /\ a.n < b.n
  \/ ~IsIndex(a) /\ ~IsIndex(b) /\ Added(keys, a) < Added(keys, b)

PropertyOrder(keys) ==
  CHOOSE order \in [1..Cardinality(ToSet(keys)) -> ToSet(keys)] :
    \A i, j \in DOMAIN order : i < j => ComesBefore(keys, order[i], order[j])

KeysOf(entries) == [i \in DOMAIN entries |-> entries[i].key]

Shapes == {"none", "list", "array", "object"}

ASSUME ValueAssumption ==
  /\ \A c \in Calls :
       /\ c.shape \in Shapes
       /\ c.entries \in Seq(Entry)
       /\ c.shape = "none" => c.entries = <<>>
       /\ c.shape = "list" => c.entries # <<>> /\ c.entries[1].value.type # "object"
       /\ c.shape = "object" => KeysOf(c.entries) = PropertyOrder(KeysOf(c.entries))
  /\ {IntHalf, ShortSize} \subseteq Nat \ {0} /\ ShortSize <= IntHalf
  /\ MaxCalls \in Nat

\* SQLite numbers the parameters of the same name once.
ASSUME ParameterAssumption ==
  /\ Parameters \in Seq(STRING)
  /\ \A p, q \in DOMAIN Parameters : Parameters[p] = Parameters[q] /\ p # q => Parameters[p] = ""

VARIABLES
  call,      \* the last call
  fields,    \* Baton::parameters, those still to be bound
  bindings,  \* the values of the statement's parameters
  status,    \* of the call
  names,     \* the names of the columns, which show the first parameters
  row,       \* the object that RowToJS made
  calls      \* history: counts the calls

vars == <<call, fields, bindings, status, names, row, calls>>

-----------------------------------------------------------------------------
\* Conversions.

Int32(n) == ((n + IntHalf) % (2 * IntHalf)) - IntHalf
UnsignedShort(n) == n % ShortSize

\* Mutant: every integer is taken for an int.
OtherIsIntAlways(n) == TRUE

OtherIsInt(n) == n = Int32(n)

Sql(type, content, n) == [type |-> type, content |-> content, n |-> n]
SqlNull == Sql("NULL", "", 0)

\* BindParameter, without the position.  None is the null pointer.
None == Sql("none", "", 0)

Field(v) ==
  CASE v.type \in {"string", "regexp", "object"} -> Sql("TEXT", v.type, 0)
    [] v.type = "number" -> IF OtherIsInt(v.n) THEN Sql("INTEGER", "number", Int32(v.n))
                            ELSE Sql("FLOAT", "number", v.n)
    [] v.type \in {"fraction", "nan"} -> Sql("FLOAT", v.type, 0)
    [] v.type \in {"true", "false"} ->
         Sql("INTEGER", "number", IF v.type = "true" THEN 1 ELSE 0)
    [] v.type = "null" -> SqlNull
    [] v.type = "buffer" -> Sql("BLOB", "buffer", 0)
    [] v.type = "date" -> Sql("FLOAT", "date", 0)
    [] OTHER -> None

\* sqlite3_bind_*: NaN becomes NULL.
Stored(field) == IF field.content = "nan" THEN SqlNull ELSE field

\* GetRow and the switch of RowToJS.
ToJs(stored) ==
  CASE stored.type \in {"INTEGER", "FLOAT"} ->
         [type |-> IF stored.content = "fraction" THEN "fraction" ELSE "number",
          content |-> stored.content, n |-> stored.n]
    [] stored.type = "TEXT" -> [type |-> "string", content |-> stored.content, n |-> 0]
    [] stored.type = "BLOB" -> [type |-> "buffer", content |-> stored.content, n |-> 0]
    [] stored.type = "NULL" -> [type |-> "null", content |-> "", n |-> 0]

-----------------------------------------------------------------------------
\* Statement::Bind<T>: the fields with the position or the name they are for.

At(index, name, v) == [index |-> UnsignedShort(index), name |-> name, field |-> Field(v)]

\* Mutant: the keys of an object are always names.
ByKeyNamed(key, v) == At(0, key.name, v)

ByKey(key, v) ==
  IF key.numeric /\ OtherIsInt(key.n) THEN At(key.n, "", v) ELSE At(0, key.name, v)

FieldsOf(c) ==
  [i \in DOMAIN c.entries |->
     IF c.shape = "object" THEN ByKey(c.entries[i].key, c.entries[i].value)
     ELSE At(i, "", c.entries[i].value)]

\* sqlite3_bind_parameter_index: 0 for a name that the statement does not have.
ParameterIndex(name) ==
  IF name = "" THEN 0 ELSE SelectInSeq(Parameters, LAMBDA p : p = name)

Position(f) == IF f.index > 0 THEN f.index ELSE ParameterIndex(f.name)

-----------------------------------------------------------------------------
NoBindings == [p \in DOMAIN Parameters |-> SqlNull]

Init ==
  /\ call = [shape |-> "none", entries |-> <<>>]
  /\ fields = <<>>
  /\ bindings = NoBindings
  /\ status = "idle"
  /\ names = <<>> /\ row = <<>>
  /\ calls = 0

\* Mutant: the bindings of the call before are not cleared.
ClearedNot == bindings

\* sqlite3_clear_bindings
Cleared == NoBindings

\* Statement::Bind(parameters), which without parameters does nothing.
Call(c) ==
  /\ status # "binding" /\ calls < MaxCalls
  /\ call' = c
  /\ fields' = FieldsOf(c)
  /\ bindings' = IF FieldsOf(c) = <<>> THEN bindings ELSE Cleared
  /\ status' = "binding"
  /\ calls' = calls + 1
  /\ names' = <<>> /\ row' = <<>>

\* One round of its loop.  A parameter that does not exist ends it.
BindField ==
  /\ status = "binding" /\ fields # <<>>
  /\ LET f == Head(fields)
         pos == Position(f)
     IN  \/ /\ f.field = None
            /\ fields' = Tail(fields)
            /\ UNCHANGED <<bindings, status>>
         \/ /\ f.field # None /\ pos \in DOMAIN Parameters
            /\ bindings' = [bindings EXCEPT ![pos] = Stored(f.field)]
            /\ fields' = Tail(fields)
            /\ UNCHANGED status
         \/ /\ f.field # None /\ pos \notin DOMAIN Parameters
            /\ status' = "range"
            /\ fields' = <<>>
            /\ UNCHANGED bindings
  /\ UNCHANGED <<call, names, row, calls>>

Bound ==
  /\ status = "binding" /\ fields = <<>>
  /\ status' = "ok"
  /\ UNCHANGED <<call, fields, bindings, names, row, calls>>

\* Mutant: the object is built from the last column to the first.
SetBackwards(ns, bound) ==
  LET order == PropertyOrder(Reverse(ns))
  IN  [i \in DOMAIN order |->
         [key |-> order[i], value |-> ToJs(bound[Added(ns, order[i])])]]

\* RowToJS: a property for each name, with the value of its last column.
SetProperties(ns, bound) ==
  LET order == PropertyOrder(ns)
  IN  [i \in DOMAIN order |->
         [key |-> order[i], value |-> ToJs(bound[LastAdded(ns, order[i])])]]

Read(ns) ==
  /\ status = "ok"
  /\ names' = ns
  /\ row' = SetProperties(ns, bindings)
  /\ status' = "row"
  /\ UNCHANGED <<call, fields, bindings, calls>>

Next ==
  \/ \E c \in Calls : Call(c)
  \/ BindField \/ Bound
  \/ \E n \in DOMAIN Parameters : \E ns \in [1..n -> Columns] : Read(ns)

Spec == Init /\ [][Next]_vars

-----------------------------------------------------------------------------
\* Statement.prototype.map, for one row.

Undefined == [type |-> "undefined", content |-> "", n |-> 0]

\* Mutant: two columns make a row too.
MappedValueRow(r) == r

MappedKey(r) == r[1].value
MappedValue(r) == IF Len(r) > 2 THEN r ELSE IF Len(r) = 2 THEN r[2].value ELSE Undefined

-----------------------------------------------------------------------------
\* Properties.

\* What a call asks for: the parameter each value is for, 0 for none, and what
\* a row should show of it.  An empty name is no parameter's.
Addressed(c, i) ==
  LET key == c.entries[i].key
  IN  IF c.shape # "object" THEN i
      ELSE IF key.numeric THEN key.n
      ELSE IF key.name # "" /\ \E p \in DOMAIN Parameters : Parameters[p] = key.name
        THEN CHOOSE p \in DOMAIN Parameters : Parameters[p] = key.name
        ELSE 0

Expected(v) ==
  CASE v.type = "string" -> [type |-> "string", content |-> "string", n |-> 0]
    [] v.type = "regexp" -> [type |-> "string", content |-> "regexp", n |-> 0]
    [] v.type = "object" -> [type |-> "string", content |-> "object", n |-> 0]
    [] v.type = "number" -> [type |-> "number", content |-> "number", n |-> v.n]
    [] v.type = "fraction" -> [type |-> "fraction", content |-> "fraction", n |-> 0]
    [] v.type = "true" -> [type |-> "number", content |-> "number", n |-> 1]
    [] v.type = "false" -> [type |-> "number", content |-> "number", n |-> 0]
    [] v.type = "date" -> [type |-> "number", content |-> "date", n |-> 0]
    [] v.type = "buffer" -> [type |-> "buffer", content |-> "buffer", n |-> 0]
    [] OTHER -> [type |-> "null", content |-> "", n |-> 0]

Skipped(v) == v.type \in {"undefined", "bigint"}
Given(c) == {i \in DOMAIN c.entries : ~Skipped(c.entries[i].value)}

\* A position that an unsigned short does not hold goes round: the value is
\* bound to another parameter, or refused.
GoesRound(c) == \E i \in Given(c) : Addressed(c, i) \notin 0..(ShortSize - 1)

\* After a call with parameters that succeeds each parameter holds the last
\* value that was given for it, by position, by number or by name, converted so
\* that it reads back as the same number or text; the others are NULL, whatever
\* calls before have bound and whether or not those succeeded.  A call is refused
\* (SQLITE_RANGE) exactly when it gives a value to a parameter that the statement
\* does not have; undefined and what BindParameter does not know are passed over,
\* even there.
BoundAsAddressed ==
  ~GoesRound(call) =>
    /\ status = "ok" /\ call.entries # <<>> =>
         \A p \in DOMAIN Parameters :
           LET given == {i \in Given(call) : Addressed(call, i) = p}
               last == CHOOSE i \in given : \A j \in given : j <= i
           IN  ToJs(bindings[p]) =
                 IF given = {} THEN ToJs(SqlNull) ELSE Expected(call.entries[last].value)
    /\ status \in {"ok", "range"} =>
         (status = "range" <=>
            \E i \in Given(call) : Addressed(call, i) \notin DOMAIN Parameters)

\* test/map.test.js: the first column is the key, the second of two the value,
\* and of three columns the row; when the names of the columns differ and none
\* of them is an array index, which JavaScript would list first.
MapTakesColumns ==
  status = "row" /\ Len(names) > 1 /\ IsInjective(names)
    /\ (\A i \in DOMAIN names : ~IsIndex(names[i])) =>
      /\ MappedKey(row) = ToJs(bindings[1])
      /\ Len(names) = 2 => MappedValue(row) = ToJs(bindings[2])
      /\ Len(names) > 2 => MappedValue(row) = row
=============================================================================
