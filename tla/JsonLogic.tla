----------------------------- MODULE JsonLogic -----------------------------
(***************************************************************************)
(* The expressions of compliance rules,                                    *)
(* apps/api/internal/compliance/jsonlogic.go.  A value is a record with    *)
(* its JSON type; a payload is a function from the paths it has to their   *)
(* values.  An operator's arguments are always an array, as every rule of  *)
(* the repository writes them.                                             *)
(***************************************************************************)
EXTENDS Integers, Sequences, FiniteSetsExt

CONSTANTS
  NumberIn, \* the strings strconv.ParseFloat accepts, and their numbers
  PartOf    \* pairs of a value and a string its text is part of, but for case

Null == [type |-> "null"]
Error == [type |-> "error"]
Bool(b) == [type |-> "bool", bool |-> b]
Number(n) == [type |-> "number", number |-> n]
String(s) == [type |-> "string", text |-> s]
List(items) == [type |-> "list", items |-> items]

(* Nodes of an expression that are not values. *)
Array(nodes) == [type |-> "array", nodes |-> nodes]
Op(op, args) == [type |-> "op", op |-> op, args |-> args]
Var(path) == Op("var", <<String(path)>>)

isTruthy(v) ==
  CASE v.type = "bool" -> v.bool
    [] v.type = "number" -> v.number # 0
    [] v.type = "string" -> v.text \notin {"", "false", "0"}
    [] v.type = "list" -> v.items # << >>
    [] OTHER -> FALSE

IsNumeric(v) == v.type = "number" \/ (v.type = "string" /\ v.text \in DOMAIN NumberIn)
toFloat(v) == IF v.type = "number" THEN v.number ELSE NumberIn[v.text]

(* Fault: a value that is missing equals anything. *)
EqualOrMissing(a, b) == Null \in {a, b} \/ a = b

(* Numbers, also those in strings, by value; anything else must be the     *)
(* same, and nothing is like a missing value but another one.              *)
compareEqual(a, b) ==
  IF IsNumeric(a) /\ IsNumeric(b) THEN toFloat(a) = toFloat(b) ELSE a = b

(* Values that are no numbers satisfy no comparison. *)
compareNumeric(op, a, b) ==
  /\ IsNumeric(a) /\ IsNumeric(b)
  /\ CASE op = "<" -> toFloat(a) < toFloat(b)
       [] op = "<=" -> toFloat(a) <= toFloat(b)
       [] op = ">" -> toFloat(a) > toFloat(b)
       [] op = ">=" -> toFloat(a) >= toFloat(b)

checkIn(target, collection) ==
  /\ Null \notin {target, collection}
  /\ \/ collection.type = "string" /\ <<target, collection>> \in PartOf
     \/ /\ collection.type = "list"
        /\ \E i \in DOMAIN collection.items : compareEqual(target, collection.items[i])

resolveVar(data, path) == IF path \in DOMAIN data THEN data[path] ELSE Null

RECURSIVE evalNode(_, _)

(* and, or: the first argument that decides, or whose evaluation fails.    *)
Junction(args, data, decides) ==
  LET value == [i \in DOMAIN args |-> evalNode(args[i], data)]
      stops == {i \in DOMAIN args : value[i] = Error \/ isTruthy(value[i]) = decides}
  IN IF stops = {} THEN Bool(~decides)
     ELSE IF value[Min(stops)] = Error THEN Error ELSE Bool(decides)

Binary(op, a, b) ==
  IF Error \in {a, b} THEN Error
  ELSE CASE op = "==" -> Bool(compareEqual(a, b))
         [] op = "!=" -> Bool(~compareEqual(a, b))
         [] op = "in" -> Bool(checkIn(a, b))
         [] op \in {"<", "<=", ">", ">="} -> Bool(compareNumeric(op, a, b))
         [] OTHER -> Error

applyOperator(op, args, data) ==
  CASE op = "var" -> resolveVar(data, args[1].text)
    [] op = "and" -> Junction(args, data, FALSE)
    [] op = "or" -> Junction(args, data, TRUE)
    [] op = "!" -> LET v == evalNode(args[1], data) IN
                   IF v = Error THEN Error ELSE Bool(~isTruthy(v))
    [] OTHER -> IF Len(args) < 2 THEN Error
                ELSE Binary(op, evalNode(args[1], data), evalNode(args[2], data))

evalNode(node, data) ==
  CASE node.type = "op" -> applyOperator(node.op, node.args, data)
    [] node.type = "array" ->
         LET value == [i \in DOMAIN node.nodes |-> evalNode(node.nodes[i], data)] IN
         IF \E i \in DOMAIN value : value[i] = Error THEN Error ELSE List(value)
    [] OTHER -> node

(* EvaluateExpression, with the way EvaluateHost takes its error: a check  *)
(* that cannot be evaluated has failed.                                    *)
Passes(expression, data) == isTruthy(evalNode(expression, data))
=============================================================================
