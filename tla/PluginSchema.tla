---------------------------- MODULE PluginSchema ----------------------------
(***************************************************************************)
(* validateSchemaNode: the JSON Schema subset that guards the inputs and   *)
(* outputs of Plugin tools, as the walk it performs over a schema graph    *)
(* with local references and a value, with its bound on visited nodes.  A  *)
(* value is the chain of constructors down to a string: a key of an        *)
(* object or "item" of an array.                                           *)
(***************************************************************************)
EXTENDS Naturals, Sequences, FiniteSets

CONSTANTS
  Nodes,     \* schema nodes to choose from: [ref, type, prop, additional, items, required]
  MaxDepth,  \* longest value
  MaxNodes   \* 1000 in the code

Ids    == {1, 2}
Keys   == {"a", "b"}
None   == 0   \* no reference, no schema, or additional properties forbidden
Anything == 3   \* additional properties allowed
Values == UNION {[1 .. n -> Keys \cup {"item"}] : n \in 0 .. MaxDepth}

SchemaAssumption ==
  /\ MaxDepth \in Nat /\ MaxNodes \in Nat
  /\ \A n \in Nodes : /\ n.ref \in Ids \cup {None} /\ n.prop \in Ids \cup {None} /\ n.items \in Ids \cup {None}
                      /\ n.additional \in Ids \cup {None, Anything}
                      /\ n.required \in BOOLEAN

VARIABLES
  schema,   \* the schema graph; node 1 is the root
  value,    \* the value to validate
  todo,     \* calls of validateSchemaNode still to make: <<schema node, value>>
  count,    \* state.nodes
  verdict

vars == <<schema, value, todo, count, verdict>>

TypeOf(v) == IF v = << >> THEN "string" ELSE IF Head(v) = "item" THEN "array" ELSE "object"

Init ==
  /\ schema \in [Ids -> Nodes] /\ value \in Values
  /\ todo = <<<<1, value>>>> /\ count = 0 /\ verdict = "none"

-----------------------------------------------------------------------------

(* The checks of a node: its type, required key, keys that are forbidden.  *)
LocallyValid(s, v) ==
  /\ schema[s].type = TypeOf(v)
  /\ TypeOf(v) = "object" =>
       /\ schema[s].required => Head(v) = "a"
       /\ (Head(v) = "a" /\ schema[s].prop # None) \/ schema[s].additional # None

(* An array schema without items is not supported. *)
Supported(s, v) == TypeOf(v) = "array" => schema[s].items # None

(* The nested calls: the items, the named property, or the schema of       *)
(* additional properties.                                                  *)
Child(s, v) ==
  CASE TypeOf(v) = "array" -> <<<<schema[s].items, Tail(v)>>>>
    [] TypeOf(v) = "object" /\ Head(v) = "a" /\ schema[s].prop # None -> <<<<schema[s].prop, Tail(v)>>>>
    [] TypeOf(v) = "object" /\ ~(Head(v) = "a" /\ schema[s].prop # None) /\ schema[s].additional \in Ids ->
         <<<<schema[s].additional, Tail(v)>>>>
    [] OTHER -> << >>

(* Every call counts, a followed reference too. *)
Charge(s) == count + 1

Visit ==
  /\ verdict = "none" /\ todo # << >>
  /\ LET s == todo[1][1]
         v == todo[1][2]
     IN /\ count' = Charge(s)
        /\ \/ count' > MaxNodes /\ verdict' = "too_complex" /\ UNCHANGED todo
           \/ /\ count' <= MaxNodes /\ schema[s].ref # None
              /\ todo' = <<<<schema[s].ref, v>>>> \o Tail(todo) /\ UNCHANGED verdict
           \/ /\ count' <= MaxNodes /\ schema[s].ref = None
              /\ CASE ~LocallyValid(s, v) -> verdict' = "invalid" /\ UNCHANGED todo
                   [] LocallyValid(s, v) /\ ~Supported(s, v) -> verdict' = "unsupported" /\ UNCHANGED todo
                   [] OTHER -> todo' = Child(s, v) \o Tail(todo) /\ UNCHANGED verdict
  /\ UNCHANGED <<schema, value>>

Accept ==
  /\ verdict = "none" /\ todo = << >> /\ verdict' = "accepted"
  /\ UNCHANGED <<schema, value, todo, count>>

Next == Visit \/ Accept

Spec == Init /\ [][Next]_vars /\ WF_vars(Next)

-----------------------------------------------------------------------------
(* Reference: what a schema means.                                         *)

RECURSIVE Resolve(_, _), Conforms(_, _)

Resolve(s, fuel) ==
  IF schema[s].ref = None THEN {s} ELSE IF fuel = 0 THEN {} ELSE Resolve(schema[s].ref, fuel - 1)

Conforms(s, v) ==
  \E r \in Resolve(s, Cardinality(Ids)) :
    /\ schema[r].type = TypeOf(v)
    /\ CASE TypeOf(v) = "string" -> TRUE
         [] TypeOf(v) = "array"  -> schema[r].items # None /\ Conforms(schema[r].items, Tail(v))
         [] TypeOf(v) = "object" ->
              /\ schema[r].required => Head(v) = "a"
              /\ IF Head(v) = "a" /\ schema[r].prop # None THEN Conforms(schema[r].prop, Tail(v))
                 ELSE \/ schema[r].additional = Anything
                      \/ schema[r].additional \in Ids /\ Conforms(schema[r].additional, Tail(v))

-----------------------------------------------------------------------------
(* Properties.                                                             *)

(* A tool never sees an input, and a run never an output, that its schema  *)
(* does not admit: the walk accepts only values that conform, nested       *)
(* values and referenced schemas included (assertPluginJsonSchema).        *)
AcceptedConforms == verdict = "accepted" => Conforms(1, value)

(* A value that conforms is never refused for what it contains.            *)
RefusedDoesNotConform == verdict = "invalid" => ~Conforms(1, value)

(* The walk ends also on a schema whose references form a cycle, because a *)
(* followed reference counts as a node.                                    *)
WalkEnds == <>(verdict # "none")
=============================================================================
