------------------------------- MODULE JsonSchema -------------------------------
(***************************************************************************)
(* Validation of a JSON value against a schema (src/src/protocol/schema.cpp *)
(* and native_schema.cpp): the gates of CompiledSchema::compile(), and the  *)
(* native evaluation with its limit of reported violations and its budget   *)
(* of pattern steps.  Numbers are in JsonNumbers.                           *)
(*                                                                         *)
(* A value is a record with its kind; a string is the sequence of the sizes  *)
(* of its characters.  A schema is a function from its keywords to their arguments: the schema    *)
(* `true` has none, the schema `false` has only "reject_all".               *)
(***************************************************************************)
EXTENDS JsonNumbers, SequencesExt, FiniteSetsExt

CONSTANTS MaxSchemaDepth, MaxDepth,    \* g_max_schema_depth, max_instance_depth
          BaseSteps, StepsPerByte,     \* budget of pattern steps
          MaxViolations                \* max_reported_violations

Null == [kind |-> "null"]
Boolean(b) == [kind |-> "boolean", value |-> b]
String(sizes) == [kind |-> "string", sizes |-> sizes]
Array(items) == [kind |-> "array", items |-> items]
Object(members) == [kind |-> "object", members |-> members]

-----------------------------------------------------------------------------
\* size_value(): a limit on a size, saturated.
SizeValue(v) ==
    CASE v.kind = "unsigned" -> v.n
      [] v.kind = "signed" -> Max({v.n, 0})
      [] v.kind = "float" -> Max({0, Min({v.halves \div 2, UnsignedLimit - 1})})

-----------------------------------------------------------------------------
(* Shape of a value, and equality.                                         *)

Children(v) ==
    CASE v.kind = "array" -> v.items
      [] v.kind = "object" -> SetToSeq({v.members[name] : name \in DOMAIN v.members})
      [] OTHER -> <<>>

\* measure(): levels of arrays and objects, bytes of text, and whether a
\* number is one JSON cannot carry.
RECURSIVE Nesting(_), TextBytes(_), HoldsNonFinite(_)
Nesting(v) ==
    IF v.kind \notin {"array", "object"} THEN 0
    ELSE 1 + Max({0} \cup {Nesting(c) : c \in ToSet(Children(v))})
TextBytes(v) ==
    CASE v.kind = "string" -> FoldLeft(LAMBDA x, y : x + y, 0, v.sizes)
      [] v.kind = "array" -> FoldLeft(LAMBDA sum, c : sum + TextBytes(c), 0, v.items)
      [] v.kind = "object" ->
            FoldSet(LAMBDA name, sum : sum + 1 + TextBytes(v.members[name]), 0, DOMAIN v.members)
      [] OTHER -> 0
HoldsNonFinite(v) == IsNonFinite(v) \/ \E c \in ToSet(Children(v)) : HoldsNonFinite(c)

\* json_equal()
RECURSIVE JsonEqual(_, _)
JsonEqual(a, b) ==
    IF IsNumber(a) /\ IsNumber(b) THEN CompareNumbers(a, b) = 0
    ELSE /\ a.kind = b.kind
         /\ CASE a.kind = "array" ->
                    /\ Len(a.items) = Len(b.items)
                    /\ \A i \in DOMAIN a.items : JsonEqual(a.items[i], b.items[i])
              [] a.kind = "object" ->
                    /\ DOMAIN a.members = DOMAIN b.members
                    /\ \A name \in DOMAIN a.members : JsonEqual(a.members[name], b.members[name])
              [] OTHER -> a = b

\* type_name() and has_type()
HasType(v, type) ==
    CASE type = "number" -> IsNumber(v)
      [] type = "integer" -> IsInteger(v) \/ (v.kind = "float" /\ v.halves % 2 = 0)
      [] OTHER -> v.kind = type

-----------------------------------------------------------------------------
(* Which schemas are evaluated natively.                                   *)

Unsupported == {"$ref", "allOf", "anyOf", "not", "prefixItems", "uniqueItems"}
AnySchema == <<>>                      \* the schema `true`
IsSchemaKeyword(keyword) == keyword \in {"items", "additionalProperties"}
Has(schema, keyword) == keyword \in DOMAIN schema

\* Mutant: a keyword the evaluation does not know is taken for an annotation.
IgnoresUnknown(keyword, argument, root) == TRUE

\* A keyword of an object schema that stops compile_into(), if its own
\* subschemas do not.
Understood(keyword, argument, root) ==
    /\ keyword \notin Unsupported
    /\ keyword = "$schema" => root /\ argument = "2020-12"
    /\ keyword = "pattern" => argument.compiles

RECURSIVE Native(_, _)
Native(schema, root) ==
    \A keyword \in DOMAIN schema :
        /\ Understood(keyword, schema[keyword], root)
        /\ IsSchemaKeyword(keyword) => Native(schema[keyword], FALSE)
        /\ keyword = "properties" =>
              \A name \in DOMAIN schema["properties"] : Native(schema["properties"][name], FALSE)

\* What the metaschema and the vendored evaluator refuse, as far as the
\* schemas here go: sizes that are none, references that lead nowhere or back.
SizeKeywords ==
    {"minLength", "maxLength", "minItems", "maxItems", "minProperties", "maxProperties"}
MetaValid(schema) ==
    \A keyword \in DOMAIN schema \cap SizeKeywords :
        LET v == schema[keyword]
        IN  IsNumber(v) /\ IF IsInteger(v) THEN v.n >= 0 ELSE v.halves >= 0 /\ v.halves % 2 = 0

RECURSIVE SchemaNesting(_)
SchemaNesting(schema) ==
    LET Under(keyword) ==
            CASE IsSchemaKeyword(keyword) \/ keyword = "not" -> SchemaNesting(schema[keyword])
              [] keyword = "properties" ->
                    1 + Max({0} \cup {SchemaNesting(schema[keyword][name]) :
                                        name \in DOMAIN schema[keyword]})
              [] keyword \in {"type", "enum", "required"} -> 1
              [] OTHER -> 0
    IN  IF Has(schema, "reject_all") THEN 0
        ELSE 1 + Max({0} \cup {Under(keyword) : keyword \in DOMAIN schema})
BoundValues(schema) ==
    {schema[keyword] : keyword \in DOMAIN schema \cap
                        {"minimum", "maximum", "exclusiveMinimum", "exclusiveMaximum", "const"}}

Dialects == {"2020-12", "2019-09", "draft-07"}

\* CompiledSchema::compile(): the category of the refusal, or how it is evaluated.
CompileSchema(schema) ==
    CASE SchemaNesting(schema) > MaxSchemaDepth -> "invalid"
      [] \E v \in BoundValues(schema) : HoldsNonFinite(v) -> "invalid"
      [] Has(schema, "$schema") /\ schema["$schema"] \notin Dialects -> "unsupported dialect"
      [] ~MetaValid(schema) -> "invalid"
      [] Has(schema, "$ref") /\ schema["$ref"] = "elsewhere" -> "unresolved reference"
      [] Has(schema, "$ref") /\ schema["$ref"] = "itself" -> "invalid"
      [] OTHER -> IF Native(schema, TRUE) THEN "native" ELSE "vendored"

-----------------------------------------------------------------------------
(* Evaluation.  The steps it takes in order: a report of a violation at a   *)
(* path, or a pattern's search in a string.                                *)

Report(path) == <<[op |-> "report", path |-> path]>>
ReportIf(condition, path) == IF condition THEN Report(path) ELSE <<>>
SearchIn(pattern, sizes, path) ==
    <<[op |-> "search", cost |-> pattern.cost * Len(sizes) + 1,
       found |-> sizes \in pattern.language, path |-> path]>>

CheckNumber(schema, v, path) ==
    LET Against(keyword) == CompareNumbers(v, schema[keyword])
    IN  ReportIf(Has(schema, "minimum") /\ Against("minimum") < 0, path)
        \o ReportIf(Has(schema, "maximum") /\ Against("maximum") > 0, path)
        \o ReportIf(Has(schema, "exclusiveMinimum") /\ Against("exclusiveMinimum") <= 0, path)
        \o ReportIf(Has(schema, "exclusiveMaximum") /\ Against("exclusiveMaximum") >= 0, path)

\* The keywords that bound a size from below and from above.
CheckSize(schema, least, most, size, path) ==
    ReportIf(Has(schema, least) /\ size < SizeValue(schema[least]), path)
    \o ReportIf(Has(schema, most) /\ size > SizeValue(schema[most]), path)

CheckString(schema, v, path) ==
    CheckSize(schema, "minLength", "maxLength", Len(v.sizes), path)
    \o IF Has(schema, "pattern") THEN SearchIn(schema["pattern"], v.sizes, path) ELSE <<>>

\* The schema of a member: its own, the one of additional members, or none.
MemberSchema(schema, name) ==
    IF Has(schema, "properties") /\ name \in DOMAIN schema["properties"]
    THEN schema["properties"][name]
    ELSE IF Has(schema, "additionalProperties") THEN schema["additionalProperties"]
    ELSE AnySchema

\* Mutant: NaN is checked as a zero.
AsZero(v) == IF IsNonFinite(v) THEN Float(0) ELSE v

\* What the peer would receive of a number JSON cannot carry.
Carried(v) == IF IsNonFinite(v) THEN Null ELSE v

RECURSIVE Checks(_, _, _)
CheckArray(schema, v, path) ==
    (IF Has(schema, "items")
     THEN FlattenSeq([i \in DOMAIN v.items |-> Checks(schema["items"], v.items[i], Append(path, i))])
     ELSE <<>>)
    \o CheckSize(schema, "minItems", "maxItems", Len(v.items), path)

CheckObject(schema, v, path) ==
    LET names == SetToSeq(DOMAIN v.members)
        missing == IF Has(schema, "required") THEN schema["required"] \ DOMAIN v.members ELSE {}
    IN  FlattenSeq([k \in 1..Cardinality(missing) |-> Report(path)])
        \o FlattenSeq([k \in DOMAIN names |->
                Checks(MemberSchema(schema, names[k]), v.members[names[k]],
                       Append(path, names[k]))])
        \o CheckSize(schema, "minProperties", "maxProperties", Len(names), path)

\* Evaluation::check()
Checks(schema, value, path) ==
    LET v == Carried(value)
    IN  IF Has(schema, "reject_all") THEN Report(path)
        ELSE ReportIf(Has(schema, "type") /\ \A t \in schema["type"] : ~HasType(v, t), path)
             \o ReportIf(Has(schema, "enum") /\ \A e \in schema["enum"] : ~JsonEqual(e, v), path)
             \o ReportIf(Has(schema, "const") /\ ~JsonEqual(v, schema["const"]), path)
             \o CASE IsNumber(v) -> CheckNumber(schema, v, path)
                  [] v.kind = "string" -> CheckString(schema, v, path)
                  [] v.kind = "array" -> CheckArray(schema, v, path)
                  [] v.kind = "object" -> CheckObject(schema, v, path)
                  [] OTHER -> <<>>

Verdict(valid, violations) == [valid |-> valid, violations |-> violations]
Stopped == Verdict(FALSE, <<"validation stopped">>)

\* Mutant: the budget is renewed for every pattern.
NotCharged(left, cost) == left

Charged(left, cost) == left - cost

\* The steps are taken until there are violations enough or the budget ends.
RECURSIVE Evaluate(_, _, _)
Evaluate(steps, left, verdict) ==
    IF steps = <<>> \/ (~verdict.valid /\ Len(verdict.violations) >= MaxViolations) THEN verdict
    ELSE LET step == Head(steps)
             found == step.op = "search" /\ step.found
             reported == Verdict(FALSE, IF Len(verdict.violations) < MaxViolations
                                        THEN Append(verdict.violations, step.path)
                                        ELSE verdict.violations)
             budget == IF step.op = "search" THEN Charged(left, step.cost) ELSE left
         IN  IF step.op = "search" /\ step.cost > left THEN Stopped
             ELSE Evaluate(Tail(steps), budget, IF found THEN verdict ELSE reported)

\* CompiledSchema::validate() for a schema that is evaluated natively.
PatternSteps(v) == BaseSteps + StepsPerByte * TextBytes(v)
Validate(schema, v) ==
    IF Nesting(v) > MaxDepth THEN Verdict(FALSE, <<"too deep">>)
    ELSE Evaluate(Checks(schema, v, <<>>), PatternSteps(v), Verdict(TRUE, <<>>))

-----------------------------------------------------------------------------
(* What it promises: the meaning of each keyword for the value as it is    *)
(* sent, with numbers compared as the numbers they are.                     *)

Numbers(v) == IsNumber(v) /\ ~IsNonFinite(v)

RECURSIVE Same(_, _)
Same(a, b) ==
    CASE Numbers(a) /\ Numbers(b) -> Halves(a) = Halves(b)
      [] a.kind = "array" /\ b.kind = "array" ->
            Len(a.items) = Len(b.items) /\ \A i \in DOMAIN a.items : Same(a.items[i], b.items[i])
      [] a.kind = "object" /\ b.kind = "object" ->
            /\ DOMAIN a.members = DOMAIN b.members
            /\ \A name \in DOMAIN a.members : Same(a.members[name], b.members[name])
      [] OTHER -> a.kind = b.kind /\ a = b

RECURSIVE Conforms(_, _)
Satisfies(schema, keyword, v) ==
    LET arg == schema[keyword]
        object == v.kind = "object"
    IN  CASE keyword = "reject_all" -> FALSE
          [] keyword = "type" ->
                \E t \in arg : IF t = "number" THEN Numbers(v)
                               ELSE IF t = "integer" THEN Numbers(v) /\ Halves(v) % 2 = 0
                               ELSE v.kind = t
          [] keyword = "enum" -> \E e \in arg : Same(e, v)
          [] keyword = "const" -> Same(arg, v)
          [] keyword = "not" -> ~Conforms(arg, v)
          [] keyword = "minimum" -> Numbers(v) => Halves(v) >= Halves(arg)
          [] keyword = "maximum" -> Numbers(v) => Halves(v) <= Halves(arg)
          [] keyword = "exclusiveMinimum" -> Numbers(v) => Halves(v) > Halves(arg)
          [] keyword = "exclusiveMaximum" -> Numbers(v) => Halves(v) < Halves(arg)
          [] keyword = "minLength" -> v.kind = "string" => 2 * Len(v.sizes) >= Halves(arg)
          [] keyword = "maxLength" -> v.kind = "string" => 2 * Len(v.sizes) <= Halves(arg)
          [] keyword = "pattern" -> v.kind = "string" => v.sizes \in arg.language
          [] keyword = "items" ->
                v.kind = "array" => \A i \in DOMAIN v.items : Conforms(arg, v.items[i])
          [] keyword = "minItems" -> v.kind = "array" => 2 * Len(v.items) >= Halves(arg)
          [] keyword = "maxItems" -> v.kind = "array" => 2 * Len(v.items) <= Halves(arg)
          [] keyword = "required" -> object => arg \subseteq DOMAIN v.members
          [] keyword = "minProperties" ->
                object => 2 * Cardinality(DOMAIN v.members) >= Halves(arg)
          [] keyword = "maxProperties" ->
                object => 2 * Cardinality(DOMAIN v.members) <= Halves(arg)
          [] keyword = "properties" ->
                object => \A n \in DOMAIN arg \cap DOMAIN v.members : Conforms(arg[n], v.members[n])
          [] keyword = "additionalProperties" ->
                object => \A n \in DOMAIN v.members :
                    n \in (IF Has(schema, "properties") THEN DOMAIN schema["properties"] ELSE {})
                    \/ Conforms(arg, v.members[n])
          [] OTHER -> TRUE
Conforms(schema, value) ==
    LET v == IF IsNonFinite(value) THEN Null ELSE value
    IN  \A keyword \in DOMAIN schema : Satisfies(schema, keyword, v)

\* The part of the value at a path does not conform to the schema it has there.
RECURSIVE Broken(_, _, _)
Broken(schema, v, path) ==
    IF path = <<>> THEN ~Conforms(schema, v)
    ELSE IF v.kind = "array" THEN Broken(schema["items"], v.items[Head(path)], Tail(path))
    ELSE Broken(MemberSchema(schema, Head(path)), v.members[Head(path)], Tail(path))

SearchCost(schema, v) ==
    FoldLeft(LAMBDA sum, step : IF step.op = "search" THEN sum + step.cost ELSE sum,
             0, Checks(schema, v, <<>>))
HasBudget(schema, v) == SearchCost(schema, v) <= PatternSteps(v)

\* json_equal() finds a NaN inside an array or an object equal to any number
\* of kind "float", and not to the null it is sent as.
ComparesNaN(schema, v) ==
    HoldsNonFinite(v) /\ ~IsNonFinite(v) /\ (Has(schema, "const") \/ Has(schema, "enum"))

\* A value is found valid only if it conforms and its patterns stay within the
\* budget of all, and if it conforms within the limits it is; each violation
\* reported is at a part that does not conform (native_schema.cpp:358-591).
ValidatesExactly(schema, v) ==
    CompileSchema(schema) = "native" /\ ~ComparesNaN(schema, v) =>
        LET verdict == Validate(schema, v)
        IN  /\ verdict.valid => Conforms(schema, v) /\ Nesting(v) <= MaxDepth
            /\ Conforms(schema, v) /\ Nesting(v) <= MaxDepth /\ HasBudget(schema, v)
                  => verdict.valid
            /\ Nesting(v) <= MaxDepth /\ ~HasBudget(schema, v) => ~verdict.valid
            /\ verdict.valid = (verdict.violations = <<>>)
            /\ Len(verdict.violations) <= MaxViolations
            /\ Nesting(v) <= MaxDepth /\ HasBudget(schema, v) =>
                  \A i \in DOMAIN verdict.violations : Broken(schema, v, verdict.violations[i])
=============================================================================
