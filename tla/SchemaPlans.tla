---------------------------- MODULE SchemaPlans ----------------------------
(***************************************************************************)
(* What Nova derives from a Pydantic schema: the query plan that loads what*)
(* the serializer reads, and the projections of the schema for REST,       *)
(* GraphQL and the admin.                                                  *)
(*                                                                         *)
(* A schema is a sequence of fields with an annotation: a scalar, another  *)
(* schema (perhaps optional), a list or a variadic tuple of one, or        *)
(* something GraphQL has no type for.  Schemas may refer to each other in  *)
(* cycles.  Of the model behind the root schema the plan needs to know     *)
(* which names are columns, foreign keys or collections.                   *)
(*                                                                         *)
(* The schemas, the model and the exclusions are made up in the first      *)
(* steps, so that every small combination is looked at.                    *)
(***************************************************************************)
EXTENDS Naturals, SequencesExt

CONSTANTS
    Schemas, Root,
    FieldsOf,     \* the names of a schema's fields, in order
    KindsOf,      \* the kinds of annotation they may have
    Extra,        \* a field of the root's model that no schema mentions
    NoSchema

ASSUME SchemaConstants ==
    /\ Root \in Schemas /\ NoSchema \notin Schemas
    /\ DOMAIN FieldsOf = Schemas /\ \A s \in Schemas : FieldsOf[s] \in Seq(STRING)

VARIABLES
    schema,    \* for every declared schema its annotations, in order
    stored,    \* the root's model: what its names stand for
    exclude,   \* exclude_from_pydantic
    calls,     \* of find_deep_relations() that have not returned, the innermost last
    found,     \* the paths they have added to their lists, and the schemas visited
    plan,      \* what build_query_plan() returned
    pending,   \* calls of _compile_schema() that have not returned, the innermost last
    types      \* what to_strawberry_type() returned, and its cache

schemaVars == <<schema, stored, exclude, calls, found, plan, pending, types>>

\* Neither walk is under way: they share nothing, so that one after the other will do.
Idle == calls = <<>> /\ pending = <<>>

Annotation(k, s) == [kind |-> k, to |-> s]

Annotations ==
    {Annotation("scalar", NoSchema), Annotation("other", NoSchema)}
    \cup {Annotation(k, s) : k \in {"object", "optional", "list", "tuple"}, s \in Schemas}

\* What the model may have for a field of the schema; "missing" is a mistake.
ColumnsFor(a) ==
    CASE a.kind \in {"scalar", "other"}   -> {"column", "relation"}
      [] a.kind \in {"object", "optional"} -> {"relation", "missing"}
      [] a.kind \in {"list", "tuple"}      -> {"m2m", "reverse", "missing"}

Nested(a) == a.kind \in {"object", "optional"}
Names(s)  == Range(FieldsOf[s])
Of(s, f)  == schema[s][CHOOSE i \in DOMAIN FieldsOf[s] : FieldsOf[s][i] = f]

----------------------------------------------------------------------------
(* find_deep_relations(): every call loops over the fields of its schema.  *)

Walk(s, path) == [schema |-> s, path |-> path, next |-> 1]
NextField(stack) == [stack EXCEPT ![Len(stack)].next = @ + 1]

\* The innermost call has fields to look at, or has looked at all of them.
Looping(stack)  == stack # <<>> /\ Last(stack).next \in DOMAIN FieldsOf[Last(stack).schema]
AtEnd(stack) == stack # <<>> /\ Last(stack).next \notin DOMAIN FieldsOf[Last(stack).schema]

StartPlan ==
    /\ plan.state = "none" /\ stored # <<>> /\ Idle
    /\ calls' = <<Walk(Root, <<>>)>>
    /\ found' = [select |-> {}, prefetch |-> {}, seen |-> {Root}]
    /\ UNCHANGED <<schema, stored, exclude, plan, pending, types>>

\* A list adds the name alone, whatever led to it. A reference to another schema
\* is joined wherever it is met, but the schema is entered only the first time.
LookAtField ==
    /\ Looping(calls)
    /\ LET call  == Last(calls)
           a     == schema[call.schema][call.next]
           name  == FieldsOf[call.schema][call.next]
           path  == Append(call.path, name)
           joins == Nested(a) /\ a.to # call.schema
           fresh == joins /\ a.to \notin found.seen
       IN  /\ calls' = IF fresh THEN Append(NextField(calls), Walk(a.to, path)) ELSE NextField(calls)
           /\ found' = [select   |-> IF joins THEN found.select \cup {path} ELSE found.select,
                        prefetch |-> IF a.kind = "list" THEN found.prefetch \cup {<<name>>} ELSE found.prefetch,
                        seen     |-> IF fresh THEN found.seen \cup {a.to} ELSE found.seen]
    /\ UNCHANGED <<schema, stored, exclude, plan, pending, types>>

\* The caller takes over what the call has found.
Return ==
    /\ AtEnd(calls) /\ Len(calls) > 1
    /\ calls' = Front(calls)
    /\ UNCHANGED <<schema, stored, exclude, found, plan, pending, types>>

----------------------------------------------------------------------------
(* build_query_plan().                                                     *)

IsFurther(p, q) == p # q /\ IsPrefix(p, q)

\* _remove_redundant_paths().
Deepest(paths) == {p \in paths : ~\E q \in paths : IsFurther(p, q)}

\* analyze_schema_for_relations(): the exclusions apply to the first step.
Hints ==
    [select   |-> {p \in Deepest(found.select) : p[1] \notin exclude},
     prefetch |-> {p \in found.prefetch : p[1] \notin exclude}]

\* _validate_relations_exist(): the roots of all paths are fields of the model.
RootsExist(hints) == \A p \in hints.select \cup hints.prefetch : stored[p[1]] # "missing"

\* Wrong: of a relation only the attname is kept.
Attnames(hints) == {f \in Names(Root) : stored[f] # "relation"}

\* What _calculate_deferred_fields() keeps: the schema's names and the roots of joins.
Needed(hints) == Names(Root) \cup {p[1] : p \in hints.select}

\* get_concrete_fields(), without the primary key, which is never deferred.
\* A relation's own column (its attname) is never listed, but its name is,
\* and Django defers the column by either.
Deferred(hints) == {f \in DOMAIN stored : stored[f] \in {"column", "relation"}} \ Needed(hints)

\* The outermost call has returned.
Plan ==
    /\ AtEnd(calls) /\ Len(calls) = 1
    /\ calls' = <<>>
    /\ plan' = IF RootsExist(Hints)
               THEN [state |-> "ok", select |-> Hints.select,
                     prefetch |-> Hints.prefetch, defer |-> Deferred(Hints)]
               ELSE [plan EXCEPT !.state = "error"]
    /\ UNCHANGED <<schema, stored, exclude, found, pending, types>>

----------------------------------------------------------------------------
(* _compile_schema() and _compile_annotation() of GraphQL.                 *)

Type(k, s) == [kind |-> k, to |-> s]

\* Wrong: the None of an optional field is lost.
NeverNull(a) ==
    CASE a.kind = "scalar"               -> Type("scalar", NoSchema)
      [] a.kind \in {"object", "optional"} -> Type("object", a.to)
      [] a.kind \in {"list", "tuple"}      -> Type("list", a.to)

\* The GraphQL type of an annotation whose schema has been compiled.
Projected(a) ==
    CASE a.kind = "scalar"            -> Type("scalar", NoSchema)
      [] a.kind = "object"            -> Type("object", a.to)
      [] a.kind = "optional"          -> Type("nullable", a.to)
      [] a.kind \in {"list", "tuple"} -> Type("list", a.to)

\* The cache: finished types, or <<>> for the placeholder that recursive
\* references find.
Store(cache, s, type) == [x \in DOMAIN cache \cup {s} |-> IF x = s THEN type ELSE cache[x]]

\* The model need not be known: to_strawberry_type() takes a schema as well.
StartCompilation ==
    /\ types.state = "none" /\ DOMAIN schema = Schemas /\ Idle
    /\ pending' = <<[schema |-> Root, next |-> 1]>>
    /\ types' = [types EXCEPT !.of = [s \in {Root} |-> <<>>]]
    /\ UNCHANGED <<schema, stored, exclude, calls, found, plan>>

\* What GraphQL has no type for ends it; a schema in the cache is not compiled again.
CompileField ==
    /\ Looping(pending)
    /\ LET a == schema[Last(pending).schema][Last(pending).next]
       IN  \/ /\ a.kind = "other"
              /\ pending' = <<>>
              /\ types' = [types EXCEPT !.state = "error"]
           \/ /\ a.kind # "other" /\ a.to \in DOMAIN types.of \cup {NoSchema}
              /\ pending' = NextField(pending)
              /\ types' = types
           \/ /\ a.kind # "other" /\ a.to \notin DOMAIN types.of \cup {NoSchema}
              /\ pending' = Append(NextField(pending), [schema |-> a.to, next |-> 1])
              /\ types' = [types EXCEPT !.of = Store(types.of, a.to, <<>>)]
    /\ UNCHANGED <<schema, stored, exclude, calls, found, plan>>

Compiled ==
    /\ AtEnd(pending)
    /\ pending' = Front(pending)
    /\ LET s == Last(pending).schema
       IN  types' = [state |-> IF Len(pending) = 1 THEN "ok" ELSE types.state,
                     of    |-> Store(types.of, s, [i \in DOMAIN FieldsOf[s] |-> Projected(schema[s][i])])]
    /\ UNCHANGED <<schema, stored, exclude, calls, found, plan>>

----------------------------------------------------------------------------
(* The other projections.                                                  *)

\* _resolve_serializer_fields(): what the model stores of the schema's fields;
\* a reverse relation has no attname.
RestFields == {f \in Names(Root) : stored[f] \in {"column", "relation", "m2m"}}

\* get_admin_schema() asks the model for each of them and raises if one is
\* missing, or a reverse relation, which has no default to ask for.
AdminFields ==
    IF \E f \in Names(Root) : stored[f] \in {"missing", "reverse"} THEN {} ELSE Names(Root)

----------------------------------------------------------------------------
SchemaInit ==
    /\ schema = [s \in {} |-> <<>>]
    /\ stored = <<>>
    /\ exclude = {}
    /\ calls = <<>> /\ pending = <<>>
    /\ found = [select |-> {}, prefetch |-> {}, seen |-> {}]
    /\ plan = [state |-> "none", select |-> {}, prefetch |-> {}, defer |-> {}]
    /\ types = [state |-> "none", of |-> [s \in {} |-> <<>>]]

DeclareSchema(s, annotations) ==
    /\ s \notin DOMAIN schema
    /\ schema' = [x \in DOMAIN schema \cup {s} |-> IF x = s THEN annotations ELSE schema[x]]
    /\ UNCHANGED <<stored, exclude, calls, found, plan, pending, types>>

DeclareModel(cols, excluded) ==
    /\ DOMAIN schema = Schemas /\ stored = <<>> /\ Idle
    /\ \A f \in Names(Root) : cols[f] \in ColumnsFor(Of(Root, f))
    /\ cols[Extra] \in {"column", "relation"}
    /\ stored' = cols
    /\ exclude' = excluded
    /\ UNCHANGED <<schema, calls, found, plan, pending, types>>

SchemaNext ==
    \/ \E s \in Schemas : \E annotations \in
            [DOMAIN FieldsOf[s] -> {a \in Annotations : a.kind \in KindsOf[s]}] :
         DeclareSchema(s, annotations)
    \/ \E cols \in [Names(Root) \cup {Extra} -> {"column", "relation", "m2m", "reverse", "missing"}],
          excluded \in {{}, {FieldsOf[Root][1]}} : DeclareModel(cols, excluded)
    \/ StartPlan \/ LookAtField \/ Return \/ Plan
    \/ StartCompilation \/ CompileField \/ Compiled

----------------------------------------------------------------------------
(* What they should be, without the walk.                                  *)

\* What references of some kinds lead to from the root: the schemas of every set
\* that holds the root and is closed under them.
Reachable(kinds) ==
    {s \in Schemas : \A near \in SUBSET Schemas :
        /\ Root \in near
        /\ \A t \in near : \A i \in DOMAIN schema[t] : schema[t][i].kind \in kinds => schema[t][i].to \in near
        => s \in near}

\* A field of that name refers from one schema to the other.
Refers(s, name, t) ==
    \E i \in DOMAIN FieldsOf[s] : FieldsOf[s][i] = name /\ Nested(schema[s][i]) /\ schema[s][i].to = t

\* A path of field names leads from the root to a schema, reference by reference.
LeadsTo(path, s) ==
    \E via \in [0..Len(path) -> Schemas] :
        /\ via[0] = Root /\ via[Len(path)] = s
        /\ \A n \in DOMAIN path : Refers(via[n - 1], path[n], via[n])

EnteredOnce(stack) == \A i, j \in DOMAIN stack : stack[i].schema = stack[j].schema => i = j

SchemaTypeOK ==
    /\ DOMAIN schema \subseteq Schemas
    /\ \A s \in DOMAIN schema : schema[s] \in [DOMAIN FieldsOf[s] -> Annotations]
    /\ calls \in Seq([schema : Schemas, path : Seq(STRING), next : Nat \ {0}])
    /\ found.select \subseteq Seq(STRING) /\ found.prefetch \subseteq Seq(STRING) /\ found.seen \subseteq Schemas
    /\ plan.state \in {"none", "ok", "error"}
    /\ pending \in Seq([schema : Schemas, next : Nat \ {0}])
    /\ types.state \in {"none", "ok", "error"} /\ DOMAIN types.of \subseteq Schemas

\* The plan loads what the serializer reads and joins only what is there: no
\* field of the schema is deferred, nor one that is joined; each join follows
\* references of the schema, none is implied by another or was excluded; and
\* every schema that is reached by references is reached by a join, cycles and
\* shared schemas included. On the way no schema is entered from within itself.
PlanServesSerializer ==
    /\ EnteredOnce(calls)
    /\ plan.state = "ok" =>
        /\ plan.defer \cap (RestFields \cup {p[1] : p \in plan.select}) = {}
        /\ \A p \in plan.select :
             /\ \E s \in Schemas : LeadsTo(p, s)
             /\ p[1] \notin exclude
             /\ ~\E q \in plan.select : IsFurther(p, q)
        /\ exclude = {} =>
             \A s \in Reachable({"object", "optional"}) \ {Root} :
                \E p \in plan.select : \E n \in 1..Len(p) : LeadsTo(SubSeq(p, 1, n), s)

\* Compilation to GraphQL enters no schema from within itself, refuses exactly
\* the graphs in which something unsupported can be reached, and otherwise gives
\* each reachable schema one type with its fields, their nullability and their
\* lists; REST and admin show no field that GraphQL does not.
ProjectionsMirrorSchema ==
    LET all == Reachable({"object", "optional", "list", "tuple"})
        Unsupported == \E s \in all : \E i \in DOMAIN schema[s] : schema[s][i].kind = "other"
    IN  /\ EnteredOnce(pending)
        /\ types.state = "error" => Unsupported
        /\ types.state = "ok" =>
             /\ ~Unsupported
             /\ DOMAIN types.of = all
             /\ stored # <<>> =>
                  RestFields \cup AdminFields \subseteq {FieldsOf[Root][i] : i \in DOMAIN types.of[Root]}
             /\ \A s \in all : \A i \in DOMAIN FieldsOf[s] :
                  LET a == schema[s][i]  t == types.of[s][i]
                  IN  /\ t.to = a.to
                      /\ (t.kind = "nullable") <=> (a.kind = "optional")
                      /\ (t.kind = "list") <=> (a.kind \in {"list", "tuple"})
=============================================================================
