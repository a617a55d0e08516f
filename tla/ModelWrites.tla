---------------------------- MODULE ModelWrites ----------------------------
(***************************************************************************)
(* How a NovaModel gets written: by REST and FastAPI handlers, by the      *)
(* admin's form and by application code, all of which end in               *)
(* NovaModel.save(), with its validation phases and Django's UPDATE or     *)
(* INSERT.  Requests run concurrently, in autocommit: between the moments  *)
(* when one loads an object, asks for duplicates and writes, others write. *)
(*                                                                         *)
(* The model has two fields that only make sense together (low <= high, a  *)
(* rule of the Pydantic schema); `low' has a default and `high' is unique. *)
(* A value may arrive as text, which Pydantic accepts for the number it    *)
(* spells and field.clean() replaces with it, or as junk, which neither    *)
(* accepts.                                                                *)
(***************************************************************************)
EXTENDS Naturals, FiniteSets

CONSTANTS
    Requests, Pks,
    NewPk,       \* no primary key yet
    Values,
    Default,     \* of `low'
    Inputs,      \* what a request may give for a field
    Seed,        \* the table as the requests find it
    Strict       \* NovaConfig.strict_validation

Fields == {"low", "high"}

Num(n)  == [form |-> "number", n |-> n]
Text(n) == [form |-> "text", n |-> n]
Junk    == [form |-> "junk", n |-> 0]
Absent  == [form |-> "absent", n |-> 0]
Blank   == [f \in Fields |-> Absent]

ASSUME WriteConstants ==
    /\ Values \subseteq Nat /\ Default \in Values /\ NewPk \notin Pks
    /\ Inputs \subseteq {Num(v) : v \in Values} \cup {Text(v) : v \in Values} \cup {Junk, Absent}
    /\ DOMAIN Seed \subseteq Pks /\ Strict \in BOOLEAN

VARIABLES
    rows,     \* the table: a function of the primary keys in use
    step, way, pk,
    object,   \* the instance a request works on
    attrs,    \* what it was given, by field
    columns,  \* update_fields, or all
    stale     \* history: rows half of which were written for another half than they have

request   == <<step, way, pk, object, attrs, columns>>
writeVars == <<rows, request, stale>>

----------------------------------------------------------------------------
(* Values and the rules about them.                                        *)

Accepted(v) == v.form \in {"number", "text"}
Cleaned(v)  == IF v.form = "text" THEN Num(v.n) ELSE v
CleanAll(o) == [f \in Fields |-> Cleaned(o[f])]

\* schema.model_validate(): each field by itself, then the rule about both.
Satisfies(o) == (\A f \in Fields : Accepted(o[f])) /\ o["low"].n <= o["high"].n

\* The rows that are there were saved before, in the same way.
ASSUME SeedAssumption == Strict => \A p \in DOMAIN Seed : Satisfies(Seed[p])

Over(o, given) == [f \in Fields |-> IF given[f] = Absent THEN o[f] ELSE given[f]]

\* What the schema, or the model, has for a field that was not given.
WithDefaults(o) == IF o["low"] = Absent THEN [o EXCEPT !["low"] = Num(Default)] ELSE o

----------------------------------------------------------------------------
(* The ways to a save: what is validated first, and what is then saved.    *)

\* _apply_create_defaults(): evaluated once, validated and kept for the save;
\* an update leaves out what was not sent.
ApplyCreateDefaults(r) == IF way[r] = "rest_create" THEN WithDefaults(attrs[r]) ELSE attrs[r]

\* _build_validation_payload(): to_pydantic() of what was loaded, or to_dict()
\* if that fails, under what was sent.
BuildValidationPayload(r) ==
    LET o == object[r]
    IN  IF way[r] = "rest_create" THEN ApplyCreateDefaults(r)
        ELSE Over(IF Satisfies(o) THEN CleanAll(o) ELSE o, attrs[r])

\* validate() of the generated serializer.
SerializerAccepts(r) == Satisfies(BuildValidationPayload(r))

\* clean() of the generated form, which is always complete.
FormAccepts(r) == Satisfies(Over(object[r], attrs[r]))

\* create_item(): every field of the parsed body, its defaults included.
CreateItem(r) == CleanAll(WithDefaults(attrs[r]))

\* schema_to_model(): the fields that were set; the model has the rest.
FromPydantic(r) == WithDefaults(CleanAll(attrs[r]))

\* Application code has nothing of the kind before save().
Transport(r) ==
    CASE way[r] \in {"rest_create", "rest_update"} -> SerializerAccepts(r)
      [] way[r] \in {"fastapi", "from_pydantic"}   -> Satisfies(WithDefaults(attrs[r]))
      [] way[r] = "admin"                          -> FormAccepts(r)
      [] way[r] = "code"                           -> TRUE

\* The instance whose save() is called.
Filled(r) ==
    CASE way[r] = "fastapi"       -> CreateItem(r)
      [] way[r] = "from_pydantic" -> FromPydantic(r)
      [] way[r] \in {"rest_create", "rest_update"} -> Over(object[r], ApplyCreateDefaults(r))
      [] OTHER                    -> Over(object[r], attrs[r])

\* Wrong: only what was sent is looked at.
SentOnly(o, given) == \A f \in Fields : given[f] = Absent \/ Accepted(given[f])

\* _validate_pydantic(): to_pydantic() of the whole instance.
Pydantic(o, given) == Strict => Satisfies(o)

\* _validate_django_fields(): the cleaned values go back onto the instance.
PutBack(o) == CleanAll(o)

DjangoFields(o) == \A f \in Fields : Accepted(o[f])

----------------------------------------------------------------------------
WriteInit ==
    /\ rows = Seed
    /\ step = [r \in Requests |-> "new"]
    /\ way = [r \in Requests |-> "none"]
    /\ pk = [r \in Requests |-> NewPk]
    /\ object = [r \in Requests |-> Blank]
    /\ attrs = [r \in Requests |-> Blank]
    /\ columns = [r \in Requests |-> Fields]
    /\ stale = {}

\* A new instance whatever its primary key, which the body may name.
Schemaful == {"fastapi", "from_pydantic"}

\* The handler or the application starts and loads the object it changes; code
\* may limit the save to some columns.
Begin(r, w, p, given, cols) ==
    /\ step[r] = "new"
    /\ CASE w = "rest_create" -> p = NewPk
         [] w \in Schemaful   -> TRUE
         [] OTHER             -> p \in DOMAIN rows
    /\ w # "code" => cols = Fields
    /\ step' = [step EXCEPT ![r] = "validate"]
    /\ way' = [way EXCEPT ![r] = w]
    /\ pk' = [pk EXCEPT ![r] = p]
    /\ object' = [object EXCEPT ![r] =
         IF p \in DOMAIN rows /\ w \notin Schemaful THEN rows[p] ELSE Blank]
    /\ attrs' = [attrs EXCEPT ![r] = given]
    /\ columns' = [columns EXCEPT ![r] = cols]
    /\ UNCHANGED <<rows, stale>>

\* An exception: the request's instance goes with it.
Ends(r, how) ==
    /\ step' = [step EXCEPT ![r] = how]
    /\ way' = [way EXCEPT ![r] = "none"]
    /\ pk' = [pk EXCEPT ![r] = NewPk]
    /\ object' = [object EXCEPT ![r] = Blank]
    /\ attrs' = [attrs EXCEPT ![r] = Blank]
    /\ columns' = [columns EXCEPT ![r] = Fields]

\* Everything that looks at the instance alone: the transport's validation,
\* then save() with the phases Pydantic, fields and clean().
Validate(r) ==
    /\ step[r] = "validate"
    /\ LET o == Filled(r)
       IN  IF Transport(r) /\ Pydantic(o, attrs[r]) /\ DjangoFields(o)
           THEN /\ object' = [object EXCEPT ![r] = PutBack(o)]
                /\ step' = [step EXCEPT ![r] = "unique"]
                /\ way' = [way EXCEPT ![r] = "none"]
                /\ attrs' = [attrs EXCEPT ![r] = Blank]
                /\ UNCHANGED <<pk, columns>>
           ELSE Ends(r, "refused")
    /\ UNCHANGED <<rows, stale>>

\* Model.clean() is the application's and may refuse.
Refuse(r) ==
    /\ step[r] = "validate"
    /\ Transport(r)
    /\ Ends(r, "refused")
    /\ UNCHANGED <<rows, stale>>

Duplicate(p, v) == \E q \in DOMAIN rows \ {p} : rows[q]["high"] = v

\* validate_unique() and validate_constraints() ask the database.
Unique(r) ==
    /\ step[r] = "unique"
    /\ IF Duplicate(pk[r], Cleaned(object[r]["high"]))
       THEN Ends(r, "refused")
       ELSE /\ step' = [step EXCEPT ![r] = "write"]
            /\ UNCHANGED <<way, pk, object, attrs, columns>>
    /\ UNCHANGED <<rows, stale>>

\* super().save(): UPDATE if the row is there, else INSERT; the index refuses
\* a duplicate that was not there before, and an UPDATE of some columns fails
\* without its row.
Write(r, p) ==
    /\ step[r] = "write"
    /\ IF pk[r] = NewPk THEN p \notin DOMAIN rows ELSE p = pk[r]
    /\ LET new  == CleanAll(object[r])
           kept == IF p \in DOMAIN rows THEN rows[p] ELSE new
           row  == [f \in Fields |-> IF f \in columns[r] THEN new[f] ELSE kept[f]]
       IN  IF Duplicate(p, row["high"]) \/ (columns[r] # Fields /\ p \notin DOMAIN rows)
           THEN /\ Ends(r, "error")
                /\ UNCHANGED <<rows, stale>>
           ELSE /\ step' = [step EXCEPT ![r] = "done"]
                /\ rows' = [q \in DOMAIN rows \cup {p} |-> IF q = p THEN row ELSE rows[q]]
                /\ pk' = [pk EXCEPT ![r] = p]
                /\ stale' = IF row = new THEN stale \ {p} ELSE stale \cup {p}
                /\ UNCHANGED <<way, object, attrs, columns>>

Delete(p) ==
    /\ p \in DOMAIN rows
    /\ rows' = [q \in DOMAIN rows \ {p} |-> rows[q]]
    /\ stale' = stale \ {p}
    /\ UNCHANGED request

WriteNext ==
    \/ \E r \in Requests :
         \/ \E w \in {"rest_create", "rest_update", "fastapi", "from_pydantic", "admin", "code"},
               p \in Pks \cup {NewPk}, given \in [Fields -> Inputs],
               cols \in (SUBSET Fields) \ {{}} : Begin(r, w, p, given, cols)
         \/ Validate(r) \/ Refuse(r) \/ Unique(r)
         \/ \E p \in Pks : Write(r, p)
    \/ \E p \in Pks : Delete(p)

----------------------------------------------------------------------------
WriteTypeOK ==
    /\ DOMAIN rows \subseteq Pks
    /\ \A p \in DOMAIN rows, f \in Fields : rows[p][f] \in {Num(v) : v \in Values}
    /\ stale \subseteq DOMAIN rows
    /\ \A r \in Requests :
        /\ step[r] \in {"new", "validate", "unique", "write", "done", "refused", "error"}
        /\ pk[r] \in Pks \cup {NewPk}

\* A row breaks the schema only if half of it was saved with update_fields for
\* an object whose other half has changed since, in the table or in memory:
\* whatever the requests and their order, a full save() repairs it.
RowsSatisfySchema ==
    Strict => \A p \in DOMAIN rows : Satisfies(rows[p]) \/ p \in stale
=============================================================================
