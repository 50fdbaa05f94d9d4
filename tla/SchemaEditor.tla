---------------------------- MODULE SchemaEditor ----------------------------
(***************************************************************************)
(* ParameterSchemaEditor: the fields an automation declares, written one   *)
(* by one or inferred from an example of its parameters.  A pasted text is *)
(* an object, as the sequence of its entries, or one of the texts that are *)
(* none.                                                                   *)
(***************************************************************************)
EXTENDS ParameterForm

CONSTANTS
    EditorActs,   \* bounds the model: what the user does in the editor
    MaxFields     \* bounds the model: the fields of a schema

ASSUME EditorBounds == EditorActs \in Nat

Names == {"", "a", "b"}

(* Example values the form has no shape for: lists of both kinds, objects. *)
Mixed  == Value("mixed", Plain(<<"0", Word>>))
Nested == Value("object", Plain(<<Word>>))
Sample == Stored \cup {Mixed, Nested, String(Blank), Array("number", <<>>),
                       Array("text", <<DatePlaceholder>>)}

Entry(name, v) == [name |-> name, value |-> v]
Objects == {<<>>} \cup {<<Entry("a", v)>> : v \in Sample}
           \cup {<<Entry("b", v), Entry("a", Bool(TRUE))>> : v \in Sample}

Nothing  == [json |-> "none", entries |-> <<>>]
Pastable == {Nothing, [json |-> "broken", entries |-> <<>>], [json |-> "array", entries |-> <<>>]}
            \cup [json : {"object"}, entries : Objects]

(* Where a field comes from is not in the code: the example value it was   *)
(* inferred from, until its type is changed.                               *)
Unknown == [unknown |-> TRUE]

Field(name, type, itemType, from) ==
    [name |-> name, type |-> type, itemType |-> itemType, required |-> FALSE,
     options |-> <<>>, from |-> from]

-----------------------------------------------------------------------------
(* Inference *)

AllNumbers(v) == v.type = "numbers"

(* Mutant: every list is one of texts. *)
InferFieldTexts(name, v) ==
    Field(name, CASE v.type \in {"true", "false"} -> "boolean"
                  [] v.type = "number" -> "number"
                  [] v.type = "string" /\ v.text \in {Iso, Br} -> "date"
                  [] v.type \in {"numbers", "texts", "mixed"} -> "list"
                  [] OTHER -> "text", "text", v)

InferField(name, v) ==
    Field(name, CASE v.type \in {"true", "false"} -> "boolean"
                  [] v.type = "number" -> "number"
                  [] v.type = "string" /\ v.text \in {Iso, Br} -> "date"
                  [] v.type \in {"numbers", "texts", "mixed"} -> "list"
                  [] OTHER -> "text", IF AllNumbers(v) THEN "number" ELSE "text", v)

SchemaFromJson(object) ==
    [i \in 1..Len(object) |-> InferField(object[i].name, object[i].value)]

-----------------------------------------------------------------------------
(* The editor *)

EditorInit ==
    /\ ui = [page |-> "editor", fields |-> <<>>, pasting |-> FALSE, pasted |-> Nothing,
             error |-> FALSE]
    /\ srv = [none |-> TRUE]
    /\ left = Bounds(EditorActs)

OnEditor == ui.page = "editor"

Show(next) == Act /\ ui' = next /\ UNCHANGED srv

AddField ==
    /\ OnEditor /\ Len(ui.fields) < MaxFields
    /\ Show([ui EXCEPT !.fields = Append(@, Field("", "text", "text", Unknown))])

RemoveField ==
    /\ OnEditor
    /\ \E i \in DOMAIN ui.fields : Show([ui EXCEPT !.fields = RemoveAt(@, i)])

Replace(i, field) == Show([ui EXCEPT !.fields[i] = field])

(* The controls of a row; the last two are there for some types only. *)
NameField ==
    OnEditor /\ \E i \in DOMAIN ui.fields, n \in Names :
        Replace(i, [ui.fields[i] EXCEPT !.name = n])

RetypeField ==
    OnEditor /\ \E i \in DOMAIN ui.fields, t \in Types :
        Replace(i, [ui.fields[i] EXCEPT !.type = t, !.from = Unknown])

RequireField ==
    OnEditor /\ \E i \in DOMAIN ui.fields :
        Replace(i, [ui.fields[i] EXCEPT !.required = ~@])

SetOptions ==
    OnEditor /\ \E i \in DOMAIN ui.fields, o \in {<<>>, Option.items} :
        /\ ui.fields[i].type \in {"select", "multiselect"}
        /\ Replace(i, [ui.fields[i] EXCEPT !.options = o])

SetItemType ==
    OnEditor /\ \E i \in DOMAIN ui.fields, t \in {"number", "text"} :
        /\ ui.fields[i].type \in {"list", "multiselect"}
        /\ Replace(i, [ui.fields[i] EXCEPT !.itemType = t, !.from = Unknown])

TogglePaste == OnEditor /\ Show([ui EXCEPT !.pasting = ~@, !.error = FALSE])

Paste ==
    /\ OnEditor /\ ui.pasting
    /\ \E text \in Pastable : Show([ui EXCEPT !.pasted = text])

(* An object replaces the fields or follows them; names already there are  *)
(* not looked at.  Anything else leaves the box open with an error.        *)
ApplyPaste ==
    /\ OnEditor /\ ui.pasting /\ ui.pasted # Nothing
    /\ \E kept \in {<<>>, ui.fields} :
         IF ui.pasted.json = "object"
         THEN /\ Len(kept) + Len(ui.pasted.entries) <= MaxFields
              /\ Show([ui EXCEPT !.fields = kept \o SchemaFromJson(ui.pasted.entries),
                                 !.pasted = Nothing, !.error = FALSE, !.pasting = FALSE])
         ELSE Show([ui EXCEPT !.error = TRUE])

EditorNext ==
    \/ AddField \/ RemoveField \/ NameField \/ RetypeField \/ RequireField
    \/ SetOptions \/ SetItemType \/ TogglePaste \/ Paste \/ ApplyPaste

EditorSpec == EditorInit /\ [][EditorNext]_webVars

-----------------------------------------------------------------------------
(* Properties *)

(* What the form sends for an example value when nobody touches it: dates  *)
(* go out as DD/MM/YYYY and nothing goes out for a blank; the form has no  *)
(* shape for lists of both kinds and objects, and takes a list with a      *)
(* placeholder for a text.                                                 *)
Carried(v) == /\ v \notin {Mixed, Nested, String(Blank)} /\ ~EmptyArray(v)
              /\ ~(IsArray(v) /\ HasPlaceholder(v.text))

InBrDates(v) == IF v = String(Iso) THEN String(Br) ELSE v

(* A field inferred from an example gives the example back through the     *)
(* form, whatever else is done to the schema.                              *)
SampleComesBack ==
    OnEditor => \A i \in DOMAIN ui.fields :
        LET f == ui.fields[i]
        IN f.from # Unknown /\ Carried(f.from) =>
               Sends(f, InitialDisplay(f, f.from)) = InBrDates(f.from)

=============================================================================
