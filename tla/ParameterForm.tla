---------------------------- MODULE ParameterForm ----------------------------
(***************************************************************************)
(* DynamicParameterForm: one field of a schema, the control that shows it, *)
(* what the user types and what is sent; the form is then opened again on  *)
(* what was sent.  The fields of a form do not depend on each other.       *)
(*                                                                         *)
(* A text is a date, written one way or the other, or the items it lists   *)
(* between commas: numbers, words and placeholders.                        *)
(***************************************************************************)
EXTENDS Page

Numbers     == {"0", "4814"}
Word        == "word"
DatePlaceholder == "{{today}}"
TextItems       == Numbers \cup {Word, DatePlaceholder}

Plain(items) == [form |-> "plain", items |-> items]
Blank == Plain(<<>>)
Iso   == [form |-> "iso", items |-> <<"date">>]
Br    == [form |-> "br", items |-> <<"date">>]

Texts == {Iso, Br} \cup {Plain(s) : s \in UNION {[1..n -> TextItems] : n \in 0..2}}

HasPlaceholder(text) == DatePlaceholder \in ToSet(text.items)
IsNumber(text) == text.form = "plain" /\ Len(text.items) = 1 /\ text.items[1] \in Numbers

(* JSON values; the elements of an array are its text's items. *)
Value(type, text) == [type |-> type, text |-> text]
Null     == Value("null", Blank)
Bool(b)  == Value(IF b THEN "true" ELSE "false", Blank)
String(text)  == Value("string", text)
Numeric(text) == Value("number", text)
Array(of, items) == Value(IF of = "number" THEN "numbers" ELSE "texts", Plain(items))

IsArray(v) == v.type \in {"numbers", "texts"}

Types == {"text", "date", "number", "select", "boolean", "list", "multiselect"}

Fields == [type : Types, itemType : {"number", "text"}, required : BOOLEAN]

Option == Plain(<<"4814">>)   \* what a select or multiselect offers

-----------------------------------------------------------------------------
(* In and out of the form. *)

IsoToBr(text) == IF text = Iso THEN Br ELSE text
BrToIso(text) == IF text = Br THEN Iso ELSE text

(* Mutant: what is false is taken for missing. *)
MissingIfFalsy(v) == v \in {Null, Bool(FALSE), Numeric(Plain(<<"0">>)), String(Blank)}

Missing(v) == v = Null

(* Text stands for every display but the checkbox, which is a value. *)
InitialDisplay(field, v) ==
    IF field.type = "boolean"
    THEN Bool(/\ v.type \notin {"null", "false"}
              /\ v # Numeric(Plain(<<"0">>)) /\ v # String(Blank))
    ELSE IF Missing(v) THEN String(Blank)
    ELSE IF v.type \in {"true", "false"} THEN String(Plain(<<Word>>))
    ELSE IF field.type = "date" /\ v.type = "string" /\ ~HasPlaceholder(v.text)
         THEN String(BrToIso(v.text)) ELSE String(v.text)

(* The items that are in keep, in their order.  Written out, since proofs  *)
(* cannot unfold SelectSeq.                                                *)
Filtered(items, keep) ==
    LET kept[n \in 0..Len(items)] ==
            IF n = 0 THEN <<>>
            ELSE IF items[n] \in keep THEN Append(kept[n - 1], items[n]) ELSE kept[n - 1]
    IN kept[Len(items)]

ParseList(text, itemType) ==
    Array(itemType, IF itemType = "number" THEN Filtered(text.items, Numbers) ELSE text.items)

(* Mutant: dates go out as the control has them. *)
CoerceKeepingIso(field, raw) ==
    LET text == raw.text
    IN IF field.type = "boolean" THEN Bool(raw.type = "true")
       ELSE IF text = Blank THEN Null
       ELSE IF HasPlaceholder(text) THEN String(text)
       ELSE CASE field.type = "number" -> IF IsNumber(text) THEN Numeric(text) ELSE String(text)
              [] field.type \in {"list", "multiselect"} -> ParseList(text, field.itemType)
              [] OTHER -> String(text)

Coerce(field, raw) ==
    LET text == raw.text
    IN IF field.type = "boolean" THEN Bool(raw.type = "true")
       ELSE IF text = Blank THEN Null
       ELSE IF HasPlaceholder(text) THEN String(text)
       ELSE CASE field.type = "number" -> IF IsNumber(text) THEN Numeric(text) ELSE String(text)
              [] field.type = "date" -> String(IsoToBr(text))
              [] field.type \in {"list", "multiselect"} -> ParseList(text, field.itemType)
              [] OTHER -> String(text)

EmptyArray(v) == IsArray(v) /\ v.text = Blank

(* What handleSubmit sends of a field; Null where it leaves it out. *)
Sends(field, raw) ==
    LET v == Coerce(field, raw)
    IN IF EmptyArray(v) /\ ~field.required THEN Null ELSE v

-----------------------------------------------------------------------------
(* The form.  Schedules allow placeholders, manual execution does not.     *)

CanToggleDynamic(field, allowDynamic) == allowDynamic /\ field.type \in {"date", "number"}

InitialDynamic(field, allowDynamic, v) ==
    CanToggleDynamic(field, allowDynamic) /\ v.type = "string" /\ HasPlaceholder(v.text)

Opened(field, allowDynamic, saved, edited) ==
    [page |-> "form", field |-> field, allowDynamic |-> allowDynamic, saved |-> saved,
     sent |-> edited, raw |-> InitialDisplay(field, saved),
     dynamic |-> InitialDynamic(field, allowDynamic, saved)]

(* What is stored need not come from this form: the API takes any value,   *)
(* and the type of a field can be changed after it was filled.             *)
Stored == {Null, Bool(TRUE), Bool(FALSE), Array("number", <<"4814", "0">>), Array("text", <<Word>>)}
          \cup {Numeric(Plain(<<n>>)) : n \in Numbers}
          \cup {String(t) : t \in {Iso, Br, Plain(<<Word>>), Plain(<<"0">>),
                                   Plain(<<DatePlaceholder>>)}}

FormInit ==
    /\ \E field \in Fields, allowDynamic \in BOOLEAN, saved \in Stored :
         ui = Opened(field, allowDynamic, saved, FALSE)
    /\ srv = [none |-> TRUE]
    /\ left = Bounds(0)

OnForm == ui.page = "form"

Set(raw) == ui' = [ui EXCEPT !.raw = raw] /\ Free /\ UNCHANGED srv

Control == IF ui.dynamic \/ ui.field.type \in {"text", "list"} THEN "free" ELSE ui.field.type

(* What a control lets its user enter. *)
Enterable ==
    CASE Control = "free"   -> Texts
      [] Control = "date"   -> {Iso, Blank}
      [] Control = "number" -> {Plain(<<n>>) : n \in Numbers} \cup {Blank}
      [] Control = "select" -> {Option, Blank}
      [] OTHER              -> {}

Enter == OnForm /\ \E t \in Enterable : Set(String(t))

Check == OnForm /\ Control = "boolean" /\ Set(Bool(ui.raw.type = "false"))

(* MultiSelectField: the items without repetition. *)
SplitSelected(text) ==
    LET items == text.items
        firsts == {i \in 1..Len(items) : ~\E j \in 1..i - 1 : items[j] = items[i]}
        kept == Filtered([i \in 1..Len(items) |-> i], firsts)
    IN [k \in 1..Len(kept) |-> items[kept[k]]]

Selected == SplitSelected(ui.raw.text)

(* A chip takes its item out, or the option in. *)
ToggleChip ==
    /\ OnForm /\ Control = "multiselect"
    /\ \E i \in ToSet(Selected) \cup ToSet(Option.items) :
         Set(String(Plain(IF i \in ToSet(Selected)
                          THEN Filtered(Selected, ToSet(Selected) \ {i})
                          ELSE Append(Selected, i))))

(* The model adds no third item. *)
AddCustom ==
    /\ OnForm /\ Control = "multiselect" /\ Len(Selected) < 2
    /\ \E i \in TextItems \ ToSet(Selected) : Set(String(Plain(Append(Selected, i))))

SetDynamic ==
    /\ OnForm /\ CanToggleDynamic(ui.field, ui.allowDynamic)
    /\ ui' = [ui EXCEPT !.dynamic = ~@, !.raw = String(Blank)]
    /\ Free /\ UNCHANGED srv

(* What the browser's validation sees: a native control shows nothing when *)
(* the value is none of its own.  The multiselect has no required control, *)
(* and the form sets it on no checkbox.                                    *)
Visible == IF Control \in {"date", "number", "select"} => ui.raw.text \in Enterable
           THEN ui.raw.text ELSE Blank

SubmitValues ==
    /\ OnForm
    /\ ui.field.required /\ Control \notin {"multiselect", "boolean"} => Visible # Blank
    /\ ui' = Opened(ui.field, ui.allowDynamic, Sends(ui.field, ui.raw), TRUE)
    /\ Free /\ UNCHANGED srv

Reopen ==
    /\ OnForm
    /\ ui' = Opened(ui.field, ui.allowDynamic, ui.saved, ui.sent)
    /\ Free /\ UNCHANGED srv

FormNext == Enter \/ Check \/ ToggleChip \/ AddCustom \/ SetDynamic \/ SubmitValues \/ Reopen

FormSpec == FormInit /\ [][FormNext]_webVars

-----------------------------------------------------------------------------
(* Properties *)

(* Opening what the form has sent and sending it again changes nothing,    *)
(* but that a list of which nothing was left may go missing.               *)
Resent == Sends(ui.field, InitialDisplay(ui.field, ui.saved))

ReopenKeeps ==
    OnForm /\ ui.sent => \/ Resent = ui.saved
                         \/ EmptyArray(ui.saved) /\ Resent = Null

(* A worker finds lists of the declared kind and dates as DD/MM/YYYY in    *)
(* what the form has sent, or a placeholder for the scheduler, or words    *)
(* someone typed in the free text of a date.                               *)
WellTyped(field, v) ==
    \/ v = Null
    \/ v.type = "string" /\ HasPlaceholder(v.text)
    \/ field.type \in {"list", "multiselect"} /\ v = Array(field.itemType, v.text.items)
    \/ field.type = "date" /\ v.type = "string" /\ v.text # Iso
    \/ field.type \in {"text", "select"} /\ v.type = "string"
    \/ field.type = "number" /\ v.type \in {"number", "string"}
    \/ field.type = "boolean" /\ v.type \in {"true", "false"}

SentWellTyped == OnForm /\ ui.sent => WellTyped(ui.field, ui.saved)

=============================================================================
