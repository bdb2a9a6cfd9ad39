-------------------------------- MODULE Forms --------------------------------
(***************************************************************************)
(* Forms (src/cot/src/form.rs, form/fields.rs and the code that            *)
(* #[derive(Form)] generates, src/cot-macros/src/form.rs): what a form     *)
(* makes of the pairs that were sent, how it is shown, and what a browser  *)
(* that was shown it may send.                                             *)
(***************************************************************************)
EXTENDS Integers, SequencesExt

CONSTANTS
  None,
  Text,  \* the strings that occur as values, with what tells them apart
  Names  \* the names that occur, of fields and in pairs

(* bytes: str::len.  units: the length that maxlength counts, in UTF-16.    *)
(* parsed: what str::parse makes of it.  number: what <input type="number"> *)
(* makes of it; where both read a number, it is the same one.               *)
ASSUME TextType ==
  /\ {"", "0", "1"} \subseteq DOMAIN Text
  /\ \A s \in DOMAIN Text :
       /\ Text[s].bytes \in Nat /\ Text[s].units \in Nat
       /\ Text[s].units <= Text[s].bytes
       /\ Text[s].parsed # None /\ Text[s].number # None => Text[s].parsed = Text[s].number
ASSUME NoneIsNoText ==
  None \notin DOMAIN Text \cup {"Required", "MaximumLengthExceeded", "InvalidValue",
                                "BooleanRequiredToBeTrue"}

-----------------------------------------------------------------------------
(* Fields, as the derive macro creates them.  required is not an option of  *)
(* the programmer's: push_field sets it, and only bool resets it.           *)
Field(id, type, optional) ==
  [id |-> id, type |-> type, optional |-> optional, required |-> type # "Bool" \/ optional,
   max_length |-> None, range |-> {}, min |-> 0, max |-> 0, must_be_true |-> FALSE]
StringField(id, optional, max_length) ==
  [Field(id, "String", optional) EXCEPT !.max_length = max_length]
PasswordField(id, max_length) ==
  [Field(id, "Password", FALSE) EXCEPT !.max_length = max_length]
(* range: the values of the Rust type; min and max are its MIN and MAX if   *)
(* the programmer does not set them.                                        *)
IntegerField(id, optional, range, min, max) ==
  [Field(id, "Integer", optional) EXCEPT !.range = range, !.min = min, !.max = max]
BoolField(id, optional, must_be_true) ==
  [Field(id, "Bool", optional) EXCEPT !.must_be_true = must_be_true]

(* A form: every field has a name of its own, and what an integer field is  *)
(* told to accept its type can hold, but for the 0 of a NonZero type.       *)
FormField ==
  [id : Names, type : {"String", "Password", "Integer", "Bool"}, optional : BOOLEAN,
   required : BOOLEAN, max_length : Nat \cup {None}, range : SUBSET Int, min : Int, max : Int,
   must_be_true : BOOLEAN]
IsForm(form) ==
  /\ form \in Seq(FormField)
  /\ \A j, k \in DOMAIN form : form[j].id = form[k].id => j = k
  /\ \A k \in DOMAIN form :
       /\ form[k].required = (form[k].type # "Bool" \/ form[k].optional)
       /\ form[k].type = "Integer" => form[k].min..form[k].max \subseteq form[k].range \cup {0}

Cleaned(value) == [error |-> None, value |-> value]
Refused(error) == [error |-> error, value |-> None]

(* clean_value of each type, for a value that is there.                     *)
CleanString(field, value) ==
  IF field.max_length # None /\ Text[value].bytes > field.max_length
  THEN Refused("MaximumLengthExceeded") ELSE Cleaned(value)

CleanInteger(field, value) ==
  LET n == Text[value].parsed
  IN IF n # None /\ n \in field.range
     THEN Cleaned(n) ELSE Refused("InvalidValue")

CleanBool(field, value) ==
  IF value \in {"true", "on", "1"} THEN Cleaned(TRUE)
  ELSE IF value \notin {"false", "off", "0"} THEN Refused("InvalidValue")
  ELSE IF field.must_be_true THEN Refused("BooleanRequiredToBeTrue") ELSE Cleaned(FALSE)

(* check_required, and Option<T> around it.                                 *)
clean_value(field, value) ==
  IF value \in {None, ""}
  THEN IF field.optional THEN Cleaned(None) ELSE Refused("Required")
  ELSE CASE field.type \in {"String", "Password"} -> CleanString(field, value)
         [] field.type = "Integer" -> CleanInteger(field, value)
         [] field.type = "Bool" -> CleanBool(field, value)

-----------------------------------------------------------------------------
(* The context: the value of each field.                                    *)
NewContext(form) == [k \in DOMAIN form |-> None]
(* Mutant: a value that is there is not replaced.                           *)
SetOnce(form, context, pair) ==
  [k \in DOMAIN form |-> IF form[k].id = pair[1] /\ context[k] = None THEN pair[2] ELSE context[k]]
set_value(form, context, pair) ==
  [k \in DOMAIN form |-> IF form[k].id = pair[1] THEN pair[2] ELSE context[k]]
build_context(form, pairs) ==
  FoldLeft(LAMBDA context, pair : set_value(form, context, pair), NewContext(form), pairs)

(* from_request: every field is cleaned, and every error is reported.       *)
from_request(form, pairs) ==
  LET context == build_context(form, pairs)
      cleaned == [k \in DOMAIN form |-> clean_value(form[k], context[k])]
  IN [context |-> context,
      errors |-> [k \in DOMAIN form |-> cleaned[k].error],
      values |-> [k \in DOMAIN form |-> cleaned[k].value]]
has_errors(result) == \E k \in DOMAIN result.errors : result.errors[k] # None

-----------------------------------------------------------------------------
(* The controls that a field is shown as.                                   *)
Control(type, field) ==
  [type |-> type, required |-> field.required, value |-> None,
   maxlength |-> field.max_length, min |-> field.min, max |-> field.max]
ShowBool(field) ==
  LET box == [Control("checkbox", field) EXCEPT !.required = field.must_be_true, !.value = "1"]
      hidden == [Control("hidden", field) EXCEPT !.required = FALSE, !.value = "0"]
  IN IF field.must_be_true THEN <<box>> ELSE <<hidden, box>>
Show(field) ==
  CASE field.type = "String" -> <<Control("text", field)>>
    [] field.type = "Password" -> <<Control("password", field)>>
    [] field.type = "Integer" -> <<Control("number", field)>>
    [] field.type = "Bool" -> ShowBool(field)

(* Whether a browser accepts what the user entered into a control (a string *)
(* or, for a box, its state), and what it sends for it.          *)
Accepts(control, entered) ==
  CASE control.type \in {"text", "password"} ->
         /\ control.required => entered # ""
         /\ control.maxlength # None => Text[entered].units <= control.maxlength
    [] control.type = "number" ->
         IF entered = "" THEN ~control.required
         ELSE Text[entered].number # None /\ Text[entered].number \in control.min..control.max
    [] control.type = "checkbox" -> control.required => entered = "ticked"
    [] control.type = "hidden" -> TRUE
Sends(id, control, entered) ==
  CASE control.type = "hidden" -> <<<<id, control.value>>>>
    [] control.type = "checkbox" -> IF entered = "ticked" THEN <<<<id, control.value>>>> ELSE <<>>
    [] OTHER -> <<<<id, entered>>>>

Entries(field) == IF field.type = "Bool" THEN {"ticked", "empty"} ELSE DOMAIN Text
(* What the user can get the browser to send, and the pairs that are sent.  *)
Submits(form, entered) ==
  \A k \in DOMAIN form : LET shown == Show(form[k])
                         IN \A j \in DOMAIN shown : Accepts(shown[j], entered[k])
Part(field, entered) ==
  LET shown == Show(field)
  IN FlattenSeq([j \in DOMAIN shown |-> Sends(field.id, shown[j], entered)])
Submitted(form, entered) ==
  FlattenSeq([k \in DOMAIN form |-> Part(form[k], entered[k])])
(* What was entered into the form, and what the browser has sent for it.    *)
SentByBrowser(form, entered, pairs) ==
  /\ DOMAIN entered = DOMAIN form
  /\ \A k \in DOMAIN form : entered[k] \in Entries(form[k])
  /\ Submits(form, entered)
  /\ pairs = Submitted(form, entered)
=============================================================================
