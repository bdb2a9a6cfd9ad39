------------------------ MODULE PathParamsDeserializer ------------------------
(***************************************************************************)
(* What a view gets when it asks for the parameters of its path as a value *)
(* of some type (src/cot/src/request/path_params_deserializer.rs, through  *)
(* PathParams::parse): the calls of serde's derived and built-in           *)
(* Deserialize implementations, answered from the parameters.              *)
(***************************************************************************)
EXTENDS Router

(* A type: its kind, the types inside of it, and the names of the fields of *)
(* a struct or the variants of an enum.                                     *)
Type(kind, of, names) == [kind |-> kind, of |-> of, names |-> names]
String == Type("String", <<>>, <<>>)
U64 == Type("u64", <<>>, <<>>)
Unit == Type("unit", <<>>, <<>>)
Enum(variants) == Type("enum", <<>>, variants)
Option(type) == Type("Option", <<type>>, <<>>)
Newtype(type) == Type("newtype", <<type>>, <<>>)
Vector(type) == Type("seq", <<type>>, <<>>)
Map(type) == Type("map", <<type>>, <<>>)
Tuple(types) == Type("tuple", types, <<>>)
Struct(names, types) == Type("struct", types, names)

Ok(value) == [error |-> None, value |-> value]
Err(error) == [error |-> error, value |-> None]
UnsupportedType == Err("UnsupportedType")
InvalidParamNumber == Err("InvalidParamNumber")
(* The first error, or the values of all.                                   *)
Each(results) ==
  LET errors == {k \in DOMAIN results : results[k].error # None}
  IN IF errors = {} THEN Ok([k \in DOMAIN results |-> results[k].value])
     ELSE results[Min(errors)]

IsNumber(text) == text # <<>> /\ ToSet(text) \subseteq Digit
Number(text) ==
  FoldLeft(LAMBDA n, digit : 10 * n + (CHOOSE d \in 0..9 : ToString(d) = digit), 0, text)

(* str::parse, and the identifier of a variant.                             *)
deserialize_value(type, text) ==
  CASE type.kind = "String" -> Ok(text)
    [] type.kind = "u64" -> IF IsNumber(text) THEN Ok(Number(text)) ELSE Err("ParseError")
    [] type.kind = "enum" -> IF text \in ToSet(type.names) THEN Ok(text) ELSE Err("Custom")
Scalar == {"String", "u64", "enum"}

(* One parameter, key and value; or, without a key, one of the two.         *)
RECURSIVE ValueDeserializer(_, _, _)
ValueDeserializer(type, key, text) ==
  CASE type.kind \in Scalar -> deserialize_value(type, text)
    [] type.kind = "unit" -> Ok(<<>>)
    [] type.kind \in {"Option", "newtype"} -> ValueDeserializer(type.of[1], key, text)
    [] type.kind = "tuple" ->
         IF key # None /\ Len(type.of) = 2
         THEN Each(<<ValueDeserializer(type.of[1], None, key), ValueDeserializer(type.of[2], None, text)>>)
         ELSE UnsupportedType
    [] type.kind \in {"seq", "map", "struct"} -> UnsupportedType

Element(type, pair) == ValueDeserializer(type, pair[1], pair[2])
SequenceDeserializer(types, pairs) == Each([k \in DOMAIN pairs |-> Element(types[k], pairs[k])])
(* A map has all parameters, by their names.                                *)
KeyAndValue(type, pair) == Each(<<ValueDeserializer(String, None, pair[1]), Element(type, pair)>>)
(* A struct takes the parameters that are fields of it and skips others; a  *)
(* field that is missing is None if it is an Option.                        *)
MapDeserializer(type, pairs) ==
  LET fields(k) == {i \in DOMAIN type.names : type.names[i] = pairs[k][1]}
      found(i) == {k \in DOMAIN pairs : i \in fields(k)}
      taken == Each([k \in DOMAIN pairs |->
                 IF fields(k) = {} THEN Ok(None) ELSE Element(type.of[Min(fields(k))], pairs[k])])
  IN  IF taken.error # None THEN taken
      ELSE Each([i \in DOMAIN type.names |->
             IF found(i) # {} THEN Ok(taken.value[Min(found(i))])
             ELSE IF type.of[i].kind = "Option" THEN Ok(None) ELSE Err("Custom")])

(* PathParams::parse, of the parameters in their order.                     *)
RECURSIVE parse(_, _)
parse(type, pairs) ==
  CASE type.kind \in Scalar ->
         IF Len(pairs) = 1 THEN deserialize_value(type, pairs[1][2]) ELSE InvalidParamNumber
    [] type.kind = "unit" -> Ok(<<>>)
    [] type.kind = "Option" -> UnsupportedType
    [] type.kind = "newtype" -> parse(type.of[1], pairs)
    [] type.kind = "seq" -> SequenceDeserializer([k \in DOMAIN pairs |-> type.of[1]], pairs)
    [] type.kind = "map" -> Each([k \in DOMAIN pairs |-> KeyAndValue(type.of[1], pairs[k])])
    [] type.kind = "tuple" ->
         IF Len(type.of) = Len(pairs) THEN SequenceDeserializer(type.of, pairs)
         ELSE InvalidParamNumber
    [] type.kind = "struct" ->
         IF Len(type.of) = Len(pairs) THEN MapDeserializer(type, pairs) ELSE InvalidParamNumber

-----------------------------------------------------------------------------
(* What a view reads from its path as a value of some type is what was      *)
(* given to reverse!: by the names of the fields of a struct, in any order, *)
(* and otherwise in the order of the pattern; where a text is not of the    *)
(* type of its field nothing is read.  A tuple needs a place for each name, *)
(* not for each time that the pattern has it.                               *)
FieldTypes == {String, U64, Option(Newtype(String)), Enum(<< <<"a">> >>)}
OfType(type, text) ==
  /\ type = U64 => IsNumber(text)
  /\ type.kind = "enum" => text = <<"a">>
Orders == {f \in [DOMAIN params -> DOMAIN params] : IsInjective(f)}
ReadAsGiven ==
  LET given(i) == asked.args[params[i][1]]
      read(type, i) == IF type = U64 THEN Number(given(i)) ELSE given(i)
      pairs == [i \in DOMAIN params |-> <<params[i][1], given(i)>>]
      places == SelectSeq(PartsOf(Chain), IsParam)
  IN  /\ \A order \in Orders, types \in [DOMAIN params -> FieldTypes] :
           LET names == [i \in DOMAIN params |-> params[order[i]][1]]
               result == parse(Struct(names, types), params)
           IN  IF \A i \in DOMAIN params : OfType(types[i], given(order[i]))
                 THEN result = Ok([i \in DOMAIN params |-> read(types[i], order[i])])
                 ELSE result.error # None
      /\ parse(Map(String), params) = Ok(pairs)
      /\ parse(Vector(Tuple(<<String, String>>)), params) = Ok(pairs)
      /\ LET result == parse(Tuple([k \in DOMAIN places |-> String]), params)
         IN  IF Len(places) = Len(params)
               THEN result = Ok([i \in DOMAIN params |-> given(i)])
               ELSE result = InvalidParamNumber

(* A URL that reverse makes leads back to the view of that name, with the   *)
(* same parameters, which the view reads as what they were given as, unless *)
(* a route before it takes the same path.                                   *)
ReversedLeadsBack ==
  /\ LeadsBack
  /\ Reached /\ ~Earlier(Chain, asked.chain) => ReadAsGiven
===============================================================================
