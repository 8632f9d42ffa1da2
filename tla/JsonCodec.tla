----------------------------- MODULE JsonCodec -----------------------------
(***************************************************************************)
(* The JSON codecs the code generator emits for messages: gen-typescript   *)
(* for the page and for hosts in TypeScript, gen-swift for the iOS host,   *)
(* gen-kotlin for the Android host.  Each writes and reads one field at a  *)
(* time, by the field's type and label, so a message is modelled by one of *)
(* its fields.                                                             *)
(*                                                                         *)
(* The value of a field is a sequence of data: one for a plain field, at   *)
(* most one for an optional field and for the member of a oneof, any       *)
(* number for a repeated field.  On the wire it is a sequence of JSON      *)
(* items, empty when the key is absent (an empty array reads the same).    *)
(***************************************************************************)
EXTENDS Naturals, Sequences

CONSTANT MaxRepeated   \* bound on the length of a repeated field

ASSUME MaxRepeatedAssumption == MaxRepeated \in Nat

(* The scalar types, by what the generators tell apart.  An "empty"        *)
(* message has neither fields nor a oneof, a "choice" has only a oneof.    *)
Wide     == {"int64"}                      \* int64, uint64, sint64, fixed64, sfixed64
Narrow   == {"int32", "uint32", "double"}  \* what JavaScript holds in a number
Messages == {"message", "empty", "choice"}
Types    == Wide \cup Narrow \cup Messages \cup {"string", "bytes", "bool", "enum"}

(* beside: a plain field of a message that also has a oneof. *)
Labels == {"plain", "optional", "repeated", "oneof", "beside"}
Field  == [type : Types, label : Labels]

(* zero is the default of a type; big does not fit a JavaScript number;    *)
(* newer is an enum value the reader's schema does not have; latin is text *)
(* beyond ASCII, unicode text beyond Latin-1; rounded, garbled and alien   *)
(* are what only a reader may see.                                         *)
Data(type) ==
  CASE type \in Wide                    -> {"zero", "one", "some", "big"}
    [] type \in Narrow                  -> {"zero", "one", "some"}
    [] type = "enum"                    -> {"zero", "one", "some", "newer"}
    [] type = "bool"                    -> {"zero", "one"}
    [] type = "empty"                   -> {"zero"}
    [] type = "string"                  -> {"zero", "some", "latin", "unicode"}
    [] OTHER                            -> {"zero", "some"}
Rounded == "rounded"
Garbled == "garbled"
Alien   == "alien"   \* a value of another type than the field's

Values(f) ==
  CASE f.label \in {"plain", "beside"}   -> [1..1 -> Data(f.type)]
    [] f.label \in {"optional", "oneof"} -> UNION {[1..n -> Data(f.type)] : n \in 0..1}
    [] f.label = "repeated"              -> UNION {[1..n -> Data(f.type)] : n \in 0..MaxRepeated}

(* JSON items; a bigint and a buffer exist only where structured clone     *)
(* carries them.                                                           *)
Item(is, of) == [is |-> is, of |-> of]
Each(v, Op(_)) == [i \in DOMAIN v |-> Op(v[i])]

(* An absent plain field is its default. *)
Default(f) == IF f.label \in {"plain", "beside"} THEN <<"zero">> ELSE <<>>

(***************************************************************************)
(* TypeScript.                                                             *)
(***************************************************************************)

(* What the encoder makes of a datum. *)
TsKind(type) ==
  CASE type \in Wide \cup {"string", "bytes"} -> "text"
    [] type \in Narrow \cup {"enum"}          -> "number"
    [] type = "bool"                          -> "bool"
    [] type \in Messages                      -> "object"

(* A plausible slip: the zero guard is applied to optional fields too. *)
TsOmitsMore(f, v) == v = <<"zero">> /\ f.type \notin Messages

(* proto3ZeroGuard: a default is left out, a message never is. *)
TsOmits(f, v) ==
  f.label \in {"plain", "beside"} /\ v = <<"zero">> /\ f.type \notin Messages

TsWriteField(f, v) ==
  IF TsOmits(f, v) THEN <<>> ELSE Each(v, LAMBDA d : Item(TsKind(f.type), d))

(* The member of a oneof is put into the object as it is, unless it is a   *)
(* message.                                                                *)
TsRawKind(type) ==
  CASE type \in Wide     -> "bigint"
    [] type = "bytes"    -> "buffer"
    [] OTHER             -> TsKind(type)

TsWriteOneof(f, v) == Each(v, LAMBDA d : Item(TsRawKind(f.type), d))

(* The typeof tests of a field: a wide integer may come as any of three.   *)
TsTakes(type, is) == is = TsKind(type) \/ (type \in Wide /\ is \in {"number", "bigint"})

(* A singular field that fails its test keeps its default; the elements of *)
(* an array are cast, those of wide integers fall back to 0n.              *)
TsReadField(f, w) ==
  IF f.label = "repeated"
  THEN Each(w, LAMBDA j : IF TsTakes(f.type, j.is) THEN j.of
                          ELSE IF f.type \in Wide THEN "zero" ELSE Alien)
  ELSE IF w # <<>> /\ TsTakes(f.type, w[1].is) THEN <<w[1].of>> ELSE Default(f)

(* The member of a oneof is cast to its type, unless it is a message. *)
TsReadOneof(f, w) == Each(w, LAMBDA j : IF j.is = TsRawKind(f.type) THEN j.of ELSE Alien)

TsWrite(f, v) == IF f.label = "oneof" THEN TsWriteOneof(f, v) ELSE TsWriteField(f, v)
TsRead(f, w)  == IF f.label = "oneof" THEN TsReadOneof(f, w) ELSE TsReadField(f, w)

(* Without codecs, the default, objects go as they are: nothing is left    *)
(* out, and a oneof is an object of its own with a case and a value, where *)
(* a codec looks for a key by the member's name.                           *)
TsRawWrite(f, v) ==
  Each(v, LAMBDA d : Item(IF f.label = "oneof" THEN "union" ELSE TsRawKind(f.type), d))

TsRawRead(f, w) ==
  IF w = <<>> /\ f.label \in {"plain", "beside"} THEN <<Alien>>
  ELSE Each(w, LAMBDA j : IF j.is \in {"union", TsRawKind(f.type)} THEN j.of ELSE Alien)

Keyed(w) == IF \E i \in DOMAIN w : w[i].is = "union" THEN <<>> ELSE w

(***************************************************************************)
(* Kotlin.                                                                 *)
(***************************************************************************)

(* A plausible slip: a Long is put as a number. *)
KtKindNumbers(type) ==
  CASE type \in {"string", "bytes", "uint32"}    -> "text"
    [] type \in Wide \cup {"int32", "double", "enum"} -> "number"
    [] type = "bool"                             -> "bool"
    [] type \in Messages                         -> "object"

(* An unsigned Int is put as an object that org.json does not know, and so *)
(* is written as a string.                                                 *)
KtKind(type) ==
  CASE type \in Wide \cup {"string", "bytes", "uint32"} -> "text"
    [] type \in {"int32", "double", "enum"}      -> "number"
    [] type = "bool"                             -> "bool"
    [] type \in Messages                         -> "object"

KtWriteField(f, v) ==
  IF f.label \in {"plain", "beside"} /\ v = <<"zero">> /\ f.type \notin Messages
  THEN <<>> ELSE Each(v, LAMBDA d : Item(KtKind(f.type), d))

KtWriteOneof(f, v) == Each(v, LAMBDA d : Item(KtKind(f.type), d))

(* fromValue: a value the enum does not have is its first. *)
KtEnum(d) == IF d = "newer" THEN "zero" ELSE d

(* The getters of org.json convert between strings and numbers; a buffer   *)
(* that went through JSON is no base64.                                    *)
KtGet(type, j) ==
  CASE j.is = "indexed" -> Alien
    [] type = "enum"    -> KtEnum(j.of)
    [] OTHER            -> j.of

KtReadField(f, w) ==
  IF w = <<>> THEN Default(f) ELSE Each(w, LAMBDA j : KtGet(f.type, j))

KtReadOneof(f, w) == Each(w, LAMBDA j : KtGet(f.type, j))

KtWrite(f, v) == IF f.label = "oneof" THEN KtWriteOneof(f, v) ELSE KtWriteField(f, v)
KtRead(f, w)  == IF f.label = "oneof" THEN KtReadOneof(f, w) ELSE KtReadField(f, w)

(***************************************************************************)
(* Swift.                                                                  *)
(***************************************************************************)
SwiftKind(type) ==
  CASE type \in {"string", "bytes"}             -> "text"
    [] type \in Wide \cup Narrow \cup {"enum"} -> "number"
    [] type = "bool"                            -> "bool"
    [] type \in Messages                        -> "object"

(* The encoder Swift synthesizes writes every property; only bytes may be  *)
(* nil, and nil is left out.                                               *)
SwiftWriteField(f, v) == Each(v, LAMBDA d : Item(SwiftKind(f.type), d))

(* A plausible slip: absent fields stay nil. *)
SwiftDefaultNil(f) == <<>>

(* proto3's optional is not looked at: only bytes may be nil. *)
SwiftDefault(f) == IF f.type = "bytes" \/ f.label = "repeated" THEN <<>> ELSE <<"zero">>

(* A plausible slip: wide integers are read as numbers only. *)
SwiftTakesNumbers(f, j) ==
  /\ f.type = "bytes" \/ j.is = SwiftKind(f.type)
  /\ f.type = "enum" => j.of # "newer"

(* What decode(T.self) accepts; the string form of a wide integer is       *)
(* looked for in singular fields of messages without a oneof only, and     *)
(* bytes are any JSON at all.                                              *)
SwiftTakes(f, j) ==
  /\ \/ f.type = "bytes" \/ j.is = SwiftKind(f.type)
     \/ f.type \in Wide /\ j.is = "text" /\ f.label \in {"plain", "optional"}
  /\ f.type = "enum" => j.of # "newer"

SwiftDatum(j) == IF j.is = "indexed" THEN Alien ELSE j.of

(* An array with one bad element is empty. *)
SwiftReadField(f, w) ==
  IF w = <<>> \/ \E i \in DOMAIN w : ~SwiftTakes(f, w[i]) THEN SwiftDefault(f)
  ELSE Each(w, SwiftDatum)

(* A message without plain fields, which a choice is, is read and written  *)
(* as a case without a value.                                              *)
SwiftReadOneof(f, w) ==
  IF f.type \in {"empty", "choice"} THEN Each(w, LAMBDA j : "zero")
  ELSE IF \E i \in DOMAIN w : ~SwiftTakes(f, w[i]) THEN <<>> ELSE Each(w, SwiftDatum)

SwiftWriteOneof(f, v) ==
  Each(v, LAMBDA d : Item(SwiftKind(f.type), IF f.type \in {"empty", "choice"} THEN "zero" ELSE d))

SwiftWrite(f, v) == IF f.label = "oneof" THEN SwiftWriteOneof(f, v) ELSE SwiftWriteField(f, v)
SwiftRead(f, w)  == IF f.label = "oneof" THEN SwiftReadOneof(f, w) ELSE SwiftReadField(f, w)

(***************************************************************************)
(* The frame around a payload.                                             *)
(***************************************************************************)

(* frameToJSON of the page: a bigint becomes a string, and JSON.stringify  *)
(* makes an object with numbered keys of a buffer.                         *)
Stringify(j) ==
  CASE j.is = "bigint" -> Item("text", j.of)
    [] j.is = "buffer" -> Item("indexed", j.of)
    [] OTHER           -> j

(* The Android bridge carries base64: the page takes the text for Latin-1, *)
(* where it can, and the host for UTF-8.                                   *)
Encodable(j) == j.of # "unicode"
Btoa(j) == IF j.of = "latin" THEN Item(j.is, Garbled) ELSE j
Atob(j) == IF j.of \in {"latin", "unicode"} THEN Item(j.is, Garbled) ELSE j

(* JSON.parse: a number is a double. *)
Parse(j) == IF j.is = "number" /\ j.of = "big" THEN Item("number", Rounded) ELSE j

(* createMessageFrame of the iOS host parses the payload into NSNumbers,   *)
(* and AnyCodable asks whether a value is a Bool before it asks whether it *)
(* is an Int: an NSNumber that is 0 or 1 is a Bool.                        *)
Rewrap(j) == IF j.is = "number" /\ j.of \in {"zero", "one"} THEN Item("bool", j.of) ELSE j
=============================================================================
