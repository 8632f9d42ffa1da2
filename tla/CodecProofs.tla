----------------------------- MODULE CodecProofs -----------------------------
(***************************************************************************)
(* The TypeScript codec loses nothing, whatever the length of a repeated   *)
(* field, and so a page and a host in TypeScript always agree.  A page and *)
(* a native host agree on what the two native codecs keep, and a field     *)
(* that is not sent takes its default in all three languages.              *)
(***************************************************************************)
EXTENDS CodecEcho, TLAPS

(* A value is a function from 1..n to the data of its type. *)
LEMMA ValuesAreFunctions ==
  ASSUME NEW f \in Field, NEW v \in Values(f)
  PROVE  \E n \in Nat : v \in [1..n -> Data(f.type)]
<1>1. f.label \in Labels
  BY DEF Field
<1>2. CASE f.label \in {"plain", "beside"}
  BY <1>2 DEF Values
<1>3. CASE f.label \in {"optional", "oneof"}
  <2>1. PICK n \in 0..1 : v \in [1..n -> Data(f.type)]
    BY <1>3 DEF Values
  <2> QED BY <2>1
<1>4. CASE f.label = "repeated"
  <2>1. PICK n \in 0..MaxRepeated : v \in [1..n -> Data(f.type)]
    BY <1>4 DEF Values
  <2> QED BY <2>1
<1> QED BY <1>1, <1>2, <1>3, <1>4 DEF Labels

(* The value of a singular field is empty or has one element. *)
LEMMA SingularValues ==
  ASSUME NEW f \in Field, NEW v \in Values(f), f.label # "repeated"
  PROVE  /\ v = <<>> \/ v = <<v[1]>>
         /\ f.label \in {"plain", "beside"} => v = <<v[1]>>
<1>1. f.label \in Labels
  BY DEF Field
<1>2. PICK n \in 0..1 : /\ v \in [1..n -> Data(f.type)]
                        /\ f.label \in {"plain", "beside"} => n = 1
  BY <1>1 DEF Values, Labels
<1>3. CASE n = 0
  <2>1. v = <<>>
    BY <1>2, <1>3
  <2> QED BY <2>1, <1>2, <1>3
<1>4. CASE n = 1
  <2>1. v = <<v[1]>>
    BY <1>2, <1>4
  <2> QED BY <2>1
<1> QED BY <1>2, <1>3, <1>4

(* A value of one datum has one place. *)
LEMMA OneDatum ==
  ASSUME NEW S, NEW n \in Nat, NEW v \in [1..n -> S], v = <<v[1]>>
  PROVE  n = 1
<1>1. \A x : DOMAIN <<x>> = 1..1
  OBVIOUS
<1>2. 1..n = 1..1
  <2>1. DOMAIN v = 1..n
    OBVIOUS
  <2> QED BY <2>1, <1>1
<1>3. 1 \in 1..n /\ n \in 1..n => n \in 1..1
  BY <1>2
<1>4. 1 \in 1..n
  BY <1>2
<1> QED BY <1>3, <1>4

(* What the encoder makes of a type, its decoder takes for that type. *)
LEMMA TsTakesItsOwn ==
  ASSUME NEW type \in Types
  PROVE  TsTakes(type, TsKind(type))
BY DEF TsTakes

(* The decoder undoes the encoder on a member of a oneof. *)
LEMMA OneofRoundTrip ==
  ASSUME NEW f \in Field, NEW v \in Values(f)
  PROVE  TsReadOneof(f, TsWriteOneof(f, v)) = v
<1>1. PICK n \in Nat : v \in [1..n -> Data(f.type)]
  BY ValuesAreFunctions
<1>2. TsWriteOneof(f, v) = [i \in 1..n |-> Item(TsRawKind(f.type), v[i])]
  BY <1>1 DEF TsWriteOneof, Each
<1>3. TsReadOneof(f, TsWriteOneof(f, v)) = [i \in 1..n |-> v[i]]
  BY <1>2 DEF TsReadOneof, Each, Item
<1> QED BY <1>1, <1>3

(* The decoder undoes the encoder on every other field: what is left out   *)
(* is the default.                                                         *)
LEMMA FieldRoundTrip ==
  ASSUME NEW f \in Field, NEW v \in Values(f)
  PROVE  TsReadField(f, TsWriteField(f, v)) = v
<1>t. f.type \in Types /\ f.label \in Labels
  BY DEF Field
<1>1. PICK n \in Nat : v \in [1..n -> Data(f.type)]
  BY ValuesAreFunctions
<1>2. CASE TsOmits(f, v)
  <2>1. TsWriteField(f, v) = <<>>
    BY <1>2 DEF TsWriteField
  <2>2. f.label \in {"plain", "beside"} /\ v = <<"zero">>
    BY <1>2 DEF TsOmits
  <2> QED BY <2>1, <2>2 DEF TsReadField, Default
<1>3. CASE ~TsOmits(f, v)
  <2>1. TsWriteField(f, v) = [i \in 1..n |-> Item(TsKind(f.type), v[i])]
    BY <1>1, <1>3 DEF TsWriteField, Each
  <2>2. CASE f.label = "repeated"
    <3>1. TsReadField(f, TsWriteField(f, v)) = [i \in 1..n |-> v[i]]
      BY <2>1, <2>2, <1>t, TsTakesItsOwn DEF TsReadField, Each, Item
    <3> QED BY <3>1, <1>1
  <2>3. CASE f.label # "repeated"
    <3>1. CASE v = <<>>
      <4>1. TsWriteField(f, v) = <<>>
        BY <3>1, <1>3 DEF TsWriteField, Each
      <4>2. f.label \notin {"plain", "beside"}
        BY <3>1, <2>3, SingularValues
      <4> QED BY <4>1, <4>2, <3>1, <2>3 DEF TsReadField, Default
    <3>2. CASE v = <<v[1]>>
      <4>1. TsWriteField(f, v) = <<Item(TsKind(f.type), v[1])>>
        BY <3>2, <1>3 DEF TsWriteField, Each
      <4>2. TsTakes(f.type, TsKind(f.type))
        BY <1>t, TsTakesItsOwn
      <4>3. Item(TsKind(f.type), v[1]).is = TsKind(f.type) /\ Item(TsKind(f.type), v[1]).of = v[1]
        BY DEF Item
      <4>4. \A j : <<j>> # <<>> /\ <<j>>[1] = j
        OBVIOUS
      <4>5. TsReadField(f, <<Item(TsKind(f.type), v[1])>>) = <<v[1]>>
        BY <4>2, <4>3, <4>4, <2>3 DEF TsReadField
      <4> QED BY <4>1, <4>5, <3>2
    <3> QED BY <3>1, <3>2, <2>3, SingularValues
  <2> QED BY <2>2, <2>3
<1> QED BY <1>2, <1>3

(* An encoder writes no object with a case and a value. *)
LEMMA TsIsKeyed ==
  ASSUME NEW f \in Field, NEW v \in Values(f)
  PROVE  /\ Keyed(TsWrite(f, v)) = TsWrite(f, v)
         /\ \A i \in DOMAIN TsWrite(f, v) : TsWrite(f, v)[i].is # "union"
<1>1. f.type \in Types
  BY DEF Field
<1>2. TsKind(f.type) # "union" /\ TsRawKind(f.type) # "union"
  BY <1>1 DEF TsKind, TsRawKind, Types
<1>3. \A i \in DOMAIN TsWrite(f, v) : TsWrite(f, v)[i].is # "union"
  <2>1. CASE f.label = "oneof"
    BY <2>1, <1>2 DEF TsWrite, TsWriteOneof, Each, Item
  <2>2. CASE f.label # "oneof" /\ TsOmits(f, v)
    BY <2>2 DEF TsWrite, TsWriteField
  <2>3. CASE f.label # "oneof" /\ ~TsOmits(f, v)
    BY <2>3, <1>2 DEF TsWrite, TsWriteField, Each, Item
  <2> QED BY <2>1, <2>2, <2>3
<1> QED BY <1>3 DEF Keyed

(* Encoding and decoding a field in TypeScript gives its value again.      *)
LEMMA TsRoundTrip ==
  ASSUME NEW f \in Field, NEW v \in Values(f)
  PROVE  TsRead(f, Keyed(TsWrite(f, v))) = v
BY OneofRoundTrip, FieldRoundTrip, TsIsKeyed DEF TsRead, TsWrite

(* So does sending it as it is. *)
LEMMA TsRawRoundTrip ==
  ASSUME NEW f \in Field, NEW v \in Values(f)
  PROVE  TsRawRead(f, TsRawWrite(f, v)) = v
<1> DEFINE kind == IF f.label = "oneof" THEN "union" ELSE TsRawKind(f.type)
<1>1. PICK n \in Nat : v \in [1..n -> Data(f.type)]
  BY ValuesAreFunctions
<1>2. TsRawWrite(f, v) = [i \in 1..n |-> Item(kind, v[i])]
  BY <1>1 DEF TsRawWrite, Each
<1>3. TsRawWrite(f, v) = <<>> => v = <<>>
  <2>1. TsRawWrite(f, v) = <<>> => n = 0
    BY <1>2
  <2> QED BY <2>1, <1>1
<1>4. ~(TsRawWrite(f, v) = <<>> /\ f.label \in {"plain", "beside"})
  <2>1. f.label \in {"plain", "beside"} => v = <<v[1]>>
    BY SingularValues
  <2> QED BY <2>1, <1>3
<1>5. kind \in {"union", TsRawKind(f.type)}
  OBVIOUS
<1> HIDE DEF kind
<1>6. \A d : Item(kind, d).is = kind /\ Item(kind, d).of = d
  BY DEF Item
<1>7. Each(TsRawWrite(f, v),
           LAMBDA j : IF j.is \in {"union", TsRawKind(f.type)} THEN j.of ELSE Alien)
        = [i \in 1..n |-> v[i]]
  BY <1>2, <1>5, <1>6 DEF Each
<1>8. TsRawRead(f, TsRawWrite(f, v)) = [i \in 1..n |-> v[i]]
  BY <1>4, <1>7 DEF TsRawRead
<1> QED BY <1>1, <1>8

(***************************************************************************)
(* Hosts in Kotlin and Swift.  What goes on the wire is one JSON item for  *)
(* each datum, so a round trip is one datum's, and the cases in which a    *)
(* field is left out.                                                      *)
(***************************************************************************)

(* The data of a value are of the field's type. *)
LEMMA DataOf ==
  ASSUME NEW f \in Field, NEW v \in Values(f), NEW i \in DOMAIN v
  PROVE  v[i] \in Data(f.type)
<1>1. PICK n \in Nat : v \in [1..n -> Data(f.type)]
  BY ValuesAreFunctions
<1> QED BY <1>1

(* The values the Android bridge and codec promise to keep, and fields. *)
KtField(f)   == f.type # "uint32" /\ (f.label = "oneof" => f.type \notin Wide \cup {"bytes"})
KtPlain(v)   == \A i \in DOMAIN v : v[i] \notin {"newer", "latin", "unicode"}
KtRequest(w) == Each(w, LAMBDA j : Btoa(Stringify(j)))
KtReply(w)   == Each(w, LAMBDA j : Parse(Atob(j)))

(* One datum on its way to the host: it is what the page's encoder made,   *)
(* no text the bridge cannot carry, and the host gets the datum.           *)
LEMMA KtHeardDatum ==
  ASSUME NEW f \in Field, KtField(f), NEW d \in Data(f.type),
         d \notin {"newer", "latin", "unicode"},
         NEW kind \in {TsKind(f.type), TsRawKind(f.type)},
         f.label = "oneof" \/ kind = TsKind(f.type)
  PROVE  /\ Encodable(Item(kind, d))
         /\ KtGet(f.type, Btoa(Stringify(Item(kind, d)))) = d
<1>1. kind \notin {"bigint", "buffer", "indexed"}
  BY DEF KtField, Field, Types, TsKind, TsRawKind, Narrow, Messages
<1>2. Stringify(Item(kind, d)) = Item(kind, d)
  BY <1>1 DEF Stringify, Item
<1>3. Btoa(Item(kind, d)) = Item(kind, d)
  BY DEF Btoa, Item
<1>4. KtGet(f.type, Item(kind, d)) = d
  BY <1>1 DEF KtGet, KtEnum, Item
<1> QED BY <1>2, <1>3, <1>4 DEF Encodable, Item

(* One datum on its way back is of the kind the page takes. *)
LEMMA KtSaidDatum ==
  ASSUME NEW f \in Field, KtField(f), NEW d \in Data(f.type),
         d \notin {"newer", "latin", "unicode"}
  PROVE  /\ Parse(Atob(Item(KtKind(f.type), d))) = Item(KtKind(f.type), d)
         /\ KtKind(f.type) = TsKind(f.type)
         /\ f.label = "oneof" => KtKind(f.type) = TsRawKind(f.type)
<1>1. KtKind(f.type) = TsKind(f.type) /\ (f.label = "oneof" => KtKind(f.type) = TsRawKind(f.type))
  BY DEF KtField, Field, Types, TsKind, TsRawKind, KtKind, Wide, Narrow, Messages
<1>2. ~(KtKind(f.type) = "number" /\ d = "big")
  BY DEF Field, Types, KtKind, Data, Wide, Narrow, Messages
<1>3. Atob(Item(KtKind(f.type), d)) = Item(KtKind(f.type), d)
  BY DEF Atob, Item
<1>4. Parse(Item(KtKind(f.type), d)) = Item(KtKind(f.type), d)
  BY <1>2 DEF Parse, Item
<1> QED BY <1>1, <1>3, <1>4

(* The bridge makes no such object either. *)
LEMMA KtIsKeyed ==
  ASSUME NEW f \in Field, NEW v \in Values(f)
  PROVE  Keyed(KtRequest(TsWrite(f, v))) = KtRequest(TsWrite(f, v))
<1> DEFINE w == TsWrite(f, v)
<1>1. \A j : j.is # "union" => Btoa(Stringify(j)).is # "union"
  <2>1. \A j : Btoa(j).is = j.is
    BY DEF Btoa, Item
  <2>2. \A j : Stringify(j).is \in {"text", "indexed", j.is}
    BY DEF Stringify, Item
  <2> QED BY <2>1, <2>2
<1>2. \A i \in DOMAIN w : w[i].is # "union"
  BY TsIsKeyed
<1> HIDE DEF w
<1>3. \A i \in DOMAIN KtRequest(w) : KtRequest(w)[i].is # "union"
  BY <1>1, <1>2 DEF KtRequest, Each
<1> QED BY <1>3 DEF Keyed, w

(* The host reads what the page wrote. *)
LEMMA KtHears ==
  ASSUME NEW f \in Field, KtField(f), NEW v \in Values(f), KtPlain(v)
  PROVE  /\ \A i \in DOMAIN TsWrite(f, v) : Encodable(TsWrite(f, v)[i])
         /\ KtRead(f, Keyed(KtRequest(TsWrite(f, v)))) = v
<1>1. PICK n \in Nat : v \in [1..n -> Data(f.type)]
  BY ValuesAreFunctions
<1>2. \A i \in 1..n : v[i] \in Data(f.type) /\ v[i] \notin {"newer", "latin", "unicode"}
  BY <1>1 DEF KtPlain
<1> DEFINE kind == IF f.label = "oneof" THEN TsRawKind(f.type) ELSE TsKind(f.type)
           w    == [i \in 1..n |-> Item(kind, v[i])]
<1>3. \A i \in 1..n : /\ Encodable(w[i])
                      /\ KtGet(f.type, Btoa(Stringify(w[i]))) = v[i]
  <2>1. kind \in {TsKind(f.type), TsRawKind(f.type)} /\ (f.label = "oneof" \/ kind = TsKind(f.type))
    OBVIOUS
  <2> HIDE DEF kind
  <2> QED BY <1>2, <2>1, KtHeardDatum
<1>4. KtRequest(w) = [i \in 1..n |-> Btoa(Stringify(w[i]))]
  BY DEF KtRequest, Each
<1>5. Each(KtRequest(w), LAMBDA j : KtGet(f.type, j)) = v
  <2>1. Each(KtRequest(w), LAMBDA j : KtGet(f.type, j))
          = [i \in 1..n |-> KtGet(f.type, Btoa(Stringify(w[i])))]
    BY <1>4 DEF Each
  <2> HIDE DEF w
  <2>2. [i \in 1..n |-> KtGet(f.type, Btoa(Stringify(w[i])))] = [i \in 1..n |-> v[i]]
    BY <1>3
  <2> QED BY <2>1, <2>2, <1>1
<1>k. Keyed(KtRequest(TsWrite(f, v))) = KtRequest(TsWrite(f, v))
  BY KtIsKeyed
<1>6. CASE f.label = "oneof"
  <2>1. TsWrite(f, v) = w
    BY <1>1, <1>6 DEF TsWrite, TsWriteOneof, Each
  <2> QED BY <1>3, <1>5, <1>6, <1>k, <2>1 DEF KtRead, KtReadOneof
<1>7. CASE f.label # "oneof" /\ TsOmits(f, v)
  <2>1. TsWrite(f, v) = <<>> /\ KtRequest(<<>>) = <<>>
    BY <1>7 DEF TsWrite, TsWriteField, KtRequest, Each
  <2>2. f.label \in {"plain", "beside"} /\ v = <<"zero">>
    BY <1>7 DEF TsOmits
  <2>3. Keyed(KtRequest(TsWrite(f, v))) = <<>>
    BY <2>1, <1>k
  <2>4. KtRead(f, <<>>) = <<"zero">>
    BY <2>2, <1>7 DEF KtRead, KtReadField, Default
  <2> QED BY <2>1, <2>2, <2>3, <2>4
<1>8. CASE f.label # "oneof" /\ ~TsOmits(f, v)
  <2>1. TsWrite(f, v) = w
    BY <1>1, <1>8 DEF TsWrite, TsWriteField, Each
  <2>2. CASE KtRequest(w) = <<>>
    <3>1. n = 0
      BY <1>4, <2>2
    <3>2. v = <<>>
      BY <1>1, <3>1
    <3>3. f.label \notin {"plain", "beside"}
      BY <3>2, SingularValues
    <3> QED BY <1>3, <1>8, <1>k, <2>1, <2>2, <3>2, <3>3 DEF KtRead, KtReadField, Default
  <2>3. CASE KtRequest(w) # <<>>
    BY <1>3, <1>5, <1>8, <1>k, <2>1, <2>3 DEF KtRead, KtReadField
  <2> QED BY <2>2, <2>3
<1> QED BY <1>6, <1>7, <1>8

(* What it writes is what the page's own encoder would have written, so    *)
(* the page reads it.                                                      *)
LEMMA KtSays ==
  ASSUME NEW f \in Field, KtField(f), NEW v \in Values(f), KtPlain(v)
  PROVE  TsRead(f, Keyed(KtReply(KtWrite(f, v)))) = v
<1>1. PICK n \in Nat : v \in [1..n -> Data(f.type)]
  BY ValuesAreFunctions
<1>2. \A i \in 1..n : v[i] \in Data(f.type) /\ v[i] \notin {"newer", "latin", "unicode"}
  BY <1>1 DEF KtPlain
<1> DEFINE w == [i \in 1..n |-> Item(KtKind(f.type), v[i])]
<1>3. \A i \in 1..n : Parse(Atob(w[i])) = w[i]
  BY <1>2, KtSaidDatum
<1>4. KtReply(w) = w
  <2>1. KtReply(w) = [i \in 1..n |-> Parse(Atob(w[i]))]
    BY DEF KtReply, Each
  <2>2. [i \in 1..n |-> Parse(Atob(w[i]))] = [i \in 1..n |-> w[i]]
    BY <1>3
  <2> QED BY <2>1, <2>2
<1>5. n # 0 => /\ KtKind(f.type) = TsKind(f.type)
               /\ f.label = "oneof" => KtKind(f.type) = TsRawKind(f.type)
  BY <1>2, KtSaidDatum
<1> HIDE DEF w
<1>6. KtReply(KtWrite(f, v)) = TsWrite(f, v)
  <2>1. CASE f.label = "oneof"
    <3>1. KtWrite(f, v) = w /\ TsWrite(f, v) = [i \in 1..n |-> Item(TsRawKind(f.type), v[i])]
      BY <1>1, <2>1 DEF KtWrite, KtWriteOneof, TsWrite, TsWriteOneof, Each, w
    <3>2. w = [i \in 1..n |-> Item(TsRawKind(f.type), v[i])]
      BY <1>5, <2>1 DEF w
    <3> QED BY <3>1, <3>2, <1>4
  <2>2. CASE f.label # "oneof" /\ TsOmits(f, v)
    BY <2>2 DEF KtWrite, KtWriteField, TsWrite, TsWriteField, TsOmits, KtReply, Each
  <2>3. CASE f.label # "oneof" /\ ~TsOmits(f, v)
    <3>1. KtWrite(f, v) = w /\ TsWrite(f, v) = [i \in 1..n |-> Item(TsKind(f.type), v[i])]
      BY <1>1, <2>3 DEF KtWrite, KtWriteField, TsWrite, TsWriteField, TsOmits, Each, w
    <3>2. w = [i \in 1..n |-> Item(TsKind(f.type), v[i])]
      BY <1>5 DEF w
    <3> QED BY <3>1, <3>2, <1>4
  <2> QED BY <2>1, <2>2, <2>3
<1> QED BY <1>6, TsRoundTrip

(* The fields and values the Swift codec keeps ... *)
Number(f)  == f.type \in Wide \cup Narrow \cup {"enum"}
SwiftAble(f, v) ==
  /\ \A i \in DOMAIN v : v[i] # "newer"
  /\ f.label = "optional" /\ f.type # "bytes" => v # <<>>
  /\ f.label = "oneof" => f.type \notin {"choice", "bytes"}
  /\ f.type \in Wide => f.label \in {"plain", "optional"}
  /\ Number(f) => /\ \A i \in DOMAIN v : v[i] \notin {"one", "big"}
                  /\ f.label \notin {"plain", "beside"} => \A i \in DOMAIN v : v[i] # "zero"
SwiftRequest(w) == Each(w, Stringify)
SwiftReply(w)   == Each(w, LAMBDA j : Parse(Rewrap(j)))

(* ... and what the host holds of them: bytes that were left out are nil.  *)
SwiftHeld(f, v) == IF f.type = "bytes" /\ TsOmits(f, v) THEN <<>> ELSE v

(* One datum on its way to the host. *)
LEMMA SwiftHeardDatum ==
  ASSUME NEW f \in Field, NEW d, d # "newer",
         f.label = "oneof" => f.type \notin {"choice", "bytes"},
         f.type \in Wide => f.label \in {"plain", "optional"},
         NEW kind \in {TsKind(f.type), TsRawKind(f.type)},
         f.label = "oneof" \/ kind = TsKind(f.type)
  PROVE  /\ Stringify(Item(kind, d)) = Item(kind, d)
         /\ SwiftTakes(f, Item(kind, d)) /\ SwiftDatum(Item(kind, d)) = d
<1>1. kind = TsKind(f.type) /\ kind \notin {"bigint", "buffer", "indexed"}
  BY DEF Field, Types, TsKind, TsRawKind, Wide, Narrow, Messages
<1>2. f.type \in Wide \/ kind = SwiftKind(f.type)
  BY <1>1 DEF Field, Types, TsKind, SwiftKind, Wide, Narrow, Messages
<1>3. f.type \in Wide => kind = "text"
  BY <1>1 DEF Field, Types, TsKind, Wide, Narrow, Messages
<1>4. Item(kind, d).is = kind /\ Item(kind, d).of = d
  BY DEF Item
<1> QED BY <1>1, <1>2, <1>3, <1>4 DEF Stringify, SwiftTakes, SwiftDatum

(* One datum on its way back: no number that comes out as a Bool or        *)
(* rounded, and of a kind that the page takes.                             *)
LEMMA SwiftSaidDatum ==
  ASSUME NEW f \in Field, NEW d, Number(f) => d \notin {"zero", "one", "big"}
  PROVE  /\ Parse(Rewrap(Item(SwiftKind(f.type), d))) = Item(SwiftKind(f.type), d)
         /\ TsTakes(f.type, SwiftKind(f.type))
         /\ f.type \notin Wide \cup {"bytes"} => SwiftKind(f.type) = TsRawKind(f.type)
<1>1. SwiftKind(f.type) = "number" => Number(f)
  BY DEF Field, Types, SwiftKind, Number, Wide, Narrow, Messages
<1>2. Rewrap(Item(SwiftKind(f.type), d)) = Item(SwiftKind(f.type), d)
  BY <1>1 DEF Rewrap, Item
<1>3. Parse(Item(SwiftKind(f.type), d)) = Item(SwiftKind(f.type), d)
  BY <1>1 DEF Parse, Item
<1>4. TsTakes(f.type, SwiftKind(f.type))
  BY DEF TsTakes, Field, Types, TsKind, SwiftKind, Wide, Narrow, Messages
<1>5. f.type \notin Wide \cup {"bytes"} => SwiftKind(f.type) = TsRawKind(f.type)
  BY DEF Field, Types, TsKind, TsRawKind, SwiftKind, Wide, Narrow, Messages
<1> QED BY <1>2, <1>3, <1>4, <1>5

(* Of what the page wrote, an iOS host holds what SwiftHeld says. *)
LEMMA SwiftHears ==
  ASSUME NEW f \in Field, NEW v \in Values(f), SwiftAble(f, v)
  PROVE  SwiftRead(f, Keyed(SwiftRequest(TsWrite(f, v)))) = SwiftHeld(f, v)
<1>1. PICK n \in Nat : v \in [1..n -> Data(f.type)]
  BY ValuesAreFunctions
<1> DEFINE kind == IF f.label = "oneof" THEN TsRawKind(f.type) ELSE TsKind(f.type)
           w    == [i \in 1..n |-> Item(kind, v[i])]
<1>2. kind \in {TsKind(f.type), TsRawKind(f.type)} /\ (f.label = "oneof" \/ kind = TsKind(f.type))
  OBVIOUS
<1> HIDE DEF kind
<1>3. \A i \in 1..n : Stringify(w[i]) = w[i] /\ SwiftTakes(f, w[i]) /\ SwiftDatum(w[i]) = v[i]
  <2> TAKE i \in 1..n
  <2>1. v[i] # "newer"
    BY <1>1 DEF SwiftAble
  <2>2. /\ f.label = "oneof" => f.type \notin {"choice", "bytes"}
        /\ f.type \in Wide => f.label \in {"plain", "optional"}
    BY DEF SwiftAble
  <2> QED BY <1>2, <2>1, <2>2, SwiftHeardDatum
<1>4. SwiftRequest(w) = w
  <2>1. SwiftRequest(w) = [i \in 1..n |-> Stringify(w[i])]
    BY DEF SwiftRequest, Each
  <2>2. [i \in 1..n |-> Stringify(w[i])] = [i \in 1..n |-> w[i]]
    BY <1>3
  <2> QED BY <2>1, <2>2
<1>5. Keyed(w) = w
  <2>1. kind # "union"
    BY <1>2 DEF Field, Types, TsKind, TsRawKind, Wide, Narrow, Messages
  <2> QED BY <2>1 DEF Keyed, Item
<1>6. Each(w, SwiftDatum) = v
  <2>1. Each(w, SwiftDatum) = [i \in 1..n |-> SwiftDatum(w[i])]
    BY DEF Each
  <2>2. [i \in 1..n |-> SwiftDatum(w[i])] = [i \in 1..n |-> v[i]]
    BY <1>3
  <2> QED BY <2>1, <2>2, <1>1
<1>7. DOMAIN w = 1..n
  OBVIOUS
<1> HIDE DEF w
<1>8. CASE f.label = "oneof"
  <2>1. TsWrite(f, v) = w
    BY <1>1, <1>8 DEF TsWrite, TsWriteOneof, Each, w, kind
  <2>2. SwiftHeld(f, v) = v
    BY <1>8 DEF SwiftHeld, TsOmits
  <2>3. CASE f.type = "empty"
    <3>1. \A i \in 1..n : v[i] = "zero"
      BY <1>1, <2>3 DEF Data, Wide, Narrow
    <3>2. Each(w, LAMBDA j : "zero") = [i \in 1..n |-> "zero"]
      BY <1>7 DEF Each
    <3>3. v = [i \in 1..n |-> "zero"]
      BY <1>1, <3>1
    <3>4. SwiftRead(f, w) = Each(w, LAMBDA j : "zero")
      BY <1>8, <2>3 DEF SwiftRead, SwiftReadOneof
    <3> QED BY <1>4, <1>5, <2>1, <2>2, <3>2, <3>3, <3>4
  <2>4. CASE f.type # "empty"
    BY <1>3, <1>4, <1>5, <1>6, <1>7, <1>8, <2>1, <2>2, <2>4
       DEF SwiftAble, SwiftRead, SwiftReadOneof
  <2> QED BY <2>3, <2>4
<1>9. CASE f.label # "oneof" /\ TsOmits(f, v)
  <2>1. TsWrite(f, v) = <<>> /\ SwiftRequest(<<>>) = <<>> /\ Keyed(<<>>) = <<>>
    BY <1>9 DEF TsWrite, TsWriteField, SwiftRequest, Each, Keyed
  <2>2. f.label \in {"plain", "beside"} /\ v = <<"zero">>
    BY <1>9 DEF TsOmits
  <2> QED BY <1>9, <2>1, <2>2 DEF SwiftRead, SwiftReadField, SwiftDefault, SwiftHeld
<1>10. CASE f.label # "oneof" /\ ~TsOmits(f, v)
  <2>1. TsWrite(f, v) = w
    BY <1>1, <1>10 DEF TsWrite, TsWriteField, Each, w, kind
  <2>2. SwiftHeld(f, v) = v
    BY <1>10 DEF SwiftHeld
  <2>3. CASE w = <<>>
    <3>1. n = 0
      BY <1>7, <2>3
    <3>2. v = <<>>
      BY <1>1, <3>1
    <3>3. f.label \notin {"plain", "beside"} /\ f.label \in Labels
      BY <3>2, SingularValues DEF Field
    <3>4. f.label = "optional" => f.type = "bytes"
      BY <3>2 DEF SwiftAble
    <3> QED BY <1>4, <1>5, <1>10, <2>1, <2>2, <2>3, <3>2, <3>3, <3>4
         DEF SwiftRead, SwiftReadField, SwiftDefault, Labels
  <2>4. CASE w # <<>>
    BY <1>3, <1>4, <1>5, <1>6, <1>7, <1>10, <2>1, <2>2, <2>4 DEF SwiftRead, SwiftReadField
  <2> QED BY <2>3, <2>4
<1> QED BY <1>8, <1>9, <1>10

(* The page reads the value it wrote in what an iOS host sends back. *)
LEMMA SwiftSays ==
  ASSUME NEW f \in Field, NEW v \in Values(f), SwiftAble(f, v)
  PROVE  TsRead(f, Keyed(SwiftReply(SwiftWrite(f, SwiftHeld(f, v))))) = v
<1>1. PICK n \in Nat : v \in [1..n -> Data(f.type)]
  BY ValuesAreFunctions
<1> DEFINE w == [i \in 1..n |-> Item(SwiftKind(f.type), v[i])]
<1>k. SwiftKind(f.type) # "union"
  BY DEF Field, Types, SwiftKind, Wide, Narrow, Messages
<1>2. CASE f.label # "oneof" /\ TsOmits(f, v)
  <2>1. f.label \in {"plain", "beside"} /\ v = <<"zero">>
    BY <1>2 DEF TsOmits
  <2>2. CASE f.type = "bytes"
    <3>1. SwiftHeld(f, v) = <<>>
      BY <1>2, <2>2 DEF SwiftHeld
    <3>2. Keyed(SwiftReply(SwiftWrite(f, <<>>))) = <<>>
      BY <1>2 DEF SwiftWrite, SwiftWriteField, SwiftReply, Each, Keyed
    <3> QED BY <1>2, <2>1, <3>1, <3>2 DEF TsRead, TsReadField, Default
  <2>3. CASE f.type # "bytes"
    <3> DEFINE j == Parse(Rewrap(Item(SwiftKind(f.type), "zero")))
    <3>1. SwiftHeld(f, v) = <<"zero">>
      BY <2>1, <2>3 DEF SwiftHeld
    <3>2. SwiftReply(SwiftWrite(f, <<"zero">>)) = <<j>>
      BY <1>2 DEF SwiftWrite, SwiftWriteField, SwiftReply, Each
    <3>3. j.of = "zero" /\ j.is # "union"
      BY <1>k DEF Parse, Rewrap, Item
    <3> HIDE DEF j
    <3>4. Keyed(<<j>>) = <<j>>
      BY <3>3 DEF Keyed
    <3>5. <<j>> # <<>> /\ <<j>>[1] = j
      OBVIOUS
    <3>6. TsRead(f, <<j>>) = <<"zero">>
      BY <1>2, <2>1, <3>3, <3>5 DEF TsRead, TsReadField, Default
    <3> QED BY <2>1, <3>1, <3>2, <3>4, <3>6
  <2> QED BY <2>2, <2>3
<1>3. CASE f.label = "oneof" \/ ~TsOmits(f, v)
  <2>1. SwiftHeld(f, v) = v
    BY <1>3 DEF SwiftHeld, TsOmits
  <2>2. SwiftWrite(f, v) = w
    <3>1. CASE f.label = "oneof"
      <4>1. f.type # "choice" /\ \A i \in 1..n : f.type = "empty" => v[i] = "zero"
        BY <1>1, <3>1 DEF SwiftAble, Data, Wide, Narrow
      <4> QED BY <1>1, <3>1, <4>1 DEF SwiftWrite, SwiftWriteOneof, Each
    <3>2. CASE f.label # "oneof"
      BY <1>1, <3>2 DEF SwiftWrite, SwiftWriteField, Each
    <3> QED BY <3>1, <3>2
  <2>3. \A i \in 1..n : Number(f) => v[i] \notin {"zero", "one", "big"}
    <3> TAKE i \in 1..n
    <3>1. Number(f) => v[i] \notin {"one", "big"}
      BY <1>1 DEF SwiftAble
    <3>2. Number(f) /\ f.label \notin {"plain", "beside"} => v[i] # "zero"
      BY <1>1 DEF SwiftAble
    <3>3. Number(f) /\ f.label \in {"plain", "beside"} => v[i] # "zero"
      <4> SUFFICES ASSUME Number(f), f.label \in {"plain", "beside"} PROVE v[i] # "zero"
        OBVIOUS
      <4>1. v = <<v[1]>> /\ v # <<"zero">>
        <5>1. f.type \notin Messages
          BY DEF Number, Wide, Narrow, Messages
        <5> QED BY <1>3, <5>1, SingularValues DEF TsOmits
      <4>2. n = 1
        BY <1>1, <4>1, OneDatum
      <4>3. i = 1
        BY <4>2
      <4> QED BY <4>1, <4>3
    <3> QED BY <3>1, <3>2, <3>3
  <2>4. \A i \in 1..n : /\ Parse(Rewrap(w[i])) = w[i]
                        /\ TsTakes(f.type, w[i].is) /\ w[i].of = v[i] /\ w[i].is # "union"
    BY <1>k, <2>3, SwiftSaidDatum DEF Item
  <2>5. SwiftReply(w) = w /\ Keyed(w) = w
    <3>1. SwiftReply(w) = [i \in 1..n |-> Parse(Rewrap(w[i]))]
      BY DEF SwiftReply, Each
    <3>2. [i \in 1..n |-> Parse(Rewrap(w[i]))] = [i \in 1..n |-> w[i]]
      BY <2>4
    <3>3. Keyed(w) = w
      BY <2>4 DEF Keyed
    <3> QED BY <3>1, <3>2, <3>3
  <2>6. CASE f.label = "oneof"
    <3>1. \A i \in 1..n : w[i].is = TsRawKind(f.type)
      <4>1. f.type \notin Wide \cup {"bytes"}
        BY <2>6 DEF SwiftAble
      <4> QED BY <2>3, <4>1, SwiftSaidDatum DEF Item
    <3>2. TsReadOneof(f, w) = [i \in 1..n |-> v[i]]
      BY <2>4, <3>1 DEF TsReadOneof, Each
    <3> QED BY <1>1, <2>1, <2>2, <2>5, <2>6, <3>2 DEF TsRead
  <2>7. CASE f.label = "repeated"
    <3>1. TsReadField(f, w) = [i \in 1..n |-> v[i]]
      BY <2>4, <2>7 DEF TsReadField, Each
    <3> QED BY <1>1, <2>1, <2>2, <2>5, <2>7, <3>1 DEF TsRead
  <2>8. CASE f.label \notin {"oneof", "repeated"}
    <3>1. v = <<>> \/ v = <<v[1]>>
      BY <2>8, SingularValues
    <3>2. CASE v = <<>>
      <4>1. w = <<>>
        <5>1. n = 0
          BY <1>1, <3>2
        <5> QED BY <5>1
      <4>2. f.label \notin {"plain", "beside"}
        BY <2>8, <3>2, SingularValues
      <4> QED BY <2>1, <2>2, <2>5, <2>8, <3>2, <4>1, <4>2 DEF TsRead, TsReadField, Default
    <3>3. CASE v = <<v[1]>>
      <4>1. n = 1
        BY <1>1, <3>3, OneDatum
      <4>2. w # <<>> /\ TsTakes(f.type, w[1].is) /\ w[1].of = v[1]
        BY <2>4, <4>1
      <4> HIDE DEF w
      <4>3. TsReadField(f, w) = <<v[1]>>
        BY <2>8, <4>2 DEF TsReadField
      <4> QED BY <2>1, <2>2, <2>5, <2>8, <3>3, <4>3 DEF TsRead
    <3> QED BY <3>1, <3>2, <3>3
  <2> QED BY <2>6, <2>7, <2>8
<1> QED BY <1>2, <1>3

(* Along an echo with a host in TypeScript that agrees with the page on    *)
(* the codecs: what is under way is the value as its sender writes it, and *)
(* what is held or got is the value.                                       *)
Agreed == host = "typescript" /\ json[1] = json[2]

EchoInv ==
  /\ field \in Field
  /\ stage \in {"new", "request", "rejected", "oldRequest", "held", "oldHeld", "response", "done"}
  /\ Agreed =>
       /\ stage # "rejected"
       /\ stage \notin {"new", "oldRequest", "oldHeld"} => written \in Values(field)
       /\ stage \in {"request", "response"} => wire = ClientWrite(field, written)
       /\ stage \in {"held", "response", "done"} => held = written
       /\ stage = "done" => got = written

(* What either end writes, both ends read. *)
LEMMA EndsAgree ==
  ASSUME Agreed, NEW f \in Field, NEW v \in Values(f)
  PROVE  /\ ClientRead(f, ClientWrite(f, v)) = v
         /\ ServiceRead(f, ClientWrite(f, v)) = v
         /\ ServiceWrite(f, v) = ClientWrite(f, v)
BY TsRoundTrip, TsRawRoundTrip DEF Agreed, ClientRead, ClientWrite, ServiceRead, ServiceWrite

(* Every step of an echo keeps it so. *)
LEMMA EchoStep == EchoInv /\ [Next]_vars => EchoInv'
<1> SUFFICES ASSUME EchoInv, [Next]_vars PROVE EchoInv'
  OBVIOUS
<1> USE DEF EchoInv, Agreed
<1>1. CASE Request
  <2>1. PICK v \in Values(field) : written' = v /\ wire' = ToHost(ClientWrite(field, v))
    BY <1>1 DEF Request
  <2>2. host = "typescript" => ToHost(ClientWrite(field, v)) = ClientWrite(field, v)
    BY DEF ToHost
  <2>3. ClientWrite(field, written)' = ClientWrite(field, v)
    BY <1>1, <2>1 DEF Request, ClientWrite
  <2> QED BY <1>1, <2>1, <2>2, <2>3 DEF Request
<1>2. CASE RequestThrows
  BY <1>2 DEF RequestThrows, Sendable
<1>3. CASE OldRequest
  BY <1>3 DEF OldRequest
<1>4. CASE HostReads
  <2>1. host = "typescript" => Read(field, wire) = ServiceRead(field, wire)
    BY DEF Read
  <2>2. Agreed /\ stage = "request" => ServiceRead(field, wire) = written
    BY EndsAgree
  <2> QED BY <1>4, <2>1, <2>2 DEF HostReads
<1>5. CASE HostWrites
  <2>1. host = "typescript" => ToPage(Write(field, held)) = ServiceWrite(field, held)
    BY DEF ToPage, Write
  <2>2. Agreed => ServiceWrite(field, held) = ClientWrite(field, written)
    BY <1>5, EndsAgree DEF HostWrites
  <2>3. ClientWrite(field, written)' = ClientWrite(field, written)
    BY <1>5 DEF HostWrites, ClientWrite
  <2> QED BY <1>5, <2>1, <2>2, <2>3 DEF HostWrites
<1>6. CASE PageReads
  <2>1. Agreed /\ stage = "response" => ClientRead(field, wire) = written
    BY EndsAgree
  <2> QED BY <1>6, <2>1 DEF PageReads
<1>7. CASE UNCHANGED vars
  BY <1>7 DEF vars, ClientWrite
<1> QED BY <1>1, <1>2, <1>3, <1>4, <1>5, <1>6, <1>7 DEF Next

(* A page and a host in TypeScript that agree on the codecs read every     *)
(* value as it was written, for repeated fields of any length.             *)
THEOREM PagesAlwaysAgree == Spec => []PagesAgree
<1>1. Init => EchoInv
  BY DEF Init, EchoInv
<1>2. EchoInv => PagesAgree
  BY DEF EchoInv, Agreed, PagesAgree, ReadAsWritten, Is
<1> QED BY <1>1, <1>2, EchoStep, PTL DEF Spec

(***************************************************************************)
(* Echoes with native hosts.                                               *)
(***************************************************************************)

(* An echo with an Android host, of what it keeps: what is under way is    *)
(* what its sender made of the value that was written.                     *)
KtKept  == host = "kotlin" /\ json[1] /\ KtField(field) /\ KtPlain(written)
KtInv ==
  /\ field \in Field
  /\ stage \in {"new", "request", "rejected", "oldRequest", "held", "oldHeld", "response", "done"}
  /\ KtKept =>
       /\ stage # "rejected"
       /\ stage \notin {"new", "oldRequest", "oldHeld"} => written \in Values(field)
       /\ stage = "request" => wire = KtRequest(TsWrite(field, written))
       /\ stage \in {"held", "response", "done"} => held = written
       /\ stage = "response" => wire = KtReply(KtWrite(field, written))
       /\ stage = "done" => got = written

(* Every step of such an echo keeps it so. *)
LEMMA KtStep == KtInv /\ [Next]_vars => KtInv'
<1> SUFFICES ASSUME KtInv, [Next]_vars PROVE KtInv'
  OBVIOUS
<1> USE DEF KtInv, KtKept
<1>1. CASE Request
  <2>1. PICK v \in Values(field) : written' = v /\ wire' = ToHost(ClientWrite(field, v))
    BY <1>1 DEF Request
  <2>2. host = "kotlin" /\ json[1] => ToHost(ClientWrite(field, v)) = KtRequest(TsWrite(field, v))
    BY DEF ToHost, ClientWrite, KtRequest, Each
  <2> QED BY <1>1, <2>1, <2>2 DEF Request
<1>2. CASE RequestThrows
  <2>1. PICK v \in Values(field) : ~Sendable(ClientWrite(field, v)) /\ written' = v
    BY <1>2 DEF RequestThrows
  <2>2. ASSUME KtKept' PROVE FALSE
    <3>1. host = "kotlin" /\ json[1] /\ KtField(field) /\ KtPlain(v)
      BY <1>2, <2>1, <2>2 DEF RequestThrows
    <3>2. \A i \in DOMAIN TsWrite(field, v) : Encodable(TsWrite(field, v)[i])
      BY <3>1, KtHears
    <3> QED BY <2>1, <3>1, <3>2 DEF Sendable, ClientWrite
  <2> QED BY <1>2, <2>2 DEF RequestThrows
<1>3. CASE OldRequest
  BY <1>3 DEF OldRequest
<1>4. CASE HostReads
  <2>1. KtKept /\ stage = "request" => Read(field, wire) = written
    BY KtHears DEF Read
  <2> QED BY <1>4, <2>1 DEF HostReads
<1>5. CASE HostWrites
  <2>1. KtKept => ToPage(Write(field, held)) = KtReply(KtWrite(field, written))
    BY <1>5 DEF HostWrites, ToPage, Write, KtReply, Each
  <2> QED BY <1>5, <2>1 DEF HostWrites
<1>6. CASE PageReads
  <2>1. KtKept /\ stage = "response" => ClientRead(field, wire) = written
    BY KtSays DEF ClientRead
  <2> QED BY <1>6, <2>1 DEF PageReads
<1>7. CASE UNCHANGED vars
  BY <1>7 DEF vars
<1> QED BY <1>1, <1>2, <1>3, <1>4, <1>5, <1>6, <1>7 DEF Next

(* An Android host and the page read the value that was written, for every *)
(* type and label AndroidAgrees does not except, of any length: the two    *)
(* generators agree on JSON there, and base64 carries it.                  *)
THEOREM AndroidAlwaysAgrees == Spec => []AndroidAgrees
<1>1. Init => KtInv
  BY DEF Init, KtInv
<1>2. ASSUME KtInv PROVE AndroidAgrees
  <2>1. ~Holds({"newer", "latin", "unicode"}) => KtPlain(written)
    BY DEF Holds, KtPlain
  <2> QED BY <1>2, <2>1 DEF KtInv, KtKept, KtField, AndroidAgrees, ReadAsWritten, Is
<1> QED BY <1>1, <1>2, KtStep, PTL DEF Spec

(* The same of an iOS host, which may hold nil for empty bytes.            *)
SwiftKept == host = "swift" /\ json[1] /\ SwiftAble(field, written)
SwiftInv ==
  /\ field \in Field
  /\ stage \in {"new", "request", "rejected", "oldRequest", "held", "oldHeld", "response", "done"}
  /\ host = "swift" => stage # "rejected"
  /\ SwiftKept =>
       /\ stage \notin {"new", "oldRequest", "oldHeld"} => written \in Values(field)
       /\ stage = "request" => wire = SwiftRequest(TsWrite(field, written))
       /\ stage \in {"held", "response", "done"} => held = SwiftHeld(field, written)
       /\ stage = "response" => wire = SwiftReply(SwiftWrite(field, SwiftHeld(field, written)))
       /\ stage = "done" => got = written

(* Every step of such an echo keeps it so. *)
LEMMA SwiftStep == SwiftInv /\ [Next]_vars => SwiftInv'
<1> SUFFICES ASSUME SwiftInv, [Next]_vars PROVE SwiftInv'
  OBVIOUS
<1> USE DEF SwiftInv, SwiftKept
<1>1. CASE Request
  <2>1. PICK v \in Values(field) : written' = v /\ wire' = ToHost(ClientWrite(field, v))
    BY <1>1 DEF Request
  <2>2. host = "swift" /\ json[1] => ToHost(ClientWrite(field, v)) = SwiftRequest(TsWrite(field, v))
    BY DEF ToHost, ClientWrite, SwiftRequest, Each
  <2> QED BY <1>1, <2>1, <2>2 DEF Request
<1>2. CASE RequestThrows
  BY <1>2 DEF RequestThrows, Sendable
<1>3. CASE OldRequest
  BY <1>3 DEF OldRequest
<1>4. CASE HostReads
  <2>1. SwiftKept /\ stage = "request" => Read(field, wire) = SwiftHeld(field, written)
    BY SwiftHears DEF Read
  <2> QED BY <1>4, <2>1 DEF HostReads
<1>5. CASE HostWrites
  <2>1. SwiftKept => ToPage(Write(field, held))
                       = SwiftReply(SwiftWrite(field, SwiftHeld(field, written)))
    BY <1>5 DEF HostWrites, ToPage, Write, SwiftReply, Each
  <2> QED BY <1>5, <2>1 DEF HostWrites
<1>6. CASE PageReads
  <2>1. SwiftKept /\ stage = "response" => ClientRead(field, wire) = written
    BY SwiftSays DEF ClientRead
  <2> QED BY <1>6, <2>1 DEF PageReads
<1>7. CASE UNCHANGED vars
  BY <1>7 DEF vars
<1> QED BY <1>1, <1>2, <1>3, <1>4, <1>5, <1>6, <1>7 DEF Next

(* An iOS host and the page read the value that was written, for every     *)
(* type, label and datum IosAgrees does not except, of any length.         *)
THEOREM IosAlwaysAgrees == Spec => []IosAgrees
<1>1. Init => SwiftInv
  BY DEF Init, SwiftInv
<1>2. ASSUME SwiftInv PROVE IosAgrees
  <2> SUFFICES ASSUME host = "swift", json[1], SwiftAble(field, written) PROVE ReadAsWritten
    BY DEF IosAgrees, SwiftAble, Holds, Number
  <2>1. stage \in {"held", "done"} => Is(field, held, written)
    <3>1. Is(field, SwiftHeld(field, written), written)
      BY DEF Is, Meaning, Absent, SwiftHeld, TsOmits
    <3> QED BY <1>2, <3>1 DEF SwiftInv, SwiftKept
  <2>2. stage = "done" => Is(field, got, written)
    BY <1>2 DEF SwiftInv, SwiftKept, Is
  <2> QED BY <1>2, <2>1, <2>2 DEF SwiftInv, ReadAsWritten
<1> QED BY <1>1, <1>2, SwiftStep, PTL DEF Spec

(* A page of an older schema sends nothing for the field, and the host     *)
(* holds what it reads of nothing.                                         *)
OldInv == /\ field \in Field /\ host \in {"typescript", "swift", "kotlin"}
          /\ stage = "oldRequest" => wire = <<>>
          /\ stage = "oldHeld" => held = Read(field, <<>>)

(* Every decoder makes the default of nothing, but for Swift's optionals,  *)
(* which come out as zeros, and its bytes, which are nil.                  *)
LEMMA NothingIsDefault ==
  ASSUME NEW f \in Field, host \in {"typescript", "swift", "kotlin"}, host = "typescript" => json[2]
  PROVE  \/ Is(f, Read(f, <<>>), Absent(f))
         \/ f.label = "optional" /\ Read(f, <<>>) = <<"zero">>
<1>1. Keyed(<<>>) = <<>>
  BY DEF Keyed
<1>2. f.label \in Labels /\ f.type \in Types
  BY DEF Field
<1>3. CASE host = "typescript"
  <2>1. Read(f, <<>>) = TsRead(f, <<>>)
    BY <1>1, <1>3 DEF Read, ServiceRead
  <2>2. TsRead(f, <<>>) = Absent(f)
    BY <1>2 DEF TsRead, TsReadOneof, TsReadField, Each, Default, Absent, Labels
  <2> QED BY <2>1, <2>2 DEF Is
<1>4. CASE host = "kotlin"
  <2>1. Read(f, <<>>) = KtRead(f, <<>>)
    BY <1>1, <1>4 DEF Read
  <2>2. KtRead(f, <<>>) = Absent(f)
    BY <1>2 DEF KtRead, KtReadOneof, KtReadField, Each, Default, Absent, Labels
  <2> QED BY <2>1, <2>2 DEF Is
<1>5. CASE host = "swift"
  <2>1. Read(f, <<>>) = SwiftRead(f, <<>>)
    BY <1>1, <1>5 DEF Read
  <2>2. f.label = "oneof" => SwiftRead(f, <<>>) = <<>>
    BY DEF SwiftRead, SwiftReadOneof, Each
  <2>3. f.label # "oneof" => SwiftRead(f, <<>>) = SwiftDefault(f)
    BY DEF SwiftRead, SwiftReadField
  <2> QED BY <1>2, <2>1, <2>2, <2>3 DEF SwiftDefault, Is, Meaning, Absent, Labels
<1> QED BY <1>3, <1>4, <1>5

(* A field that an older page does not send takes its default at a host    *)
(* with codecs, or, optional, may come out as a zero.                      *)
THEOREM AbsentFieldsTakeDefaults == Spec => []AbsentTakesDefault
<1>1. Init => OldInv
  BY HostsAssumption DEF Init, OldInv
<1>2. OldInv /\ [Next]_vars => OldInv'
  <2> SUFFICES ASSUME OldInv, [Next]_vars PROVE OldInv'
    OBVIOUS
  <2> USE DEF OldInv
  <2>1. CASE Request
    BY <2>1 DEF Request
  <2>2. CASE RequestThrows
    BY <2>2 DEF RequestThrows
  <2>3. CASE OldRequest
    BY <2>3 DEF OldRequest
  <2>4. CASE HostReads
    BY <2>4 DEF HostReads, Read, ServiceRead
  <2>5. CASE HostWrites
    BY <2>5 DEF HostWrites
  <2>6. CASE PageReads
    BY <2>6 DEF PageReads
  <2>7. CASE UNCHANGED vars
    BY <2>7 DEF vars, Read, ServiceRead
  <2> QED BY <2>1, <2>2, <2>3, <2>4, <2>5, <2>6, <2>7 DEF Next
<1>3. OldInv => AbsentTakesDefault
  BY NothingIsDefault DEF OldInv, AbsentTakesDefault
<1> QED BY <1>1, <1>2, <1>3, PTL DEF Spec
=============================================================================
