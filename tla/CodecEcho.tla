------------------------------ MODULE CodecEcho ------------------------------
(***************************************************************************)
(* A field of a request goes from the page to a host, which sends what it  *)
(* read back in a field of its response.  A host in TypeScript gets the    *)
(* frames themselves, by structured clone; the native hosts get and send   *)
(* JSON.                                                                   *)
(***************************************************************************)
EXTENDS JsonCodec

CONSTANTS Hosts,   \* the languages of the hosts
          Flags    \* the pairs of json options: of the page's clients, of the host's services

ASSUME HostsAssumption ==
  /\ Hosts \subseteq {"typescript", "swift", "kotlin"}
  /\ Flags \subseteq BOOLEAN \X BOOLEAN

VARIABLES host, field,
          json,     \* the json option of the page's client and of the host's services
          stage,    \* how far the echo is
          written,  \* the value the page sends
          wire,     \* the field of the frame under way
          held,     \* the value the host has read
          got       \* the value the page has read

vars == <<host, field, json, stage, written, wire, held, got>>

(* A method of a generated client. *)
ClientWrite(f, v) == IF json[1] THEN TsWrite(f, v) ELSE TsRawWrite(f, v)
ClientRead(f, w)  == IF json[1] THEN TsRead(f, Keyed(w)) ELSE TsRawRead(f, w)

(* A handler of a generated service registration. *)
ServiceWrite(f, v) == IF json[2] THEN TsWrite(f, v) ELSE TsRawWrite(f, v)
ServiceRead(f, w)  == IF json[2] THEN TsRead(f, Keyed(w)) ELSE TsRawRead(f, w)

Write(f, v) == CASE host = "typescript" -> ServiceWrite(f, v)
                 [] host = "swift"      -> SwiftWrite(f, v)
                 [] host = "kotlin"     -> KtWrite(f, v)
Read(f, w)  == CASE host = "typescript" -> ServiceRead(f, w)
                 [] host = "swift"      -> SwiftRead(f, Keyed(w))
                 [] host = "kotlin"     -> KtRead(f, Keyed(w))

Sendable(w) == host = "kotlin" => \A i \in DOMAIN w : Encodable(w[i])
ToHost(w)   == CASE host = "typescript" -> w
                 [] host = "swift"      -> Each(w, Stringify)
                 [] host = "kotlin"     -> Each(w, LAMBDA j : Btoa(Stringify(j)))
ToPage(w)   == CASE host = "typescript" -> w
                 [] host = "swift"      -> Each(w, LAMBDA j : Parse(Rewrap(j)))
                 [] host = "kotlin"     -> Each(w, LAMBDA j : Parse(Atob(j)))

Init ==
  /\ host \in Hosts /\ field \in Field /\ json \in Flags
  /\ stage = "new" /\ written = <<>> /\ wire = <<>> /\ held = <<>> /\ got = <<>>

Request ==
  /\ stage = "new" /\ stage' = "request"
  /\ \E v \in Values(field) :
       /\ Sendable(ClientWrite(field, v))
       /\ written' = v /\ wire' = ToHost(ClientWrite(field, v))
  /\ UNCHANGED <<host, field, json, held, got>>

(* btoa throws: the call is rejected. *)
RequestThrows ==
  /\ stage = "new" /\ stage' = "rejected"
  /\ \E v \in Values(field) : ~Sendable(ClientWrite(field, v)) /\ written' = v
  /\ UNCHANGED <<host, field, json, wire, held, got>>

(* A page built from an older schema, without the field. *)
OldRequest ==
  /\ stage = "new" /\ stage' = "oldRequest"
  /\ wire' = <<>>
  /\ UNCHANGED <<host, field, json, written, held, got>>

HostReads ==
  /\ stage \in {"request", "oldRequest"}
  /\ stage' = IF stage = "request" THEN "held" ELSE "oldHeld"
  /\ held' = Read(field, wire) /\ wire' = <<>>
  /\ UNCHANGED <<host, field, json, written, got>>

(* What is no value of the field's type the host cannot send. *)
HostWrites ==
  /\ stage = "held" /\ stage' = "response"
  /\ \A i \in DOMAIN held : held[i] # Alien
  /\ wire' = ToPage(Write(field, held))
  /\ UNCHANGED <<host, field, json, written, held, got>>

PageReads ==
  /\ stage = "response" /\ stage' = "done"
  /\ got' = ClientRead(field, wire) /\ wire' = <<>>
  /\ UNCHANGED <<host, field, json, written, held>>

Next == Request \/ RequestThrows \/ OldRequest \/ HostReads \/ HostWrites \/ PageReads

Spec == Init /\ [][Next]_vars

(***************************************************************************)
(* Properties.                                                             *)
(***************************************************************************)

(* What a value stands for: bytes that a Swift host holds as nil are empty *)
(* where the schema does not make them optional.                           *)
Absent(f)     == IF f.label \in {"plain", "beside"} THEN <<"zero">> ELSE <<>>
Meaning(f, v) == IF v = <<>> /\ f.type = "bytes" THEN Absent(f) ELSE v
Is(f, v, w)   == Meaning(f, v) = Meaning(f, w)

ReadAsWritten == /\ stage # "rejected"
                 /\ stage = "held" => Is(field, held, written)
                 /\ stage = "done" => Is(field, held, written) /\ Is(field, got, written)

(* gen-typescript's encoder and decoder are inverse to each other for      *)
(* every type and label, though zeros are left out: a page and a host in   *)
(* TypeScript lose nothing, with codecs or without, if both agree on it.   *)
PagesAgree == host = "typescript" /\ json[1] = json[2] => ReadAsWritten

Holds(data) == \E i \in DOMAIN written : written[i] \in data

(* An Android host reads what the page wrote and the page reads what it    *)
(* sends back: for every field but a uint32, an enum value the host does   *)
(* not know, a member of a oneof that is bytes or a wide integer, and text *)
(* beyond ASCII.                                                           *)
AndroidAgrees ==
  /\ host = "kotlin" /\ json[1]
  /\ field.type # "uint32" /\ ~Holds({"newer", "latin", "unicode"})
  /\ field.label = "oneof" => field.type \notin Wide \cup {"bytes"}
  => ReadAsWritten

(* The same of an iOS host: for every field but an enum value it does not *)
(* know, an optional one that is left out (bytes aside), a choice or bytes *)
(* in a oneof, a wide integer anywhere but in a singular field of a        *)
(* message without a oneof, and the numbers its responses turn into        *)
(* something else: 1, 0 where it is written, and those above 2^53.         *)
IosAgrees ==
  /\ host = "swift" /\ json[1] /\ ~Holds({"newer"})
  /\ field.label = "optional" /\ field.type # "bytes" => written # <<>>
  /\ field.label = "oneof" => field.type \notin {"choice", "bytes"}
  /\ field.type \in Wide => field.label \in {"plain", "optional"}
  /\ field.type \in Wide \cup Narrow \cup {"enum"} =>
       /\ ~Holds({"one", "big"})
       /\ field.label \notin {"plain", "beside"} => ~Holds({"zero"})
  => ReadAsWritten

(* docs/COMPATIBILITY.md, What a New Decoder Sees: "When a new decoder     *)
(* receives an old message missing new fields, those fields take their     *)
(* defaults (0, empty string, false, null)."                               *)
AbsentTakesDefault ==
  stage = "oldHeld" /\ (host = "typescript" => json[2])
    => \/ Is(field, held, Absent(field))
       \/ field.label = "optional" /\ held = <<"zero">>

(* gen-typescript.ts:343: "JSON codec for ... (proto3 JSON mapping)",      *)
(* which makes a base64 string of bytes, in a oneof as anywhere.           *)
OneofIsMapped ==
  host # "typescript" /\ stage = "request" /\ field.type = "bytes"
    => \A i \in DOMAIN wire : wire[i].is = "text"
=============================================================================
