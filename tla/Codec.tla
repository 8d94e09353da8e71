------------------------------- MODULE Codec -------------------------------
(***************************************************************************)
(* What becomes of an operation or an error on its way through ot_encode,  *)
(* ot_encode_err and ot_decode (encode.c, decode.c, hex.c), and what       *)
(* ot_decode makes of a message with a field missing.  A JSON object is a  *)
(* function from the names of its fields to their values, as the JSON      *)
(* library has it after parsing; text is carried as it is.                 *)
(***************************************************************************)
EXTENDS Ops, FiniteSets

CONSTANTS
  Sent,        \* the operations to be encoded; parent and hash are bytes
  HashLen,     \* the number of bytes of a hash
  IntMax,      \* the largest int; the smallest is -IntMax - 1
  MaxDamage    \* bound: fields missing in a message

ASSUME WidthAssumption == IntMax \in Nat

Uints == 2 * (IntMax + 1)   \* the number of values of a uint32_t

VARIABLES
  sent,        \* the operation, or the error
  json,        \* the message, NULL before it is encoded
  damage,      \* the number of fields it has lost
  got          \* NULL, or what came of ot_decode: the error, and the
               \* operation when there is none

vars == <<sent, json, damage, got>>

NoErr == 0
Crash == -1      \* it read through a NULL pointer
MissingErr == [clientId |-> 2, parent |-> 1, hash |-> 5, components |-> 3]
InvalidComponent == 4
Errors == {[errorCode |-> err] : err \in 1..11}

IsOp(message) == "comps" \in DOMAIN message

-----------------------------------------------------------------------------
(***************************************************************************)
(* Hex digits.  atohex leaves out leading bytes of zero, but not the last  *)
(* byte; hextoa puts the digits to the right end of the array, which its   *)
(* callers have filled with zeros.                                         *)
(***************************************************************************)
\* Mutant: zeros are left out wherever they are.
DigitsWithoutZeros(a) ==
  FlattenSeq([k \in 1..Len(a) |-> IF a[k] = 0 /\ k # Len(a) THEN <<>>
                                  ELSE <<a[k] \div 16, a[k] % 16>>])

atohex(a) ==
  FlattenSeq([k \in 1..Len(a) |-> IF k # Len(a) /\ \A m \in 1..k : a[m] = 0 THEN <<>>
                                  ELSE <<a[k] \div 16, a[k] % 16>>])

hextoa(alen, hex) ==
  LET pad == alen - (Len(hex) \div 2)
  IN  [k \in 1..alen |-> IF k <= pad THEN 0
                         ELSE 16 * hex[2 * (k - pad) - 1] + hex[2 * (k - pad)]]

(***************************************************************************)
(* A number is printed in full, and parsed into a double and an int.  What *)
(* the conversion gives for a number an int does not hold is undefined;    *)
(* compilers make it the smallest int or the largest.  The int is then     *)
(* cast to uint32_t.                                                       *)
(***************************************************************************)
AsInt(n) == IF n <= IntMax THEN {n} ELSE {-IntMax - 1, IntMax}
AsUint(valueint) == valueint % Uints

(***************************************************************************)
(* cjson_op.  A formatting boundary becomes an object without fields.      *)
(***************************************************************************)
CompJson(c) ==
  CASE c.type \in {"skip", "delete"} -> [type |-> c.type, count |-> c.count]
    [] c.type = "insert" -> [type |-> "insert", text |-> c.text]
    [] c.type = "openElement" -> [type |-> "openElement", element |-> c.elem]
    [] c.type = "closeElement" -> [type |-> "closeElement"]
    [] c.type = "formattingBoundary" -> <<>>

ot_encode(op) ==
  [clientId |-> op.client_id, parent |-> atohex(op.parent), hash |-> atohex(op.hash),
   components |-> [k \in DOMAIN op.comps |-> CompJson(op.comps[k])]]

ot_encode_err(error) == [errorCode |-> error.errorCode]

(***************************************************************************)
(* decode_cjson_op.  The fields are asked for one after the other.  Those  *)
(* of a component are not asked for: a component without one is read       *)
(* through a NULL pointer.  The name of an element is not copied out of    *)
(* the message, which is freed before ot_decode returns.                   *)
(***************************************************************************)
Freed == "freed"

Needs(type) ==
  CASE type \in {"skip", "delete"} -> {"count"}
    [] type = "insert" -> {"text"}
    [] type = "openElement" -> {"element"}
    [] OTHER -> {}

Readable(item) == "type" \in DOMAIN item /\ Needs(item.type) \subseteq DOMAIN item
IsKnown(item) == item.type \in {"skip", "insert", "delete"} \cup Stubs

CompsOf(item) ==
  CASE item.type \in {"skip", "delete"} ->
         {[type |-> item.type, count |-> AsUint(v)] : v \in AsInt(item.count)}
    [] item.type = "insert" -> {InsertComp(item.text)}
    [] item.type = "openElement" -> {OpenComp(Freed)}
    [] item.type = "closeElement" -> {CloseComp}
    [] item.type = "formattingBoundary" -> {FmtComp(<<>>, <<>>)}

\* The items in front of the first one that cannot be decoded.
Decodable(items) ==
  {k \in 1..Len(items) : \A m \in 1..k : Readable(items[m]) /\ IsKnown(items[m])}

\* Mutant: a component that is not known is passed over with the rest.
PassedOver(items, n) ==
  IF n = Len(items) \/ Readable(items[n + 1]) THEN NoErr ELSE Crash

Outcome(items, n) ==
  IF n = Len(items) THEN NoErr
  ELSE IF Readable(items[n + 1]) THEN InvalidComponent
  ELSE Crash

DecodeOp(items) ==
  \E n \in {Cardinality(Decodable(items))} :
  \E id \in AsInt(json.clientId) :
  \E comps \in {list \in [1..n -> UNION {CompsOf(items[k]) : k \in 1..n}] :
                  \A k \in 1..n : list[k] \in CompsOf(items[k])} :
    got' = [err |-> Outcome(items, n),
            op |-> IF Outcome(items, n) # NoErr THEN NULL
                   ELSE Op(AsUint(id), hextoa(HashLen, json.parent),
                           hextoa(HashLen, json.hash), comps)]

Order == <<"clientId", "parent", "hash", "components">>
Has(name) == name \in DOMAIN json

ot_decode ==
  \/ /\ Has("errorCode")
     /\ got' = [err |-> json.errorCode, op |-> NULL]
  \/ /\ ~Has("errorCode")
     /\ \E k \in 1..4 :
          /\ ~Has(Order[k])
          /\ \A m \in 1..(k - 1) : Has(Order[m])
          /\ got' = [err |-> MissingErr[Order[k]], op |-> NULL]
  \/ /\ ~Has("errorCode")
     /\ \A k \in 1..4 : Has(Order[k])
     /\ DecodeOp(json.components)

-----------------------------------------------------------------------------
\* What there is to be sent: hashes are of HashLen bytes, numbers are uint32_t,
\* and the name of an element is not what freed memory holds.
IsSendable(op) ==
  /\ op = Op(op.client_id, op.parent, op.hash, op.comps)
  /\ op.client_id \in 0..(Uints - 1)
  /\ {op.parent, op.hash} \subseteq [1..HashLen -> 0..255]
  /\ IsOperation(op.comps)
  /\ \A c \in ToSet(op.comps) : /\ c.type \in {"skip", "delete"} => c.count \in 0..(Uints - 1)
                               /\ c.type = "openElement" => c.elem # Freed

ASSUME SentAssumption == HashLen \in Nat \ {0} /\ \A op \in Sent : IsSendable(op)

Init ==
  /\ sent \in Sent \cup Errors
  /\ json = NULL /\ damage = 0 /\ got = NULL

Encode ==
  /\ json = NULL
  /\ json' = IF IsOp(sent) THEN ot_encode(sent) ELSE ot_encode_err(sent)
  /\ UNCHANGED <<sent, damage, got>>

(***************************************************************************)
(* A message as somebody else may have written it: a field is missing, at  *)
(* the top or in a component, or a component is of a type nobody knows.    *)
(***************************************************************************)
Without(object, name) == [field \in DOMAIN object \ {name} |-> object[field]]

Damage(damaged) ==
  /\ json # NULL /\ got = NULL
  /\ damage < MaxDamage
  /\ damage' = damage + 1
  /\ json' = damaged
  /\ UNCHANGED <<sent, got>>

LoseField == \E name \in DOMAIN json : Damage(Without(json, name))

LoseInComponent ==
  /\ Has("components")
  /\ \E k \in DOMAIN json.components : \E name \in DOMAIN json.components[k] :
       Damage([json EXCEPT !.components[k] = Without(@, name)])

NameUnknown ==
  /\ Has("components")
  /\ \E k \in DOMAIN json.components :
       Damage([json EXCEPT !.components[k] = [type |-> "unknown"]])

Decode ==
  /\ json # NULL /\ got = NULL
  /\ ot_decode
  /\ UNCHANGED <<sent, json, damage>>

Next == Encode \/ LoseField \/ LoseInComponent \/ NameUnknown \/ Decode

Spec == Init /\ [][Next]_vars

-----------------------------------------------------------------------------
\* An operation comes out as it was sent, whatever bytes its hashes are made
\* of, leading zeros and all-zero hashes included, exactly when it has neither
\* an element, nor a formatting boundary, nor a number an int does not hold;
\* an error comes out as that error.  (Of these numbers the one after the
\* largest int may come through, as the smallest int cast back.)
Numbers(op) ==
  {op.client_id} \cup {c.count : c \in {d \in ToSet(op.comps) : d.type \in {"skip", "delete"}}}

Whole(op) == \A c \in ToSet(op.comps) : c.type \notin {"openElement", "formattingBoundary"}

RoundTrip ==
  got # NULL /\ damage = 0 =>
    IF IsOp(sent)
      THEN /\ Whole(sent) /\ Numbers(sent) \subseteq 0..IntMax =>
                got = [err |-> NoErr, op |-> sent]
           /\ ~Whole(sent) \/ ~(Numbers(sent) \subseteq 0..(IntMax + 1)) =>
                got.op # sent
      ELSE got = [err |-> sent.errorCode, op |-> NULL]

\* A message that has lost something is never taken for an operation, nor an
\* error for one, and ot_decode has an answer to it unless it is a component
\* that has lost something, or was a formatting boundary and had nothing.
NeverPassesForOp ==
  got # NULL /\ (damage > 0 \/ ~IsOp(sent)) =>
    /\ got.err # NoErr /\ got.op = NULL
    /\ got.err = Crash => ~Whole(sent) \/ json.components # ot_encode(sent).components
=============================================================================
