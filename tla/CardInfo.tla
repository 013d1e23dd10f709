------------------------------ MODULE CardInfo ------------------------------
(***************************************************************************)
(* The parser of the card's information (CardInfo::try_from and            *)
(* CardInfoItem::try_from in cores/cms.rs).                                *)
(*                                                                         *)
(* The mailbox holds items one after the other, each a key, a length and   *)
(* that many bytes.  Their number and their end are not given but by the   *)
(* length of the whole answer, which the host may receive cut short.       *)
(***************************************************************************)
EXTENDS Naturals, SequencesExt

CONSTANTS
  Items,      \* items, as [key, value], that a card may report
  Malformed,  \* byte strings as long as they announce, but no item of the format
  MaxItems    \* items and malformed strings in one answer

TextKeys   == {33, 38, 39, 40}     \* SerialNumber, CardRev, CardName, SatelliteVersion
OldMacKeys == 34 .. 37             \* MacAddress0 .. MacAddress3
NewMacKey  == 75                   \* NewMacScheme
PowerKey   == 41                   \* TotalPowerAvail
FanKey     == 42                   \* FanPresence
ModeKey    == 43                   \* ConfigMode
CageKeys   == 80 .. 83             \* CageType0 .. CageType3
ByteKeys   == {PowerKey, FanKey, ModeKey} \cup CageKeys
Keys       == TextKeys \cup OldMacKeys \cup ByteKeys \cup {NewMacKey}

\* The bytes an item of one byte may hold: the variants of its enum.
Variants(key) ==
  CASE key = PowerKey     -> 0 .. 3
    [] key = FanKey       -> 0 .. 255
    [] key = ModeKey      -> 0 .. 12
    [] key \in CageKeys   -> 0 .. 2

ItemErrors == {"IncompleteInput", "IncorrectLength", "NonNullTerminator",
               "CardInfoKey", "PrimitiveValue"}
Errors     == ItemErrors \cup {"ItemLengthOutOfBounds"}

VARIABLES
  sent,        \* what the card sent: a sequence of items and malformed strings
  input,       \* the bytes of it that reached the host
  parsed_len,  \* bytes that the loop has dealt with
  items,       \* items that it has parsed
  result       \* "parsing", "ok", an error, or "panic"

vars == <<sent, input, parsed_len, items, result>>

\* The format, as PG348 gives it: a text ends in a null byte, and so does a MAC
\* address of the old kind, which is written in 17 characters; one of the new
\* kind has a reserved byte after the number of addresses.
Data(item) ==
  CASE item.key \in TextKeys \cup OldMacKeys -> Append(item.value, 0)
    [] item.key \in ByteKeys                 -> item.value
    [] item.key = NewMacKey -> <<Head(item.value), 0>> \o Tail(item.value)

Encode(item) == <<item.key, Len(Data(item))>> \o Data(item)

\* An answer is made of parts: well-formed ones hold an item.
Parts == [bytes : {Encode(i) : i \in Items}, ok : {TRUE}]
           \cup [bytes : Malformed, ok : {FALSE}]
Bytes(parts) == FlattenSeq([k \in DOMAIN parts |-> parts[k].bytes])

Init ==
  /\ sent \in BoundedSeq(Parts, MaxItems)
  /\ \E n \in 0 .. Len(Bytes(sent)) : input = SubSeq(Bytes(sent), 1, n)
  /\ parsed_len = 0
  /\ items = <<>>
  /\ result = "parsing"

-----------------------------------------------------------------------------
(* One item: `b` is its key, its length and its data *)

\* The length that the key asks for.
LengthFits(key, len) ==
  \/ key \in TextKeys /\ len # 0
  \/ key \in OldMacKeys /\ len = 18
  \/ key \in ByteKeys /\ len = 1
  \/ key = NewMacKey /\ len = 8

\* The error that CardInfoItem::try_from returns, in the order of its tests.
\* OldMacAddress holds 16 bytes, and 17 are read into it.
ItemError(b) ==
  LET key == b[1]
      len == b[2]
  IN CASE key \notin Keys -> "CardInfoKey"
       [] key \in Keys /\ ~LengthFits(key, len) -> "IncorrectLength"
       [] key \in Keys /\ LengthFits(key, len) /\ Len(b) < len + 2 -> "IncompleteInput"
       [] OTHER ->
            CASE key \in TextKeys \cup OldMacKeys /\ b[len + 2] # 0 -> "NonNullTerminator"
              [] key \in OldMacKeys /\ b[len + 2] = 0 /\ len - 1 # 16 -> "IncorrectLength"
              [] key \in ByteKeys /\ b[3] \notin Variants(key) -> "PrimitiveValue"
              [] OTHER -> "none"

\* Mutant: the terminator is taken for a part of the text.
ItemOfWholeText(b) ==
  [key |-> b[1],
   value |-> IF b[1] = NewMacKey THEN <<b[3]>> \o SubSeq(b, 5, 10) ELSE SubSeq(b, 3, b[2] + 2)]

\* Mutant: the reserved byte of the new MAC scheme is not skipped.
ItemOfUnskipped(b) ==
  [key |-> b[1],
   value |-> CASE b[1] \in TextKeys \cup OldMacKeys -> SubSeq(b, 3, b[2] + 1)
               [] b[1] \in ByteKeys -> <<b[3]>>
               [] b[1] = NewMacKey -> <<b[3]>> \o SubSeq(b, 4, 9)]

ValueOf(b) ==
  CASE b[1] \in TextKeys \cup OldMacKeys -> SubSeq(b, 3, b[2] + 1)
    [] b[1] \in ByteKeys -> <<b[3]>>
    [] b[1] = NewMacKey -> <<b[3]>> \o SubSeq(b, 5, 10)

ItemOf(b) == [key |-> b[1], value |-> ValueOf(b)]

-----------------------------------------------------------------------------
(* What the constants may be *)

\* The values that the format has room for: the length is a byte, and a null
\* byte follows a text.
Fits(item) ==
  /\ item.key \in TextKeys => Len(item.value) <= 254
  /\ item.key \in OldMacKeys => Len(item.value) = 17
  /\ item.key \in ByteKeys => Len(item.value) = 1 /\ item.value[1] \in Variants(item.key)
  /\ item.key = NewMacKey => Len(item.value) = 7

ASSUME ItemsAssumption ==
  /\ Items \subseteq [key : Keys, value : Seq(0 .. 255)]
  /\ \A i \in Items : Fits(i)

\* Every answer is a sequence of items, of such strings, and of a last one that
\* is cut, but for the reserved byte of the new MAC scheme, which is 0 here.
ASSUME MalformedAssumption ==
  \A m \in Malformed :
    /\ m \in Seq(0 .. 255)
    /\ Len(m) >= 2 /\ Len(m) = m[2] + 2
    /\ ItemError(m) # "none"

ASSUME MaxItemsAssumption == MaxItems \in Nat

-----------------------------------------------------------------------------
(* The loop over the items *)

\* Mutant: the loop asks for one byte more than it needs to go on.
MoreThanThree == parsed_len + 3 < Len(input)

More == parsed_len + 2 < Len(input)

\* Mutant: the key is not counted.
NextItemWithoutKey == parsed_len + input[parsed_len + 2] + 1

NextItemPos == parsed_len + input[parsed_len + 2] + 2

\* Mutant: the test is off by one the other way.
OutOfBoundsEarly == NextItemPos + 1 > Len(input)

OutOfBounds == NextItemPos - 1 > Len(input)

ParseItem ==
  /\ result = "parsing" /\ More
  /\ ~OutOfBounds /\ NextItemPos <= Len(input)
  /\ LET b == SubSeq(input, parsed_len + 1, NextItemPos)
     IN IF ItemError(b) = "none"
        THEN /\ items' = Append(items, ItemOf(b))
             /\ parsed_len' = NextItemPos
             /\ UNCHANGED result
        ELSE result' = ItemError(b) /\ UNCHANGED <<items, parsed_len>>
  /\ UNCHANGED <<sent, input>>

ItemTooLong ==
  /\ result = "parsing" /\ More /\ OutOfBounds
  /\ result' = "ItemLengthOutOfBounds"
  /\ UNCHANGED <<sent, input, parsed_len, items>>

\* The slice input[parsed_len..next_item_pos] ends behind the input.
SlicePanics ==
  /\ result = "parsing" /\ More
  /\ ~OutOfBounds /\ NextItemPos > Len(input)
  /\ result' = "panic"
  /\ UNCHANGED <<sent, input, parsed_len, items>>

Finish ==
  /\ result = "parsing" /\ ~More
  /\ result' = "ok"
  /\ UNCHANGED <<sent, input, parsed_len, items>>

Next == ParseItem \/ ItemTooLong \/ SlicePanics \/ Finish

Spec == Init /\ [][Next]_vars

-----------------------------------------------------------------------------
(* Properties *)

\* The values each variable takes: the loop stays inside of the input.
TypeOK ==
  /\ sent \in BoundedSeq(Parts, MaxItems)
  /\ IsPrefix(input, Bytes(sent))
  /\ parsed_len \in 0 .. Len(input)
  /\ \A k \in DOMAIN items : items[k] \in Items
  /\ result \in {"parsing", "ok", "panic"} \cup Errors

\* However the answer is cut and whatever follows, the items parsed are those
\* that the card sent first, each with the value it was sent with, and the loop
\* stands at the end of the last one.
ItemsAreTheCards ==
  LET n == Len(items)
  IN /\ n <= Len(sent)
     /\ \A k \in 1 .. n : sent[k].ok /\ Encode(items[k]) = sent[k].bytes
     /\ parsed_len = Len(Bytes(SubSeq(sent, 1, n)))

\* CardInfo::try_from returns Ok only when it parsed all but two bytes at most,
\* so that no item with data is left out without an error.
OkLosesNoItem ==
  result = "ok" =>
    \A k \in Len(items) + 1 .. Len(sent) :
      Len(Bytes(SubSeq(sent, 1, k))) <= Len(input) => Len(sent[k].bytes) <= 2

\* An error has a cause: a malformed item, an answer that was cut short, or the
\* first MAC address of the old kind, which is always refused.
ErrorsHaveCause ==
  result \in Errors \cup {"panic"} =>
    \/ input # Bytes(sent)
    \/ \E k \in DOMAIN sent : ~sent[k].ok
    \/ /\ Len(items) < Len(sent) /\ sent[Len(items) + 1].bytes[1] \in OldMacKeys
       /\ result = "IncorrectLength"

\* The item's parser always gets the bytes that its length announces.
ItemsAreComplete == result # "IncompleteInput"

\* An item that is longer than the rest of the input is an error, no panic
\* (the test card_info_sernum_length_out_of_bounds).
OutOfBoundsIsError == result # "panic"
=============================================================================
