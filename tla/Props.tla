-------------------------------- MODULE Props --------------------------------
(* Property strings (core/props.ts): the key=value,key=value texts in which  *)
(* the node keeps the settings of a disk, a network card or a device, read   *)
(* into bags of sub-keys and written back.                                   *)
(*                                                                         *)
(* A text is the sequence of its parts (between commas), a part the sequence *)
(* of its words (between equals signs): file=a=b is <<"file", "a", "b">>, a  *)
(* bare a is <<"a">>, and <<Empty>> is an empty part.  A value keeps the     *)
(* words it is written with and the type it was read as.  A format has its   *)
(* sub-keys in sorted order and an entry for each: type, default (is it the  *)
(* one written without its name), optional, alias and keyAlias (Unset        *)
(* without), and enum ({} without).                                          *)
EXTENDS Naturals, FiniteSets, SequencesExt

CONSTANT WithComma     \* the words that hold a comma

Empty == "empty"     \* the word without a letter
Unset == "unset"     \* no name at all
Text(words) == [type |-> "text", words |-> words]
Flag(word) == [type |-> "boolean", words |-> <<word>>]
Number(word) == [type |-> "number", words |-> <<word>>]

Keys(format) == Range(format.keys)
NoEntry == [type |-> "string", default |-> FALSE, optional |-> TRUE,
            alias |-> Unset, keyAlias |-> Unset, enum |-> {}]
Entry(format, key) == IF key \in Keys(format) THEN format.entry[key] ELSE NoEntry
DefaultKey(format) ==
  IF \E k \in Keys(format) : Entry(format, k).default
  THEN CHOOSE k \in Keys(format) : Entry(format, k).default
  ELSE Unset

(***************************************************************************)
(* Reading.                                                                *)
(***************************************************************************)
Yes == {"1", "on", "yes", "true"}
No == {"0", "off", "no", "false"}
Decimal == [w \in {"010", "10"} |-> "10"]    \* some numerals, as Number prints them

(* What does not fit the declared type stays text.                           *)
Coerce(words, type) ==
  CASE type = "boolean" /\ words \in {<<w>> : w \in Yes} -> Flag("1")
    [] type = "boolean" /\ words \in {<<w>> : w \in No}  -> Flag("0")
    [] type = "integer" /\ words \in {<<w>> : w \in DOMAIN Decimal} -> Number(Decimal[words[1]])
    [] OTHER -> Text(words)

NoKeys == <<>>       \* the empty bag
Refused == [ok |-> FALSE, bag |-> NoKeys]
Bag(bag) == [ok |-> TRUE, bag |-> bag]

With(bag, key, value) ==
  [k \in DOMAIN bag \cup {key} |-> IF k = key THEN value ELSE bag[k]]

Put(read, key, value) ==
  IF read.ok /\ key \notin DOMAIN read.bag THEN Bag(With(read.bag, key, value)) ELSE Refused

Malformed(part) == part[1] = Empty \/ Tail(part) = <<Empty>>

\* Wrong: an alias is kept as a sub-key of its own.
PutNamed_KeepsAlias(format, read, key, raw) ==
  Put(read, key, Coerce(raw, Entry(format, key).type))

(* A sub-key with an alias renames itself; with keyAlias on top its own name *)
(* becomes a value too.                                                      *)
PutNamed(format, read, key, raw) ==
  LET entry == Entry(format, key)
      named == IF entry.alias = Unset THEN key ELSE entry.alias
      paired == IF entry.keyAlias = Unset THEN read
                ELSE Put(read, entry.keyAlias, Text(<<key>>)) IN
  IF key \in DOMAIN read.bag THEN Refused
  ELSE Put(paired, named, Coerce(raw, Entry(format, named).type))

ReadPart(format, strict, read, part) ==
  LET default == DefaultKey(format) IN
  CASE part = <<Empty>> -> read
    [] Len(part) = 1 /\ part # <<Empty>> ->
         IF default = Unset THEN Refused
         ELSE Put(read, default, Coerce(part, Entry(format, default).type))
    [] Len(part) > 1 ->
         IF Malformed(part) \/ (strict /\ part[1] \notin Keys(format)) THEN Refused
         ELSE PutNamed(format, read, part[1], Tail(part))

(* parsePropertyString; strict is its option strictKeys, true by default.    *)
Parse(format, text, strict) ==
  LET read[i \in 0..Len(text)] ==
        IF i = 0 THEN Bag(NoKeys) ELSE ReadPart(format, strict, read[i - 1], text[i]) IN
  read[Len(text)]

(***************************************************************************)
(* Writing.                                                                *)
(***************************************************************************)
(* The options validate: true adds to formatPropertyString.                  *)
Valid(format, bag) ==
  /\ \A k \in DOMAIN bag :
       LET enum == Entry(format, k).enum IN
       enum = {} \/ bag[k].words \in {<<w>> : w \in enum}
  /\ \A k \in Keys(format) :
       Entry(format, k).alias # Unset \/ Entry(format, k).optional \/ k \in DOMAIN bag

(* The sub-key a keyAlias sub-key pairs with: macaddr for model.             *)
Partner(format, key) ==
  LET pairs == {k \in Keys(format) : Entry(format, k).keyAlias = key} IN
  IF pairs = {} THEN Unset ELSE Entry(format, CHOOSE k \in pairs : TRUE).alias

\* Wrong: both halves of a pair are written with their names.
WritePart_Unpaired(format, bag, key) ==
  IF key = DefaultKey(format) THEN bag[key].words ELSE <<key>> \o bag[key].words

WritePart(format, bag, key) ==
  LET partner == Partner(format, key) IN
  CASE partner \in DOMAIN bag -> bag[key].words \o bag[partner].words
    [] partner \notin DOMAIN bag /\ key = DefaultKey(format) -> bag[key].words
    [] OTHER -> <<key>> \o bag[key].words

(* addKey for one key after the other, for those that are wanted: a sub-key  *)
(* that is set is written once, and not at all when its value went out with  *)
(* the sub-key it pairs with.                                                *)
AddKeys(format, bag, written, keys, wanted) ==
  LET after[i \in 0..Len(keys)] ==
        IF i = 0 THEN written
        ELSE LET before == after[i - 1]
                 done == Range(before) \cup {Partner(format, k) : k \in Range(before)} IN
             IF keys[i] \in (DOMAIN bag \cap wanted) \ done
             THEN Append(before, keys[i])
             ELSE before IN
  after[Len(keys)]

(* The default key, the required sub-keys, then the others, each group       *)
(* sorted.  Undeclared sub-keys are put last.                                *)
Order(format, bag) ==
  LET keys == format.keys \o SetToSeq(DOMAIN bag \ Keys(format))
      required == {k \in Keys(format) : ~Entry(format, k).optional}
      first == AddKeys(format, bag, <<>>, <<DefaultKey(format)>>, DOMAIN bag) IN
  AddKeys(format, bag, AddKeys(format, bag, first, keys, required), keys, DOMAIN bag)

HasComma(value) == \E i \in DOMAIN value.words : value.words[i] \in WithComma

NoText == [ok |-> FALSE, text |-> <<>>]

(* formatPropertyString, with its options strictKeys and validate.           *)
Format(format, bag, strict, validate) ==
  IF \/ validate /\ ~Valid(format, bag)
     \/ strict /\ ~(DOMAIN bag \subseteq Keys(format))
     \/ \E k \in DOMAIN bag : HasComma(bag[k])
  THEN NoText
  ELSE LET order == Order(format, bag) IN
       [ok |-> TRUE, text |-> [i \in DOMAIN order |-> WritePart(format, bag, order[i])]]
=============================================================================
