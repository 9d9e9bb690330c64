------------------------------- MODULE Updates -------------------------------
(* A caller changes one option of a guest, as docs/property-strings.md has   *)
(* it: it reads the option's property string, changes sub-keys of the bag,   *)
(* writes the bag back to text and sends it (parseConfigValue and            *)
(* formatConfigValue of core/schema.ts, the credential of                    *)
(* PveClient.request).                                                       *)
EXTENDS Tiers

CONSTANTS
  Options,       \* the options that are changed
  FormatOf(_),   \* the format the registry has for an option
  Parts(_),      \* parts an option's stored text is made of
  MaxParts,      \* how many of them at most
  Values(_, _),  \* what a caller sets a sub-key of an option to
  MaxEdits       \* sub-keys a caller changes

(* What generated/formats.ts keeps to: an alias leads to a sub-key of the    *)
(* format that has none, keys that pair up (e1000, virtio) pair the same two *)
(* sub-keys, the first of which is the default key, an enum of such keys.    *)
IsFormat(f) ==
  LET pairing == {k \in Keys(f) : Entry(f, k).keyAlias # Unset} IN
  /\ f.keys \in Seq(STRING) /\ Keys(f) \cap {Empty, Unset} = {}
  /\ \A j, k \in Keys(f) : Entry(f, j).default /\ Entry(f, k).default => j = k
  /\ \A k \in Keys(f) : LET alias == Entry(f, k).alias IN
       alias # Unset => /\ alias \in Keys(f) /\ Entry(f, alias).alias = Unset
                        /\ ~Entry(f, k).default
  /\ \A k \in pairing : LET first == Entry(f, k).keyAlias IN
       /\ Entry(f, k).alias # Unset
       /\ \A j \in pairing : Entry(f, j).alias = Entry(f, k).alias
       /\ first \in Keys(f) /\ first # Entry(f, k).alias
       /\ Entry(f, first).default /\ Entry(f, first).type = "string"
       /\ Entry(f, first).enum # {} /\ Entry(f, first).enum \subseteq pairing

ASSUME FormatAssumption == \A o \in Options : IsFormat(FormatOf(o))

(* The formats of the options the rules of privileges.ts look into.          *)
ASSUME OptionAssumption ==
  \A o \in Options : LET f == FormatOf(o) IN
    /\ o = "mp" => DefaultKey(f) = "volume"
    /\ o \in {"usb", "hostpci"} => DefaultKey(f) = "host"
    /\ o = "features" => DefaultKey(f) = Unset
    /\ o \in {"mp", "usb", "hostpci", "features"} =>
         \A k \in Keys(f) : Entry(f, k).keyAlias = Unset

(* A caller sets a sub-key by its own name, to what it would read as.        *)
ASSUME InputAssumption ==
  /\ MaxParts \in Nat /\ MaxEdits \in Nat
  /\ \A o \in Options : \A part \in Parts(o) :
       part \in Seq(STRING) /\ part # <<>> /\ (Len(part) > 1 => part[1] # Unset)
  /\ \A o \in Options : \A k \in Keys(FormatOf(o)) : \A v \in Values(o, k) :
       LET entry == Entry(FormatOf(o), k) IN
       /\ entry.alias = Unset
       /\ v.words \in Seq(STRING) /\ v.words # <<>> /\ v = Coerce(v.words, entry.type)

VARIABLES
  option,
  text,       \* the property string, as stored and then as written
  bag,
  phase,      \* "stored", "read", "written", "sent", "refused"
  strict,     \* the caller's option strictKeys, for reading and for writing
  validated,  \* the bag was written with validate: true
  edits,
  credentials,
  asked,      \* the tier the caller asks for, or Unset
  endpoint,
  sent        \* the tier the call went out with, or "refused"

updVars == <<option, text, bag, phase, strict, validated, edits, credentials, asked, endpoint, sent>>
caller == <<option, strict, credentials, asked, endpoint>>

(* A client has at least one of the two.                                     *)
Credentials ==
  {c \in [token : BOOLEAN, ticket : {"none", "user", "root"}] : c.token \/ c.ticket # "none"}

UpdInit ==
  /\ option \in Options
  /\ text \in SeqOf(Parts(option), MaxParts)
  /\ strict \in BOOLEAN
  /\ bag = NoKeys /\ phase = "stored" /\ validated = FALSE /\ edits = 0
  /\ credentials = [token |-> TRUE, ticket |-> "none"] /\ asked = Unset
  /\ endpoint = "plain" /\ sent = "none"

Read ==
  LET read == Parse(FormatOf(option), text, strict) IN
  /\ phase = "stored"
  /\ phase' = IF read.ok THEN "read" ELSE "refused"
  /\ bag' = read.bag
  /\ UNCHANGED <<caller, text, validated, edits, sent>>

SetKey(key, value) ==
  /\ phase = "read" /\ edits < MaxEdits
  /\ bag' = With(bag, key, value)
  /\ edits' = edits + 1
  /\ UNCHANGED <<caller, text, phase, validated, sent>>

ClearKey(key) ==
  /\ phase = "read" /\ edits < MaxEdits
  /\ key \in DOMAIN bag
  /\ bag' = [k \in DOMAIN bag \ {key} |-> bag[k]]
  /\ edits' = edits + 1
  /\ UNCHANGED <<caller, text, phase, validated, sent>>

Write(validate) ==
  LET out == Format(FormatOf(option), bag, strict, validate) IN
  /\ phase = "read"
  /\ phase' = IF out.ok THEN "written" ELSE "refused"
  /\ text' = out.text
  /\ validated' = validate
  /\ UNCHANGED <<caller, bag, edits, sent>>

(* The call goes out, from a client with whatever credentials.               *)
Send ==
  /\ phase = "written"
  /\ credentials' \in Credentials
  /\ asked' \in {Unset, "token", "ticket"}
  /\ endpoint' \in {"plain", "ticketOnly", "rootOnly", "unknown"}
  /\ sent' = Decision(credentials', endpoint',
                      endpoint' = "plain" /\ HitsRootOnly(option, text), asked')
  /\ phase' = "sent"
  /\ UNCHANGED <<option, text, bag, strict, validated, edits>>

UpdNext ==
  \/ Read \/ Send
  \/ \E key \in Keys(FormatOf(option)) :
       ClearKey(key) \/ \E value \in Values(option, key) : SetKey(key, value)
  \/ \E validate \in BOOLEAN : Write(validate)

UpdSpec == UpdInit /\ [][UpdNext]_updVars

(***************************************************************************)
(* Properties.                                                             *)
(***************************************************************************)
format == FormatOf(option)
IsSet(key) == key \in DOMAIN bag

(* Types; a bag holds sub-keys under their own names only, never an alias    *)
(* (props.ts: "a sub-key with alias renames itself on parse"), and what      *)
(* reads as a flag or a number is one.                                       *)
UpdTypeOK ==
  /\ option \in Options /\ credentials \in Credentials
  /\ phase \in {"stored", "read", "written", "sent", "refused"}
  /\ sent \in {"none", "token", "ticket", "refused"}
  /\ edits \in 0..MaxEdits
  /\ \A k \in DOMAIN bag :
       /\ strict => k \in Keys(format)
       /\ Entry(format, k).alias = Unset
       /\ bag[k] = Coerce(bag[k].words, Entry(format, k).type)

(* What a property string cannot hold: an empty value; a default key's value *)
(* with an equals sign, written without its name; and, unless validated, a   *)
(* first half of a pair that is not the name of a sub-key that pairs.        *)
Unwritable ==
  LET default == DefaultKey(format)
      pairing == {k \in Keys(format) : Entry(format, k).keyAlias # Unset} IN
  \/ \E k \in DOMAIN bag : bag[k].words = <<Empty>>
  \/ IsSet(default) /\ Len(bag[default].words) > 1
  \/ \E k \in DOMAIN bag :
       /\ ~validated /\ IsSet(Partner(format, k))
       /\ bag[k].words \notin {<<name>> : name \in pairing}

(* A text reads the same in whatever order the node hands its parts back,    *)
(* and what a caller wrote reads back sub-key for sub-key, whatever it       *)
(* changed (docs/property-strings.md: "the rest come back semantically equal *)
(* with the sub-keys re-sorted").                                            *)
ReadsBack ==
  phase = "stored" \/ (phase = "written" /\ ~Unwritable) =>
    \A p \in Bijection(DOMAIN text, DOMAIN text) :
      Parse(format, [i \in DOMAIN text |-> text[p[i]]], strict) =
        IF phase = "stored" THEN Parse(format, text, strict) ELSE Bag(bag)

(* What the option means: whether the node takes it from root@pam only.  A   *)
(* default key of 0 and nothing else is an option that is off.               *)
Off == DOMAIN bag = {DefaultKey(format)} /\ bag[DefaultKey(format)].words = <<"0">>

NeedsRoot ==
  /\ ~Off
  /\ CASE option = "mp" -> IsSet("volume") /\ IsRooted(bag["volume"].words)
       [] option = "usb" -> IsSet("host") /\ bag["host"].words \notin {<<w>> : w \in Spice}
       [] option = "hostpci" -> IsSet("host") \/ IsSet("romfile")
       [] option = "features" -> \E k \in DOMAIN bag : k # "nesting"
       [] OTHER -> FALSE

Suffices(tier) ==
  /\ Configured(credentials, tier)
  /\ endpoint = "ticketOnly" => tier = "ticket"
  /\ endpoint = "rootOnly" \/ (endpoint = "plain" /\ NeedsRoot) =>
       tier = "ticket" /\ credentials.ticket = "root"

(* A call the caller leaves to the client goes out with a credential that    *)
(* reaches the endpoint with these parameters, the token when it does, and   *)
(* is refused only when none does: the rules, which look at the text without *)
(* its format, agree with what the text means.                               *)
CredentialFits ==
  (phase = "sent" /\ asked = Unset /\ endpoint # "unknown" /\ ~Unwritable) =>
    IF Suffices("token") THEN sent = "token"
    ELSE IF Suffices("ticket") THEN sent = "ticket"
    ELSE sent = "refused"
=============================================================================
