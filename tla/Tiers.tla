-------------------------------- MODULE Tiers --------------------------------
(* The credential a call is sent with: the rules of core/privileges.ts for   *)
(* the parameters a node takes from root@pam only, and requiredTier and      *)
(* resolveDecision of core/client.ts.  Of the rules, those that look into a  *)
(* property string.  The rules read its text without a format.               *)
EXTENDS Props

CONSTANTS
  Rooted,    \* words that start with a slash
  Spice      \* the spellings of spice

(***************************************************************************)
(* privileges.ts.                                                          *)
(***************************************************************************)
(* splitPropertyParts: a part without a key, or with an empty one, is bare.  *)
IsBare(part) == part # <<Empty>> /\ (Len(part) = 1 \/ part[1] = Empty)
BareAt(text) == {i \in DOMAIN text : IsBare(text[i])}
NamedAt(text) == {i \in DOMAIN text : Len(text[i]) > 1 /\ text[i][1] # Empty}

(* The value of the first part with this name, <<>> without one.             *)
SubKey(text, key) ==
  LET at == {i \in NamedAt(text) : text[i][1] = key} IN
  IF at = {} THEN <<>> ELSE Tail(text[Min(at)])

\* Wrong: the value is looked for under its name only.
BareOr_Named(text, key) == SubKey(text, key)

BareOr(text, key) ==
  IF BareAt(text) = {} THEN SubKey(text, key) ELSE text[Min(BareAt(text))]

IsRooted(words) == words # <<>> /\ words[1] \in Rooted

UsesPrivilegedFeature(text) ==
  \/ \E i \in NamedAt(text) : text[i][1] # "nesting"
  \/ BareAt(text) # {}

(* isSet: "The handlers test these parameters with Perl truthiness, so an    *)
(* off flag passes."  No rule fires on the text <<>> anyway.                 *)
IsOff(text) == text = <<<<"0">>>>

HitsRootOnly(option, text) ==
  /\ ~IsOff(text)
  /\ CASE option = "mp" -> IsRooted(BareOr(text, "volume"))
       [] option = "usb" -> BareOr(text, "host") \notin {<<>>} \cup {<<w>> : w \in Spice}
       [] option = "hostpci" -> BareOr(text, "host") # <<>> \/ SubKey(text, "romfile") # <<>>
       [] option = "features" -> UsesPrivilegedFeature(text)
       [] OTHER -> FALSE

(***************************************************************************)
(* client.ts.  An endpoint is one of four kinds: unknown to the registry,    *)
(* rootOnly, ticketOnly (allowtoken 0), or plain.  credentials has token and *)
(* ticket, the latter "none", "user" or "root".                              *)
(***************************************************************************)
Configured(credentials, tier) ==
  IF tier = "token" THEN credentials.token ELSE credentials.ticket # "none"

RequiredTier(credentials, endpoint, hits) ==
  CASE endpoint = "rootOnly" \/ hits -> [tier |-> "ticket", root |-> TRUE]
    [] endpoint = "ticketOnly" /\ ~hits -> [tier |-> "ticket", root |-> FALSE]
    [] OTHER -> [tier |-> IF credentials.token THEN "token" ELSE "ticket", root |-> FALSE]

\* Wrong: whether the ticket is that of root@pam is not looked at.
Decision_AnyTicket(credentials, endpoint, hits, asked) ==
  LET required == RequiredTier(credentials, endpoint, hits)
      tier == IF asked = Unset THEN required.tier ELSE asked IN
  IF endpoint = "unknown" \/ ~Configured(credentials, tier) THEN "refused" ELSE tier

(* The tier the call is sent with, or "refused".  asked is the tier option.  *)
Decision(credentials, endpoint, hits, asked) ==
  LET required == RequiredTier(credentials, endpoint, hits)
      forced == asked \notin {Unset, required.tier}
      tier == IF forced THEN asked ELSE required.tier IN
  IF \/ endpoint = "unknown"
     \/ ~Configured(credentials, tier)
     \/ required.root /\ ~forced /\ credentials.ticket # "root"
  THEN "refused" ELSE tier
=============================================================================
