------------------------------ MODULE MCUpdates ------------------------------
(* Small instances of Updates for TLC: cut formats, parts and values.      *)
EXTENDS Updates

Plain(type) == [type |-> type, default |-> FALSE, optional |-> TRUE,
                alias |-> Unset, keyAlias |-> Unset, enum |-> {}]
Required(entry) == [entry EXCEPT !.optional = FALSE]
Default(entry) == [entry EXCEPT !.default = TRUE]
Card == [Plain("string") EXCEPT !.optional = FALSE, !.alias = "macaddr", !.keyAlias = "model"]

\* Entries of generated/formats.ts, a few sub-keys of each.
MCFormatOf(o) ==
  CASE o = "net" ->
         [keys |-> <<"e1000", "firewall", "macaddr", "model", "tag", "virtio">>,
          entry |-> [e1000 |-> Card, virtio |-> Card,
                     firewall |-> Plain("boolean"), macaddr |-> Plain("string"),
                     model |-> [Default(Required(Plain("string"))) EXCEPT !.enum = {"e1000", "virtio"}],
                     tag |-> Plain("integer")]]
    [] o = "disk" ->
         [keys |-> <<"backup", "file", "volume">>,
          entry |-> [backup |-> Plain("boolean"), file |-> Default(Required(Plain("string"))),
                     volume |-> [Required(Plain("string")) EXCEPT !.alias = "file"]]]
    [] o = "mp" ->
         [keys |-> <<"backup", "mp", "volume">>,
          entry |-> [backup |-> Plain("boolean"), mp |-> Required(Plain("string")),
                     volume |-> Default(Required(Plain("string")))]]
    [] o = "usb" ->
         [keys |-> <<"host", "mapping", "usb3">>,
          entry |-> [host |-> Default(Plain("string")), mapping |-> Plain("string"),
                     usb3 |-> Plain("boolean")]]
    [] o = "hostpci" ->
         [keys |-> <<"host", "mapping", "romfile">>,
          entry |-> [host |-> Default(Plain("string")), mapping |-> Plain("string"),
                     romfile |-> Plain("string")]]
    [] o = "features" ->
         [keys |-> <<"fuse", "nesting">>,
          entry |-> [fuse |-> Plain("boolean"), nesting |-> Plain("boolean")]]

MCValues(o, k) ==
  LET e == Entry(MCFormatOf(o), k) IN
  CASE e.alias # Unset -> {}
    [] e.type = "boolean" -> {Flag("0"), Flag("1"), Text(<<"maybe">>)}
    [] e.type = "integer" -> {Number("10")}
    [] e.enum # {} -> {Text(<<w>>) : w \in e.enum \cup {"firewall", "other"}}
    [] OTHER -> {Text(w) : w \in {<<"/a">>, <<"a", "b">>, <<"a,b">>, <<Empty>>}}
                  \cup (IF k = "host" THEN {Text(<<"SPICE">>), Text(<<"0">>)} ELSE {})

\* Bare, named, malformed and empty parts, and a value with an equals sign.
MCParts(o) ==
  LET f == MCFormatOf(o)
      sample(k) == CASE Entry(f, k).type = "boolean" -> {"on", "0"}
                     [] Entry(f, k).type = "integer" -> {"010"}
                     [] Entry(f, k).enum # {} -> {"firewall", "virtio"}
                     [] OTHER -> {"a", "/a", "spice"} IN
  {<<Empty>>, <<Empty, "a">>, <<"a">>, <<"/a">>, <<"virtio">>, <<"unknown", "a">>}
    \cup UNION {{<<k, w>> : w \in sample(k)} : k \in Keys(f)}
    \cup {<<k, Empty>> : k \in {f.keys[1]}} \cup {<<f.keys[1], "a", "b">>}
=============================================================================
