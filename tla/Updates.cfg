\* Six options with two to six sub-keys, texts of up to three parts, two changes.
SPECIFICATION UpdSpec
CONSTANTS
  WithComma = {"a,b"}
  Rooted = {"/a"}
  Spice = {"spice", "SPICE"}
  Options = {"net", "disk", "mp", "usb", "hostpci", "features"}
  FormatOf <- MCFormatOf
  Parts <- MCParts
  Values <- MCValues
  MaxParts = 3
  MaxEdits = 2
CHECK_DEADLOCK FALSE
INVARIANTS
  UpdTypeOK
  ReadsBack
  CredentialFits
