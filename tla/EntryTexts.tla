------------------------------ MODULE EntryTexts ------------------------------
(* Texts of the entries of editors that are not numbers. *)
CONSTANTS
  Empty, Minus,  \* "" and "-", which may become numbers
  Junk           \* others

NotNumbers == {Empty, Minus, Junk}
==============================================================================
