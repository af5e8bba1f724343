\* Two sellers, two addresses, every interleaving of forms and files.
SPECIFICATION Spec
CONSTANTS
  NULL = NULL
  la = la
  lb = lb
  Ids = {i1, i2}
  Labels = {la, lb}
  Forms <- AnyForm
  Files <- AnyFile
  Callers = {p1, p2}
SYMMETRY Symmetric
INVARIANTS OneDefault PreviewTellsConfirm SomeoneGoesOn
PROPERTIES SomeDefaultStays ImplementsAddressBook
