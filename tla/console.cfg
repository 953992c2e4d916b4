SPECIFICATION ConsoleSpec
CONSTANTS
  a = a
  b = b
  Nodes <- MCNodes
  Parties <- MCParties
  Notaries <- MCNotaries
  Columns <- MCColumns
  NoNode = NoNode
  Logins = {l1, l2}
  Deletes = {d1}
SYMMETRY LoginSymmetry
INVARIANTS
  AllOrNothing
  PlacesKnown
  ConsoleTypeOK
  AsksAboutClicked
  DeleteOnlyByAdmin
  AdminHasToken
  SignedOutStays
