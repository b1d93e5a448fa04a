CONSTANTS
  e1 = e1
  e2 = e2
  None = None
  Unset = Unset
  NoEvent = NoEvent
  Events <- MC_Events
  Ids <- MC_Ids
  Captures <- MC_Captures
SPECIFICATION Spec
INVARIANT
  AssociationSucceeds
