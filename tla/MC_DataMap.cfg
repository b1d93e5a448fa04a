CONSTANTS
  MaxAddr <- MC_MaxAddr
  MaxAdds <- MC_MaxAdds
SPECIFICATION Spec
INVARIANTS
  TypeOK
  FindMostSpecific
  UnmappedTiles
PROPERTIES
  DataMapRefinement
\* The map stops after MaxAdds calls or once check() has raised.
CHECK_DEADLOCK FALSE
