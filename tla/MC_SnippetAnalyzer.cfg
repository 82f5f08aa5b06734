\* One analyzer run over every bounded snippet, with pydantic installed,
\* installable or failing to install, and a wrong argument count.
CONSTANTS
  ALLOWED_MODULES <- MC_Allowed
  Snippets <- MC_Snippets
  NameOrder <- MC_NameOrder
  ArgCounts = {1, 2}
SPECIFICATION Spec
INVARIANTS
  TypeOK
  
  HandlerIsBestRanked
\* main() ends: the process exits.
CHECK_DEADLOCK FALSE
