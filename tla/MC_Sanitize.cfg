CONSTANTS
  Results <- MC_Results
  Updates <- MC_Updates
  References <- MC_References
  Metas <- MC_Metas
  TaskId <- MC_TaskId
SPECIFICATION Spec
INVARIANTS
  TypeOK
  ResultMatchesSpec
  MetaCarriesTaskId
