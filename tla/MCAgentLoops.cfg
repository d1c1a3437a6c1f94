CONSTANTS
  Tasks <- MCTasks
  NoSpan = NoSpan
  MaxFlushes = 1
  Assignments <- MCAssignments
  HardCap = 2
  MaxDelegations = 1
  Permits = 2
  Plans = {0, 2}
  TodoLists <- MCTodoLists
  SearchResults <- MCSearchResults
  Texts <- MCTexts
  NoText = ""
  Similar <- MCSimilar
SPECIFICATION Spec
INVARIANTS
  TraceIsATree
  SpansAreExportedOnce
  OutcomesTellTheWork
  CitationsAreBound
PROPERTIES
  NodesEnd
\* The nodes end.
CHECK_DEADLOCK FALSE
