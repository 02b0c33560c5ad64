SPECIFICATION MCSpec
CONSTANTS
  ProjectTable <- MCProjects
  Builtins <- MCBuiltins
  Fresh = {"z"}
  MaxDepth = 4
  Rounds = 2
  MaxDefs = 128
  Opened <- BodiesOpened
  MaxSteps <- MCMaxSteps
  Parsed <- MCParsed
  DefinitionAt <- MCDefinitionAt
  DefinitionsAt <- MCDefinitionsAt
  TypeAt <- MCTypeAt
  ReferencesTo <- MCReferencesTo
  HighlightsAt <- MCHighlightsAt
  Renamed <- MCRenamed
  DiagnosticsOf <- MCDiagnosticsOf
  LookupsOf <- MCLookupsOf
  UnusedIn <- MCUnusedIn
  BodyAt <- MCBodyAt
  Offers <- MCOffers
  RunsOf <- MCRunsOf
  SoleDefs <- MCSoleDefs
  DefsMet <- MCDefsMet
CHECK_DEADLOCK FALSE
INVARIANT VerifiedIsFree
