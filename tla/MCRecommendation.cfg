SPECIFICATION Spec
CONSTANTS
  NoDoc = NoDoc
  None = None
  Schemas <- SomeSchemas
  Items = {"kpi", "term"}
  IssueTypes = {"broken_fk"}
  Severities = {"critical", "warning"}
  MaxIssues = 1
  Recommenders = {"recommend"}
  Overriders = {"override"}
  Choices = {"vector", "plain_schema"}
  TopN = 10
  TextFieldCount = 3
  TextAvgLength = 200
  JunctionCount = 2
  JunctionRich = 4
  RelDensity <- Density
  MinCoverage <- Half
  SmallSchema = 10
INVARIANTS TypeOK ConfidenceEarned
PROPERTIES OverrideKept
