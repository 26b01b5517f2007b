SPECIFICATION Spec
CONSTANTS
  Width = 2
  Builds = 2
  HARNESS_CONCURRENCY = 2
  DefaultBytes = 1
  Capitals <- Letters
  Declarations <- Declared1
  Payloads <- Sent
  SchemaOf <- schemaOf
  Parse <- ParseSchema
  Render <- Types
INVARIANTS HarnessIsDeclared BindingsAreDeclared DigestPins
