SPECIFICATION Spec
CONSTANTS
  Configs <- AnyConfigs
  Uris <- AnyUris
  Null = Null
INVARIANTS RoutedAsConfigured FactoryFound
