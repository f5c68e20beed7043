SPECIFICATION FairSpec
CONSTANTS
  Handler = {h1, h2}
  MaxChanges = 3
  TagsOf <- MCTagsOf
INVARIANTS
  TypeOK
  StaleTagsNoticed
  CollectorsBounded
PROPERTIES
  CollectorsSettle
  CollectedUnlessDisturbed
