SPECIFICATION FairSpec
CONSTANTS
  Handler = {h1}
  MaxChanges = 3
  TagsOf <- MCTagsOf
PROPERTY StatusReflectsReconnects
