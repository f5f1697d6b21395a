SPECIFICATION Spec
CONSTANTS
  Elements = {1, 2, 3, 4, 5, 6, 7, 8, 9, 10, 11, 12}
  NULL = null
INVARIANTS
  Balanced
  Searchable
PROPERTIES
  TreeIsSet
