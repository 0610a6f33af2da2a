CONSTANTS
  Places = {"p1"}
  Releases <- MCReleases
  Creator = "creator"
  Readers = {"u1"}
  Agents = {"a1", "a2"}
SPECIFICATION Spec
INVARIANTS
  NotModifiedIsTrue
  MetadataStaysPrivate
