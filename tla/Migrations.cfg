\* Two commands on a database of any release, with rows for every constraint.
SPECIFICATION Spec
CONSTANTS
  u1 = u1
  s1 = s1
  m1 = m1
  m2 = m2
  Users <- OneUser
  Services <- OneService
  Migrators <- TwoMigrators
SYMMETRY MigratorSymmetry
INVARIANTS
  TypeOK
  SchemaFollowsRevisions
  UpgradeRefused
PROPERTIES
  AdminsKept
