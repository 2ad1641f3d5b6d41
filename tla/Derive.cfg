\* Every item of MCItems: up to three metas on the struct, up to two fields of
\* up to two attributes of up to two metas.
SPECIFICATION Spec
CONSTANTS
  Literal <- Literals
  Items <- MCItems
INVARIANTS
  TypeOK
  AcceptsExactly
  ErrorIsTrue
