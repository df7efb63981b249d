------------------------------ MODULE Registry ------------------------------
(***************************************************************************)
(* The table of transformation.c: which program transforms the responses of *)
(* which media type.  A media type is a base, a sequence of letters as far  *)
(* as prefixes matter, and what follows its semicolon, if anything.         *)
(***************************************************************************)
EXTENDS Naturals, Sequences, SequencesExt

CONSTANTS Base,        \* sequences
          Charset,     \* what may follow a semicolon
          Transformer, \* values of transformation_type_t
          BLOCK        \* by how many cells the table grows

ASSUME BlockAssumption == BLOCK \in Nat \ {0}

NoCharset == "none"
NoTransformer == "not transformed"

MediaType == [base : Base, charset : Charset \union {NoCharset}]

\* transformations and transformationCount are the entries, size the cells.
RegistryStart == [entries |-> << >>, size |-> 0]

\* Mutant of Matches: an entry with a charset is never found again.
MatchesPlain(current, mediaType) ==
  current.charset = NoCharset /\ IsPrefix(mediaType.base, current.base)

\* An entry with a charset is compared whole; one without, over the length of
\* the base that is looked up.
Matches(current, mediaType) ==
  IF current.charset # NoCharset
  THEN current = mediaType
  ELSE IsPrefix(mediaType.base, current.base)

\* get_transformation: the first entry that matches, 0 if there is none.
GetTransformation(registry, mediaType) ==
  SelectInSeq(registry.entries, LAMBDA e : Matches(e.mediaType, mediaType))

IsActive(registry, mediaType) == GetTransformation(registry, mediaType) # 0

\* What get_exe finds the program of.
TypeOf(registry, mediaType) ==
  IF IsActive(registry, mediaType)
  THEN registry.entries[GetTransformation(registry, mediaType)].type
  ELSE NoTransformer

\* Mutant of RegisterTransformation: the table grows when it is too late.
RegisterTransformationLate(registry, mediaType, type) ==
  LET i == GetTransformation(registry, mediaType)
      full == Len(registry.entries) = registry.size + 1 IN
  IF i # 0
  THEN [registry EXCEPT !.entries[i].type = type]
  ELSE [entries |-> Append(registry.entries, [mediaType |-> mediaType, type |-> type]),
        size |-> registry.size + IF full THEN BLOCK ELSE 0]

\* register_transformation: the first entry that matches is changed, and only
\* if there is none a new one is added.
RegisterTransformation(registry, mediaType, type) ==
  LET i == GetTransformation(registry, mediaType)
      full == Len(registry.entries) = registry.size IN
  IF i # 0
  THEN [registry EXCEPT !.entries[i].type = type]
  ELSE [entries |-> Append(registry.entries, [mediaType |-> mediaType, type |-> type]),
        size |-> registry.size + IF full THEN BLOCK ELSE 0]

\* Mutant of UnregisterTransformation: the last entry goes instead.
UnregisterTransformationLast(registry, mediaType) ==
  IF IsActive(registry, mediaType)
  THEN [registry EXCEPT !.entries = Front(@)] ELSE registry

\* unregister_transformation: the first entry that matches goes.
UnregisterTransformation(registry, mediaType) ==
  IF IsActive(registry, mediaType)
  THEN [registry EXCEPT
          !.entries = RemoveAt(@, GetTransformation(registry, mediaType))]
  ELSE registry

Registered(registry) ==
  {registry.entries[i].mediaType : i \in DOMAIN registry.entries}
=============================================================================
