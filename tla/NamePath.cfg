SPECIFICATION Spec
CONSTANTS
    Words = {"project", "dataset", "table", "information_schema"}
    InformationSchema = {"information_schema"}
    MaxLen = 3
INVARIANTS TypeOK MergeIdempotent MergeWithinLimit SpellingsAgree
