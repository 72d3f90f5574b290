\* Two servers that share a rules file, with edits, broken edits and removals.
CONSTANTS
    Readers = {r1, r2}
    MaxFile = 3
SPECIFICATION FairSpec
INVARIANTS
    TypeOK
    NoLostEdit
PROPERTIES
    KeepsLastGood
    RulesFollow
