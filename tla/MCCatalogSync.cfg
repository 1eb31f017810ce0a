SPECIFICATION Spec
CONSTANTS
    c1 = c1
    c2 = c2
    c3 = c3
    g1 = g1
    g2 = g2
    Conns = {c1, c2, c3}
    CatalogOf <- MCCatalogOf
    Objects = {"t"}
    MaxClock = 2
    MaxSetBacks = 1
SYMMETRY Symmetry
CONSTRAINT FewOpen
INVARIANTS TypeOK UnknownRowsExplained
PROPERTIES LateMeansOvertaken
