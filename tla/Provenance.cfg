SPECIFICATION ProvenanceSpec
CONSTANTS
    v1 = v1
    v2 = v2
    s1 = s1
    s2 = s2
    Nothing = Nothing
    Python = Python
    Versions = {v1, v2}
    Runners = {Python, s1, s2}
SYMMETRY Symmetry
INVARIANTS EvidenceIsOfTheTree OneTreePerComparison
