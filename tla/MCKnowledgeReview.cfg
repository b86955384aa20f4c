SPECIFICATION Spec
SYMMETRY Symmetry
CONSTANTS
    base = base
    other = other
    mid = mid
    top = top
    title = title
    Names = {base, other, mid, top}
    Titles = {title}
    Seeds = {base, other}
    c1 = c1
    c2 = c2
    c3 = c3
    Candidates = {c1, c2, c3}
    r1 = r1
    r2 = r2
    Reviewers = {r1, r2}
    Types = {"METRIC", "BUSINESS_RULE", "QUERY_EXAMPLE"}
    MaxDependencies = 1
INVARIANTS
    NoCircularMetric
    CertifiedAsProposed
    ApprovedIsPromoted
