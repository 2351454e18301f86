CONSTANTS
    Ids = {i1, i2, i3}
    u1 = u1
    u2 = u2
    Urls = {u1, u2}
    t1 = t1
    t2 = t2
    t3 = t3
    Texts = {t1, t2, t3}
    site = site
    Domains = {site}
    lab = lab
    NoOrganization = NoOrganization
    OrganizationOf <- MCOrganizationOf
    SimilarTitles <- MCSimilarTitles
    Postings <- SeveralPostings
    CandidateLimit = 1
    MaxChanged = 1
    Sessions = {s1, s2}
    Shared = Shared
    NoRow = NoRow
    Nothing = Nothing
SPECIFICATION Spec
SYMMETRY MCSymmetry
INVARIANTS
    TypeOK
    DuplicatesHaveOriginals
    EveryPostingIsRepresented
    DistinctUnlessBlind
