SPECIFICATION PruneSpec
CONSTANTS
    c1 = c1
    c2 = c2
    c3 = c3
    g = g
    a1 = a1
    a2 = a2
    cp2k = cp2k
    sub = sub
    main = main
    dev = dev
    k1 = k1
    k2 = k2
    k3 = k3
    archives = archives
    sources = sources
    Blob = {c1, c2, c3, g, a1, a2}
    Dir = {cp2k, sub, Archive}
    Branch = {main, dev}
    Link = {k1, k2, k3}
    Package = {archives, sources}
    Archive = Archive
    DirOf <- MCDirOf
    RepoOf <- MCRepoOf
    NameBefore <- MCNameBefore
    Target <- MCTarget
    PackageOf <- MCPackageOf
    Stray = {}
    Dags <- MCDags
    MaxClock = 3
    Faults = {"crash", "restore", "others"}
INVARIANTS TypeOK FetchedKept LinksFollow FoldersRemovable
PROPERTIES IdentityDecides FloatingSurvives
