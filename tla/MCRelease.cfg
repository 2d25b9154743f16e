\* Two runs, started again up to twice, over two versions that may be tagged in either order and anew.
CONSTANTS
    c1 = c1
    c2 = c2
    r1 = r1
    r2 = r2
    Versions <- MCVersions
    Commits = {c1, c2}
    Runs = {r1, r2}
    Backports = TRUE
    MaxReruns = 2
SPECIFICATION Spec
SYMMETRY Symmetry
INVARIANTS
    FloatingTagsFirst
    ReleaseMatchesImage
PROPERTY PublishedImagesStay
