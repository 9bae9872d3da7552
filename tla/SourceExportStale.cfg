SPECIFICATION Spec
CONSTANTS
    e1 = e1  e2 = e2  c1 = c1  c2 = c2
    Entries <- MCEntries
    Contents <- MCContents
    Absent = Absent
    MaxEdits = 2
INVARIANT BuildsItsIdentity
