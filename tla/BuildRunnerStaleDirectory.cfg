SPECIFICATION Spec
CONSTANTS
    tool = tool  liba = liba  libh = libh  exe = exe  v1 = v1  v2 = v2
    Order <- MCOrder
    Outputs <- MCOutputs
    Images <- MCImages
    ProviderOf <- MCProviderOf
    Requires <- MCRequires
    BuildRequires <- MCBuildRequires
    OutputRequires <- MCOutputRequires
    RunsOn <- MCRunsOn
    Dockerfile <- MCDockerfile
    Directories <- LibraryDirectory
    Versions <- MCVersions
    SameSize <- SizesDiffer
    None = None
    Goals <- MCGoals
    MaxEdits = 1
    MaxCrashes = 1
INVARIANT SuccessIsCurrent
