SPECIFICATION BuildsSpec
CHECK_DEADLOCK FALSE
CONSTANTS
    Names = {"Aero", "aero"}
    Typed = {"Aero", "aero"}
    Folded <- MCFolded
    IdOf <- MCFolded
    Offers = {"k"}
    TitleOf <- MCTitles
    Modpacks = {}
    Nil = Nil
    MaxBuilds = 2
    MaxDeletions = 0
    MaxRenames = 0
PROPERTY OtherBuildsAreKept
