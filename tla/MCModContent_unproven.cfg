SPECIFICATION ContentSpec
CHECK_DEADLOCK FALSE
CONSTANTS
    Jars = {"a", "b"}
    Publications <- MCPublications
    OwnJar = 9
    MaxJarEvents = 3
PROPERTY StaleIsProven
