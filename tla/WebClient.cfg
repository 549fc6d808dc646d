SPECIFICATION FairSpec
CONSTANTS
    None = None
    Servers = {s1, s2}
    MaxTasks = 2
    MaxMishaps = 2
INVARIANTS SelectionIsListed ChoiceSticks
PROPERTIES DeadSelectionHeals 
