SPECIFICATION FairSpec
CONSTANTS
    Programs = {"tree", "signals", "expr", "rv"}
    Files <- MCFiles
    TreeOf <- GetTree
    Nodes <- MCNodes
    Atoi <- MCNumber
    Operator <- MCOperator
    Comments = {"#"}
    Overlong = {"TOO LONG"}
    Number <- MCNumber
    Short <- MCShort
    Chopped <- MCChopped
INVARIANTS TypeOK ReadyRecursively WakesInOrder ResultIsRight NobodyLeft TreeIsTheFiles
PROPERTIES AlwaysEnds
CHECK_DEADLOCK FALSE
