CONSTANTS
    MaxToken = 6
    InterruptToken = 9
SPECIFICATION FairRecipe
INVARIANTS ComparesAtHit LiveStateKept
PROPERTY RecipeCloses
CHECK_DEADLOCK FALSE
