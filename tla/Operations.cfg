\* Two components, the ones the posting itself needs; three topics, two other posters.
CONSTANTS
    Components <- MCComponents
    Categories <- MCCategories
    Posters = {"purchase", "backup"}
    MaxTopic = 4
    Budgets <- MCBudgets
    None = None
SPECIFICATION Spec
INVARIANTS OneTopic
PROPERTIES ToldOnChange GroupLearns
CHECK_DEADLOCK FALSE
