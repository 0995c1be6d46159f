\* One admin with up to three handlers at once, three prompts, two broadcasts.
CONSTANTS
    Users = {u1, u2}
    Contents = {"text", "file"}
    Files = {"file"}
    Taps = {h1, h2, h3}
    Prompts = {p1, p2, p3}
    Runs = {r1, r2}
    Budgets <- MCBudgets
    None = None
SPECIFICATION Spec
INVARIANTS OncePerPrompt SentWasPreviewed
PROPERTIES Summarised
CHECK_DEADLOCK FALSE
