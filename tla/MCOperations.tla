---------------------------- MODULE MCOperations ----------------------------
EXTENDS Operations

MCComponents == <<"Database", "Redis">>
MCCategories == <<"service", "server", "sales">>

NoBudget == [changes |-> 0, fails |-> 0, posts |-> 0, setups |-> 0, deletes |-> 0, restarts |-> 0]

\* Outages and lost entries around the health pass; and its topics beside
\* other posters and /logtopics.
MCBudgets == { [NoBudget EXCEPT !.changes = 3, !.fails = 1],
               [NoBudget EXCEPT !.changes = 2, !.fails = 1, !.restarts = 1],
               [NoBudget EXCEPT !.setups = 1],
               [NoBudget EXCEPT !.posts = 2, !.deletes = 1] }
=============================================================================
