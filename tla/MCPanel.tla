------------------------------- MODULE MCPanel -------------------------------
EXTENDS Panel

\* Two full admins, and a customer who is new to the bot.
MCFirstAdmins == [u \in Users |-> IF u \in Staff THEN Full ELSE 0]

NoBudget == [menu |-> 0, add |-> 0, remove |-> 0, block |-> 0, channel |-> 0, settle |-> 0, restart |-> 0]

MCBudgets == { [NoBudget EXCEPT !.menu = 3],
               [NoBudget EXCEPT !.menu = 1, !.remove = 2],
               [NoBudget EXCEPT !.add = 6],
               [NoBudget EXCEPT !.menu = 2, !.block = 1],
               [NoBudget EXCEPT !.menu = 1, !.channel = 2],
               [NoBudget EXCEPT !.block = 2],
               [NoBudget EXCEPT !.settle = 4],
               [NoBudget EXCEPT !.settle = 2, !.menu = 1, !.restart = 1] }
=============================================================================
