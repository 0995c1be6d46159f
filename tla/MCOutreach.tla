----------------------------- MODULE MCOutreach -----------------------------
EXTENDS Outreach

\* Long conversations, taps that meet, and the others' doings beside both.
MCBudgets == { [atonce |-> 1, taps |-> 7, blocks |-> 0, restarts |-> 0],
               [atonce |-> 3, taps |-> 5, blocks |-> 0, restarts |-> 0],
               [atonce |-> 2, taps |-> 4, blocks |-> 1, restarts |-> 1] }
=============================================================================
