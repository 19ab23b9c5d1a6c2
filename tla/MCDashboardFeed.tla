-------------------------- MODULE MCDashboardFeed --------------------------
\* Two threads, two versions of the account and a deque of two events, so
\* that a browser that is three events behind has lost one.
EXTENDS DashboardFeed, TLC
=============================================================================
