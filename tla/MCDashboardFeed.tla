-------------------------- MODULE MCDashboardFeed --------------------------
EXTENDS DashboardFeed

CONSTANTS r1, r2
=============================================================================
