-------------------------- MODULE MCPortalSession --------------------------
EXTENDS PortalSession

MCPortals == {Dashboard, Console, ViewAsOrg, EmployeePortal}

=============================================================================
