---------------------------- MODULE MCWorkspace ----------------------------
EXTENDS Workspace

CONSTANTS superadmin, admin_

MCItems == {superadmin, admin_}
MCRoleOrder == <<superadmin, admin_>>
=============================================================================
