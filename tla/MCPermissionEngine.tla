--------------------------- MODULE MCPermissionEngine ---------------------------
EXTENDS PermissionEngine
CONSTANTS look, edit, drop
MCRules    == {{edit}, {look, edit, drop}}
MCReadOnly == {look}
==============================================================================
