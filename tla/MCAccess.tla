------------------------------ MODULE MCAccess ------------------------------
(* A person whose row was deleted and who was invited again: two ids, one e-mail. *)
EXTENDS Access

CONSTANTS u1, u2, mail, org

MCEmailOf == [u \in Ids |-> mail]
MCOrgOf == [u \in Ids |-> org]
MCRights == {[role |-> "org_user", canExport |-> FALSE],
             [role |-> "org_user", canExport |-> TRUE],
             [role |-> "org_admin", canExport |-> TRUE]}
=============================================================================
