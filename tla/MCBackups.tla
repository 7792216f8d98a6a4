------------------------------ MODULE MCBackups ------------------------------
(* A photo and an account; two roles, each with a permission and a user; the *)
(* new site has one thing of each kind that may be in the way, if the page   *)
(* it belongs to or the one before it is not.                                *)
EXTENDS Backups

Permit(role) == [type |-> "permit", role |-> role]
Assign(role) == [type |-> "assign", role |-> role]

MCRecords == {Permit("root"), Permit("staff"), Assign("root"), Assign("staff")}
MCPermits == {Permit("staff"), Permit("guest")}
MCExisting == {[Nothing EXCEPT !.pics = {<<"photo", 1>>}, !.records = {Permit("guest")}],
               [Nothing EXCEPT !.pages = {"photo"}, !.creds = {"user"}],
               [Nothing EXCEPT !.records = {Permit("staff")}]}
=============================================================================
