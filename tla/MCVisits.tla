------------------------------ MODULE MCVisits ------------------------------
(* One user and one browser on a page that everybody may view, for a while,  *)
(* and staff may edit.                                                       *)
EXTENDS Visits

MCGranted == {<<"nobody", "view">>, <<"staff", "view">>, <<"staff", "edit">>}
MCVariable == {<<"nobody", "view">>}

Readers == {<<"nobody", "view">>}
=============================================================================
