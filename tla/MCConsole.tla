------------------------------ MODULE MCConsole ------------------------------
(***************************************************************************)
(* The console with small constants: a device with no action or one that   *)
(* is due, three tenants, three locales of which one is bundled.           *)
(***************************************************************************)
EXTENDS Console

OneDueAtMost == {<<>>, <<"scheduled">>}

==============================================================================
