---------------------------- MODULE MCDemoSeed ------------------------------
(* A small instance of DemoSeed for TLC. *)
EXTENDS DemoSeed, TLC

CONSTANTS ann, bob

Accounts == <<ann, bob>>
Tenants == <<1>>
Roster == 1 :> (ann :> "owner" @@ bob :> "viewer")

=============================================================================
