------------------------------ MODULE Commerce ------------------------------
(***************************************************************************)
(* The accounts, the catalogue and what is sold, for model checking.  They *)
(* keep separate tables and no handler of one writes another's, so each    *)
(* behaviour lets the handlers of one of them run, chosen at the start:    *)
(* the interleavings inside a component are all there, and those between   *)
(* components, which commute, are left out.                                *)
(***************************************************************************)
EXTENDS Accounts, Billing, Catalogue

VARIABLE focus

commerceVars == <<accountsVars, billingVars, catalogueVars, focus>>

CommerceInit ==
    /\ focus \in {"accounts", "billing", "catalogue"}
    /\ AccountsInit /\ BillingInit /\ CatalogueInit
    \* What stands still starts in one way only.
    /\ focus # "billing" => \A p \in Plans : plan[p].trial
    /\ focus # "catalogue" => release = CHOOSE d \in Definition : TRUE

CommerceNext ==
    \/ focus = "accounts" /\ AccountsNext /\ UNCHANGED <<billingVars, catalogueVars, focus>>
    \/ focus = "billing" /\ BillingNext /\ UNCHANGED <<accountsVars, catalogueVars, focus>>
    \/ focus = "catalogue" /\ CatalogueNext /\ UNCHANGED <<accountsVars, billingVars, focus>>

\* The state of each component is well typed.
CommerceTypeOK == AccountsTypeOK /\ BillingTypeOK /\ CatalogueTypeOK

CommerceSpec == CommerceInit /\ [][CommerceNext]_commerceVars

=============================================================================
