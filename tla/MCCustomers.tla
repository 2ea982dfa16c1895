---------------------------- MODULE MCCustomers -----------------------------
(***************************************************************************)
(* The instance of Vault and Onboarding that TLC checks. A behaviour runs  *)
(* one of three loads, so that their states add up and do not multiply.    *)
(***************************************************************************)
EXTENDS Vault, Onboarding

(* The two replicas of deploy/compose.yml, and numbers of five digits      *)
(* instead of ten.                                                         *)
BlueGreen == <<"app_blue", "app_green">>
SomeBodies == {70415, 70451}

(* Identifiers of which two are one but for case. Usernames and addresses  *)
(* meet exactly, but for case and each other; one form has no deposit.     *)
Spellings == {"ann", "Ann", "bob"}
Lower == [id \in Spellings |-> IF id = "Ann" THEN "ann" ELSE id]

Form(username, email, deposit) == [username |-> username, email |-> email, deposit |-> deposit]

MeetingForms == {Form("ann", "bob", 5), Form("Ann", "ann", 5),
                 Form("bob", "Ann", 0), Form("ann", "ann", 0)}

-----------------------------------------------------------------------------
VARIABLE load

(* Rows that are written and re-keyed, pages over accounts alone, or       *)
(* registrations.                                                          *)
CustomersInit ==
    /\ Init /\ OnboardingInit
    /\ load \in {"rows", "pages", "registration"}
    /\ load # "rows" => devices = [u \in Users |-> [state \in DeviceStates |-> NoDevice]]
    /\ load = "registration" => accounts = [a \in Accounts |-> NoAccount]

CustomersNext ==
    \/ load = "rows" /\ Next /\ UNCHANGED <<load, form, regVars>>
    \/ load = "pages" /\ Next /\ UNCHANGED <<load, devices, regVars>>
    \/ load = "registration" /\ OnboardingNext /\ UNCHANGED <<load, vars>>

CustomersSpec == CustomersInit /\ [][CustomersNext]_<<load, vars, regVars>>
=============================================================================
