------------------------------ MODULE FieldKinds ------------------------------
(* The fields that share a validator, and the options of the country list. *)
EXTENDS Integers

Names == {"first_name", "middle_name"}
Required == {"full_name", "postal_code"}    \* of an application
Optional == {"state", "country"}            \* of a registration
Dates == {"date_of_birth", "application_date_of_birth", "id_expiry"}

(* Their names have 4 to 44 letters. *)
COUNTRIES == {[units |-> n, points |-> n, blanks |-> 0] : n \in 4..44}

(* The options, with the one for no country. *)
CountrySelect == COUNTRIES \cup {[units |-> 0, points |-> 0, blanks |-> 0]}

=============================================================================
