-------------------------------- MODULE MCParts --------------------------------
(* Instances of Parts, small enough for every one of their states.         *)
EXTENDS Parts, FieldValues, AdminOrders, TLC

Typed ==
    [f \in {"email", "phone", "password", "confirm_password", "first_name", "middle_name",
           "address_line1"} |->
        CASE f = "email" -> {"", "bad", "ok"}
          [] f = "phone" -> {"", "ok"}
          [] f = "password" -> {"", "weak", "first"}
          [] f = "confirm_password" -> {"", "first", "second"}
          [] f = "first_name" -> {"", "ann", "Ann"}
          [] f = "middle_name" -> {"", "ann"}
          [] OTHER -> {"", "filled"}]
Plain == [f \in DOMAIN Typed |-> Typed[f] \cap {"", "ok", "first", "Ann", "filled"}]

Three == {"a", "b", "c"}
SomeLists == {<<>>, <<"b">>, <<"a", "b", "c">>, <<"c", "a">>}
SomeHits == "" :> Three @@ "one" :> {"b", "c"} @@ "nothing" :> {}

\* 1900 has no leap day, 2000 has; six notices overflow the stack of four
\* twice; the cap of the backoff is reached after two doublings.
SmallParts ==
    [auth |-> [calls |-> 2],
     applicant |-> [documents |-> 1, loads |-> 3],
     reviewer |-> [loads |-> 2, calls |-> 1],
     editor |-> [blurs |-> {"full_name"}, picks |-> {"id_expiry"}, faults |-> 1],
     shell |-> [visits |-> 4],
     birth |-> [years |-> {1900, 1996, 1999, 2000}],
     figures |-> [visits |-> 2],
     failure |-> [counters |-> {"credential", "address"}, wait |-> 3, time |-> 4],
     list |-> [selections |-> {"all", "mine"}, pages |-> 2, requests |-> 3,
               changes |-> 1, faults |-> 1],
     tab |-> [tokens |-> 5, reserve |-> 4, expiries |-> 1],
     dialog |-> [calls |-> 3, texts |-> {"", "delete", "reject"}, blank |-> ""],
     drawer |-> [fields |-> {"email", "name"}, values |-> {"good", "bad"},
                 valid |-> {"good"}, submissions |-> 3, openings |-> 3],
     menu |-> [lists |-> SomeLists, picks |-> Three, noQuery |-> "", hits |-> SomeHits],
     search |-> [texts |-> {"", "a", "ab", "abc"}, blank |-> "", pause |-> 3],
     toasts |-> [notices |-> 6, life |-> 3],
     scroll |-> [renders |-> 5, scrolls |-> 4],
     announcer |-> [texts |-> {"saved", "decided"}, blank |-> "", calls |-> 4, mounts |-> 2],
     polling |-> [values |-> {1, 2}, null |-> 0, backoff |-> 4, loads |-> 3],
     admin |-> [users |-> Accounts, requests |-> Accounts, orders |-> AllOrders,
                supers |-> SomeSupers, aborts |-> 1],
     cross |-> [users |-> Accounts, requests |-> Accounts, orders |-> CrossOrders,
                supers |-> {{3}, {2, 3}}],
     window |-> [requests |-> 1..3, max |-> 2, width |-> 2, time |-> 4, faults |-> 1],
     rate |-> [requests |-> 1..3, limit |-> 2, duration |-> 2, together |-> 2,
               time |-> 4, faults |-> 1],
     serial |-> [requests |-> 1..4, limit |-> 2, duration |-> 2, time |-> 5]]

\* The inputs of everyday are what the theorems of PartsProofs assume them to be.
ASSUME EverydayIsEveryday ==
    \A f \in Input!Fields : \A v \in Everyday(f) : Input!IsEveryday(f, v)

=============================================================================
