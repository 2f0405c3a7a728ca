------------------------------ MODULE MCSettings ------------------------------
(* Small instances of Settings for TLC. *)
EXTENDS Settings, TLC

CONSTANTS r1, r2, limit, switch, key

OneRequest == {r1}
TwoRequests == {r1, r2}

Limit == {limit}
LimitAndSwitch == {limit, switch}
Key == {key}

FieldKinds == limit :> "number" @@ switch :> "toggle"
FieldDefaults == limit :> <<"decimal", 30>> @@ switch :> <<"flag", TRUE>>
LimitKind == limit :> "number"
LimitDefault == limit :> <<"decimal", 30>>

(* A million, two and a half, false, x.                                    *)
SomeValues == {<<"number", 10000000>>, <<"number", 25>>, <<"bool", FALSE>>,
               <<"string", <<"word", "x">>>>}
(* A million, as a number, as a string, and with a zero before it; x".     *)
FewValues == {<<"number", 10000000>>, <<"string", <<"decimal", 10000000>>>>,
              <<"string", <<"padded", 10000000>>>>,
              <<"string", <<"quote", "x">>>>}

Interchangeable == Permutations(Requests)

(* The first file has nothing, or a key that ends in a double quote.       *)
NoLines == {Empty}
EmptyOrKey == {Empty, [Empty EXCEPT ![key] = <<"quote", "x">>]}

NothingInherited == [k \in Names |-> NoText]

(* Bound: requests have raced for .env or overtaken each other after it,   *)
(* not both; races are explored in the environment of the first start, and *)
(* until nobody rewrites the file: the types are all that is claimed then. *)
Bounded ==
  raced => ~late /\ osenv \in Handmade /\ \E r \in Requests : req[r].pc \in Rewriting
================================================================================
