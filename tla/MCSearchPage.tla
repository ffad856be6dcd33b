----------------------------- MODULE MCSearchPage -----------------------------
(* Instances of SearchPage for TLC: one candidate, who has no phone and no  *)
(* secondary e-mail.                                                        *)
EXTENDS SearchPage

CONSTANTS c1, x, i1

CASE_PIPELINES == [
  birthdate |-> <<"birth_date", "city", "hair_color">>,
  email     |-> <<"email", "city">>,
  phone     |-> <<"phone", "city">>]

MCPipeline == [ct \in Cases |-> CASE_PIPELINES[ct]]

MCFits ==
  LET profile == [birth_date |-> {x}, email |-> {x, NoValue}, phone |-> {NoValue},
                  city |-> {x}, hair_color |-> {x}]
  IN  [c \in Candidates |-> [f \in Fields |-> profile[f]]]
=============================================================================
