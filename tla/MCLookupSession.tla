-------------------------- MODULE MCLookupSession --------------------------
(* Instances of LookupSession for TLC: two candidates, some of the cases, and  *)
(* texts of each kind that the filters of CandidateFields tell apart.          *)
EXTENDS CandidateLookup

CONSTANTS c1, c2, x, y

CASE_PIPELINES == [
  birthdate |-> <<"birth_date", "city", "hair_color">>,
  email     |-> <<"email", "city">>,
  phone     |-> <<"phone", "city">>,
  age       |-> <<"age", "city">>,
  social    |-> <<"social_url", "city", "age">>,
  lastname  |-> <<"last_name", "city">>]

MCPipeline == [ct \in Cases |-> CASE_PIPELINES[ct]]

-----------------------------------------------------------------------------
(* Texts.  "Jose_acute" has an accent, "***" no letter. *)

MCTexts == {"", "Katharina", " Katharina ", "katharina", " katharina ", "katarina",
            "Jose_acute", "jose_acute", "jose", "***",
            "Anna@X.de", "anna@x.de", "ben@x.de", "0301 ", "0301",
            "Berlin", "berlin", "None", "none", "3", "Blond", "blond"}

MCStrip == " Katharina " :> "Katharina" @@ " katharina " :> "katharina" @@ "0301 " :> "0301"
           @@ [t \in MCTexts |-> t]
MCLower == "Katharina" :> "katharina" @@ " Katharina " :> " katharina "
           @@ "Jose_acute" :> "jose_acute" @@ "Anna@X.de" :> "anna@x.de"
           @@ "Berlin" :> "berlin" @@ "None" :> "none" @@ "Blond" :> "blond"
           @@ [t \in MCTexts |-> t]
MCNumber == "3" :> 3 @@ "0301" :> 301 @@ "0301 " :> 301
MCLetters == "jose_acute" :> "jose" @@ "***" :> "" @@ [t \in MCTexts |-> t]
MCFirstLetter == "katharina" :> "k" @@ "katarina" :> "k" @@ [t \in MCTexts \ {""} |-> t]
MCAlike == {<<"katharina", "katarina">>, <<"katarina", "katharina">>}

Tinder == [scheme |-> "https", host |-> <<"www", "tinder", "com">>, rest |-> "@anna"]
Other == [scheme |-> "https", host |-> <<"nottinder", "com">>, rest |-> "@anna"]

\* Days around the turn of a year.
MCCalendar ==
  [i \in 1 .. 9 |-> [year |-> 2000 + (i - 1) \div 3, day |-> 1 + ((i - 1) % 3)]]
MCDates == {MCCalendar[i] : i \in DOMAIN MCCalendar}

Anna == [first_name |-> "Katharina", last_name |-> "Katharina", gender |-> "female",
         country |-> "Berlin", region |-> "Berlin", city |-> "Berlin",
         birth_date |-> NoDate, age |-> NoAge, hair_color |-> "",
         email |-> "", phone |-> "", social_url |-> NoUrl]

\* One field is varied at a time: no filter looks at two of them.
MCForms ==
  {[Anna EXCEPT !.first_name = t, !.last_name = t] : t \in MCTexts \ {""}}
  \cup {[Anna EXCEPT !.email = t] : t \in MCTexts} \cup {[Anna EXCEPT !.phone = t] : t \in MCTexts}
  \cup {[Anna EXCEPT !.city = t] : t \in MCTexts \ {""}}
  \cup {[Anna EXCEPT !.birth_date = d, !.age = a] : d \in MCDates \cup {NoDate}, a \in 0 .. 2}
  \cup {[Anna EXCEPT !.hair_color = "3"]}
  \cup {[Anna EXCEPT !.social_url = u] : u \in {Tinder, Other}}

-----------------------------------------------------------------------------
(* The two candidates: they live in one city; the first is a year old, and the
   second one or two by the year of its birth.  What x and y stand for in the
   steps, and what the filters are given for a field that was left out. *)

MCRow == c1 :> Created([Anna EXCEPT !.email = "anna@x.de", !.age = 1, !.social_url = Tinder])
         @@ c2 :> Created([Anna EXCEPT !.email = "ben@x.de", !.birth_date = MCCalendar[3]])

MCTyped == [
  email      |-> x :> "Anna@X.de" @@ y :> "ben@x.de" @@ NoValue :> "",
  social_url |-> x :> Tinder @@ y :> Other @@ NoValue :> NoUrl,
  age        |-> x :> 1 @@ y :> 2 @@ NoValue :> NoAge,
  city       |-> x :> "berlin" @@ y :> "katharina" @@ NoValue :> "None"]

\* @@ makes TLC keep the functions as tables, and the second definition keeps it
\* from evaluating them again whenever Fits is named.
Table(f) == f @@ f
FitsTable == c1 :> Table(FitsOf(c1, MCCalendar[7])) @@ c2 :> Table(FitsOf(c2, MCCalendar[7]))
MCFits == FitsTable

Symmetry ==
  Permutations(Workers) \cup Permutations(Sessions) \cup Permutations(Ips)
=============================================================================
