--------------------------- MODULE CandidateFields ---------------------------
(***************************************************************************)
(* The columns of a candidate that a lookup looks at: how they are filled  *)
(* when a candidate is created or enriched, the filters that compare them  *)
(* with what is typed at each step of a lookup, and the masks under which  *)
(* a profile shows them (apps/candidates/models.py and services.py).       *)
(*                                                                         *)
(* What is typed is a text.  Stripping, lower-casing, the reading of a     *)
(* number and the reduction of a name to letters, digits and single blanks *)
(* are functions given as constants, and so are the pairs of names that    *)
(* are at least 84 % alike.  A url is stripped, lower-cased, and a record  *)
(* of its scheme, the labels of its host, and the rest.  A date is a year  *)
(* and a place in that year, for the month and the day.                    *)
(***************************************************************************)
EXTENDS Integers, SequencesExt

CONSTANTS
  Texts, Blank,      \* texts, and the empty one
  Strip, Lower,      \* str.strip and str.lower, per text
  Number,            \* int(), for the texts that it reads
  Letters,           \* unidecode and the substitutions, per lower-case text
  NoToken,           \* the name without a letter or digit
  FirstLetter,       \* per name that is not NoToken
  Alike,             \* pairs of names with a fuzz.ratio of 84 or more
  NoUrl, NoPlatform, NoDate, NoAge,
  QuickLimit,        \* rows that initial_candidate_queryset looks at
  Forms, Dates,      \* bound: payloads of a creation, and days
  MaxLength          \* bound: characters of a masked text

ASSUME TextsAssumption ==
  /\ Blank \in Texts /\ Blank \notin DOMAIN Number
  /\ Strip \in [Texts -> Texts] /\ Lower \in [Texts -> Texts]
  /\ DOMAIN Letters = Texts /\ Letters[Blank] = NoToken
  /\ \A t \in Texts : /\ Strip[Strip[t]] = Strip[t] /\ Lower[Lower[t]] = Lower[t]
                      /\ Strip[Lower[t]] = Lower[Strip[t]]
\* What the serializer lets through: texts, a color that is a number or is left
\* out, a day of birth or none.
ASSUME FormsAssumption ==
  \A form \in Forms :
    /\ \A f \in {"first_name", "last_name", "country", "region", "city", "email", "phone"} :
         form[f] \in Texts
    /\ form.hair_color \in DOMAIN Number \cup {Blank}
    /\ form.birth_date \in Dates \cup {NoDate}
ASSUME DatesAssumption == \A d \in Dates : d.year \in Int /\ d.day \in Int

\* normalize_token.
NormalizeToken(t) == Letters[Lower[Strip[t]]]

SameText(a, b) == Lower[a] = Lower[b]

HairColor == [schwarz |-> 1, braun |-> 2, blond |-> 3, rot |-> 4, grau |-> 5, andere |-> 6]

SOCIAL_DOMAIN_MAP == [
  tinder  |-> {<<"tinder", "com">>},
  bumble  |-> {<<"bumble", "com">>},
  hinge   |-> {<<"hinge", "co">>, <<"hinge", "com">>},
  okcupid |-> {<<"okcupid", "com">>},
  match   |-> {<<"match", "com">>},
  pof     |-> {<<"pof", "com">>, <<"plentyoffish", "com">>},
  badoo   |-> {<<"badoo", "com">>},
  happn   |-> {<<"happn", "com">>}]

\* detect_social_platform: the host is a domain of the platform, or below one.
PlatformOf(p, url) ==
  /\ url # NoUrl /\ url.scheme \in {"http", "https"}
  /\ \E domain \in SOCIAL_DOMAIN_MAP[p] : IsSuffix(domain, url.host)

DetectSocialPlatform(url) ==
  IF \E p \in DOMAIN SOCIAL_DOMAIN_MAP : PlatformOf(p, url)
  THEN CHOOSE p \in DOMAIN SOCIAL_DOMAIN_MAP : PlatformOf(p, url)
  ELSE NoPlatform

-----------------------------------------------------------------------------
(* How the columns are filled. *)

\* Candidate.save.
Saved(row) ==
  [row EXCEPT !.first_name_norm = NormalizeToken(row.first_name),
              !.last_name_norm = NormalizeToken(row.last_name),
              !.dating_platform = IF row.dating_profile_url = NoUrl THEN @
                                  ELSE DetectSocialPlatform(row.dating_profile_url)]

EmailColumn(form) == Lower[Strip[form.email]]

\* The row that create_candidate_record stores for a payload.
Created(form) ==
  Saved([first_name |-> Strip[form.first_name], first_name_norm |-> NoToken,
         last_name |-> Strip[form.last_name], last_name_norm |-> NoToken,
         gender |-> form.gender,
         birth_date |-> form.birth_date,
         age_years |-> IF form.age = 0 THEN NoAge ELSE form.age,
         country |-> Strip[form.country], region |-> Strip[form.region],
         city |-> Strip[form.city],
         hair_color |-> IF form.hair_color = Blank THEN HairColor.andere
                        ELSE Number[form.hair_color],
         primary_email |-> EmailColumn(form), secondary_email |-> Blank,
         primary_phone |-> Strip[form.phone], secondary_phone |-> Blank,
         dating_profile_url |-> form.social_url, dating_platform |-> NoPlatform])

\* A text of a payload that queue_approve sets as it was submitted.
Enriched(row, column, t) == Saved([row EXCEPT ![column] = t])

\* Candidate.current_age.
CurrentAge(row, today) ==
  IF row.birth_date = NoDate THEN row.age_years
  ELSE LET years == today.year - row.birth_date.year
                    - (IF today.day < row.birth_date.day THEN 1 ELSE 0)
       IN  IF years < 0 THEN 0 ELSE years

-----------------------------------------------------------------------------
(* The filters: what is left of a set of rows. *)

\* Candidate.fuzzy_match_first_name and fuzzy_match_last_name.
FuzzyMatch(needle, name) ==
  needle # NoToken /\ (needle = name \/ <<needle, name>> \in Alike)

\* The rows of the place whose name begins like the one that is looked for.
Prefiltered(rows, form) ==
  LET first_norm == NormalizeToken(form.first_name) IN
  {r \in rows :
     /\ SameText(r.country, Strip[form.country]) /\ SameText(r.region, Strip[form.region])
     /\ r.gender = form.gender
     /\ r.first_name_norm # NoToken
     /\ FirstLetter[r.first_name_norm] = FirstLetter[first_norm]}

\* initial_candidate_queryset: what it may return, as the order in which the
\* database yields the first QuickLimit rows is not said.
InitialCandidates(rows, form) ==
  LET first_norm == NormalizeToken(form.first_name)
      all == Prefiltered(rows, form)
      quick == IF Cardinality(all) <= QuickLimit THEN {all} ELSE kSubset(QuickLimit, all)
  IN  IF first_norm = NoToken THEN {{}}
      ELSE {{r \in q : FuzzyMatch(first_norm, r.first_name_norm)} : q \in quick}

BirthDateFilter(rows, date) == {r \in rows : r.birth_date = date}

EmailFilter(rows, t) ==
  {r \in rows : \/ SameText(r.primary_email, Strip[t])
                \/ SameText(r.secondary_email, Strip[t])}

PhoneFilter(rows, t) == {r \in rows : Strip[t] \in {r.primary_phone, r.secondary_phone}}

SocialFilter(rows, url) ==
  LET platform == DetectSocialPlatform(url) IN
  {r \in rows : /\ platform # NoPlatform
                /\ r.dating_profile_url = url /\ r.dating_platform = platform}

LastNameFilter(rows, t) ==
  {r \in rows : FuzzyMatch(NormalizeToken(t), r.last_name_norm)}

CityFilter(rows, t) == {r \in rows : SameText(r.city, Strip[t])}

\* A color is given by its number or by its label.
HairColorFilter(rows, t) ==
  LET label == Lower[Strip[t]] IN
  {r \in rows :
     \/ t \in DOMAIN Number /\ r.hair_color = Number[t]
     \/ /\ t \notin DOMAIN Number
        /\ label \in DOMAIN HairColor /\ r.hair_color = HairColor[label]}

BornThisYear(age, today) == {today.year - age} \* mutated form
\* Whoever is of this age has had this year's birthday, or has not.
BirthYears(age, today) == {today.year - age, today.year - age - 1}

AgeFilter(rows, age, today) ==
  {r \in rows :
     /\ age # NoAge
     /\ \/ r.age_years = age
        \/ r.birth_date # NoDate /\ r.birth_date.year \in BirthYears(age, today)}

\* The filter that advance_lookup_session applies for a field.
FieldFilter(rows, field, value, today) ==
  CASE field = "birth_date" -> BirthDateFilter(rows, value)
    [] field = "email"      -> EmailFilter(rows, value)
    [] field = "phone"      -> PhoneFilter(rows, value)
    [] field = "social_url" -> SocialFilter(rows, value)
    [] field = "last_name"  -> LastNameFilter(rows, value)
    [] field = "city"       -> CityFilter(rows, value)
    [] field = "hair_color" -> HairColorFilter(rows, value)
    [] field = "age"        -> AgeFilter(rows, value, today)

-----------------------------------------------------------------------------
(* The masks of a profile: the places of a text of n characters that stay. *)

ShortFrom(n) == n < 2 \* mutated form
Short(n) == n <= 2

\* Candidate._mask_text, and the local part in _mask_email.
MaskText(n) ==
  IF n = 0 THEN {} ELSE IF Short(n) THEN {1} ELSE {1, n}

\* Candidate._mask_phone, of a number without its blanks.
MaskPhone(n) == IF n <= 4 THEN {} ELSE {1, 2, n - 1, n}

\* The properties of Candidate that a profile shows.
Masked(n) == [masked_last_name |-> MaskText(n), masked_email |-> MaskText(n),
              masked_phone |-> MaskPhone(n)]

-----------------------------------------------------------------------------
(* What is asked of the columns, the filters and the masks; the properties
   that ask it are those of module CandidateLookup. *)

\* Who types a row's data as its creator typed them is told of the row at every
\* step of a lookup: what create_candidate_record and Candidate.save make of a
\* text and what the filters make of it agree, and so do the age that a profile
\* shows and the years of birth that the age filter tries, on any day of a year.
\* Left out are a name without letters, a url of another site, a date of birth
\* in a coming year, and a place where more rows share the first letter of the
\* first name than are looked at.
FoundAsCreated(form, today) ==
  LET row == Created(form)
      given == {f \in {"email", "phone", "city"} : Strip[form[f]] # Blank}
      born == row.birth_date # NoDate => row.birth_date.year <= today.year
      age == CurrentAge(row, today)
      Finds(f, v) == FieldFilter({row}, f, v, today) = {row}
  IN  /\ NormalizeToken(form.last_name) # NoToken => Finds("last_name", form.last_name)
      /\ \A f \in given : Finds(f, form[f])
      /\ form.birth_date # NoDate => Finds("birth_date", form.birth_date)
      /\ DetectSocialPlatform(form.social_url) # NoPlatform =>
           Finds("social_url", form.social_url)
      /\ form.hair_color # Blank => Finds("hair_color", form.hair_color)
      /\ age # NoAge /\ born => Finds("age", age)

FoundInPlace(form, others) ==
  LET row == Created(form)  rows == {row} \cup {Created(o) : o \in others} IN
  NormalizeToken(form.first_name) # NoToken
    /\ Cardinality(Prefiltered(rows, form)) <= QuickLimit
  => \A ids \in InitialCandidates(rows, form) : row \in ids

\* A text that was approved as it was submitted is found by whoever types it,
\* if it has no blanks around it: the filters strip what is typed, and
\* queue_approve does not strip what it stores.
FoundAsEnriched(form, t, today) ==
  Strip[t] = t /\ t # Blank =>
    \A f \in {<<"secondary_email", "email">>, <<"secondary_phone", "phone">>, <<"city", "city">>} :
      LET row == Enriched(Created(form), f[1], t) IN
      FieldFilter({row}, f[2], t, today) = {row}

\* The days on which nobody whose data are typed truthfully is lost on the way.
DaysFound ==
  {today \in Dates :
     \A form \in Forms : /\ FoundAsCreated(form, today)
                         /\ \A t \in Texts : FoundAsEnriched(form, t, today)}

EveryPlaceFound == \A form, other \in Forms : FoundInPlace(form, {other})

\* The lengths at which a mask hides something of a text: of a name, or the part
\* of an e-mail before the @, from two characters on, of a phone number always.
LengthsHidden ==
  {n \in 1 .. MaxLength :
     /\ n >= 2 => \A f \in DOMAIN Masked(n) : 1 .. n \ Masked(n)[f] # {}
     /\ 1 .. n \ Masked(n).masked_phone # {}}
=============================================================================
