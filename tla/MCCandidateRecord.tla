------------------------- MODULE MCCandidateRecord -------------------------
(* Instances of CandidateRecord for TLC. *)
EXTENDS CandidateRecord, TLC

\* detect_social_platform on a url of a dating site and on another.
MCUrls == {"tinder.com", "example.org"}
MCPlatforms == {"tinder"}
MCSocialPlatform == [u \in MCUrls |-> IF u = "tinder.com" THEN "tinder" ELSE NoPlatform]

\* The workers are alike, and so are the items.
Alike == Permutations(Workers) \cup Permutations(Items)
=============================================================================
