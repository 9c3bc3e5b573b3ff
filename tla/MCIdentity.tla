----------------------------- MODULE MCIdentity -----------------------------
(* Small instances of Identity for TLC. *)
EXTENDS Identity, TLC

\* A deputy, ministers, and the holder of a public-company post whose source also publishes
\* the ministers' name.
CONSTANTS Deputy, Holder, Ministers

MCIds       == {Deputy, Holder} \cup Ministers
MCRegister  == [i \in MCIds |-> IF i = Deputy THEN "parliament"
                                ELSE IF i = Holder THEN Shared ELSE "government"]
MCRank      == [i \in MCIds |-> IF i = Deputy THEN 0 ELSE IF i = Holder THEN 2 ELSE 1]
MCName      == [i \in MCIds |-> IF i \in Ministers THEN "rui" ELSE "ana"]
MCPublished == [i \in MCIds |-> IF i = Holder THEN {"ana", "rui"} ELSE {MCName[i]}]
MCFeeds     == {{Deputy, Holder, m} : m \in Ministers} \cup {{Holder} \cup Ministers}
MCHints     == Ministers \X {Deputy}
MCSignals   == [i \in MCIds |-> {"office"}]
Symmetry    == Permutations(Ministers)
=============================================================================
