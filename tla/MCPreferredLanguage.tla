------------------------ MODULE MCPreferredLanguage -------------------------
(***************************************************************************)
(* A small instance of PreferredMatching.  The supported languages are the *)
(* six of etc/lang/supported_locales.xml, with some that a longer list     *)
(* has; not es-US next to es-419, which CompareRegion takes for the same   *)
(* place, so that the first met is chosen (see the README).                *)
(***************************************************************************)
EXTENDS PreferredMatching

Tag(lang, script, region) == Locale(lang, script, region)

MCCandidates ==
    <<Tag("en", "Latn", ""), Tag("zh", "Hans", ""), Tag("zh", "Hant", ""),
      Tag("zh", "Hant", "HK"), Tag("bo", "", ""), Tag("ug", "", ""),
      Tag("en", "Latn", "150"), Tag("en", "Latn", "GB"), Tag("en", "Latn", "IN"),
      Tag("es", "Latn", "ES"), Tag("es", "Latn", "419"), Tag("es", "Latn", "MX"),
      Tag("he", "", ""), Tag("iw", "", "")>>

MCRegionOrder ==
    <<"AR", "AT", "AU", "ES", "GB", "HK", "IN", "MO", "MX", "PH", "SG", "TW", "US",
      "001", "150", "419">>

MCRequests ==
    {Tag("en", "", r) : r \in {"", "AT", "AU", "GB", "IN", "US", "150"}}
    \cup {Tag("en", "Qaag", r) : r \in {"", "AT"}}
    \cup {Tag("es", "", r) : r \in {"", "AR", "US", "ES", "PH"}}
    \cup {Tag("zh", "", r) : r \in {"", "HK", "TW", "SG"}}
    \cup {Tag("zh", "Hant", "MO"), Tag("iw", "", ""), Tag("he", "", ""), Tag("bo", "", "")}

MCAsked == {Tag("en", "Latn", ""), Tag("zh", "Hant", "HK"), Tag("he", "", "")}
MCStored == {<<>>} \cup {<<x>> : x \in MCRequests}
MCDefault == Tag("en", "Latn", "US")
MCTags == MCRequests \cup ToSet(MCCandidates) \cup {MCDefault}
MCIndices == -1..3

\* What the theorem ChoiceOrderFree asks of the supported languages.
ASSUME ApartAssumption == Apart
=============================================================================
