----------------------------- MODULE LocaleData -----------------------------
(***************************************************************************)
(* The tables of LocaleData.  A locale is a record of its subtags, "" for  *)
(* one it does not have; the code packs them in 64 bits.  LOCALE_PARENTS   *)
(* is complete for the locales with a region, the only ones looked up;     *)
(* the other tables are those of eight languages.                          *)
(***************************************************************************)
EXTENDS TLC

Locale(lang, script, region) == [lang |-> lang, script |-> script, region |-> region]

ROOT_LOCALE == Locale("", "", "")

\* The pairs of languages that CompareLanguage takes for one.
LANGUAGES_CODES == {{"iw", "he"}, {"tl", "fil"}, {"ji", "yi"}, {"jw", "jv"}, {"in", "id"}}

\* The regions that have a parent, by the language and the parent.
EN_001 == {"150", "AG", "AI", "AU", "BB", "BM", "BS", "BW", "BZ", "CC", "CK", "CM", "CX",
           "CY", "DG", "DM", "ER", "FJ", "FK", "FM", "GB", "GD", "GG", "GH", "GI", "GM",
           "GY", "HK", "IE", "IL", "IM", "IN", "IO", "JE", "JM", "KE", "KI", "KN", "KY",
           "LC", "LR", "LS", "MG", "MO", "MS", "MT", "MU", "MW", "MY", "NA", "NF", "NG",
           "NR", "NU", "NZ", "PG", "PH", "PK", "PN", "PW", "RW", "SB", "SC", "SD", "SG",
           "SH", "SL", "SS", "SX", "SZ", "TC", "TK", "TO", "TT", "TV", "TZ", "UG", "VC",
           "VG", "VU", "WS", "ZA", "ZM", "ZW"}
EN_150 == {"AT", "BE", "CH", "DE", "DK", "FI", "NL", "SE", "SI"}
ES_419 == {"AR", "BO", "BR", "BZ", "CL", "CO", "CR", "CU", "DO", "EC", "GT", "HN", "MX",
           "NI", "PA", "PE", "PR", "PY", "SV", "US", "UY", "VE"}
PT_PT == {"AO", "CH", "CV", "FR", "GQ", "GW", "LU", "MO", "MZ", "ST", "TL"}
AR_015 == {"DZ", "EH", "LY", "MA", "TN"}

ParentRegion(x) ==
    CASE x.lang = "en" -> IF x.region \in EN_150 THEN "150" ELSE "001"
      [] x.lang = "es" -> "419"
      [] x.lang = "pt" -> "PT"
      [] x.lang = "ar" -> "015"
      [] x.lang = "zh" -> "HK"

LOCALE_PARENTS ==
    LET Of(lang, regions) == {Locale(lang, "", r) : r \in regions}
    IN  [x \in Of("en", EN_001 \cup EN_150) \cup Of("es", ES_419) \cup Of("pt", PT_PT)
                \cup Of("ar", AR_015) \cup {Locale("zh", "Hant", "MO")} |->
            [x EXCEPT !.region = ParentRegion(x)]]

TYPICAL_CODES ==
    {Locale("en", "Latn", "US"), Locale("en", "Shaw", "GB"), Locale("en", "Latn", "GB"),
     Locale("es", "Latn", "ES"), Locale("es", "Latn", "MX"), Locale("es", "Latn", "US"),
     Locale("zh", "Hans", "CN"), Locale("zh", "Bopo", "TW"), Locale("zh", "Hanb", "TW"),
     Locale("zh", "Hant", "TW"), Locale("he", "Hebr", "IL"), Locale("iw", "Hebr", "IL"),
     Locale("bo", "Tibt", "CN"), Locale("ug", "Arab", "CN"), Locale("ug", "Cyrl", "KZ"),
     Locale("ar", "Arab", "EG")}

\* The script and the region that a locale without them is likely to have.
LIKELY_TAGS_CODES ==
    LET Likely(lang, script, region) ==
            Locale(lang, "", "") :> Locale(lang, script, region)
        Of(lang, script, region) ==
            Locale(lang, script, "") :> Locale(lang, script, region)
        abroad == {"AU", "BN", "GB", "GF", "HK", "ID", "MO", "PA", "PF", "PH", "SR", "TH",
                   "TW", "US", "VN"}
    IN  Likely("en", "Latn", "US") @@ Of("en", "Shaw", "GB") @@ Likely("es", "Latn", "ES")
        @@ Likely("zh", "Hans", "CN") @@ Of("zh", "Bopo", "TW") @@ Of("zh", "Hanb", "TW")
        @@ Of("zh", "Hant", "TW")
        @@ [x \in {Locale("zh", "", r) : r \in abroad} |-> Locale("zh", "Hant", x.region)]
        @@ Likely("he", "Hebr", "IL") @@ Likely("iw", "Hebr", "IL")
        @@ Likely("bo", "Tibt", "CN") @@ Likely("ar", "Arab", "EG")
        @@ Likely("ug", "Arab", "CN") @@ Of("ug", "Cyrl", "KZ")
        @@ [x \in {Locale("ug", "", r) : r \in {"KZ", "MN"}} |-> Locale("ug", "Cyrl", x.region)]

=============================================================================
