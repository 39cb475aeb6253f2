---------------------------- MODULE LocaleMatcher ----------------------------
(***************************************************************************)
(* LocaleMatcher: which of the supported locales suits a requested one     *)
(* best.  The candidates are compared two by two, the better one goes on.  *)
(*                                                                         *)
(* A comparison is positive if the current candidate is the better one,    *)
(* negative if the other is, else 0.  The candidates are those that Match  *)
(* the request: the cases for null and for other languages are not here.   *)
(*                                                                         *)
(* An operator named X_Y, before X, is X with a slip Y: the properties are *)
(* checked to fail when it takes the place of X.                           *)
(***************************************************************************)
EXTENDS Integers, Sequences, SequencesExt, FiniteSetsExt, LocaleData, Filtering

CONSTANTS
    NoLocale,       \* the empty string
    Candidates,     \* the supported locales as the loop meets them
    RegionOrder     \* the regions, in the order of their codes

ASSUME CandidatesAssumption ==
    /\ \A i \in DOMAIN Candidates : \E r \in DOMAIN RegionOrder :
           Candidates[i].region \in {"", RegionOrder[r]}
    /\ RegionOrder \in Seq(STRING) /\ \E r \in DOMAIN RegionOrder : RegionOrder[r] = "419"

TRACKPATH_ARRAY_SIZE_NoRoot == 4
TRACKPATH_ARRAY_SIZE == 5

Code(region) == IF region = "" THEN 0 ELSE CHOOSE i \in DOMAIN RegionOrder : RegionOrder[i] = region

-----------------------------------------------------------------------------
(* Comparisons. *)

\* The first that tells the two apart.
Decide(comparisons) ==
    LET telling == {i \in DOMAIN comparisons : comparisons[i] # 0}
    IN  IF telling = {} THEN 0 ELSE comparisons[Min(telling)]

Points(suits) == IF suits THEN 1 ELSE 0
Prefer(current, other) == Points(current) - Points(other)
Closer(current, other) == other - current

CompareLanguage(x, y) == x.lang = y.lang \/ {x.lang, y.lang} \in LANGUAGES_CODES

-----------------------------------------------------------------------------
(* The default script and region of a language. *)

FindDefaultScript(lang, region) ==
    IF Locale(lang, "", region) \in DOMAIN LIKELY_TAGS_CODES
    THEN LIKELY_TAGS_CODES[Locale(lang, "", region)].script
    ELSE IF Locale(lang, "", "") \in DOMAIN LIKELY_TAGS_CODES
    THEN LIKELY_TAGS_CODES[Locale(lang, "", "")].script ELSE ""

FindDefaultRegion(lang, script) ==
    LET asked == IF lang = "en" /\ script = "Qaag" THEN "Latn" ELSE script
    IN  IF Locale(lang, asked, "") \in DOMAIN LIKELY_TAGS_CODES
        THEN LIKELY_TAGS_CODES[Locale(lang, asked, "")].region
        ELSE IF Locale(lang, "", "") \in DOMAIN LIKELY_TAGS_CODES
        THEN LIKELY_TAGS_CODES[Locale(lang, "", "")].region ELSE ""

IsDefaultLocale(lang, script, region) ==
    Locale(lang, IF lang = "en" /\ script = "Qaag" THEN "Latn" ELSE script, region)
        \in TYPICAL_CODES

\* English of pseudo locales is British where there is a choice.
IsQaag(x) == x.lang = "en" /\ x.script = "Qaag"

CompareRegionWhenQaag(current, other, request) ==
    LET british(x) == x.lang = "en" /\ x.region = "GB"
    IN  IF IsQaag(request) THEN Prefer(british(current), british(other)) ELSE 0

-----------------------------------------------------------------------------
(* The way from a locale to its ancestors. *)

SearchParentLocale(x, request) ==
    LET keyed == IF request.script = "Hant" THEN [x EXCEPT !.script = "Hant"] ELSE x
    IN  IF keyed = Locale("zh", "Hant", "MO") THEN Locale("zh", "", "HK")
        ELSE IF x.region = "" THEN ROOT_LOCALE
        ELSE IF keyed \in DOMAIN LOCALE_PARENTS THEN LOCALE_PARENTS[keyed]
        ELSE [x EXCEPT !.region = ""]

\* The array: the code writes it until it is at the root, whatever its size.
FindTrackPath(x, request) ==
    LET path[i \in 1..TRACKPATH_ARRAY_SIZE] ==
            IF i = 1 THEN x
            ELSE IF path[i - 1] = ROOT_LOCALE THEN ROOT_LOCALE
            ELSE SearchParentLocale(path[i - 1], request)
    IN  path

SearchTrackPathDistance(path, x) ==
    LET at == SelectInSeq(path, LAMBDA y : y \in {ROOT_LOCALE, x})
    IN  IF at = 0 THEN TRACKPATH_ARRAY_SIZE ELSE at - 1

\* The steps from both to the first place of the target's path that is on the other.
ComputeTrackPathDistance(requestPath, targetPath) ==
    LET i == SelectInSeq(targetPath, LAMBDA y : y = ROOT_LOCALE \/ Contains(requestPath, y))
    IN  IF i = 0 \/ targetPath[i] = ROOT_LOCALE THEN 2 * TRACKPATH_ARRAY_SIZE
        ELSE i - 1 + SelectInSeq(requestPath, LAMBDA y : y = targetPath[i]) - 1

-----------------------------------------------------------------------------
(* Regions. *)

Numeric(region) == region \in {"001", "015", "150", "419"}

AlphabeticallyCompare(current, currentLocale, other, otherLocale) ==
    IF currentLocale = otherLocale THEN 0
    ELSE Decide(<<Prefer(current.region # "", other.region # ""),
                  Prefer(~Numeric(current.region), ~Numeric(other.region)),
                  Closer(Code(currentLocale.region), Code(otherLocale.region))>>)

CompareWhenRegionIsNull(current, other, request) ==
    LET default == FindDefaultRegion(request.lang, request.script)
        Plain(x) == Locale(request.lang, "", x.region)
    IN  Decide(<<Prefer(current.region = "", other.region = ""),
                 CompareRegionWhenQaag(current, other, request),
                 Prefer(current.region = default, other.region = default),
                 AlphabeticallyCompare(current, Plain(current), other, Plain(other))>>)

CompareDefaultRegion(current, other, request) ==
    LET IsDefault(x) == IsDefaultLocale(request.lang, request.script, x.region)
    IN  Decide(<<CompareRegionWhenQaag(current, other, request),
                 Prefer(IsDefault(current), IsDefault(other))>>)

CompareRegion_DistanceOnly(current, other, request) ==
    LET path == FindTrackPath(Locale(request.lang, "", request.region), request)
        Plain(x) == Locale(request.lang, "", x.region)
    IN  Closer(SearchTrackPathDistance(path, Plain(current)),
               SearchTrackPathDistance(path, Plain(other)))
\* es-US is placed where es-419 is.
CompareRegion(current, other, request) ==
    LET path == FindTrackPath(Locale(request.lang, "", request.region), request)
        Plain(x) == Locale(request.lang, "",
                        IF request.lang = "es" /\ x.region = "US" THEN "419" ELSE x.region)
        Distance(x) == SearchTrackPathDistance(path, Plain(x))
        FromPath(x) == ComputeTrackPathDistance(path, FindTrackPath(Plain(x), request))
        default == FindDefaultRegion(request.lang, request.script)
    IN  IF request.region = "" THEN CompareWhenRegionIsNull(current, other, request)
        ELSE Decide(<<Closer(Distance(current), Distance(other)),
                      Closer(FromPath(current), FromPath(other)),
                      CompareDefaultRegion(current, other, request),
                      Prefer(current.region = default, other.region = default),
                      AlphabeticallyCompare(current, Plain(current), other, Plain(other))>>)

CompareLanguageIgnoreOldNewCode(current, other, request) ==
    Prefer(current.lang = request.lang, other.lang = request.lang)

IsMoreSuitable(current, other, request) ==
    IF current.region = other.region
    THEN CompareLanguageIgnoreOldNewCode(current, other, request)
    ELSE Decide(<<Prefer(current.region = request.region, other.region = request.region),
                  CompareRegion(current, other, request),
                  CompareLanguageIgnoreOldNewCode(current, other, request)>>)

-----------------------------------------------------------------------------
(* Matching. *)

ScriptOf(x) == IF x.script = "" THEN FindDefaultScript(x.lang, x.region) ELSE x.script

CompareScript(current, other) ==
    \/ IsQaag(current) /\ other.lang = "en" /\ other.script = "Latn"
    \/ IF "" \in {ScriptOf(current), ScriptOf(other)}
       THEN other.region \in {"", current.region}
       ELSE ScriptOf(current) = ScriptOf(other)

Match(current, other) == CompareLanguage(current, other) /\ CompareScript(current, other)

GetBestMatchedLocale(request, candidateLocales) ==
    LET best[i \in 0..Len(candidateLocales)-1] ==
            IF i = 0 THEN candidateLocales[1]
            ELSE LET x == candidateLocales[i + 1]
                     before == best[i - 1]
                 IN  IF IsMoreSuitable(before, x, request) < 0 THEN x ELSE before
    IN  IF candidateLocales = <<>> THEN NoLocale
        ELSE best[Len(candidateLocales) - 1]

\* PreferredLanguage::GetMatchedLanguage.
GetMatchedLanguage(request) ==
    GetBestMatchedLocale(request,
        Only(Candidates, {x \in ToSet(Candidates) : Match(request, x)}))

=============================================================================
