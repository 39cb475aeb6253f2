-------------------------- MODULE PreferredMatching --------------------------
(***************************************************************************)
(* PreferredLanguage with LocaleMatcher: every language of the list is     *)
(* computed, each time the list is, by comparing the supported languages.  *)
(* They come from an unordered_set, in no order a reader can rely on.      *)
(***************************************************************************)
EXTENDS PreferredLanguage

\* What the list is computed from.
Requests == ToSet(preferred) \cup {language}

\* The list does not depend on the order of the supported languages: the one chosen
\* for a request is better than every other that matches it, whichever of the two is
\* met first.
OrderFree ==
    \A x \in Requests, c \in ToSet(Candidates) :
        Match(x, c) /\ c # matched[x] =>
            /\ matched[x] # NoLocale
            /\ IsMoreSuitable(matched[x], c, x) > 0
            /\ IsMoreSuitable(c, matched[x], x) < 0

\* CompareRegion puts es-US where es-419 is for a request that has a region.
SpanishOf(request) == request.lang = "es" /\ request.region # ""
SamePlace(c, d) == {c.region, d.region} = {"US", "419"}

\* Two supported languages that match the same request can be told apart: in one region
\* exactly one of them has the language asked for, and es-US and es-419 do not compete.
Apart ==
    \A x \in Tags, c, d \in ToSet(Candidates) :
        Match(x, c) /\ Match(x, d) /\ c # d =>
            /\ c.region = d.region => (c.lang = x.lang <=> d.lang # x.lang)
            /\ SpanishOf(x) => ~SamePlace(c, d)

\* The way from every locale to the root fits in the array that is filled without a
\* look at its size, the root included.
TrackPathFits ==
    \A x \in Requests \cup ToSet(Candidates), request \in Requests :
        FindTrackPath([x EXCEPT !.script = ""], request)[TRACKPATH_ARRAY_SIZE]
            = ROOT_LOCALE

=============================================================================
