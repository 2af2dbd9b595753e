-------------------------------- MODULE Locale --------------------------------
(***************************************************************************)
(* The console's language (frontend/src/i18n): the locale is detected when *)
(* the page loads, changed by the switcher, and its dictionary is fetched  *)
(* as a chunk of its own.  The text on screen is read from the cache of    *)
(* dictionaries while React renders, so it is what the LAST render found.  *)
(***************************************************************************)
EXTENDS Naturals, Sequences, FiniteSetsExt

CONSTANTS
    Locales,      \* SUPPORTED_LOCALES; "en" is bundled, the others are chunks
    MaxLoads      \* how often the page is loaded again

VARIABLES
    locale,       \* the state of I18nProvider
    stored,       \* localStorage["opngms.locale"]
    cache,        \* the locales whose dictionary is in memory
    chunks,       \* the chunks being imported: one import serves every caller
    effect,       \* the loader effect of this locale: "idle", "waiting", "refused"
    dict,         \* the dictionary of the last render
    loads

vars == <<locale, stored, cache, chunks, effect, dict, loads>>

\* The languages of a browser, each tag by what the detection can tell of it.
Languages == {<<>>,
              <<[exact |-> "no", zh |-> "no", prefix |-> "no"],
                [exact |-> "no", zh |-> "no", prefix |-> "it"]>>,
              <<[exact |-> "no", zh |-> "hant", prefix |-> "zh"],
                [exact |-> "it", zh |-> "no", prefix |-> "it"]>>}

isLocale(value) == value \in Locales

\* What one tag of the browser resolves to: an exact tag, Chinese by its
\* script, or the primary subtag.
Resolve(tag) ==
    IF tag.exact # "no" THEN tag.exact
    ELSE CASE tag.zh = "hant" -> "zh-TW"
           [] tag.zh = "hans" -> "zh"
           [] OTHER -> tag.prefix

\* The loop over navigator.languages: the first tag that resolves, else English.
FirstResolved(langs) ==
    LET known == {i \in DOMAIN langs : Resolve(langs[i]) # "no"}
    IN  IF known = {} THEN "en" ELSE Resolve(langs[Min(known)])

detectUnvalidated(choice, langs) ==
    IF choice # "none" THEN choice ELSE FirstResolved(langs)

\* A stored choice wins over the languages of the browser.
detectInitialLocale(choice, langs) ==
    IF isLocale(choice) THEN choice ELSE FirstResolved(langs)

\* The dictionary a render finds.
DictOf(l, dicts) == IF l \in dicts THEN l ELSE "en"

LoaderOnce(l) ==
    /\ effect' = IF l \in cache \union chunks THEN "idle" ELSE "waiting"
    /\ chunks' = IF l \in cache THEN chunks ELSE chunks \union {l}

\* The loader effect after a render with locale l: nothing to load, or an
\* import that joins the one in flight for the same chunk.
LoaderEffect(l) ==
    /\ effect' = IF l \in cache THEN "idle" ELSE "waiting"
    /\ chunks' = IF l \in cache THEN chunks ELSE chunks \union {l}

\* The page is loaded: the cache holds English, and the first effect ran.
Start(l) ==
    /\ locale = l
    /\ cache = {"en"}
    /\ chunks = {l} \ {"en"}
    /\ effect = IF l = "en" THEN "idle" ELSE "waiting"
    /\ dict = "en"

Init ==
    /\ stored \in Locales \union {"none", "tlh"}
    /\ \E langs \in Languages : Start(detectInitialLocale(stored, langs))
    /\ loads = 0

\* setLocale: the choice is stored (a full or forbidden storage is ignored)
\* and rendered; the effect of the previous locale is cancelled.
setLocale(next) ==
    /\ next # locale
    /\ isLocale(next)
    /\ stored' \in {next, stored}
    /\ locale' = next
    /\ dict' = DictOf(next, cache)
    /\ LoaderEffect(next)
    /\ UNCHANGED <<cache, loads>>

\* A chunk lands: every effect that asked for it caches it, one that is not
\* cancelled renders.
Landed(l) ==
    /\ l \in chunks
    /\ chunks' = chunks \ {l}
    /\ cache' = cache \union {l}
    /\ IF effect = "waiting" /\ locale = l
       THEN effect' = "idle" /\ dict' = l
       ELSE UNCHANGED <<effect, dict>>
    /\ UNCHANGED <<locale, stored, loads>>

\* The import is refused: no retry before another locale was chosen.
Lost(l) ==
    /\ l \in chunks
    /\ chunks' = chunks \ {l}
    /\ effect' = IF locale = l THEN "refused" ELSE effect
    /\ UNCHANGED <<locale, stored, cache, dict, loads>>

\* The page is loaded again, perhaps in a browser with other languages.
Reload(langs) ==
    /\ loads < MaxLoads
    /\ loads' = loads + 1
    /\ locale' = detectInitialLocale(stored, langs)
    /\ cache' = {"en"}
    /\ chunks' = {locale'} \ {"en"}
    /\ effect' = IF locale' = "en" THEN "idle" ELSE "waiting"
    /\ dict' = "en"
    /\ UNCHANGED stored

Next ==
    \/ \E l \in Locales : setLocale(l)
    \/ \E l \in chunks : Landed(l)
    \/ \E l \in chunks : Lost(l)
    \/ \E langs \in Languages : Reload(langs)

Spec == Init /\ [][Next]_vars

TypeOK ==
    /\ locale \in Locales
    /\ stored \in Locales \union {"none", "tlh"}
    /\ cache \subseteq Locales
    /\ chunks \subseteq Locales \ cache
    /\ effect \in {"idle", "waiting", "refused"}
    /\ dict \in Locales
    /\ loads \in 0..MaxLoads

\* The text is that of the locale as soon as its dictionary is in memory,
\* and English until then: a chunk that lands after the operator moved on is
\* kept without being shown, and one that was asked for twice is shown
\* although the first request was cancelled (i18n/index.ts, the derived
\* dictionary and the cancelled flag of the loader effect).
TextFollowsLocale == dict = DictOf(locale, cache)

\* A choice that was stored survives every reload, whatever languages the
\* browser offers (locale.ts: "a persisted choice wins").
ChoiceStep == loads' # loads /\ isLocale(stored) => locale' = stored
ChoiceSurvives == [][ChoiceStep]_vars

\* TextFollowsLocale alone is not inductive: a chunk that lands has to find an
\* effect that waits for it, and one that is being imported is not in memory.
TextInv ==
    /\ TextFollowsLocale
    /\ "en" \in cache
    /\ chunks \intersect cache = {}
    /\ locale \in chunks => effect = "waiting"

===============================================================================
