--------------------------- MODULE MacroScenarios ----------------------------
(***************************************************************************)
(* Macro scenarios read from a user's words, and what they and a           *)
(* portfolio's weights say of it (services/portfolio_macro_scenarios.py,   *)
(* portfolio_scenario_lab_service.py, portfolio_diagnostics_service.py).   *)
(* A text is a sequence of phrases; of a phrase the topics it names, its   *)
(* direction words, its number and a hint of strength are told.  Numbers   *)
(* are hundredths of a percent, or basis points.                           *)
(***************************************************************************)
EXTENDS Integers, Sequences, FiniteSets, SequencesExt, FiniteSetsExt, Functions

CONSTANTS Nothing

VARIABLES
  asked,    \* a text, or a portfolio
  answer

vars == <<asked, answer>>

Abs(n) == IF n < 0 THEN -n ELSE n
Between(low, n, high) == IF n < low THEN low ELSE IF n > high THEN high ELSE n
Clip(shock) == Between(-9500, shock, 9500)

-----------------------------------------------------------------------------
(* Phrases *)

NoWords == [up |-> 0, down |-> 0, ease |-> 0, tighten |-> 0, gain |-> 0, lose |-> 0]
Empty == [topics |-> {}, words |-> NoWords, size |-> Nothing, unit |-> "percent",
          sign |-> Nothing, hint |-> Nothing, alias |-> Nothing]

\* _split_clauses: a plus sign ends a clause, and a clause counts once.
Clauses(text) ==
  LET Split(phrase) ==
        IF phrase.sign # "+" THEN <<phrase>>
        ELSE <<[phrase EXCEPT !.size = Nothing, !.sign = Nothing],
               [Empty EXCEPT !.size = phrase.size, !.unit = phrase.unit]>>
      First(list, clause) == IF clause \in Range(list) THEN list ELSE Append(list, clause)
  IN FoldLeft(First, <<>>, FlattenSeq([i \in DOMAIN text |-> Split(text[i])]))

\* _apply_aliases: a rise or a cut of interest is a move of the rates.
Aliased(clause) ==
  CASE clause.alias = Nothing -> clause
    [] clause.alias = "hike" -> [clause EXCEPT !.topics = @ \cup {"rates"}, !.words.up = @ + 1]
    [] clause.alias = "cut" -> [clause EXCEPT !.topics = @ \cup {"rates"}, !.words.down = @ + 1]

\* _extract_direction: words that rise win, and a sign counts without words; that
\* a currency gains or loses is not among the words.
Direction(clause, sign, size) ==
  LET rises == clause.words.up + clause.words.ease > 0
      falls == clause.words.down + clause.words.tighten > 0
  IN CASE rises -> 1
       [] ~rises /\ falls -> -1
       [] ~rises /\ ~falls -> IF sign = Nothing THEN 0 ELSE IF sign = "+" /\ size > 0 THEN 1 ELSE -1

\* _extract_percent, _extract_bp, _infer_percent_magnitude and _infer_bp_magnitude.
Extract(clause, unit) == IF clause.unit = unit THEN clause.size ELSE Nothing
Infer(clause, unit) ==
  IF unit = "percent"
  THEN CASE clause.hint = "large" -> 800 [] clause.hint = "small" -> 300 [] OTHER -> Nothing
  ELSE CASE clause.hint = "large" -> 75
         [] clause.hint = "small" -> 25
         [] clause.hint = Nothing -> IF clause.words.up + clause.words.down > 0 THEN 50 ELSE Nothing

-----------------------------------------------------------------------------
(* Templates *)

Template(code, topic, directions, unit, base, seeds) ==
  [code |-> code, topic |-> topic, directions |-> directions, unit |-> unit, base |-> base,
   seeds |-> seeds]

\* TEMPLATES: one pair for each unit, with some of their rules.
Templates == <<
  Template("oil_up", "oil", {"up"}, "percent", 800, [energy |-> 600, airlines |-> -500, transport |-> -300]),
  Template("oil_down", "oil", {"down"}, "percent", 800, [energy |-> -500, airlines |-> 400, consumer |-> 100]),
  Template("rmb_depreciation", "rmb", {"lose"}, "percent", 300, [tech |-> 300, airlines |-> -400, property |-> -200]),
  Template("rmb_appreciation", "rmb", {"gain"}, "percent", 300, [tech |-> -200, airlines |-> 300, consumer |-> 100]),
  Template("property_easing", "property", {"ease"}, "qualitative", 1, [property |-> 600, finance |-> 200]),
  Template("property_tightening", "property", {"tighten"}, "qualitative", 1, [property |-> -600, finance |-> -200]),
  Template("rate_up", "rates", {"up", "tighten"}, "bp", 50, [finance |-> 100, tech |-> -500, property |-> -500]),
  Template("rate_down", "rates", {"down", "ease"}, "bp", 50, [finance |-> -100, tech |-> 500, property |-> 400])>>

\* _score_template_match, in thousandths; a word of property is two keywords.
Hits(clause, t) == IF t.topic \notin clause.topics THEN 0 ELSE IF t.topic = "property" THEN 2 ELSE 1
Moves(clause, t) == Between(0, SumFunction([w \in t.directions |-> clause.words[w]]), 2)
Score(clause, t) ==
  3705 * Hits(clause, t) + 7695 * Moves(clause, t)
  + (IF Hits(clause, t) > 0 /\ Moves(clause, t) > 0 THEN 2000 ELSE 0)
  + (CASE t.unit = "bp" -> IF Extract(clause, "bp") # Nothing THEN 900 ELSE 0
       [] t.unit = "percent" -> IF Extract(clause, "percent") # Nothing THEN 800 ELSE 0
       [] t.unit = "qualitative" -> IF clause.words.ease + clause.words.tighten > 0 THEN 500 ELSE 0)

\* _best_template_match: the first of the best, if it names a topic and a direction.
Best(clause) ==
  {k \in DOMAIN Templates :
     LET t == Templates[k] IN
     /\ \A j \in DOMAIN Templates : Score(clause, Templates[j]) <= Score(clause, t)
     /\ \A j \in 1..(k - 1) : Score(clause, Templates[j]) < Score(clause, t)
     /\ Score(clause, t) >= 5000 /\ Hits(clause, t) > 0 /\ Moves(clause, t) > 0}

\* _scale_rule_shocks.
Scaled(t, size) ==
  LET ratio == IF size = Nothing THEN 100 ELSE Between(35, (100 * size) \div t.base, 300)
  IN {[scope |-> "sector", of |-> s, shock |-> Clip((t.seeds[s] * ratio) \div 100)] : s \in DOMAIN t.seeds}

Resolved(parser, confidence, code, size, bp, rules) ==
  [parser |-> parser, confidence |-> confidence, code |-> code, size |-> size, bp |-> bp, rules |-> rules]

\* _build_template_clause.
Templated(t, clause) ==
  LET explicit == IF t.unit = "qualitative" THEN Nothing ELSE Extract(clause, t.unit)
      size == IF explicit # Nothing \/ t.unit = "qualitative" THEN explicit ELSE Infer(clause, t.unit)
  IN Resolved("template", IF explicit # Nothing \/ t.unit = "qualitative" THEN "high" ELSE "medium", t.code,
              IF t.unit = "percent" THEN size ELSE Nothing, IF t.unit = "bp" THEN size ELSE Nothing,
              Scaled(t, size))

-----------------------------------------------------------------------------
(* Other clauses *)

\* A percentage that is zero counts as none.
Size(clause, default) ==
  CASE Extract(clause, "percent") \notin {Nothing, 0} -> Extract(clause, "percent")
    [] Extract(clause, "percent") \in {Nothing, 0} ->
         IF Infer(clause, "percent") = Nothing THEN default ELSE Infer(clause, "percent")

\* _resolve_generic_scope_clause: a sector before a market.
Sectors == {"property", "tech"}
Generic(clause) ==
  LET size == Size(clause, 500)
      shock == Clip(Direction(clause, clause.sign, clause.size) * size)
      rule == IF clause.topics \cap Sectors # {}
              THEN [scope |-> "sector", of |-> CHOOSE s \in Sectors : s \in clause.topics, shock |-> shock]
              ELSE [scope |-> "market", of |-> "HK", shock |-> shock]
  IN Resolved("generic", "medium", Nothing, size, Nothing, {rule})
HasScope(clause) ==
  Direction(clause, clause.sign, clause.size) # 0 /\ clause.topics \cap (Sectors \cup {"hk"}) # {}

Unparsed == Resolved("unparsed", "low", Nothing, Nothing, Nothing, {})

Resolve(clause) ==
  CASE Best(clause) # {} -> Templated(Templates[CHOOSE k \in Best(clause) : TRUE], clause)
    [] Best(clause) = {} -> IF HasScope(clause) THEN Generic(clause) ELSE Unparsed

\* The whole text as one clause: its words together, its first number and first sign.
Whole(text) ==
  LET of == [i \in DOMAIN text |-> Aliased(text[i])]
      FirstOf(Has(_)) == {i \in DOMAIN of : Has(of[i]) /\ \A j \in 1..(i - 1) : ~Has(of[j])}
      HasSize(phrase) == Extract(phrase, "percent") # Nothing
      HasSign(phrase) == phrase.sign # Nothing
      HintOf(kind) == \E i \in DOMAIN of : of[i].hint = kind
      signed == FirstOf(HasSign)
  IN [clause |-> [Empty EXCEPT
        !.words = [w \in DOMAIN NoWords |-> SumFunction([i \in DOMAIN of |-> of[i].words[w]])],
        !.hint = IF HintOf("large") THEN "large" ELSE IF HintOf("small") THEN "small" ELSE Nothing,
        !.size = IF FirstOf(HasSize) = {} THEN Nothing ELSE of[CHOOSE i \in FirstOf(HasSize) : TRUE].size],
      sign |-> IF signed = {} THEN Nothing ELSE of[CHOOSE i \in signed : TRUE].sign,
      signed |-> IF signed = {} THEN 0 ELSE of[CHOOSE i \in signed : TRUE].size]

\* _fallback_market_clause, of the whole text.
Fallback(direction, size) ==
  Resolved("fallback", "low", Nothing, size, Nothing,
           {[scope |-> "all", of |-> Nothing, shock |-> Clip(direction * size)]})

-----------------------------------------------------------------------------
(* Bundles *)

Scopes(clauses) == UNION {{[scope |-> r.scope, of |-> r.of] : r \in clauses[i].rules} : i \in DOMAIN clauses}
ShockOf(clause, scope) ==
  SumFunction([r \in {r \in clause.rules : r.scope = scope.scope /\ r.of = scope.of} |-> r.shock])

\* Mutant: the last clause's shock replaces the others'.
LastRules(clauses) ==
  LET Has(scope) == {i \in DOMAIN clauses : scope \in Scopes(<<clauses[i]>>)}
  IN [scope \in Scopes(clauses) |-> ShockOf(clauses[Max(Has(scope))], scope)]

\* _merge_rules.
MergedRules(clauses) ==
  [scope \in Scopes(clauses) |-> Clip(SumFunction([i \in DOMAIN clauses |-> ShockOf(clauses[i], scope)]))]

\* _build_bundle; a bundle without rules is its ValueError.
Bundle(clauses) ==
  LET HasRules(c) == c.rules # {}
      parsed == SelectSeq(clauses, HasRules)
      parsers == {clauses[i].parser : i \in DOMAIN clauses}
      codes == {parsed[i].code : i \in DOMAIN parsed} \ {Nothing}
  IN [clauses |-> clauses, rules |-> MergedRules(parsed), codes |-> codes,
      confidence |-> IF parsers = {"template"} THEN "high" ELSE "medium",
      size |-> IF Len(parsed) = 1 THEN parsed[1].size ELSE Nothing]
Refused(scenario) == scenario.rules = <<>>

\* resolve_portfolio_macro_scenario.
Decided(clauses, whole) ==
  LET direction == Direction(whole.clause, whole.sign, whole.signed)
      unresolved == \A i \in DOMAIN clauses : clauses[i].rules = {}
  IN Bundle(IF unresolved /\ direction # 0 THEN <<Fallback(direction, Size(whole.clause, 300))>>
            ELSE clauses)
Scenario(text) == Decided([i \in DOMAIN Clauses(text) |-> Resolve(Aliased(Clauses(text)[i]))], Whole(text))

\* Mutant: a fall of the oil price adds to the shock.
OneWayOverrides(scenario) ==
  [commodity |-> SumFunction([i \in {i \in DOMAIN scenario.clauses : scenario.clauses[i].code \in {"oil_up", "oil_down"}} |-> 800]),
   fx |-> 0, rate |-> 0, market |-> 0, lambda |-> 20]

\* _factor_overrides_from_resolved.
Overrides(scenario) ==
  LET Or(size, default) == IF size \in {Nothing, 0} THEN default ELSE size
      Shock(clause, up, down, size) ==
        IF clause.code = up THEN size ELSE IF clause.code = down THEN -size ELSE 0
      Sum(Of(_)) == SumFunction([i \in DOMAIN scenario.clauses |-> Of(scenario.clauses[i])])
      Oil(c) == Shock(c, "oil_up", "oil_down", Or(c.size, 800))
      Currency(c) == Shock(c, "rmb_depreciation", "rmb_appreciation", Or(c.size, 300))
      Rate(c) == Shock(c, "rate_up", "rate_down", Or(c.bp, 50))
      Property(c) == Shock(c, "property_easing", "property_tightening", Or(c.size, 200))
  IN [commodity |-> Sum(Oil), fx |-> Sum(Currency), rate |-> Sum(Rate), market |-> Sum(Property),
      lambda |-> CASE scenario.confidence = "high" -> 26 [] scenario.confidence = "medium" -> 20
                   [] OTHER -> 15]

\* run_portfolio_scenario_lab.
Lab(text) ==
  LET scenario == Scenario(text)
  IN [scenario |-> scenario, overrides |-> IF Refused(scenario) THEN Nothing ELSE Overrides(scenario)]

-----------------------------------------------------------------------------
(* Diagnostics of a portfolio: holdings with a sector, a market and a value *)

Worth(holdings, S) == SumFunction([i \in S |-> holdings[i].value])
Total(holdings) == Worth(holdings, DOMAIN holdings)

\* _style_exposures.
Styles(holdings) ==
  LET Weight(sectors) == Worth(holdings, {i \in DOMAIN holdings : holdings[i].sector \in sectors})
      abroad == {i \in DOMAIN holdings : \/ holdings[i].market = "HK"
                                         \/ holdings[i].sector = "tech"}
  IN [finance |-> Weight({"finance"}), growth |-> Weight({"tech"}), defensive |-> Weight({"consumer"}),
      cyclical |-> Weight({"property", "airlines", "transport", "energy"}),
      property |-> Weight({"property"}), export |-> Worth(holdings, abroad)]

\* build_macro_scenario_from_code.
FromCode(code) == Bundle(<<Templated(Templates[CHOOSE k \in DOMAIN Templates : Templates[k].code = code], Empty)>>)

\* What a scenario makes of the portfolio.
Change(holdings, code) ==
  LET shocks == FromCode(code).rules
      Shock(s) == SumFunction([scope \in {scope \in DOMAIN shocks : scope.of = s} |-> shocks[scope]])
  IN SumFunction([i \in DOMAIN holdings |-> holdings[i].value * Clip(Shock(holdings[i].sector))])

\* _macro_sensitivities: the strongest; of equals the first.
Sensitivities == <<"rate_up", "rmb_depreciation", "oil_up", "property_easing">>
Changes(holdings) == [k \in DOMAIN Sensitivities |-> Change(holdings, Sensitivities[k])]
Strongest(changes) ==
  CHOOSE k \in DOMAIN changes :
    \A j \in DOMAIN changes : /\ Abs(changes[j]) <= Abs(changes[k])
                              /\ j < k => Abs(changes[j]) < Abs(changes[k])

\* Mutant: the first three holdings.
FirstThree(holdings) == Worth(holdings, DOMAIN holdings \cap (1..3))

\* top_positions, and the weight of three.
TopThree(holdings) ==
  LET Ahead(i) == {j \in DOMAIN holdings : \/ holdings[j].value > holdings[i].value
                                           \/ holdings[j].value = holdings[i].value /\ j < i}
  IN Worth(holdings, {i \in DOMAIN holdings : Cardinality(Ahead(i)) < 3})

\* _portrait_tags.
Portrait(styles, total, top, sectors, code, change) ==
  LET AtLeast(value, percent) == 100 * value >= percent * total
      AtMost(value, percent) == 100 * value <= percent * total
      moved == AtLeast(Abs(change), 2 * 100 * 100)
      If(condition, tag) == IF condition THEN {tag} ELSE {}
  IN UNION {If(AtLeast(styles.finance, 35), "high_finance"),
            If(AtMost(styles.growth, 18), "low_growth"),
            If(AtLeast(styles.growth, 35), "high_growth"),
            If(AtLeast(styles.cyclical, 45) \/ AtLeast(styles.property, 25), "cyclical_tilt"),
            If(AtLeast(top, 62), "concentrated"),
            If(AtMost(top, 42) /\ sectors >= 4, "diversified"),
            If(moved /\ code = "rate_up", IF change < 0 THEN "rate_risk" ELSE "rate_positive"),
            If(moved /\ code = "property_easing" /\ change > 0, "property_policy_benefit"),
            If(moved /\ code = "rmb_depreciation", IF change > 0 THEN "fx_positive" ELSE "fx_risk")}

\* _build_portfolio_diagnostics.
Diagnosed(styles, total, top, sectors, changes, strongest) ==
  [portrait |-> Portrait(styles, total, top, sectors, Sensitivities[strongest], changes[strongest]),
   total |-> total, styles |-> styles, top3 |-> top, macro |-> changes]
Diagnosis(holdings) ==
  IF holdings = <<>> THEN [portrait |-> {}, total |-> 0]
  ELSE Diagnosed(Styles(holdings), Total(holdings), TopThree(holdings),
                 Cardinality({holdings[i].sector : i \in DOMAIN holdings}),
                 Changes(holdings), Strongest(Changes(holdings)))
-----------------------------------------------------------------------------

Phrase(topics, words, size, unit, sign, hint) ==
  [Empty EXCEPT !.topics = topics, !.words = words, !.size = size, !.unit = unit, !.sign = sign,
                !.hint = hint]
One(word) == [NoWords EXCEPT ![word] = 1]
Wordings == {One(w) : w \in DOMAIN NoWords} \cup
            {NoWords, [One("up") EXCEPT !.down = 1], [One("down") EXCEPT !.up = 2]}
TopicSets == {{}, {"oil"}, {"rates"}, {"rmb"}, {"property"}, {"hk"}, {"tech"}, {"hk", "tech"}, {"oil", "property"}}
Sizes == {0, 400, 5000}

\* Every phrase alone, and several of some phrases together.
Phrases ==
  {Phrase(topics, words, Nothing, "percent", Nothing, hint) :
     topics \in TopicSets, words \in Wordings, hint \in {Nothing, "large", "small"}}
  \cup {Phrase(topics, words, size, "percent", sign, Nothing) :
          topics \in TopicSets, words \in Wordings, size \in Sizes, sign \in {Nothing, "+", "-"}}
  \cup {Phrase(topics, words, 25, "bp", sign, Nothing) :
          topics \in TopicSets, words \in Wordings, sign \in {Nothing, "-"}}
  \cup {[Phrase(topics, NoWords, Nothing, "percent", Nothing, hint) EXCEPT !.alias = alias] :
          topics \in TopicSets, hint \in {Nothing, "large"}, alias \in {"hike", "cut"}}
Chosen ==
  {Phrase(topics, One(word), size, "percent", Nothing, Nothing) :
     topics \in {{}, {"oil"}, {"tech"}, {"property"}}, word \in {"up", "down", "tighten"},
     size \in {Nothing, 5000}}
  \cup {Phrase({"hk"}, NoWords, 400, "percent", "+", Nothing), Phrase({"tech"}, NoWords, 0, "percent", "-", Nothing),
        [Empty EXCEPT !.alias = "hike"]}
Strong == {p \in Chosen : p.size = 5000 /\ p.topics # {} /\ p.words.tighten = 0}

Holding(sector, market, value) == [sector |-> sector, market |-> market, value |-> value]
Portfolios ==
  UNION {[1..n -> {Holding(sector, "A", value) : sector \in {"finance", "tech", "property", "energy"}, value \in {1, 6}}] : n \in 0..3}
  \cup [1..4 -> {Holding("consumer", "HK", 2), Holding("airlines", "A", 3), Holding("tech", "HK", 1), Holding("finance", "A", 5)}]

Init ==
  /\ \/ \E p \in Phrases : asked = [what |-> "lab", of |-> <<p>>]
     \/ \E p, q \in Chosen : asked = [what |-> "lab", of |-> <<p, q>>]
     \/ \E p, q, r \in Strong : asked = [what |-> "lab", of |-> <<p, q, r>>]
     \/ \E holdings \in Portfolios : asked = [what |-> "diagnosis", of |-> holdings]
  /\ answer = Nothing

run_portfolio_scenario_lab ==
  /\ asked.what = "lab" /\ answer = Nothing
  /\ answer' = Lab(asked.of)
  /\ UNCHANGED asked

get_diagnostics ==
  /\ asked.what = "diagnosis" /\ answer = Nothing
  /\ answer' = Diagnosis(asked.of)
  /\ UNCHANGED asked

Next == run_portfolio_scenario_lab \/ get_diagnostics

Spec == Init /\ [][Next]_vars

-----------------------------------------------------------------------------
(* Properties *)

Answered == asked.what = "lab" /\ answer # Nothing
Told == Answered /\ ~Refused(answer.scenario)
ToldByClauses == Told /\ answer.scenario.clauses[1].parser # "fallback"

\* The order of the phrases does not matter to the rules, and what is said twice
\* counts once.
OrderMakesNoDifference ==
  ToldByClauses => /\ Scenario(Reverse(asked.of)).rules = answer.scenario.rules
                   /\ Scenario(asked.of \o asked.of) = answer.scenario

\* A text is refused only when nothing in it tells a direction.
RefusedWithoutDirection ==
  Answered /\ Refused(answer.scenario) =>
    \A i \in DOMAIN asked.of :
      LET w == Aliased(asked.of[i]).words
      IN w.up + w.down + w.ease + w.tighten = 0 /\ asked.of[i].sign = Nothing

\* The opposite of a phrase that tells one direction moves its sectors the
\* opposite way, and a larger number never moves them less.
Opposite(phrase) ==
  LET w == phrase.words
  IN [phrase EXCEPT
        !.words = [up |-> w.down, down |-> w.up, ease |-> w.tighten, tighten |-> w.ease, gain |-> w.lose, lose |-> w.gain],
        !.alias = CASE @ = "hike" -> "cut" [] @ = "cut" -> "hike" [] OTHER -> @]
OneDirection(phrase) == phrase.sign = Nothing /\ Cardinality({w \in DOMAIN NoWords : Aliased(phrase).words[w] > 0}) = 1
ShockFollowsWords ==
  Told /\ Len(asked.of) = 1 =>
    LET phrase == asked.of[1]
        rules == answer.scenario.rules
        Other(p) == Scenario(<<p>>).rules
        Larger(size) == Other([phrase EXCEPT !.size = size])
    IN /\ OneDirection(phrase) =>
            \A scope \in DOMAIN rules \cap DOMAIN Other(Opposite(phrase)) :
              (rules[scope] > 0) # (Other(Opposite(phrase))[scope] > 0)
       /\ phrase.size \notin {Nothing, 0} =>
            \A scope \in DOMAIN rules : Abs(Larger(2 * phrase.size)[scope]) >= Abs(rules[scope])

\* For one phrase, the factors that the lab overrides move as the rules do.
OverridesFollowRules ==
  Told /\ Len(asked.of) = 1 =>
    LET rules == answer.scenario.rules
        factors == answer.overrides
        Agree(factor, sector, as) ==
          factor # 0 => LET scope == [scope |-> "sector", of |-> sector]
                        IN scope \in DOMAIN rules /\ (rules[scope] * as > 0) = (factor > 0)
    IN /\ Agree(factors.commodity, "energy", 1) /\ Agree(factors.rate, "tech", -1)
       /\ Agree(factors.fx, "airlines", -1) /\ Agree(factors.market, "finance", 1)

\* A diagnosis depends neither on the order of the holdings nor on the unit of
\* their values, and its tags do not contradict each other.
DiagnosisStable ==
  asked.what = "diagnosis" /\ answer # Nothing =>
    LET Doubled(h) == [h EXCEPT !.value = 2 * @]
        doubled == [i \in DOMAIN asked.of |-> Doubled(asked.of[i])]
        Both(a, b) == {a, b} \subseteq answer.portrait
    IN /\ Diagnosis(Reverse(asked.of)) = answer
       /\ Diagnosis(doubled).portrait = answer.portrait
       /\ ~Both("concentrated", "diversified") /\ ~Both("low_growth", "high_growth")

MacroSound ==
  /\ OrderMakesNoDifference /\ RefusedWithoutDirection /\ ShockFollowsWords
  /\ OverridesFollowRules /\ DiagnosisStable
=============================================================================
