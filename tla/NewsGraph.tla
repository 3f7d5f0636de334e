------------------------------ MODULE NewsGraph ------------------------------
(***************************************************************************)
(* Graphs of news (services/news_graph_service.py) about a stock or an     *)
(* index, and about one piece of news: the news they find, their nodes and *)
(* edges, and the chains along which the news spreads.  A behaviour is one *)
(* request.  News and events are numbered from the newest on; stocks,      *)
(* sectors and themes are numbers, and a node is a kind with a number.     *)
(***************************************************************************)
EXTENDS Naturals, Sequences, FiniteSets, SequencesExt, FiniteSetsExt

CONSTANTS
  Subject,     \* the stock or index asked for
  Components,  \* stocks of the index
  Pieces,      \* bound: how many pieces of news there are
  MaxNews, MaxPeers, MaxThemes, MaxSectors, MaxChains,
  Related,     \* bound: the lists of stocks, and of sectors, that news may name
  SectorLists,
  Nothing      \* no request, no answer, no sector, no event

VARIABLES
  asked,   \* what is asked, and the news and events there are
  answer

vars == <<asked, answer>>

All == 0   \* the symbol of news about the whole market

First(list, n) == SubSeq(list, 1, IF Len(list) < n THEN Len(list) ELSE n)
Sorted(S, Before(_, _)) ==
  [i \in 1..Cardinality(S) |-> CHOOSE x \in S : Cardinality({y \in S : Before(y, x)}) = i - 1]

\* The numbers that have a score, the best first and the smaller of equals.
BestFirst(score) ==
  LET Before(i, j) == \/ score[i] > score[j]
                      \/ score[i] = score[j] /\ i < j
  IN Sorted(DOMAIN score, Before)

-----------------------------------------------------------------------------
(* Finding news *)

News == DOMAIN asked.news
Item(i) == asked.news[i]
Components0 == IF asked.what = "index" THEN Components ELSE {}

Mentions(i) == Item(i).symbol = Subject \/ Subject \in Range(Item(i).related)
MentionsComponent(i) == Item(i).symbol \in Components0 \/ Range(Item(i).related) \cap Components0 # {}

Points(condition, points) == IF condition THEN points ELSE 0

\* _stock_news_relevance_score.
StockScore(i) ==
  Points(Item(i).symbol = Subject, 12) + Points(Subject \in Range(Item(i).related), 10)
    + Points(Item(i).symbol \in Components0, 6)
    + Points(Range(Item(i).related) \cap Components0 # {}, 5)
    + Points(asked.sector \in Range(Item(i).sectors), 2)

\* The news is of the center's event type.
Typed(i) == asked.center.type # 0 /\ Item(i).type = asked.center.type

\* _focus_news_relevance_score.
FocusScore(i) ==
  LET center == asked.center
      Shared(S, T, most) == IF Cardinality(S \cap T) < most THEN Cardinality(S \cap T) ELSE most
      named == Range(center.related) \cup ({center.symbol} \ {All})
  IN Points(center.symbol # All /\ Item(i).symbol = center.symbol, 6)
       + Points(center.symbol # All /\ center.symbol \in Range(Item(i).related), 4)
       + 3 * Shared(Range(Item(i).related), named, 3)
       + 2 * Shared(Range(Item(i).sectors), Range(center.sectors), 2)
       + Shared({Item(i).theme}, {center.theme}, 2)
       + Points(Typed(i), 2)

\* Mutant: by age alone.
RankByAge(score) == Sorted({i \in DOMAIN score : score[i] >= 1}, <)

\* _rank_news_rows of scores of at least one, the newest of equal ones first.
Rank(score) == BestFirst([i \in {i \in DOMAIN score : score[i] >= 1} |-> score[i]])

\* order_by(published_at.desc()).limit(n).
Newest(found, n) == {i \in found : Cardinality({j \in found : j < i}) < n}

\* _nearby_news_query.
NearbyNews ==
  LET direct == Newest({i \in News : Mentions(i) \/ MentionsComponent(i)}, 3 * MaxNews)
      ofSector == Newest({i \in News : asked.sector \in Range(Item(i).sectors)}, 3 * MaxNews)
      rows == IF Cardinality(direct) >= MaxNews \/ asked.sector = Nothing THEN direct
              ELSE direct \cup ofSector
  IN First(Rank([i \in rows |-> StockScore(i)]), MaxNews)

\* _nearby_focus_news_query.
NearbyFocusNews ==
  LET center == asked.center
      named == Range(center.related) \cup ({center.symbol} \ {All})
      found == {i \in News : \/ Item(i).symbol \in named \/ Range(Item(i).related) \cap named # {}
                             \/ Range(Item(i).sectors) \cap Range(center.sectors) # {}
                             \/ Typed(i)}
      rows == {i \in Newest(found, 4 * MaxNews) : FocusScore(i) >= 3}
  IN First(Rank([i \in rows |-> FocusScore(i)]), MaxNews)

-----------------------------------------------------------------------------
(* Nodes and edges *)

Node(kind, of, size) == [id |-> <<kind, of>>, size |-> size]
Edge(source, target, type) == [source |-> source, target |-> target, type |-> type]

\* _add_node keeps the largest node of an id.
Largest(nodes) == {n \in nodes : \A m \in nodes : m.id = n.id => m.size <= n.size}

Center == <<asked.what, Subject>>

\* Counter.most_common: the first counted of equals.
MostCommon(list, n) ==
  LET Count(x) == Cardinality({i \in DOMAIN list : list[i] = x})
      At(x) == Min({i \in DOMAIN list : list[i] = x})
      Before(x, y) == \/ Count(x) > Count(y)
                      \/ Count(x) = Count(y) /\ At(x) < At(y)
  IN Range(First(Sorted(Range(list), Before), n))

IsPeer(s) == s # Subject

\* What peer_counter counts of a piece of news.
PeersOf(i) ==
  (IF Item(i).symbol \in Components0 THEN <<Item(i).symbol>> ELSE <<>>)
    \o SelectSeq(Item(i).related, IsPeer)

AllowedPeers(rows) == MostCommon(FlattenSeq([k \in DOMAIN rows |-> PeersOf(rows[k])]), MaxPeers)
AllowedThemes(rows) == MostCommon([k \in DOMAIN rows |-> Item(rows[k]).theme], MaxThemes)

\* Events at most three days from a piece of news.
Near(i) == {e \in asked.events : e + 3 >= Item(i).day /\ Item(i).day + 3 >= e}

SectorNodes(i, size) == {Node("sector", s, size) : s \in Range(First(Item(i).sectors, MaxSectors))}

\* The other nodes of build_stock_news_graph.
StockNeighbours(rows) ==
  (IF asked.sector = Nothing THEN {} ELSE {Node("sector", asked.sector, 34)})
    \cup {Node("event", e, 26) : e \in asked.events}
    \cup UNION {{Node("news", i, IF Mentions(i) THEN 30 ELSE 24)} \cup SectorNodes(i, 24)
                  \cup {Node("theme", t, 22) : t \in {Item(i).theme} \cap AllowedThemes(rows)}
                  \cup {Node("stock", p, 24) : p \in Range(PeersOf(i)) \cap AllowedPeers(rows)}
                  : i \in Range(rows)}

StockNodes(rows) == Largest({[id |-> Center, size |-> 58]} \cup StockNeighbours(rows))

StockEdges(rows) ==
  (IF asked.sector = Nothing THEN {} ELSE {Edge(Center, <<"sector", asked.sector>>, "belongs_to")})
    \cup {Edge(<<"event", e>>, Center, "event_of") : e \in asked.events}
    \cup UNION {LET from == <<"news", i>>
                IN (IF Mentions(i) THEN {Edge(from, Center, "mentions")} ELSE {})
                     \cup {Edge(from, n.id, "relates_sector") : n \in SectorNodes(i, 24)}
                     \cup {Edge(from, <<"theme", t>>, "has_theme") :
                             t \in {Item(i).theme} \cap AllowedThemes(rows)}
                     \cup {Edge(from, <<"stock", p>>, "mentions_peer") :
                             p \in Range(PeersOf(i)) \cap AllowedPeers(rows)}
                     \cup {Edge(from, <<"event", e>>, "cooccurs_event") : e \in Near(i)}
                  : i \in Range(rows)}

\* The neighbours of the center of build_news_focus_graph.
FocusNeighbours(rows) ==
  {Node("stock", s, 28) : s \in Range(First(asked.center.related, MaxPeers + 1))}
    \cup {Node("sector", s, 24) : s \in Range(First(asked.center.sectors, MaxSectors))}
    \cup {Node("theme", asked.center.theme, 20)}
    \cup {Node("news", i, 24) : i \in Range(rows)}

-----------------------------------------------------------------------------
(* Chains *)

Chain(steps, strength) == [steps |-> steps, strength |-> strength]

\* Mutant: keeps the first.
FirstChains(chains) ==
  LET first == {k \in DOMAIN chains : \A j \in 1..(k - 1) : chains[j].steps # chains[k].steps}
      order == First(Sorted(first, <), MaxChains)
  IN [k \in DOMAIN order |-> chains[order[k]]]

\* _append_chain, after which _limit_chains keeps the strongest.
LimitChains(chains) ==
  LET first == {k \in DOMAIN chains : \A j \in 1..(k - 1) : chains[j].steps # chains[k].steps}
      order == First(BestFirst([k \in first |-> chains[k].strength]), MaxChains)
  IN [k \in DOMAIN order |-> chains[order[k]]]

\* The sector that carries a piece of news to the center.
SharedSector(i) ==
  CASE asked.sector \in Range(Item(i).sectors) -> asked.sector
    [] asked.sector \notin Range(Item(i).sectors) /\ Item(i).sectors # <<>> -> Item(i).sectors[1]
    [] OTHER -> asked.sector

\* By an event, or else by a sector.
Propagation(i) ==
  LET via == IF Near(i) # {} THEN <<<<"event", Max(Near(i))>>>>
             ELSE IF SharedSector(i) = Nothing THEN <<>> ELSE <<<<"sector", SharedSector(i)>>>>
  IN Chain(<<<<"news", i>>>> \o via \o <<<<"stock", Subject>>>>,
           Points(TRUE, IF Mentions(i) THEN 82 ELSE 70) + Points(Near(i) # {}, 8))

\* Mutant: to stocks that the graph leaves out.
ImpactsOfAll(i, rows) ==
  LET peers == First(SelectSeq(Item(i).related, IsPeer), 2)
  IN [k \in DOMAIN peers |-> Chain(<<<<"news", i>>, <<"stock", peers[k]>>>>, 66)]

\* To two other stocks of the news.
Impacts(i, rows) ==
  LET Allowed(p) == IsPeer(p) /\ p \in AllowedPeers(rows)
      peers == First(SelectSeq(Item(i).related, Allowed), 2)
      bridge == SharedSector(i)
      via == IF bridge = Nothing THEN <<"stock", Subject>> ELSE <<"sector", bridge>>
  IN [k \in DOMAIN peers |-> Chain(<<<<"news", i>>, via, <<"stock", peers[k]>>>>,
                                   IF bridge = Nothing THEN 66 ELSE 76)]

\* _build_stock_graph_chains.
Propagations(rows) == LimitChains([k \in DOMAIN rows |-> Propagation(rows[k])])
AllImpacts(rows) == LimitChains(FlattenSeq([k \in DOMAIN rows |-> Impacts(rows[k], rows)]))

\* _build_focus_graph_chains: from the news to its stocks, ...
FocusPropagations ==
  LET center == asked.center
      to == First(center.related, 3)
      via == CASE center.type # 0 -> <<<<"event", center.type>>>>
               [] center.type = 0 /\ center.sectors # <<>> -> <<<<"sector", center.sectors[1]>>>>
               [] OTHER -> <<>>
  IN LimitChains([k \in DOMAIN to |-> Chain(<<<<"news", 0>>>> \o via \o <<<<"stock", to[k]>>>>,
                                             IF center.type # 0 THEN 90 ELSE 82)])

\* ... to the others than its first, and by other news to the first of theirs.
FocusImpacts(rows) ==
  LET center == asked.center
      more == SubSeq(center.related, 2, IF Len(center.related) < 4 THEN Len(center.related) ELSE 4)
      Names(i) == Item(i).related # <<>>
      others == SelectSeq(First(rows, 3), Names)
      primary == First(center.sectors, 1)
      Both(s) == s \in Range(First(center.sectors, MaxSectors))
      Sector(i) == LET both == SelectSeq(Item(i).sectors, Both)
                   IN IF both = <<>> THEN primary ELSE First(both, 1)
      Via(sectors) == [k \in DOMAIN sectors |-> <<"sector", sectors[k]>>]
  IN LimitChains([k \in DOMAIN more |->
                    Chain(<<<<"news", 0>>>> \o Via(primary) \o <<<<"stock", more[k]>>>>, 72)]
                 \o [k \in DOMAIN others |->
                    Chain(<<<<"news", 0>>, <<"news", others[k]>>>> \o Via(Sector(others[k]))
                            \o <<<<"stock", Item(others[k]).related[1]>>>>, 78)])

StockGraph ==
  LET rows == NearbyNews
  IN [rows |-> rows, nodes |-> StockNodes(rows), edges |-> StockEdges(rows),
      propagation |-> Propagations(rows), impact |-> AllImpacts(rows)]

FocusGraph ==
  LET rows == NearbyFocusNews
  IN [rows |-> rows, nodes |-> Largest({Node("news", 0, 54)} \cup FocusNeighbours(rows)),
      edges |-> {Edge(<<"news", 0>>, n.id, "related") : n \in FocusNeighbours(rows)},
      propagation |-> FocusPropagations, impact |-> FocusImpacts(rows)]

-----------------------------------------------------------------------------

Items == [symbol : {All, Subject, Min(Components)}, related : Related, sectors : SectorLists]

\* Pieces of news, of the eighth day and of one before.
Listed(a, b, day) ==
  [k \in 1..Pieces |-> LET i == IF k = 2 THEN b ELSE a
                  IN [symbol |-> i.symbol, related |-> i.related, sectors |-> i.sectors,
                      theme |-> k % 2, type |-> k % 2, day |-> IF k = 1 THEN 8 ELSE day]]

Init ==
  /\ \E a, b \in Items :
       \/ \E sector \in {1, Nothing}, events \in {{}, {2, 8}}, day \in {1, 8} :
            asked = [what |-> "stock", sector |-> sector, events |-> events, news |-> Listed(a, b, day)]
       \/ asked = [what |-> "index", sector |-> Nothing, events |-> {}, news |-> Listed(a, b, 8)]
       \/ asked = [what |-> "focus", sector |-> Nothing, events |-> {}, news |-> Listed(a, b, 8),
                   center |-> Listed(b, b, 8)[1]]
  /\ answer = Nothing

build_stock_news_graph ==
  /\ asked.what \in {"stock", "index"} /\ answer = Nothing
  /\ answer' = StockGraph
  /\ UNCHANGED asked

build_news_focus_graph ==
  /\ asked.what = "focus" /\ answer = Nothing
  /\ answer' = FocusGraph
  /\ UNCHANGED asked

Next == build_stock_news_graph \/ build_news_focus_graph

Spec == Init /\ [][Next]_vars

-----------------------------------------------------------------------------
(* Properties *)

Ids(nodes) == {n.id : n \in nodes}

\* An edge has both its ends in the graph, an id is that of one node, and none
\* is larger than the one in the center.
GraphWhole ==
  answer # Nothing =>
    LET center == IF asked.what = "focus" THEN <<"news", 0>> ELSE Center
    IN /\ \A e \in answer.edges : {e.source, e.target} \subseteq Ids(answer.nodes)
       /\ \A m, n \in answer.nodes : m.id = n.id => m = n
       /\ \A n \in answer.nodes : n.size >= 50 <=> n.id = center

\* News that names the stock comes before other news, the newer first of what
\* names it alike, and is left out only for more of it.
NamedFirst ==
  answer # Nothing /\ asked.what = "stock" =>
    LET rows == answer.rows
        Shown(i) == \E k \in DOMAIN rows : rows[k] = i
    IN /\ IsInjective(rows) /\ Len(rows) <= MaxNews
       /\ \A j, k \in DOMAIN rows : j < k =>
            /\ Mentions(rows[k]) => Mentions(rows[j])
            /\ StockScore(rows[j]) = StockScore(rows[k]) => rows[j] < rows[k]
       /\ \A i \in News : Mentions(i) /\ ~Shown(i) =>
            Len(rows) = MaxNews /\ \A k \in DOMAIN rows : Mentions(rows[k])

Stocks == {<<"stock", s>> : s \in {Subject} \cup Components}

\* Every chain leads from news of the graph to one of the ends; the strongest come
\* first, and none comes twice.  Of a stock's graph all its steps are nodes.
ChainsLead(chains, ends) ==
  /\ Len(chains) <= MaxChains
  /\ \A j, k \in DOMAIN chains : j < k =>
       chains[j].steps # chains[k].steps /\ chains[j].strength >= chains[k].strength
  /\ \A k \in DOMAIN chains :
       LET steps == chains[k].steps
       IN /\ steps[1][1] = "news" /\ steps[1] \in Ids(answer.nodes)
          /\ asked.what = "stock" => Range(steps) \subseteq Ids(answer.nodes)
          /\ steps[Len(steps)] \in ends

\* The news spreads to the stock, ...
PropagationsLead ==
  answer # Nothing =>
    ChainsLead(answer.propagation, IF asked.what = "focus" THEN Stocks ELSE {<<"stock", Subject>>})

\* ... and on to others.
ImpactsLead ==
  answer # Nothing =>
    ChainsLead(answer.impact, IF asked.what = "focus" THEN Stocks ELSE Stocks \ {<<"stock", Subject>>})
=============================================================================
