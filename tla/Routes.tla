------------------------------- MODULE Routes -------------------------------
(***************************************************************************)
(* The graph of exchange rates of forex/forex-analyze.ts, with the costs of *)
(* forex-costs.ts and the merging of forex-quotes.ts: which pairs of        *)
(* currencies can be reached at two different rates, which rings of trades  *)
(* return more than they took, and which of them still pay after costs.     *)
(*                                                                          *)
(* A rate is its logarithm in units of 1/100000, so that a product of rates *)
(* is a sum and a small relative difference is a difference; a spread and a *)
(* cost are in the same unit.  A quote is [base, quote, rate, bid, ask,     *)
(* spread, bucket]; None is a price or spread the source does not give.     *)
(***************************************************************************)
EXTENDS Board

MaxDepth == 4
MaxPathsPerTarget == 48
MaxOpportunities == 20
MaxWatched == 12
MaxCycles == 12

Reached(s, x) == \E i \in DOMAIN s : s[i] = x
\* The elements of s in the order in which they come first.
Distinct(s) == FoldLeft(LAMBDA seen, x : IF Reached(seen, x) THEN seen ELSE Append(seen, x), <<>>, s)

-----------------------------------------------------------------------------
(* Quotes *)

\* bookSpread: a spread of a fifth or more is no spread.
BookSpread(bid, ask) ==
  IF bid # None /\ ask # None /\ ask > bid /\ ask - bid < 20000 THEN ask - bid ELSE None

Quoted(pair, rate, bid, ask) ==
  [base |-> pair.base, quote |-> pair.quote, bucket |-> pair.bucket, rate |-> rate,
   bid |-> bid, ask |-> ask, spread |-> BookSpread(bid, ask)]

\* mergeQuotes: the last source of a pair gives its rate, the last one that has a
\* bid, an ask or a spread gives these.
MergeQuotes(quotes) ==
  LET same(q, p) == q.base = p.base /\ q.quote = p.quote
      over(prev, q) ==
        LET bid == FirstKnown(<< q.bid, prev.bid >>)
            ask == FirstKnown(<< q.ask, prev.ask >>)
        IN  [q EXCEPT !.bid = bid, !.ask = ask,
                      !.spread = FirstKnown(<< q.spread, prev.spread, BookSpread(bid, ask) >>)]
      add(merged, q) ==
        IF \E i \in DOMAIN merged : same(merged[i], q)
        THEN [i \in DOMAIN merged |-> IF same(merged[i], q) THEN over(merged[i], q) ELSE merged[i]]
        ELSE Append(merged, q)
  IN  FoldLeft(add, <<>>, quotes)

-----------------------------------------------------------------------------
(* Costs *)

\* Spread without a market price, slippage and swap of a night.
Buckets ==
  [MAJOR  |-> [spread |-> 15, slippage |-> 20, swap |-> 4],
   CROSS  |-> [spread |-> 40, slippage |-> 25, swap |-> 6],
   EXOTIC |-> [spread |-> 80, slippage |-> 40, swap |-> 8],
   CRYPTO |-> [spread |-> 80, slippage |-> 50, swap |-> 15],
   METAL  |-> [spread |-> 40, slippage |-> 30, swap |-> 5]]
CommissionPerSide == 20
SyncLagBase == 30
SyncLagPerExtraHop == 8

\* priceLeg
LegCost(hop) ==
  LET bucket == Buckets[hop.bucket]
  IN  (IF Positive(hop.spread) THEN hop.spread ELSE bucket.spread)
      + CommissionPerSide + bucket.slippage + bucket.swap

\* settleTrade
NetOf(gross, hops) ==
  gross - FoldLeft(LAMBDA sum, h : sum + LegCost(h), 0, hops)
        - SyncLagBase - SyncLagPerExtraHop * (IF Len(hops) > 2 THEN Len(hops) - 2 ELSE 0)

-----------------------------------------------------------------------------
(* Paths *)

\* Mutant: the way back has the same rate, not the inverse one.
EdgesAlike(quotes) ==
  FlattenSeq([i \in DOMAIN quotes |->
    LET q == quotes[i]
        hop(a, b, rate) == [from |-> a, to |-> b, rate |-> rate, spread |-> q.spread, bucket |-> q.bucket]
    IN  << hop(q.base, q.quote, q.rate), hop(q.quote, q.base, q.rate) >>])

\* Every quote is an edge in each direction.
Edges(quotes) ==
  FlattenSeq([i \in DOMAIN quotes |->
    LET q == quotes[i]
        hop(a, b, rate) == [from |-> a, to |-> b, rate |-> rate, spread |-> q.spread, bucket |-> q.bucket]
    IN  << hop(q.base, q.quote, q.rate), hop(q.quote, q.base, -q.rate) >>])

EdgesFrom(edges, node) == SelectSeq(edges, LAMBDA e : e.from = node)
CodesOf(quotes) == Distinct(FlattenSeq([i \in DOMAIN quotes |-> << quotes[i].base, quotes[i].quote >>]))

Product(hops) == FoldLeft(LAMBDA sum, h : sum + h.rate, 0, hops)
NodesOf(src, hops) == << src >> \o [i \in DOMAIN hops |-> hops[i].to]

\* The walk of enumeratePaths: depth first, no node twice.
Walk(edges, src) ==
  LET walk[hops \in Seq(ToSet(edges))] ==
        LET at == IF hops = <<>> THEN src ELSE Last(hops).to
            onward == IF Len(hops) >= MaxDepth THEN <<>>
                      ELSE SelectSeq(EdgesFrom(edges, at), LAMBDA e : ~Reached(NodesOf(src, hops), e.to))
        IN  (IF hops = <<>> THEN <<>> ELSE << hops >>)
            \o FlattenSeq([i \in DOMAIN onward |-> walk[Append(hops, onward[i])]])
  IN  walk[<<>>]

\* Of the first paths to a target, the one of the largest product and the one of
\* the smallest; among equals the first.
PathsTo(walk, dst) == FirstOf(SelectSeq(walk, LAMBDA hops : Last(hops).to = dst), MaxPathsPerTarget)
LongOf(paths) == FoldLeft(LAMBDA best, p : IF Product(p) > Product(best) THEN p ELSE best, paths[1], paths)
ShortOf(paths) == FoldLeft(LAMBDA best, p : IF Product(p) < Product(best) THEN p ELSE best, paths[1], paths)

OpportunityOf(src, dst, paths) ==
  LET long == LongOf(paths)
      short == ShortOf(paths)
      gross == Product(long) - Product(short)
  IN  [from |-> src, to |-> dst, long |-> NodesOf(src, long), short |-> NodesOf(src, short),
       gross |-> gross, net |-> NetOf(gross, long \o short)]

BetterDeal(a, b) == a.net > b.net \/ (a.net = b.net /\ a.gross > b.gross)

\* The opportunities of buildWeightedGraph: a pair of currencies counts once, in the
\* direction met first.
Opportunities(edges, codes) ==
  LET from(src) ==
        LET walk == Walk(edges, src)
            targets == Distinct([i \in DOMAIN walk |-> Last(walk[i]).to])
            two == SelectSeq(targets, LAMBDA dst : Len(PathsTo(walk, dst)) >= 2)
        IN  [i \in DOMAIN two |-> OpportunityOf(src, two[i], PathsTo(walk, two[i]))]
      all == FlattenSeq([i \in DOMAIN codes |-> from(codes[i])])
      add(kept, o) ==
        IF o.gross <= 0 \/ o.long = o.short
           \/ \E i \in DOMAIN kept : {kept[i].from, kept[i].to} = {o.from, o.to}
        THEN kept ELSE Append(kept, o)
  IN  SortedBy(FoldLeft(add, <<>>, all), BetterDeal)

-----------------------------------------------------------------------------
(* Rings *)

\* The walk of findCycles: back at the start after three trades or four.
Rings(edges, start) ==
  LET rings[hops \in Seq(ToSet(edges))] ==
        LET at == IF hops = <<>> THEN start ELSE Last(hops).to
            step(e) ==
              IF e.to = start /\ Len(hops) >= 2 THEN << Append(hops, e) >>
              ELSE IF Reached(NodesOf(start, hops), e.to) THEN <<>>
              ELSE rings[Append(hops, e)]
            onward == EdgesFrom(edges, at)
        IN  IF Len(hops) >= MaxDepth THEN <<>>
            ELSE FlattenSeq([i \in DOMAIN onward |-> step(onward[i])])
  IN  rings[<<>>]

\* cycleKey: two rings are the same when one is a rotation of the other.
Rotated(s, k) == SubSeq(s, k, Len(s)) \o SubSeq(s, 1, k - 1)
SameRing(a, b) == \E k \in DOMAIN a : Rotated(a, k) = b

\* findCycles; starts are the currencies in the order of their names.
FindCycles(edges, starts) ==
  LET ring(start, hops) == [nodes |-> SubSeq(NodesOf(start, hops), 1, Len(hops)),
                            gross |-> Product(hops), net |-> NetOf(Product(hops), hops)]
      from(start) == LET rings == Rings(edges, start)
                     IN  [i \in DOMAIN rings |-> ring(start, rings[i])]
      all == FlattenSeq([i \in DOMAIN starts |-> from(starts[i])])
      add(kept, c) ==
        IF c.gross <= 0 \/ \E i \in DOMAIN kept : SameRing(kept[i].nodes, c.nodes)
        THEN kept ELSE Append(kept, c)
  IN  FirstOf(SortedBy(FoldLeft(add, <<>>, all), BetterDeal), MaxCycles)

-----------------------------------------------------------------------------
\* buildWeightedGraph on what the sources gave, in the order they were asked.
Analysis(quotes, starts) ==
  LET merged == MergeQuotes(quotes)
      edges == Edges(merged)
      all == Opportunities(edges, CodesOf(merged))
  IN  [merged |-> merged, all |-> all,
       opportunities |-> FirstOf(SelectSeq(all, LAMBDA o : o.net > 0), MaxOpportunities),
       watchlist |-> FirstOf(SelectSeq(all, LAMBDA o : o.net <= 0), MaxWatched),
       cycles |-> FindCycles(edges, starts)]
=============================================================================
