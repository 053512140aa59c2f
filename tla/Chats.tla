------------------------------- MODULE Chats -------------------------------
(***************************************************************************)
(* The two conversations with the model: about a portfolio                  *)
(* (portfolios.service.ts postChat) and about the market (market.service.ts *)
(* postChat).  A question is stored, then a prompt is made of the stored    *)
(* conversation and of the instruments the question names, then the answer  *)
(* is stored.  Questions may overlap, the conversation may be hidden in     *)
(* between, the quota may be spent, the process may end.                    *)
(*                                                                          *)
(* A question is a record: the names in it and whether it is about gold or  *)
(* the index.  An instrument is [symbol, label, type]; label is the word of *)
(* its name.                                                                *)
(***************************************************************************)
EXTENDS Board

CONSTANTS Questions,      \* what users ask
          Instruments,    \* the active instruments, in the order of the table
          Reported,       \* symbols the user's fund reports name
          MaxHistory,     \* messages of a portfolio's prompt: 30
          MaxMarket,      \* messages of a prompt about the market: 24
          MaxFound,       \* instruments of a portfolio's prompt: 8
          MaxMentioned,   \* instruments of a prompt about the market: 6
          MaxPosts,       \* questions of a run
          MaxAtOnce       \* of them at a time

VARIABLES room,           \* "portfolio", "market" or "none"
          talk,           \* the stored messages, in the order of their creation
          asks,           \* the questions being answered
          noted           \* the question whose answer set the preferences, 0 at first

chatVars == << room, talk, asks, noted >>

-----------------------------------------------------------------------------
(* What a question is about *)

Names(question, i) == i.symbol \in question.names
Labels(question, i) == i.label \in question.names
IsIndex(i) == i.symbol \in {"TEDPIX", "TESWEQ"}
Weigh(b, n) == IF b THEN n ELSE 0

DistinctBySymbol(s) ==
  FoldLeft(LAMBDA kept, i : IF \E k \in DOMAIN kept : kept[k].symbol = i.symbol THEN kept ELSE Append(kept, i), <<>>, s)

ByScore(s, Rank(_)) ==
  SortedBy(SelectSeq(s, LAMBDA i : Rank(i) > 0), LAMBDA a, b : Rank(a) > Rank(b))

\* buildPortfolioChatMarketStatus: what is named, gold funds when gold is asked for
\* and the indices when they are; the best first.
FoundFor(question) ==
  LET score(i) == Weigh(Names(question, i), 8) + Weigh(Labels(question, i), 3)
                  + Weigh(question.gold /\ i.type = "GOLD_ETF", 4) + Weigh(question.index /\ IsIndex(i), 6)
                  + Weigh(i.type = "STOCK", 1)
      named == SelectSeq(Instruments, LAMBDA i : i.type # "OPTION" /\ (Names(question, i) \/ Labels(question, i)))
      golds == SelectSeq(Instruments, LAMBDA i : question.gold /\ i.type = "GOLD_ETF")
      indices == SelectSeq(Instruments, LAMBDA i : question.index /\ IsIndex(i))
      all == ByScore(FirstOf(named, 24) \o FirstOf(golds, 4) \o indices, score)
  IN  FirstOf(DistinctBySymbol(all), MaxFound)

\* findMentionedInstruments: what is named and still listed, then stocks the user's
\* fund reports name.
MentionedIn(question) ==
  LET score(i) == Weigh(Names(question, i), 8) + Weigh(Labels(question, i), 3)
                  + Weigh(question.index /\ IsIndex(i), 10) + Weigh(i.type = "STOCK", 1)
      named == SelectSeq(Instruments, LAMBDA i : \/ Names(question, i) \/ Labels(question, i)
                                                 \/ question.index /\ IsIndex(i))
      listed == FirstOf(DistinctBySymbol(ByScore(FirstOf(named, 24), score)), MaxMentioned)
      reported == SelectSeq(Reported, LAMBDA h : h \in question.names /\ \A i \in DOMAIN listed : listed[i].symbol # h)
      more == [k \in DOMAIN reported |-> [symbol |-> reported[k], label |-> NoName, type |-> "STOCK"]]
  IN  IF question.names = {} THEN listed ELSE FirstOf(listed \o more, MaxMentioned)

\* isTehranMarketScoped: a question that names nothing of the market is turned away.
InScope(question) == question.gold \/ question.index \/ MentionedIn(question) # <<>>

-----------------------------------------------------------------------------
(* The conversation *)

NoQuestion == [names |-> {}, gold |-> FALSE, index |-> FALSE]
UserMessage(q, question) ==
  [role |-> "user", q |-> q, question |-> question, seen |-> {}, about |-> {}, hidden |-> FALSE]
Reply(a) ==
  [role |-> "assistant", q |-> a.q, question |-> NoQuestion, seen |-> a.seen, about |-> a.about, hidden |-> FALSE]
Active == SelectSeq(talk, LAMBDA m : ~m.hidden)
QuestionsOf(messages) == SelectSeq(messages, LAMBDA m : m.role = "user")
Asked == Cardinality({ i \in DOMAIN talk : talk[i].role = "user" })
SymbolsOf(instruments) == { instruments[i].symbol : i \in DOMAIN instruments }
\* The text of several questions, as one question.
Together(messages) ==
  [names |-> UNION { messages[i].question.names : i \in DOMAIN messages },
   gold |-> \E i \in DOMAIN messages : messages[i].question.gold,
   index |-> \E i \in DOMAIN messages : messages[i].question.index]
LastOf(s, n) == IF Len(s) <= n THEN s ELSE SubSeq(s, Len(s) - n + 1, Len(s))

InitChats(where) == room = where /\ talk = <<>> /\ asks = {} /\ noted = 0

\* The question is stored before anything else.
Post ==
  /\ room # "none" /\ Asked < MaxPosts /\ Cardinality(asks) < MaxAtOnce
  /\ \E question \in Questions :
       /\ talk' = Append(talk, UserMessage(Asked + 1, question))
       /\ asks' = asks \cup {[q |-> Asked + 1, question |-> question, step |-> "read", seen |-> {}, about |-> {}]}
  /\ UNCHANGED << room, noted >>

\* getChat and the prompt read the oldest messages that are not hidden.
Oldest(n) == FirstOf(Active, n)
SeenIn(messages) == { QuestionsOf(messages)[i].q : i \in DOMAIN QuestionsOf(messages) }

\* Mutant: the prompt about the market holds the conversation and nothing else.
MarketPromptOfTheTalk(a) ==
  [a EXCEPT !.step = "ask", !.seen = SeenIn(Oldest(MaxMarket)), !.about = SymbolsOf(MentionedIn(a.question))]

\* answerTehranMarketChat: the question goes with the data, beside the conversation.
MarketPrompt(a) ==
  [a EXCEPT !.step = "ask", !.seen = {a.q} \cup SeenIn(Oldest(MaxMarket)), !.about = SymbolsOf(MentionedIn(a.question))]

\* postChat of a portfolio: the instruments are looked up for the last three
\* questions of the messages read.
PortfolioPrompt(a) ==
  LET asked == LastOf(QuestionsOf(Oldest(MaxHistory)), 3)
  IN  [a EXCEPT !.step = "ask", !.seen = SeenIn(Oldest(MaxHistory)), !.about = SymbolsOf(FoundFor(Together(asked)))]

ReadTalk ==
  /\ \E a \in asks :
       /\ a.step = "read" /\ (room = "market" => InScope(a.question))
       /\ asks' = (asks \ {a}) \cup {IF room = "market" THEN MarketPrompt(a) ELSE PortfolioPrompt(a)}
  /\ UNCHANGED << room, talk, noted >>

Answered(a, reply) == talk' = Append(talk, reply) /\ asks' = asks \ {a}

\* A question about something else is answered without the model.
TurnAway ==
  /\ \E a \in asks : a.step = "read" /\ room = "market" /\ ~InScope(a.question) /\ Answered(a, Reply([a EXCEPT !.seen = {a.q}]))
  /\ UNCHANGED << room, noted >>

\* The answer, or an apology when the model fails; one about a portfolio may hold
\* preferences, which are kept for every later prompt.
Answer ==
  /\ \E a \in asks :
       /\ a.step = "ask" /\ Answered(a, Reply(a))
       /\ noted' \in IF room = "portfolio" THEN {noted, a.q} ELSE {noted}
  /\ UNCHANGED room

\* The quota is spent: the chat about a portfolio ends with the error and no
\* answer, the one about the market says so.
QuotaSpent ==
  /\ \E a \in asks :
       /\ a.step = "ask"
       /\ IF room = "market" THEN Answered(a, Reply(a)) ELSE asks' = asks \ {a} /\ UNCHANGED talk
  /\ UNCHANGED << room, noted >>

HideChat ==
  /\ talk # <<>> /\ Active # <<>>
  /\ talk' = [i \in DOMAIN talk |-> [talk[i] EXCEPT !.hidden = TRUE]]
  /\ UNCHANGED << room, asks, noted >>

\* The process ends: what was being answered is not.
CutAsks == asks # {} /\ asks' = {} /\ UNCHANGED << room, talk, noted >>

NextChats == Post \/ ReadTalk \/ TurnAway \/ Answer \/ QuotaSpent \/ HideChat \/ CutAsks
=============================================================================
