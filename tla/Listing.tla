------------------------------ MODULE Listing ------------------------------
(***************************************************************************)
(* The lists of instruments of market.service.ts while days pass and        *)
(* ingests store options.  The list by name reads the expired titles once a *)
(* day and keeps them (nameExpiredOptionIds); the lists by EPS or P/E and   *)
(* the options of a stock read them in their query (listedOptionSql); one   *)
(* instrument is opened by its own row (getInstrument).                     *)
(***************************************************************************)
EXTENDS Board

CONSTANTS Contracts,      \* the options the source may give: [id, title]
          Days            \* the dates of Tehran, in their order

ASSUME ListingAssumption ==
  /\ Len(Days) \in Nat \ {0} /\ DOMAIN Days = 1..Len(Days)
  /\ \A c, d \in Contracts : c.id = d.id => c = d

VARIABLE shelf            \* the table, the titles kept, the last list shown

NoList == [by |-> "none", ids |-> {}]
NewShelf == [on |-> TRUE, day |-> 1, stored |-> {}, kept |-> [day |-> 0, ids |-> {}], shown |-> NoList]
NoShelf == [NewShelf EXCEPT !.on = FALSE]

Today == Days[shelf.day]
RowOf(c, days) == [id |-> c.id, kind |-> "OPTION", title |-> c.title, stored |-> days]

\* An ingest stores a contract, with the days the source says it has left: those of
\* its title, or none.
StoreContract ==
  /\ shelf.on
  /\ \E c \in Contracts :
       \E days \in {None, DaysLeft(c.title, Today)} :
          shelf' = [shelf EXCEPT !.stored = { r \in @ : r.id # c.id } \cup {RowOf(c, days)}, !.shown = NoList]

NextDay ==
  /\ shelf.on /\ shelf.day < Len(Days)
  /\ shelf' = [shelf EXCEPT !.day = @ + 1, !.shown = NoList]

\* The calendar tells the lists and the page of an option the same: the day a title
\* names has come exactly when no days are left to it.
TitlesAgree ==
  \A c \in Contracts, i \in DOMAIN Days :
    c.title # NoDate => /\ DaysLeft(c.title, Days[i]) # None
                        /\ NamePassed(RowOf(c, None), Days[i]) <=> DaysLeft(c.title, Days[i]) <= 0

Passed == { r.id : r \in { s \in shelf.stored : NamePassed(s, Today) } }

\* nameExpiredOptionIds: read when the day has none yet.
KeptTitles == IF shelf.kept.day = shelf.day THEN shelf.kept.ids ELSE Passed

\* listLatest without a sort, findMentionedInstruments, buildUniverse.
ListByName ==
  /\ shelf.on
  /\ shelf' = [shelf EXCEPT !.kept = [day |-> shelf.day, ids |-> KeptTitles],
                            !.shown = [by |-> "name",
                                       ids |-> { r.id : r \in { s \in shelf.stored : ListedWith(s, KeptTitles) } }]]

\* listLatest with a sort, getUnderlyingOptions, latestOptionBoardPrices.  The first
\* reads the titles of the day as well, for the number of pages.
ListByRatio ==
  /\ shelf.on
  /\ shelf' = [shelf EXCEPT !.kept = [day |-> shelf.day, ids |-> KeptTitles],
                            !.shown = [by |-> "ratio",
                                       ids |-> { r.id : r \in { s \in shelf.stored : Listed(s, Today) } }]]

\* getInstrument and getPriceHistory show nothing of an expired option.
Opens(row) == ~LabelExpired(row, Today)

\* The titles kept are of the process.
Restart == shelf.on /\ shelf.kept.day # 0 /\ shelf' = [shelf EXCEPT !.kept = [day |-> 0, ids |-> {}], !.shown = NoList]

NextShelf == StoreContract \/ NextDay \/ ListByName \/ ListByRatio \/ Restart
=============================================================================
